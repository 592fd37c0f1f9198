----------------------------- MODULE Documents -----------------------------
(***************************************************************************)
(* The document plane of one CRDT document (DocStore): clients append        *)
(* updates to a log and read it back with Sync; the leader-elected worker    *)
(* folds the log into a snapshot and trims it (Compact), sealing what it     *)
(* trims into a blob when history is archived, and, once the document is     *)
(* quiet, writes the merged state to the entity row with one event           *)
(* (MaterializeQuiet). An update is known by its sequence number; merging is *)
(* commutative, so a state is the set of the updates folded into it.         *)
(***************************************************************************)
EXTENDS Integers, FiniteSets, FiniteSetsExt

CONSTANTS
    Writers,        \* connections that append
    NoSeq,          \* a writer without an open transaction
    Leader,         \* the elected document-plane loop
    Callers,        \* clients that call Compact (remote DocumentCompact)
    MaxSeq,         \* bound on sequence numbers
    SnapshotEvery,  \* log rows that make a document due for compaction
    Page,           \* rows per Sync (syncPageLimit, 500)
    MaxDocFaults,   \* how often a compactor or its transaction fails
    Deployments     \* sets of features a document may be used with

(* History kept in blobs; a client that syncs; clients that compact; an     *)
(* administrator who deletes history.                                       *)
Features == {"archive", "sync", "callers", "purge"}

ASSUME DocumentsAssumption ==
    /\ MaxSeq \in Nat /\ MaxDocFaults \in Nat
    /\ SnapshotEvery \in Nat \ {0} /\ Page \in Nat \ {0}
    /\ NoSeq \notin Nat
    /\ Deployments \subseteq SUBSET Features

Seqs == 1..MaxSeq
Compactors == Callers \cup {Leader}
Fold == [state : SUBSET Seqs, max : 0..MaxSeq, rows : SUBSET Seqs, floor : 0..MaxSeq]
NoFold == [state |-> {}, max |-> 0, rows |-> {}, floor |-> 0]

VARIABLES
    features,     \* what the document is used with
    seq,          \* last value taken from the sequence
    open,         \* open[w]: the sequence number of w's uncommitted update
    log,          \* fabriq_crdt_updates: committed and not trimmed
    snapSeq,      \* fabriq_crdt_snapshots.last_seq
    snapState,    \* fabriq_crdt_snapshots.snapshot
    lastSeq,      \* fabriq_crdt_docs.last_seq
    quiet,        \* nothing was appended for QuietWindow
    flagged,      \* fabriq_crdt_docs.flagged
    materialized, \* fabriq_crdt_docs.last_seq_materialized
    rowState,     \* what the entity row holds
    event,        \* the last event: what was new in it and its watermark
    segments,     \* fabriq_crdt_segments: the ranges sealed
    blobs,        \* sealed segments in the blob store, by range
    wpc,          \* wpc[p]: where compactor p is
    why,          \* what the leader folds for: "compact" or "write"
    fold,         \* fold[p]: what mergedState has read for p
    sealed,       \* the range p sealed for this compaction
    spc,          \* where the client's Sync is: "idle" or "log"
    vector,       \* the client's state vector
    since,        \* the sequence number its Sync reads on from
    has,          \* the updates the client has
    appended,     \* history: every update ever committed
    odd,          \* history: what a Sync may not notice, see Oddities
    doomed,       \* the segments a DeleteHistory has listed
    purged,       \* history: DeleteHistory has begun
    docFaults     \* faults so far

(* A smaller sequence number committed after a larger one was readable; the *)
(* log was trimmed between the two reads of a Sync; or between what another *)
(* compactor read and its transaction.                                      *)
Oddities == {"late", "sync", "overlap"}

storeVars == <<features, seq, open, log, snapSeq, snapState, lastSeq, quiet>>
rowVars == <<flagged, materialized, rowState, event>>
archiveVars == <<segments, blobs, doomed, purged>>
workerVars == <<wpc, why, fold, sealed>>
clientVars == <<spc, vector, since, has>>
docVars == <<storeVars, rowVars, archiveVars, workerVars, clientVars, appended, odd, docFaults>>

NoRange == <<0, 0>>
Ranges == Seqs \X Seqs
NoEvent == [news |-> {0}, max |-> 0]

DocTypeOK ==
    /\ features \in Deployments /\ quiet \in BOOLEAN /\ flagged \in BOOLEAN /\ purged \in BOOLEAN
    /\ seq \in 0..MaxSeq
    /\ open \in [Writers -> Seqs \cup {NoSeq}]
    /\ log \subseteq appended /\ appended \subseteq 1..seq
    /\ snapSeq \in 0..seq /\ snapState \subseteq Seqs
    /\ lastSeq \in 0..seq /\ materialized \in 0..lastSeq
    /\ rowState \subseteq Seqs
    /\ event \in [news : SUBSET Seqs, max : 0..MaxSeq] \cup {NoEvent}
    /\ segments \subseteq Ranges
    /\ blobs \subseteq [range : Ranges, updates : SUBSET Seqs]
    /\ doomed \subseteq Ranges
    /\ wpc \in [Compactors -> {"idle", "fold", "seal", "trim", "write"}]
    /\ why \in {"compact", "write"}
    /\ fold \in [Compactors -> Fold] /\ sealed \in [Compactors -> Ranges \cup {NoRange}]
    /\ spc \in {"idle", "log"}
    /\ vector \in 0..seq /\ since \in 0..seq /\ has \subseteq Seqs
    /\ odd \subseteq Oddities
    /\ docFaults \in 0..MaxDocFaults

DocInit ==
    /\ features \in Deployments
    /\ seq = 0 /\ open = [w \in Writers |-> NoSeq] /\ log = {}
    /\ snapSeq = 0 /\ snapState = {} /\ lastSeq = 0 /\ quiet = FALSE
    /\ flagged = FALSE /\ materialized = 0 /\ rowState = {} /\ event = NoEvent
    /\ segments = {} /\ blobs = {} /\ doomed = {} /\ purged = FALSE
    /\ wpc = [p \in Compactors |-> "idle"] /\ why = "compact"
    /\ fold = [p \in Compactors |-> NoFold] /\ sealed = [p \in Compactors |-> NoRange]
    /\ spc = "idle" /\ vector = 0 /\ since = 0 /\ has = {}
    /\ appended = {} /\ odd = {} /\ docFaults = 0
-----------------------------------------------------------------------------
(* ApplyUpdate. The transaction takes the document's advisory lock shared   *)
(* and then its sequence number; both are held until it ends.               *)

ApplyUpdate(w) ==
    /\ open[w] = NoSeq /\ seq < MaxSeq
    /\ seq' = seq + 1
    /\ open' = [open EXCEPT ![w] = seq + 1]
    /\ UNCHANGED <<features, log, snapSeq, snapState, lastSeq, quiet, rowVars, archiveVars,
                   workerVars, clientVars, appended, odd, docFaults>>

CommitUpdate(w) ==
    /\ open[w] # NoSeq
    /\ open' = [open EXCEPT ![w] = NoSeq]
    /\ log' = log \cup {open[w]} /\ appended' = appended \cup {open[w]}
    /\ lastSeq' = IF open[w] > lastSeq THEN open[w] ELSE lastSeq
    /\ quiet' = FALSE
    /\ odd' = IF \E s \in appended : s > open[w] THEN odd \cup {"late"} ELSE odd
    /\ UNCHANGED <<features, seq, snapSeq, snapState, rowVars, archiveVars, workerVars,
                   clientVars, docFaults>>

(* The transaction fails; its sequence number is not used again.            *)
AbortUpdate(w) ==
    /\ open[w] # NoSeq
    /\ open' = [open EXCEPT ![w] = NoSeq]
    /\ UNCHANGED <<features, seq, log, snapSeq, snapState, lastSeq, quiet, rowVars, archiveVars,
                   workerVars, clientVars, appended, odd, docFaults>>

(* QuietWindow passes without an update.                                    *)
BecomeQuiet ==
    /\ lastSeq > 0 /\ ~quiet /\ quiet' = TRUE
    /\ UNCHANGED <<features, seq, open, log, snapSeq, snapState, lastSeq, rowVars, archiveVars,
                   workerVars, clientVars, appended, odd, docFaults>>
-----------------------------------------------------------------------------
(* What Compact and materializeOne share. mergedState reads the snapshot row *)
(* and then the log after it; each statement sees what is committed by then  *)
(* (READ COMMITTED).                                                        *)

ReadSnapshot(p) ==
    /\ wpc[p] = "idle" /\ wpc' = [wpc EXCEPT ![p] = "fold"]
    /\ fold' = [fold EXCEPT ![p].state = snapState, ![p].floor = snapSeq]

(* Nothing newer than the snapshot ends a compaction, not a materialisation. *)
MergedState(p) ==
    LET rows == {s \in log : s > fold[p].floor}
        next == IF p = Leader /\ why = "write" THEN "write"
                ELSE IF rows = {} THEN "idle"
                ELSE IF "archive" \in features THEN "seal" ELSE "trim"
    IN  /\ wpc[p] = "fold" /\ wpc' = [wpc EXCEPT ![p] = next]
        /\ fold' = [fold EXCEPT ![p] =
              IF next = "idle" THEN NoFold
              ELSE [state |-> fold[p].state \cup rows, max |-> Max(rows \cup {0}),
                    rows |-> rows, floor |-> 0]]
        /\ UNCHANGED <<storeVars, rowVars, archiveVars, why, sealed, clientVars, appended, odd,
                       docFaults>>

(* The exclusive advisory lock: no append is in progress.                   *)
ExclusiveLock == \A w \in Writers : open[w] = NoSeq

(* Mutant: the rows are not counted again.                                  *)
RecountSkipped(p) == TRUE

(* The log still has as many rows up to the fold's last as were folded.     *)
Recount(p) ==
    Cardinality({s \in log : s > snapSeq /\ s <= fold[p].max}) = Cardinality(fold[p].rows)

Finish(p) ==
    /\ wpc' = [wpc EXCEPT ![p] = "idle"]
    /\ fold' = [fold EXCEPT ![p] = NoFold]
    /\ sealed' = [sealed EXCEPT ![p] = NoRange]
    /\ UNCHANGED why

(* p's transaction fails, or p dies; what it put in the blob store stays.   *)
CompactorFails(p) ==
    /\ wpc[p] # "idle" /\ docFaults < MaxDocFaults
    /\ docFaults' = docFaults + 1
    /\ Finish(p)
    /\ UNCHANGED <<storeVars, rowVars, archiveVars, clientVars, appended, odd>>
-----------------------------------------------------------------------------
(* Compact, called by CompactDue or by a client, which has no budget to     *)
(* wait for.                                                                *)

CompactDue ==
    /\ ~flagged /\ Cardinality(log) >= SnapshotEvery
    /\ ReadSnapshot(Leader) /\ why' = "compact"
    /\ UNCHANGED <<storeVars, rowVars, archiveVars, sealed, clientVars, appended, odd, docFaults>>

CallCompact(p) ==
    /\ p \in Callers /\ "callers" \in features
    /\ ReadSnapshot(p)
    /\ UNCHANGED <<storeVars, rowVars, archiveVars, why, sealed, clientVars, appended, odd,
                   docFaults>>

(* The rows a compaction will trim.                                         *)
Trimmed(p) == {s \in log : s > snapSeq /\ s <= fold[p].max}

(* They go to a blob whose key is their range; without any there is no      *)
(* segment.                                                                 *)
SealSegment(p) ==
    LET range == <<snapSeq + 1, fold[p].max>>
    IN  /\ wpc[p] = "seal" /\ wpc' = [wpc EXCEPT ![p] = "trim"]
        /\ IF Trimmed(p) = {} THEN UNCHANGED <<sealed, blobs>>
           ELSE /\ sealed' = [sealed EXCEPT ![p] = range]
                /\ blobs' = {b \in blobs : b.range # range}
                                \cup {[range |-> range, updates |-> Trimmed(p)]}
        /\ UNCHANGED <<storeVars, rowVars, segments, doomed, purged, why, fold, clientVars,
                       appended, odd, docFaults>>

(* What is under way as this compaction commits.                            *)
Straddled(p) ==
    (IF spc = "log" THEN {"sync"} ELSE {})
    \cup (IF \E q \in Compactors \ {p} : wpc[q] # "idle" THEN {"overlap"} ELSE {})

Compact(p) ==
    /\ wpc[p] = "trim" /\ ExclusiveLock
    /\ IF Recount(p)
       THEN /\ snapSeq' = fold[p].max /\ snapState' = fold[p].state
            /\ segments' = segments \cup ({sealed[p]} \ {NoRange})
            /\ log' = {s \in log : s > fold[p].max}
            /\ odd' = odd \cup Straddled(p)
       ELSE UNCHANGED <<snapSeq, snapState, segments, log, odd>>
    /\ Finish(p)
    /\ UNCHANGED <<features, seq, open, lastSeq, quiet, rowVars, blobs, doomed, purged, clientVars,
                   appended, docFaults>>
-----------------------------------------------------------------------------
(* MaterializeQuiet and materializeOne.                                     *)

IsDue == ~flagged /\ lastSeq > materialized /\ quiet

MaterializeQuiet ==
    /\ IsDue
    /\ ReadSnapshot(Leader) /\ why' = "write"
    /\ UNCHANGED <<storeVars, rowVars, archiveVars, sealed, clientVars, appended, odd, docFaults>>

(* The merged values do not coerce to the entity's schema.                  *)
Flag ==
    /\ wpc[Leader] = "write"
    /\ flagged' = TRUE
    /\ Finish(Leader)
    /\ UNCHANGED <<storeVars, materialized, rowState, event, archiveVars, clientVars, appended,
                   odd, docFaults>>

Watermark == fold[Leader].max

(* The row, one event and the watermark, in one transaction.                *)
Materialize ==
    /\ wpc[Leader] = "write" /\ ExclusiveLock
    /\ IF Recount(Leader)
       THEN /\ rowState' = fold[Leader].state
            /\ event' = [news |-> fold[Leader].state \ rowState, max |-> fold[Leader].max]
            /\ materialized' = Watermark
       ELSE UNCHANGED <<rowState, event, materialized>>
    /\ Finish(Leader)
    /\ UNCHANGED <<storeVars, flagged, archiveVars, clientVars, appended, odd, docFaults>>
-----------------------------------------------------------------------------
(* Sync reads the snapshot row and then the log, like mergedState.          *)

Sync ==
    /\ "sync" \in features /\ spc = "idle" /\ spc' = "log"
    /\ IF vector < snapSeq
       THEN has' = has \cup snapState /\ since' = snapSeq
       ELSE since' = vector /\ UNCHANGED has
    /\ UNCHANGED <<storeVars, rowVars, archiveVars, workerVars, vector, appended, odd, docFaults>>

VectorAfter(rows) == Max(rows \cup {since})

SyncLog ==
    LET after == {s \in log : s > since}
        rows  == {s \in after : Cardinality({t \in after : t <= s}) <= Page}
    IN  /\ spc = "log" /\ spc' = "idle"
        /\ has' = has \cup rows
        /\ vector' = VectorAfter(rows) /\ since' = 0
        /\ UNCHANGED <<storeVars, rowVars, archiveVars, workerVars, appended, odd, docFaults>>
-----------------------------------------------------------------------------
(* DeleteHistory lists the segments, deletes their blobs one by one and then *)
(* every index row.                                                         *)

DeleteHistory ==
    /\ "purge" \in features /\ doomed = {} /\ segments # {}
    /\ doomed' = segments /\ purged' = TRUE
    /\ UNCHANGED <<storeVars, rowVars, segments, blobs, workerVars, clientVars, appended, odd,
                   docFaults>>

DeleteBlob ==
    /\ \E b \in blobs : b.range \in doomed /\ blobs' = blobs \ {b}
    /\ UNCHANGED <<storeVars, rowVars, segments, doomed, purged, workerVars, clientVars, appended,
                   odd, docFaults>>

(* Done, or a blob could not be deleted and the index rows stay.            *)
EndDelete ==
    /\ doomed # {} /\ doomed' = {}
    /\ segments' \in IF \A b \in blobs : b.range \notin doomed THEN {{}} ELSE {segments}
    /\ UNCHANGED <<storeVars, rowVars, blobs, purged, workerVars, clientVars, appended, odd,
                   docFaults>>
-----------------------------------------------------------------------------
Compaction(p) == MergedState(p) \/ SealSegment(p) \/ Compact(p)
DocumentPlane == CompactDue \/ MaterializeQuiet \/ Compaction(Leader) \/ Flag \/ Materialize
EndUpdate(w) == CommitUpdate(w) \/ AbortUpdate(w)

DocNext ==
    \/ \E w \in Writers : ApplyUpdate(w) \/ EndUpdate(w)
    \/ BecomeQuiet
    \/ DocumentPlane
    \/ \E p \in Callers : CallCompact(p) \/ Compaction(p)
    \/ \E p \in Compactors : CompactorFails(p)
    \/ Sync \/ SyncLog
    \/ DeleteHistory \/ DeleteBlob \/ EndDelete

DocSpec == DocInit /\ [][DocNext]_docVars
-----------------------------------------------------------------------------
(* Compaction "never changes merge results, only their storage shape"       *)
(* (core/document/compact.go:16): snapshot and log together are every       *)
(* update ever committed, whatever appends and failures interleave.         *)
MergeKept == snapState \cup {s \in log : s > snapSeq} = appended

(* The same while "compactions are serialized by the leader election + this *)
(* lock" (adapters/postgres/document.go:331), as Compact's recount assumes. *)
MergeKeptIfSerial == MergeKept \/ "overlap" \in odd

(* With history archived every committed update can be read back, from the  *)
(* log or from a sealed segment the index names (ReadHistory), until        *)
(* DeleteHistory is called, while compactions are serialised.               *)
HistoryKept ==
    "archive" \in features /\ ~purged /\ "overlap" \notin odd =>
        \A s \in appended :
            \/ s \in log
            \/ \E b \in blobs : b.range \in segments /\ s \in b.updates

(* The entity row holds every update up to the watermark: none is stamped   *)
(* over unseen ("would be stamped under the watermark and never             *)
(* materialize", materializeOne), while compactions are serialised.         *)
RowKeepsUp ==
    \/ \A s \in appended : s <= materialized => s \in rowState
    \/ "overlap" \in odd

(* An event is emitted only for updates beyond the last materialisation     *)
(* (materialize.go:8), as long as the log held some.                        *)
NewsWhileLogged == event.news # {} \/ event.max = 0

(* "the log is the truth, and clients heal any dropped frame through Sync"  *)
(* (documents.mdx:196): a client has every update its vector has passed,    *)
(* until one commits late or the log is trimmed between the two reads.      *)
SyncHeals ==
    \/ \A s \in appended : s <= vector => s \in has
    \/ odd # {}

(* Every update reaches the entity row unless the document is flagged,      *)
(* through failures of the worker and races with appends, while compactions *)
(* are serialised.                                                          *)
EventuallyInRow == []<>(appended \subseteq rowState \/ flagged \/ "overlap" \in odd)
=============================================================================
