------------------------------ MODULE Analytics -----------------------------
(* The operator's analytics store: the latest fact of an aggregate, its      *)
(* history of events and the watermark of what was applied, three tables     *)
(* written one after the other by the stream's consumers, by backfills and   *)
(* by the reconciler, and rewritten or erased by an operator                 *)
(* (core/analytics, adapters/pganalytics/sink.go).                           *)
(*                                                                           *)
(* One aggregate of one tenant: no write touches two, and a batch is written *)
(* row by row.  A payload is the version it was projected from and whether   *)
(* the former, wider allow-list let through a field that the current one     *)
(* strips.                                                                   *)
EXTENDS Naturals, Sequences, FiniteSets

CONSTANTS
    Consumers,          \* the replicas of the consumer group proj:analytics
    AnalyticsSetups     \* [log, poison, wide, partitioned, heals, fills, rewrites, purges, fails]: what each version
                        \* does to the row ("put", "delete"), the versions no consumer can apply, the replicas still
                        \* on the former allow-list, the layout of the history, and bounds on the operator's jobs

AnaSetup ==
    [log : Seq({"put", "delete"}), poison : SUBSET Nat, wide : SUBSET Consumers, partitioned : BOOLEAN,
     heals : Nat, fills : Nat, rewrites : Nat, purges : Nat, fails : Nat]

ASSUME AnalyticsAssumption ==
    /\ AnalyticsSetups \subseteq AnaSetup
    /\ Consumers \cap {"reconciler", "backfiller"} = {}

VARIABLES
    aset,      \* the setup, its bounds counting down
    head,      \* the versions committed to the source, and so far on the stream
    todo,      \* the versions the group has not acknowledged
    fact,      \* the fact: [version, payload, wide], or NoFact
    history,   \* the events: a set of [version, at, wide]
    applied,   \* the watermark, 0 when there is none
    job,       \* per writer: [pc, version, at, have]
    rewrite,   \* the reprojection: [pc, payload, version, todo]
    healed,    \* the version that a whole reconcile pass, since the last purge, found in the source
    torn,      \* a purge ran in the middle of a writer's three steps
    mixed,     \* a reprojection wrote the payload of one version onto the fact of another
    narrow     \* since the reprojection began, no replica on the former allow-list has written

anaVars == <<aset, head, todo, fact, history, applied, job, rewrite, healed, torn, mixed, narrow>>

Reconciler == "reconciler"
Backfiller == "backfiller"
AnaWriters == Consumers \cup {Reconciler, Backfiller}
NoFact == [version |-> 0, payload |-> 0, wide |-> FALSE]
NoJob == [pc |-> "idle", version |-> 0, at |-> "commit", have |-> 0]
NoRewrite == [pc |-> "idle", payload |-> 0, version |-> 0, todo |-> {}]

(* A writer about to write a version, before the first of its three steps.   *)
Writing(v, at) == [pc |-> "fact", version |-> v, at |-> at, have |-> 0]

-----------------------------------------------------------------------------
AnaInit ==
    /\ aset \in AnalyticsSetups
    /\ head = 0
    /\ todo = {}
    /\ fact = NoFact
    /\ history = {}
    /\ applied = 0
    /\ job = [w \in AnaWriters |-> NoJob]
    /\ rewrite = NoRewrite
    /\ healed = 0
    /\ torn = FALSE
    /\ mixed = FALSE
    /\ narrow = FALSE

(* A commit changes the source row and puts its event on the stream.         *)
SourceCommits ==
    /\ head < Len(aset.log)
    /\ head' = head + 1
    /\ todo' = todo \cup {head + 1}
    /\ UNCHANGED <<aset, fact, history, applied, job, rewrite, healed, torn, mixed, narrow>>

(* What a version leaves of the payload: a delete leaves the empty object.   *)
Projected(v) == IF aset.log[v] = "delete" THEN 0 ELSE v
OnFormerList(w, v) == w \in aset.wide /\ aset.log[v] = "put"

-----------------------------------------------------------------------------
(* A delivery, first or repeated: another replica may still be at it.  An    *)
(* event that cannot be upcast or projected is skipped and acknowledged.     *)
Handle(w, v) ==
    /\ job[w].pc = "idle"
    /\ v \in todo
    /\ IF v \in aset.poison
         THEN /\ todo' = todo \ {v}
              /\ UNCHANGED job
         ELSE /\ job' = [job EXCEPT ![w] = Writing(v, "commit")]
              /\ UNCHANGED todo
    /\ UNCHANGED <<aset, head, fact, history, applied, rewrite, healed, torn, mixed, narrow>>

(* Mutant: the version moves forward and the payload is whatever came last.  *)
UpsertGreatest(w) ==
    /\ job[w].pc = "fact"
    /\ LET v == job[w].version
       IN fact' = [version |-> IF v > fact.version THEN v ELSE fact.version, payload |-> Projected(v),
                   wide |-> OnFormerList(w, v)]
    /\ narrow' = (narrow /\ w \notin aset.wide)
    /\ job' = [job EXCEPT ![w].pc = "event"]
    /\ UNCHANGED <<aset, head, todo, history, applied, rewrite, healed, torn, mixed>>

(* UpsertFacts: the stored row gives way only to a newer version.            *)
UpsertFacts(w) ==
    /\ job[w].pc = "fact"
    /\ LET v == job[w].version
       IN fact' = IF v > fact.version
                    THEN [version |-> v, payload |-> Projected(v), wide |-> OnFormerList(w, v)]
                    ELSE fact
    /\ narrow' = (narrow /\ w \notin aset.wide)
    /\ job' = [job EXCEPT ![w].pc = "event"]
    /\ UNCHANGED <<aset, head, todo, history, applied, rewrite, healed, torn, mixed>>

(* AppendEvents: the key of the history has the time in it when the table is *)
(* partitioned.                                                              *)
SameEvent(e, v, at) == e.version = v /\ (aset.partitioned => e.at = at)

AppendEvents(w) ==
    /\ job[w].pc = "event"
    /\ LET v == job[w].version
       IN history' = IF \E e \in history : SameEvent(e, v, job[w].at)
                       THEN history
                       ELSE history \cup {[version |-> v, at |-> job[w].at, wide |-> OnFormerList(w, v)]}
    /\ narrow' = (narrow /\ w \notin aset.wide)
    /\ job' = [job EXCEPT ![w].pc = "mark"]
    /\ UNCHANGED <<aset, head, todo, fact, applied, rewrite, healed, torn, mixed>>

(* SetWatermark, after which a consumer acknowledges and a reconcile pass is *)
(* done with the row.                                                        *)
SetWatermark(w) ==
    /\ job[w].pc = "mark"
    /\ applied' = IF job[w].version > applied THEN job[w].version ELSE applied
    /\ todo' = IF w \in Consumers THEN todo \ {job[w].version} ELSE todo
    /\ healed' = IF w = Reconciler THEN job[w].version ELSE healed
    /\ job' = [job EXCEPT ![w] = NoJob]
    /\ UNCHANGED <<aset, head, fact, history, rewrite, torn, mixed, narrow>>

(* An error or a crash at any step: what was written stays, the event stays  *)
(* pending, the operator's job ends.                                         *)
WriteFails(w) ==
    /\ aset.fails > 0
    /\ job[w].pc # "idle"
    /\ aset' = [aset EXCEPT !.fails = @ - 1]
    /\ job' = [job EXCEPT ![w] = NoJob]
    /\ UNCHANGED <<head, todo, fact, history, applied, rewrite, healed, torn, mixed, narrow>>

-----------------------------------------------------------------------------
(* The row the snapshot of the source reads: none once it is deleted.        *)
Live == head > 0 /\ aset.log[head] = "put"

Backfill ==
    /\ job[Backfiller].pc = "idle"
    /\ aset.fills > 0
    /\ aset' = [aset EXCEPT !.fills = @ - 1]
    /\ job' = IF Live THEN [job EXCEPT ![Backfiller] = Writing(head, "fill")] ELSE job
    /\ UNCHANGED <<head, todo, fact, history, applied, rewrite, healed, torn, mixed, narrow>>

(* A reconcile pass reads every watermark, then snapshots the source and     *)
(* writes the rows whose watermark is missing or behind.                     *)
ReadWatermarks ==
    /\ job[Reconciler].pc = "idle"
    /\ aset.heals > 0
    /\ aset' = [aset EXCEPT !.heals = @ - 1]
    /\ job' = [job EXCEPT ![Reconciler] = [pc |-> "compare", version |-> 0, at |-> "commit", have |-> applied]]
    /\ UNCHANGED <<head, todo, fact, history, applied, rewrite, healed, torn, mixed, narrow>>

Drifted(have, v) == have = 0 \/ have < v

CompareSnapshot ==
    /\ job[Reconciler].pc = "compare"
    /\ LET behind == Live /\ Drifted(job[Reconciler].have, head)
       IN /\ job' = [job EXCEPT ![Reconciler] =
                        IF behind THEN Writing(head, "heal") ELSE NoJob]
          /\ healed' = IF Live /\ ~behind THEN head ELSE healed
    /\ UNCHANGED <<aset, head, todo, fact, history, applied, rewrite, torn, mixed, narrow>>

-----------------------------------------------------------------------------
(* ReprojectTenant: the facts are read, each is rewritten through the        *)
(* current allow-list, then the events are read and rewritten, one update    *)
(* for each version.  A fact's update names the aggregate and no version.    *)
ScanFacts ==
    /\ rewrite.pc = "idle"
    /\ aset.rewrites > 0
    /\ aset' = [aset EXCEPT !.rewrites = @ - 1]
    /\ rewrite' = [pc |-> IF fact = NoFact THEN "scan" ELSE "fact",
                   payload |-> fact.payload, version |-> fact.version, todo |-> {}]
    /\ narrow' = TRUE
    /\ UNCHANGED <<head, todo, fact, history, applied, job, healed, torn, mixed>>

RewriteFact ==
    /\ rewrite.pc = "fact"
    /\ fact' = IF fact = NoFact THEN fact ELSE [fact EXCEPT !.payload = rewrite.payload, !.wide = FALSE]
    /\ mixed' = (mixed \/ (fact # NoFact /\ fact.version # rewrite.version))
    /\ rewrite' = [NoRewrite EXCEPT !.pc = "scan"]
    /\ UNCHANGED <<aset, head, todo, history, applied, job, healed, torn, narrow>>

ScanEvents ==
    /\ rewrite.pc = "scan"
    /\ rewrite' = [pc |-> "events", payload |-> 0, version |-> 0, todo |-> {e.version : e \in history}]
    /\ UNCHANGED <<aset, head, todo, fact, history, applied, job, healed, torn, mixed, narrow>>

RewriteEvent ==
    /\ rewrite.pc = "events"
    /\ \E v \in rewrite.todo :
          /\ history' = {IF e.version = v THEN [e EXCEPT !.wide = FALSE] ELSE e : e \in history}
          /\ rewrite' = [rewrite EXCEPT !.todo = @ \ {v}]
    /\ UNCHANGED <<aset, head, todo, fact, applied, job, healed, torn, mixed, narrow>>

RewriteEnds ==
    /\ rewrite.pc = "events"
    /\ rewrite.todo = {}
    /\ rewrite' = [NoRewrite EXCEPT !.pc = "done"]
    /\ UNCHANGED <<aset, head, todo, fact, history, applied, job, healed, torn, mixed, narrow>>

(* PurgeTenant: the three tables in one transaction.                         *)
PurgeTenant ==
    /\ aset.purges > 0
    /\ aset' = [aset EXCEPT !.purges = @ - 1]
    /\ fact' = NoFact
    /\ history' = {}
    /\ applied' = 0
    /\ healed' = 0
    /\ torn' = (torn \/ \E w \in AnaWriters : job[w].pc \in {"event", "mark", "compare"})
    /\ UNCHANGED <<head, todo, job, rewrite, mixed, narrow>>

-----------------------------------------------------------------------------
AnaNext ==
    \/ SourceCommits
    \/ \E w \in Consumers, v \in todo : Handle(w, v)
    \/ \E w \in AnaWriters : UpsertFacts(w) \/ AppendEvents(w) \/ SetWatermark(w) \/ WriteFails(w)
    \/ Backfill \/ ReadWatermarks \/ CompareSnapshot
    \/ ScanFacts \/ RewriteFact \/ ScanEvents \/ RewriteEvent \/ RewriteEnds
    \/ PurgeTenant

AnaSpec == AnaInit /\ [][AnaNext]_anaVars

-----------------------------------------------------------------------------
Versions == 1..Len(aset.log)

AnaTypeOK ==
    /\ head \in 0..Len(aset.log)
    /\ todo \subseteq Versions
    /\ fact \in [version : Versions, payload : {0} \cup Versions, wide : BOOLEAN] \cup {NoFact}
    /\ history \subseteq [version : Versions, at : {"commit", "fill", "heal"}, wide : BOOLEAN]
    /\ {applied, healed} \subseteq {0} \cup Versions
    /\ \A w \in AnaWriters :
          /\ job[w].pc \in {"idle", "compare", "fact", "event", "mark"}
          /\ {job[w].version, job[w].have} \subseteq {0} \cup Versions
    /\ rewrite.pc \in {"idle", "fact", "scan", "events", "done"}
    /\ rewrite.todo \subseteq Versions
    /\ {torn, mixed, narrow} \subseteq BOOLEAN

(* The tables agree whoever writes them, in whatever order and however often *)
(* a write is repeated or cut short: no event in the history is newer than   *)
(* the fact, and what the watermark says was applied is in the history, so   *)
(* that a reconciler may go by the watermark alone.  Only a purge between a  *)
(* writer's steps can tear them apart (Consumer.write, Reconciler.Tenant).   *)
TablesAgree ==
    ~torn =>
        /\ \A e \in history : e.version <= fact.version
        /\ applied > 0 => \E e \in history : e.version = applied

(* A fact holds the payload of its own version, deliveries out of order      *)
(* included; only a reprojection that read an older one can replace it       *)
(* (UpsertFacts, ReprojectTenant).                                           *)
FactHoldsItsVersion ==
    ~mixed /\ fact # NoFact => fact.payload = Projected(fact.version)

(* A reconcile pass heals what the consumers skipped or have not come to:    *)
(* after a whole pass that began with the source at a version, the row is    *)
(* not older in the store (Reconciler.Tenant).                               *)
ReconcileHeals ==
    ~torn => fact.version >= healed /\ applied >= healed

(* A finished reprojection leaves no stored payload with a field that the    *)
(* current allow-list strips, unless a replica on the former list wrote      *)
(* since it began (Reprojector.Tenant, ReprojectTenant).                     *)
Narrowed ==
    narrow /\ rewrite.pc = "done" => ~fact.wide /\ \A e \in history : ~e.wide

(* The analytics store (consumer.go write, sink.go, reconcile.go,            *)
(* reproject.go): facts, history and watermark agree, a fact holds the       *)
(* payload of its version, a reconcile pass leaves no older row and a        *)
(* reprojection no stripped field.                                           *)
FactsKept == AnaTypeOK /\ TablesAgree /\ FactHoldsItsVersion /\ ReconcileHeals /\ Narrowed

(* A version is in the history once: "`at` is fixed per version, so dedup    *)
(* semantics are unchanged" (adapters/pganalytics/sink.go:273).              *)
HistoryOnce ==
    \A e, f \in history : e.version = f.version => e = f
=============================================================================
