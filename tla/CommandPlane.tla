---------------------------- MODULE CommandPlane ----------------------------
(***************************************************************************)
(* The command plane: Executor.ExecBatch and Executor.EraseAggregate over   *)
(* the Postgres store. A process runs one job (a batch of prepared commands *)
(* or one erasure) in one transaction: per command it takes the aggregate's *)
(* advisory lock and checks the tombstone (FenceAggregate), reads the       *)
(* current version, checks it, writes the row and appends one outbox event; *)
(* then it commits or rolls back as a whole. An aggregate's rows are only   *)
(* written under its lock, so the uncommitted state of a transaction is     *)
(* kept per aggregate (staged) and equals the committed one when unlocked.  *)
(***************************************************************************)
EXTENDS Integers, Sequences, FiniteSets

CONSTANTS
    Procs,       \* callers; each runs one transaction at a time
    NoProc,      \* the lock value "free"
    Aggs,        \* aggregate identities
    Jobs,        \* the batches and erasures callers may submit
    MaxVersion   \* bound on version numbers (int64 in the code)

AnyVersion == -1 \* Command.ExpectedVersion = nil

Ops == {"create", "update", "upsert", "delete", "erase"}

Command == [op : Ops, agg : Aggs, expected : -1..MaxVersion]

(* An erasure is a job of its own, never a command of a batch.              *)
Erasing(j) == \E i \in 1..Len(j) : j[i].op = "erase"

ASSUME CommandPlaneAssumption ==
    /\ NoProc \notin Procs
    /\ MaxVersion \in Nat \ {0}
    /\ Jobs \subseteq Seq(Command)
    /\ \A j \in Jobs : Len(j) >= 1 /\ (Erasing(j) => Len(j) = 1)

VARIABLES
    committed,  \* per aggregate: row version (0: no row), outbox, tombstone
    staged,     \* the same, as the transaction holding its lock sees it
    lock,       \* holder of the aggregate's advisory transaction lock
    pc,         \* where the process is in its transaction
    job,        \* the job the process runs
    idx,        \* the command of the job it is at
    results,    \* <<aggregate, version>> of the commands applied so far
    acked       \* every <<aggregate, version>> some caller got a Result for

vars == <<committed, staged, lock, pc, job, idx, results, acked>>

Versions == 1..MaxVersion
Verbs == {"created", "updated", "deleted"}

NoEvent == [type |-> "none", erased |-> FALSE]
Event == [type : Verbs \cup {"none"}, erased : BOOLEAN]

NoReceipt == -1 \* no tombstone; else the ExpectedVersion of the retained request

State == [version : 0..MaxVersion, log : [Versions -> Event], receipt : -1..MaxVersion]

Empty == [version |-> 0, log |-> [v \in Versions |-> NoEvent], receipt |-> NoReceipt]

TypeOK ==
    /\ committed \in [Aggs -> State]
    /\ staged \in [Aggs -> State]
    /\ lock \in [Aggs -> Procs \cup {NoProc}]
    /\ pc \in [Procs -> {"idle", "fence", "apply", "commit"}]
    /\ job \in [Procs -> Seq(Command)]
    /\ idx \in [Procs -> Nat]
    /\ results \in [Procs -> Seq(Aggs \X Versions)]
    /\ acked \in SUBSET (Aggs \X Versions)

Init ==
    /\ committed = [a \in Aggs |-> Empty]
    /\ staged = [a \in Aggs |-> Empty]
    /\ lock = [a \in Aggs |-> NoProc]
    /\ pc = [p \in Procs |-> "idle"]
    /\ job = [p \in Procs |-> <<>>]
    /\ idx = [p \in Procs |-> 0]
    /\ results = [p \in Procs |-> <<>>]
    /\ acked = {}

Cmd(p) == job[p][idx[p]]

(* ExecBatch with every command prepared; EraseAggregate with its grant.    *)
ExecBatch(p) ==
    /\ pc[p] = "idle"
    /\ \E j \in Jobs : job' = [job EXCEPT ![p] = j]
    /\ idx' = [idx EXCEPT ![p] = 1]
    /\ pc' = [pc EXCEPT ![p] = "fence"]
    /\ results' = [results EXCEPT ![p] = <<>>]
    /\ UNCHANGED <<committed, staged, lock, acked>>

(* Mutant: session locks instead of transaction locks.                      *)
NothingReleased(p) == lock

Released(p) == [a \in Aggs |-> IF lock[a] = p THEN NoProc ELSE lock[a]]

(* The transaction ends: its locks go, the process is free for a new job.   *)
End(p) ==
    /\ lock' = Released(p)
    /\ pc' = [pc EXCEPT ![p] = "idle"]
    /\ job' = [job EXCEPT ![p] = <<>>]
    /\ idx' = [idx EXCEPT ![p] = 0]
    /\ results' = [results EXCEPT ![p] = <<>>]

(* Mutant: giving up leaves the changes made so far, as autocommit would.   *)
RollbackKeepingChanges(p) ==
    /\ committed' = [a \in Aggs |-> IF lock[a] = p THEN staged[a] ELSE committed[a]]
    /\ End(p)
    /\ UNCHANGED <<staged, acked>>

Rollback(p) ==
    /\ staged' = [a \in Aggs |-> IF lock[a] = p THEN committed[a] ELSE staged[a]]
    /\ End(p)
    /\ UNCHANGED <<committed, acked>>

(* Mutant: no advisory lock.                                                *)
CanAlwaysLock(p) == TRUE

CanLock(p) == lock[Cmd(p).agg] \in {NoProc, p}

(* Mutant: ordinary commands do not look for the tombstone.                 *)
NeverFencedOff(p) == FALSE

FencedOff(p) == /\ Cmd(p).op # "erase"
                /\ staged[Cmd(p).agg].receipt # NoReceipt

(* lockAggregate, then the tombstone check every ordinary command makes.    *)
FenceAggregate(p) ==
    /\ pc[p] = "fence"
    /\ CanLock(p)
    /\ \/ /\ FencedOff(p)
          /\ Rollback(p)
       \/ /\ ~FencedOff(p)
          /\ lock' = [lock EXCEPT ![Cmd(p).agg] = p]
          /\ pc' = [pc EXCEPT ![p] = "apply"]
          /\ UNCHANGED <<committed, staged, job, idx, results, acked>>

(* checkVersion: existence and the expected version.                        *)
CheckVersion(c, current) ==
    /\ c.op = "create" => current = 0
    /\ c.op \in {"update", "delete"} => current # 0
    /\ c.expected \in {AnyVersion, current}

(* resolveOp: the event verb.                                               *)
ResolveOp(c, current) ==
    CASE c.op = "delete" -> "deleted"
      [] c.op = "create" \/ (c.op = "upsert" /\ current = 0) -> "created"
      [] OTHER -> "updated"

(* Mutant: the delete keeps its row.                                        *)
WrittenKeepingRow(s, c, next) ==
    [version |-> next,
     log     |-> [s.log EXCEPT ![next] = [type   |-> ResolveOp(c, s.version),
                                          erased |-> FALSE]],
     receipt |-> s.receipt]

(* ApplyChange and AppendOutbox on the staged aggregate.                    *)
Written(s, c, next) ==
    [version |-> IF c.op = "delete" THEN 0 ELSE next,
     log     |-> [s.log EXCEPT ![next] = [type   |-> ResolveOp(c, s.version),
                                          erased |-> FALSE]],
     receipt |-> s.receipt]

ResultOf(c, next) == <<c.agg, next>>

Advance(p) ==
    /\ idx' = [idx EXCEPT ![p] = idx[p] + 1]
    /\ pc' = [pc EXCEPT ![p] = IF idx[p] = Len(job[p]) THEN "commit" ELSE "fence"]

(* Executor.apply after the fence. The outbox's unique key on (aggregate,   *)
(* version) refuses an event for a version the log already holds. A refusal *)
(* rolls the whole batch back.                                              *)
Apply(p) ==
    LET c == Cmd(p)
        s == staged[c.agg]
        next == s.version + 1
        allowed == /\ CheckVersion(c, s.version)
                   /\ next <= MaxVersion
                   /\ s.log[next] = NoEvent
    IN  /\ pc[p] = "apply"
        /\ c.op # "erase"
        /\ \/ ~allowed /\ Rollback(p)
           \/ /\ allowed
              /\ staged' = [staged EXCEPT ![c.agg] = Written(s, c, next)]
              /\ results' = [results EXCEPT ![p] = Append(@, ResultOf(c, next))]
              /\ Advance(p)
              /\ UNCHANGED <<committed, lock, job, acked>>

(* Mutant: the outbox rows are removed.                                     *)
RedactedHistory(s, c) ==
    [version |-> 0, log |-> [v \in Versions |-> NoEvent], receipt |-> c.expected]

(* storeTx.EraseAggregate: the row goes, every outbox row is redacted and   *)
(* excluded from the relay, and the tombstone keeps the request.            *)
Redacted(s, c) ==
    [version |-> 0,
     log     |-> [v \in Versions |-> IF s.log[v] = NoEvent THEN NoEvent
                                     ELSE [type |-> s.log[v].type, erased |-> TRUE]],
     receipt |-> c.expected]

EraseAggregate(p) ==
    LET c == Cmd(p)
        s == staged[c.agg]
        retained == s.receipt # NoReceipt
        conflict == IF retained THEN s.receipt # c.expected
                                ELSE s.version # c.expected
    IN  /\ pc[p] = "apply"
        /\ c.op = "erase"
        /\ \/ conflict /\ Rollback(p)
           \/ /\ ~conflict
              /\ staged' = [staged EXCEPT ![c.agg] = IF retained THEN s ELSE Redacted(s, c)]
              /\ Advance(p)
              /\ UNCHANGED <<committed, lock, job, results, acked>>

Range(s) == {s[i] : i \in 1..Len(s)}

(* COMMIT. The caller gets its Results, or an error although the            *)
(* transaction committed (the connection failed on the reply).              *)
Commit(p) ==
    /\ pc[p] = "commit"
    /\ committed' = [a \in Aggs |-> IF lock[a] = p THEN staged[a] ELSE committed[a]]
    /\ \/ End(p) /\ acked' = acked \cup Range(results[p])
       \/ End(p) /\ UNCHANGED acked
    /\ UNCHANGED staged

(* A lifecycle hook's veto, a cancelled context, a lost connection.         *)
Abort(p) == pc[p] # "idle" /\ Rollback(p)

Waiting(p) == pc[p] = "fence" /\ ~CanLock(p)

Deadlocked(S) == /\ S # {}
                 /\ \A q \in S : Waiting(q) /\ lock[Cmd(q).agg] \in S

(* Postgres ends a cycle of lock waits by failing one of its members.       *)
DeadlockVictim(p) ==
    /\ \E S \in SUBSET Procs : /\ p \in S
                               /\ Deadlocked(S)
                               /\ \A T \in SUBSET S : Deadlocked(T) => T = S
    /\ Rollback(p)

Step(p) == FenceAggregate(p) \/ Apply(p) \/ EraseAggregate(p) \/ Commit(p)

Next == \E p \in Procs : ExecBatch(p) \/ Step(p) \/ Abort(p) \/ DeadlockVictim(p)

Spec == Init /\ [][Next]_vars

(* A transaction in progress keeps going; lock waiters queue in order, so a *)
(* lock that is freed again and again is obtained; deadlocks are detected.  *)
FairSpec == /\ Spec
            /\ \A p \in Procs : /\ SF_vars(FenceAggregate(p))
                                /\ WF_vars(Apply(p) \/ EraseAggregate(p) \/ Commit(p))
            /\ WF_vars(\E p \in Procs : DeadlockVictim(p))
-----------------------------------------------------------------------------
(* Properties                                                               *)

(* s holds events for exactly the versions 1..n, first created, at most the *)
(* last one deleted, and its row is absent or at version n.                 *)
LogOfLength(s, n) ==
    /\ \A v \in Versions : (s.log[v] # NoEvent) <=> (v <= n)
    /\ \A v \in 1..n : /\ s.log[v].type \in Verbs
                       /\ (s.log[v].type = "created") <=> (v = 1)
                       /\ (s.log[v].type = "deleted") => (v = n)
    /\ IF n = 0 \/ s.receipt # NoReceipt THEN s.version = 0
       ELSE IF s.log[n].type = "deleted" THEN s.version = 0 ELSE s.version = n

(* Row and outbox agree: "one event per version", no gap, no event without  *)
(* its row and no row without its event, whatever transactions interleave,  *)
(* fail or deadlock (the outbox comment of migration 0001 and               *)
(* commands-and-events.mdx: "no window where one exists without the other").*)
LogMatchesRow ==
    \A a \in Aggs : \E n \in 0..MaxVersion : LogOfLength(committed[a], n)

Durable == {d \in Aggs \X Versions : committed[d[1]].log[d[2]] # NoEvent}

(* No version of an aggregate is ever handed to two callers, and a Result   *)
(* a caller has received is in the outbox: optimistic concurrency loses no  *)
(* update (checkVersion under the advisory lock).                           *)
ResultsAreUnique ==
    /\ acked \subseteq Durable
    /\ \A p \in Procs : pc[p] # "idle" =>
          \A i \in 1..Len(results[p]) : results[p][i] \notin acked
    /\ \A p, q \in Procs : pc[p] # "idle" /\ pc[q] # "idle" /\ p # q =>
          Range(results[p]) \cap Range(results[q]) = {}

(* An erased identity has no row, and nothing of its history can reach the  *)
(* relay or keeps its payload (EraseAggregate's receipt: "local payloads    *)
(* erased").                                                                *)
ErasedIsRedacted ==
    \A a \in Aggs : committed[a].receipt # NoReceipt =>
        /\ committed[a].version = 0
        /\ \A v \in Versions : committed[a].log[v] # NoEvent => committed[a].log[v].erased

(* Once erased, an identity never changes again: no command re-creates it,  *)
(* no later erasure replaces its receipt (FenceAggregate; the immutable     *)
(* tombstone of migration 0036).                                            *)
ErasureIsFinal ==
    [][\A a \in Aggs : committed[a].receipt # NoReceipt => committed'[a] = committed[a]]_vars

(* ExecBatch is all-or-nothing: when a job ends either every command of it  *)
(* became durable or none did.                                              *)
BatchIsAtomic ==
    [][\A p \in Procs : pc[p] # "idle" /\ pc'[p] = "idle" =>
          LET done == {i \in 1..Len(results[p]) : results[p][i] \in Durable'}
          IN  \/ done = {}
              \/ done = 1..Len(job[p])]_vars

(* Transactions terminate even when batches lock the same aggregates in     *)
(* opposite orders.                                                         *)
JobsEnd == \A p \in Procs : (pc[p] # "idle") ~> (pc[p] = "idle")

(* OpUpsert "inserts when the aggregate is absent" (command.go:27): the     *)
(* transaction of an unconditional upsert that finds no row can append its  *)
(* version-1 event.                                                         *)
UpsertInsertsWhenAbsent ==
    \A p \in Procs :
        /\ pc[p] = "apply"
        /\ Cmd(p).op = "upsert" /\ Cmd(p).expected = AnyVersion
        /\ staged[Cmd(p).agg].version = 0
        => staged[Cmd(p).agg].log[1] = NoEvent

(* The types of the events the outbox holds, by version.                    *)
HistOf(s) == [v \in {w \in Versions : s.log[w] # NoEvent} |-> s.log[v].type]

Log == INSTANCE AggregateLog WITH
    hist   <- [a \in Aggs |-> HistOf(committed[a])],
    erased <- [a \in Aggs |-> committed[a].receipt # NoReceipt]

(* The transactions implement the abstract log of aggregates: a job is one  *)
(* atomic step of it, or no step.                                           *)
ImplementsAggregateLog == Log!Spec
=============================================================================
