------------------------- MODULE CommandPlaneProofs -------------------------
(***************************************************************************)
(* Safety of the command plane for every number of callers, aggregates,     *)
(* jobs and versions. The inductive invariant IInv strengthens the safety   *)
(* properties with the lock discipline: what a transaction has staged is    *)
(* itself a well-formed aggregate that extends the committed one, and only  *)
(* the holder of the aggregate's lock may have staged anything.             *)
(***************************************************************************)
EXTENDS CommandPlane, TLAPS

WellFormed(s) == \E n \in 0..MaxVersion : LogOfLength(s, n)

IsRedacted(s) == s.receipt # NoReceipt =>
    /\ s.version = 0
    /\ \A v \in Versions : s.log[v] # NoEvent => s.log[v].erased

(* A transaction only adds to the log, and adds nothing once erased.        *)
Grows(old, new) ==
    /\ \A v \in Versions : old.log[v] # NoEvent =>
          new.log[v] # NoEvent /\ new.log[v].type = old.log[v].type
    /\ old.receipt # NoReceipt => new = old

LockInv ==
    /\ \A a \in Aggs : lock[a] = NoProc => staged[a] = committed[a]
    /\ \A a \in Aggs : lock[a] # NoProc => pc[lock[a]] # "idle"
    /\ \A p \in Procs : pc[p] = "apply" => lock[Cmd(p).agg] = p
    /\ \A p \in Procs : pc[p] = "apply" /\ Cmd(p).op # "erase" =>
          staged[Cmd(p).agg].receipt = NoReceipt

IndexInv == \A p \in Procs : pc[p] \in {"fence", "apply"} => idx[p] \in 1..Len(job[p])

StoreInv == \A a \in Aggs : /\ WellFormed(committed[a]) /\ WellFormed(staged[a])
                            /\ IsRedacted(committed[a]) /\ IsRedacted(staged[a])
                            /\ Grows(committed[a], staged[a])

(* A version r reported by p is staged under p's lock and not yet committed.*)
Reported(lck, com, stg, p, r) ==
    lck[r[1]] = p /\ com[r[1]].log[r[2]] = NoEvent /\ stg[r[1]].log[r[2]] # NoEvent

ResultInv ==
    /\ acked \subseteq Durable
    /\ \A p \in Procs : \A i \in 1..Len(results[p]) :
          Reported(lock, committed, staged, p, results[p][i])

IInv == TypeOK /\ LockInv /\ IndexInv /\ StoreInv /\ ResultInv

(* A job in progress is one of Jobs; a batch has reported one version for   *)
(* every command behind it, an erasure none.                                *)
Progress(j, at, i, r) ==
    /\ j \in Jobs
    /\ at = "commit" => i = Len(j) + 1
    /\ IF Erasing(j) THEN r = <<>> ELSE Len(r) = i - 1

JobInv == \A p \in Procs : pc[p] # "idle" => Progress(job[p], pc[p], idx[p], results[p])

(* Two states of an aggregate have events of the same types.                *)
SameTypes(s, t) == \A v \in Versions : /\ (s.log[v] = NoEvent) <=> (t.log[v] = NoEvent)
                                       /\ s.log[v].type = t.log[v].type

(* A transaction locks aggregates of its job only; a batch stages no        *)
(* tombstone and an erasure no event.                                       *)
Holds(j, s, t, a) ==
    /\ \E i \in 1..Len(j) : j[i].agg = a
    /\ IF Erasing(j) THEN SameTypes(s, t) ELSE t.receipt = s.receipt

TxInv == \A a \in Aggs, p \in Procs : lock[a] = p => Holds(job[p], committed[a], staged[a], a)

-----------------------------------------------------------------------------
(* Facts about one aggregate's state.                                       *)

(* Appending the next event keeps the log gap-free and lifecycle-shaped.    *)
LEMMA WrittenIsWellFormed ==
    ASSUME NEW s \in State, NEW c \in Command,
           WellFormed(s), s.receipt = NoReceipt, c.op # "erase",
           CheckVersion(c, s.version), s.version + 1 <= MaxVersion,
           s.log[s.version + 1] = NoEvent
    PROVE  LET t == Written(s, c, s.version + 1)
           IN  t \in State /\ WellFormed(t) /\ IsRedacted(t) /\ Grows(s, t)
                /\ s.version + 1 \in Versions /\ t.log[s.version + 1] # NoEvent
<1> DEFINE next == s.version + 1
           t == Written(s, c, next)
<1>0. MaxVersion \in Nat \ {0} /\ s.version \in 0..MaxVersion /\ next \in Versions
  BY CommandPlaneAssumption DEF State, Versions
<1>1. PICK n \in 0..MaxVersion : LogOfLength(s, n)
  BY DEF WellFormed
<1>2. ResolveOp(c, s.version) \in Verbs
  BY DEF ResolveOp, Verbs
<1>3. t \in State
  <2>1. [type |-> ResolveOp(c, s.version), erased |-> FALSE] \in Event
    BY <1>2 DEF Event
  <2>2. [s.log EXCEPT ![next] = [type |-> ResolveOp(c, s.version), erased |-> FALSE]] \in [Versions -> Event]
    BY Zenon, <2>1 DEF State
  <2> QED
    BY <2>2, <1>0 DEF Written, State, Versions
<1>4. t.log = [s.log EXCEPT ![next] = [type |-> ResolveOp(c, s.version), erased |-> FALSE]]
      /\ t.version = (IF c.op = "delete" THEN 0 ELSE next)
      /\ t.receipt = s.receipt
  BY DEF Written, State
<1>5. n = s.version
  <2>1. CASE n = 0
    BY <2>1, <1>1 DEF LogOfLength
  <2>2. CASE n # 0 /\ s.log[n].type = "deleted"
    <3>1. s.version = 0
      BY <2>2, <1>1 DEF LogOfLength
    <3>2. s.log[1] # NoEvent
      BY <2>2, <1>0, <1>1 DEF LogOfLength, Versions
    <3> QED
      BY <3>1, <3>2
  <2>3. CASE n # 0 /\ s.log[n].type # "deleted"
    BY <2>3, <1>1 DEF LogOfLength
  <2> QED
    BY <2>1, <2>2, <2>3
<1>6. LogOfLength(t, next)
  <2>1. \A v \in Versions : (t.log[v] # NoEvent) <=> (v <= next)
    <3> TAKE v \in Versions
    <3>1. CASE v = next
      BY <3>1, <1>0, <1>2, <1>4 DEF State, NoEvent, Verbs
    <3>2. CASE v # next
      BY <3>2, <1>0, <1>1, <1>4, <1>5 DEF State, LogOfLength, Versions
    <3> QED
      BY <3>1, <3>2
  <2>2. ASSUME NEW v \in 1..next
        PROVE  /\ t.log[v].type \in Verbs
               /\ (t.log[v].type = "created") <=> (v = 1)
               /\ (t.log[v].type = "deleted") => (v = next)
    <3>1. CASE v = next
      <4>1. t.log[v].type = ResolveOp(c, s.version)
        BY <3>1, <1>0, <1>4 DEF State
      <4>2. (ResolveOp(c, s.version) = "created") <=> (s.version = 0)
        BY <1>0 DEF ResolveOp, CheckVersion, Command, Ops
      <4> QED
        BY <4>1, <4>2, <3>1, <1>0, <1>2
    <3>2. CASE v # next
      <4>1. v \in 1..n /\ v \in Versions /\ t.log[v] = s.log[v]
        BY <3>2, <1>0, <1>4, <1>5 DEF State, Versions
      <4>2. s.log[v].type \in Verbs /\ ((s.log[v].type = "created") <=> (v = 1))
        BY <4>1, <1>1 DEF LogOfLength
      <4>3. s.log[v].type # "deleted"
        BY <4>1, <1>0, <1>1, <1>5 DEF LogOfLength
      <4> QED
        BY <4>1, <4>2, <4>3
    <3> QED
      BY <3>1, <3>2
  <2>3. (t.log[next].type = "deleted") <=> (c.op = "delete")
    BY <1>0, <1>4 DEF State, ResolveOp
  <2> QED
    BY <2>1, <2>2, <2>3, <1>0, <1>4 DEF LogOfLength
<1>7. WellFormed(t)
  BY <1>6, <1>0 DEF WellFormed, Versions
<1>8. IsRedacted(t)
  BY <1>4 DEF IsRedacted
<1>9. Grows(s, t) /\ t.log[next] # NoEvent
  BY <1>0, <1>2, <1>4 DEF Grows, State, NoEvent, Verbs
<1> QED
  BY <1>0, <1>3, <1>7, <1>8, <1>9

(* Redacting keeps the shape of the log and leaves a tombstone behind.      *)
LEMMA RedactedIsWellFormed ==
    ASSUME NEW s \in State, NEW c \in Command, WellFormed(s),
           s.receipt = NoReceipt, s.version = c.expected
    PROVE  LET t == Redacted(s, c)
           IN  t \in State /\ WellFormed(t) /\ IsRedacted(t) /\ Grows(s, t)
<1> DEFINE t == Redacted(s, c)
<1>1. PICK n \in 0..MaxVersion : LogOfLength(s, n)
  BY DEF WellFormed
<1>2. t.version = 0 /\ t.receipt = c.expected
      /\ t.log = [v \in Versions |-> IF s.log[v] = NoEvent THEN NoEvent
                                     ELSE [type |-> s.log[v].type, erased |-> TRUE]]
  BY DEF Redacted
<1>3. \A v \in Versions : s.log[v] \in Event
  BY DEF State
<1>4. \A v \in Versions : /\ t.log[v] \in Event
                          /\ t.log[v].type = s.log[v].type
                          /\ s.log[v] = NoEvent => t.log[v] = NoEvent
                          /\ s.log[v] # NoEvent => t.log[v].erased /\ t.log[v] # NoEvent
  BY <1>2, <1>3 DEF Event, NoEvent, Verbs
<1>5. t \in State
  BY <1>2, <1>4, CommandPlaneAssumption DEF Redacted, State, Command
<1>6. c.expected # NoReceipt
  BY CommandPlaneAssumption DEF State, NoReceipt
<1>7. LogOfLength(t, n)
  <2>1. 1..n \subseteq Versions
    BY CommandPlaneAssumption DEF Versions
  <2>2. \A v \in Versions : (t.log[v] # NoEvent) <=> (v <= n)
    BY <1>1, <1>4 DEF LogOfLength
  <2>3. \A v \in 1..n : /\ t.log[v].type \in Verbs
                        /\ (t.log[v].type = "created") <=> (v = 1)
                        /\ (t.log[v].type = "deleted") => (v = n)
    BY <2>1, <1>1, <1>4 DEF LogOfLength
  <2> QED
    BY Zenon, <2>2, <2>3, <1>2, <1>6 DEF LogOfLength
<1> QED
  BY <1>2, <1>4, <1>5, <1>7 DEF WellFormed, IsRedacted, Grows

-----------------------------------------------------------------------------
(* The invariant is inductive.                                              *)

LEMMA InitIInv == Init => IInv
<1> SUFFICES ASSUME Init PROVE IInv
  OBVIOUS
<1> USE CommandPlaneAssumption
<1>1. NoEvent \in Event /\ Empty \in State
  BY DEF Empty, State, Event, NoEvent, NoReceipt, Versions
<1>2. TypeOK
  BY <1>1 DEF Init, TypeOK
<1>3. WellFormed(Empty) /\ IsRedacted(Empty) /\ Grows(Empty, Empty)
  <2>1. LogOfLength(Empty, 0)
    BY DEF LogOfLength, Empty, Versions, NoReceipt
  <2> QED
    BY <2>1 DEF WellFormed, IsRedacted, Grows, Empty
<1>4. LockInv /\ IndexInv /\ ResultInv
  BY DEF Init, LockInv, IndexInv, ResultInv
<1> QED
  BY <1>2, <1>3, <1>4 DEF IInv, StoreInv, Init

(* The command a process is at is a command.                                *)
LEMMA CmdType ==
    ASSUME IInv, NEW p \in Procs, pc[p] \in {"fence", "apply"}
    PROVE  Cmd(p) \in Command /\ Cmd(p).agg \in Aggs
<1>1. job[p] \in Seq(Command) /\ idx[p] \in 1..Len(job[p])
  BY DEF IInv, TypeOK, IndexInv
<1>2. Cmd(p) \in Command
  BY <1>1 DEF Cmd
<1> QED
  BY <1>2 DEF Command

LEMMA GrowsRefl == ASSUME NEW s PROVE Grows(s, s)
  BY DEF Grows

(* Giving up: the staged changes of p and its locks disappear.              *)
LEMMA RollbackIInv ==
    ASSUME IInv, NEW p \in Procs, Rollback(p)
    PROVE  IInv'
<1> USE CommandPlaneAssumption DEF IInv
<1>1. /\ \A a \in Aggs : staged'[a] = (IF lock[a] = p THEN committed[a] ELSE staged[a])
      /\ \A a \in Aggs : lock'[a] = (IF lock[a] = p THEN NoProc ELSE lock[a])
      /\ committed' = committed /\ acked' = acked
      /\ \A q \in Procs : q # p => /\ pc'[q] = pc[q] /\ job'[q] = job[q]
                                   /\ idx'[q] = idx[q] /\ results'[q] = results[q]
      /\ pc'[p] = "idle" /\ results'[p] = <<>>
  BY DEF Rollback, End, Released, TypeOK
<1>2. TypeOK'
  BY DEF Rollback, End, Released, TypeOK
<1>3. LockInv'
  <2>1. ASSUME NEW a \in Aggs, lock'[a] = NoProc PROVE staged'[a] = committed'[a]
    BY <1>1, <2>1 DEF LockInv
  <2>2. ASSUME NEW a \in Aggs, lock'[a] # NoProc PROVE pc'[lock'[a]] # "idle"
    BY <1>1, <2>2 DEF LockInv, TypeOK
  <2>3. ASSUME NEW q \in Procs, pc'[q] = "apply"
        PROVE  lock'[Cmd(q)'.agg] = q
               /\ (Cmd(q)'.op # "erase" => staged'[Cmd(q)'.agg].receipt = NoReceipt)
    <3>1. q # p /\ pc[q] = "apply" /\ Cmd(q)' = Cmd(q)
      BY <1>1, <2>3 DEF Cmd
    <3>2. Cmd(q).agg \in Aggs /\ lock[Cmd(q).agg] = q
      BY <3>1, CmdType DEF LockInv
    <3> QED
      BY <1>1, <3>1, <3>2 DEF LockInv
  <2> QED
    BY <2>1, <2>2, <2>3 DEF LockInv
<1>4. IndexInv'
  BY <1>1 DEF IndexInv
<1>5. StoreInv'
  BY <1>1, GrowsRefl DEF StoreInv
<1>6. ResultInv'
  <2>1. acked' \subseteq Durable'
    BY <1>1 DEF ResultInv, Durable
  <2>2. ASSUME NEW q \in Procs, q # p, NEW r \in Aggs \X Versions,
               Reported(lock, committed, staged, q, r)
        PROVE  Reported(lock', committed', staged', q, r)
    BY <1>1, <2>2 DEF Reported
  <2>3. ASSUME NEW q \in Procs, NEW i \in 1..Len(results'[q])
        PROVE  Reported(lock', committed', staged', q, results'[q][i])
    <3>1. q # p /\ results'[q] = results[q]
      BY <1>1, <2>3
    <3>2. results[q] \in Seq(Aggs \X Versions) /\ i \in 1..Len(results[q])
      BY <3>1, <2>3 DEF TypeOK
    <3>3. results[q][i] \in Aggs \X Versions
      BY <3>2
    <3>4. Reported(lock, committed, staged, q, results[q][i])
      BY <3>2 DEF ResultInv
    <3> QED
      BY <3>1, <3>3, <3>4, <2>2
  <2> QED
    BY <2>1, <2>3 DEF ResultInv
<1> QED
  BY <1>2, <1>3, <1>4, <1>5, <1>6

LEMMA ExecBatchIInv ==
    ASSUME IInv, NEW p \in Procs, ExecBatch(p)
    PROVE  IInv'
<1> USE CommandPlaneAssumption DEF IInv
<1>1. /\ \A q \in Procs : q # p => /\ pc'[q] = pc[q] /\ job'[q] = job[q]
                                   /\ idx'[q] = idx[q] /\ results'[q] = results[q]
      /\ pc'[p] = "fence" /\ results'[p] = <<>> /\ idx'[p] = 1 /\ job'[p] \in Jobs
      /\ committed' = committed /\ staged' = staged /\ lock' = lock /\ acked' = acked
  BY DEF ExecBatch, TypeOK
<1>2. TypeOK'
  BY DEF ExecBatch, TypeOK
<1>3. LockInv'
  <2>1. ASSUME NEW q \in Procs, pc'[q] = "apply" PROVE Cmd(q)' = Cmd(q) /\ pc[q] = "apply"
    BY <1>1, <2>1 DEF Cmd
  <2>2. ASSUME NEW a \in Aggs, lock[a] # NoProc PROVE pc'[lock[a]] # "idle"
    <3>1. lock[a] \in Procs /\ pc[lock[a]] # "idle"
      BY <2>2 DEF LockInv, TypeOK
    <3> QED
      BY <3>1, <1>1
  <2>3. ASSUME NEW q \in Procs, pc'[q] = "apply"
        PROVE  /\ lock[Cmd(q)'.agg] = q
               /\ Cmd(q)'.op # "erase" => staged[Cmd(q)'.agg].receipt = NoReceipt
    BY <2>1, <2>3 DEF LockInv
  <2>4. \A a \in Aggs : lock[a] = NoProc => staged[a] = committed[a]
    BY DEF LockInv
  <2> QED
    BY <1>1, <2>2, <2>3, <2>4 DEF LockInv
<1>4. IndexInv'
  <2>1. Len(job'[p]) \in Nat /\ Len(job'[p]) >= 1
    BY <1>1
  <2> QED
    BY <1>1, <2>1 DEF IndexInv
<1>5. StoreInv'
  BY <1>1 DEF StoreInv
<1>6. ResultInv'
  <2>1. acked' \subseteq Durable'
    BY <1>1 DEF ResultInv, Durable
  <2> QED
    BY <1>1, <2>1 DEF ResultInv
<1> QED
  BY <1>2, <1>3, <1>4, <1>5, <1>6

LEMMA FenceAggregateIInv ==
    ASSUME IInv, NEW p \in Procs, FenceAggregate(p)
    PROVE  IInv'
<1> USE CommandPlaneAssumption DEF IInv
<1>1. CASE FencedOff(p) /\ Rollback(p)
  BY <1>1, RollbackIInv
<1>2. CASE /\ ~FencedOff(p)
           /\ lock' = [lock EXCEPT ![Cmd(p).agg] = p]
           /\ pc' = [pc EXCEPT ![p] = "apply"]
           /\ UNCHANGED <<committed, staged, job, idx, results, acked>>
  <2>0. pc[p] = "fence" /\ CanLock(p) /\ Cmd(p).agg \in Aggs
    BY CmdType DEF FenceAggregate
  <2>1. \A q \in Procs : Cmd(q)' = Cmd(q)
    BY <1>2 DEF Cmd
  <2>2. /\ \A q \in Procs : q # p => pc'[q] = pc[q]
        /\ pc'[p] = "apply"
        /\ \A a \in Aggs : lock'[a] = (IF a = Cmd(p).agg THEN p ELSE lock[a])
    BY <1>2, <2>0 DEF TypeOK
  <2>3. TypeOK'
    BY <1>2, <2>0 DEF TypeOK
  <2>4. LockInv'
    <3>0. committed' = committed /\ staged' = staged
      BY <1>2
    <3>1. ASSUME NEW a \in Aggs PROVE /\ lock'[a] = NoProc => staged[a] = committed[a]
                                      /\ lock'[a] # NoProc => pc'[lock'[a]] # "idle"
      <4>1. lock[a] \in Procs \cup {NoProc}
        BY DEF TypeOK
      <4> QED
        BY <4>1, <2>2 DEF LockInv
    <3>2. ASSUME NEW q \in Procs, pc'[q] = "apply"
          PROVE  /\ lock'[Cmd(q).agg] = q
                 /\ Cmd(q).op # "erase" => staged[Cmd(q).agg].receipt = NoReceipt
      <4>1. CASE q = p
        BY <4>1, <1>2, <2>0, <2>2 DEF FencedOff
      <4>2. CASE q # p
        <5>1. pc[q] = "apply" /\ Cmd(q).agg \in Aggs /\ lock[Cmd(q).agg] = q
          BY <4>2, <3>2, <2>2, CmdType DEF LockInv
        <5>2. Cmd(q).agg # Cmd(p).agg
          BY <5>1, <4>2, <2>0 DEF CanLock
        <5> QED
          BY <5>1, <5>2, <2>2, <1>2 DEF LockInv
      <4> QED
        BY <4>1, <4>2
    <3>3. ASSUME NEW q \in Procs, pc'[q] = "apply"
          PROVE  /\ lock'[Cmd(q)'.agg] = q
                 /\ Cmd(q)'.op # "erase" => staged'[Cmd(q)'.agg].receipt = NoReceipt
      BY <3>0, <3>2, <3>3, <2>1
    <3>4. ASSUME NEW a \in Aggs PROVE /\ lock'[a] = NoProc => staged'[a] = committed'[a]
                                      /\ lock'[a] # NoProc => pc'[lock'[a]] # "idle"
      BY <3>0, <3>1
    <3> QED
      BY <3>3, <3>4 DEF LockInv
  <2>5. IndexInv'
    BY <1>2, <2>0, <2>2 DEF IndexInv
  <2>6. StoreInv'
    BY <1>2 DEF StoreInv
  <2>7. ResultInv'
    <3>1. acked' \subseteq Durable'
      BY <1>2 DEF ResultInv, Durable
    <3>2. ASSUME NEW q \in Procs, NEW r \in Aggs \X Versions,
                 Reported(lock, committed, staged, q, r)
          PROVE  Reported(lock', committed', staged', q, r)
      <4>1. CASE r[1] = Cmd(p).agg
        BY <4>1, <3>2, <1>2, <2>0, <2>2 DEF Reported, CanLock
      <4>2. CASE r[1] # Cmd(p).agg
        BY <4>2, <3>2, <1>2, <2>2 DEF Reported
      <4> QED
        BY <4>1, <4>2
    <3>3. ASSUME NEW q \in Procs, NEW i \in 1..Len(results[q])
          PROVE  Reported(lock', committed', staged', q, results[q][i])
      <4>1. results[q] \in Seq(Aggs \X Versions)
        BY DEF TypeOK
      <4>2. results[q][i] \in Aggs \X Versions
        BY <4>1
      <4> QED
        BY <4>2, <3>2 DEF ResultInv
    <3> QED
      BY Zenon, <1>2, <3>1, <3>3 DEF ResultInv
  <2> QED
    BY <2>3, <2>4, <2>5, <2>6, <2>7
<1> QED
  BY <1>1, <1>2 DEF FenceAggregate

LEMMA GrowsTrans ==
    ASSUME NEW r, NEW s, NEW t, Grows(r, s), Grows(s, t)
    PROVE  Grows(r, t)
  BY DEF Grows

(* What a command reports when the staged state of its aggregate becomes t: *)
(* nothing, or one version that is new in t.                                *)
Reports(p, t) ==
    \/ UNCHANGED results
    \/ \E v \in Versions :
          /\ results' = [results EXCEPT ![p] = Append(@, <<Cmd(p).agg, v>>)]
          /\ committed[Cmd(p).agg].log[v] = NoEvent
          /\ t.log[v] # NoEvent

(* A command that succeeds: the holder of an aggregate's lock replaces what *)
(* it has staged for it by t, and may report one new version.               *)
Stages(p, t) ==
    /\ t \in State /\ WellFormed(t) /\ IsRedacted(t) /\ Grows(staged[Cmd(p).agg], t)
    /\ staged' = [staged EXCEPT ![Cmd(p).agg] = t]
    /\ Advance(p)
    /\ UNCHANGED <<committed, lock, job, acked>>

LEMMA StageIInv ==
    ASSUME IInv, NEW p \in Procs, pc[p] = "apply", NEW t, Stages(p, t), Reports(p, t)
    PROVE  IInv'
<1> DEFINE a == Cmd(p).agg
<1>a. TypeOK /\ LockInv /\ IndexInv /\ StoreInv /\ ResultInv
  BY DEF IInv
<1>b. /\ t \in State /\ WellFormed(t) /\ IsRedacted(t) /\ Grows(staged[a], t)
      /\ committed' = committed /\ lock' = lock /\ job' = job /\ acked' = acked
  BY DEF Stages
<1>c. a \in Aggs /\ lock[a] = p
  BY <1>a, CmdType DEF LockInv
<1>d. idx[p] \in 1..Len(job[p]) /\ Len(job[p]) \in Nat /\ idx[p] \in Nat
  BY <1>a DEF IndexInv, TypeOK
<1>e. \A b \in Aggs : staged'[b] = (IF b = a THEN t ELSE staged[b])
  BY <1>a, <1>c DEF Stages, TypeOK
<1>f. /\ pc' \in [Procs -> {"idle", "fence", "apply", "commit"}]
      /\ \A q \in Procs : q # p => pc'[q] = pc[q]
      /\ pc'[p] = IF idx[p] = Len(job[p]) THEN "commit" ELSE "fence"
  BY <1>a DEF Stages, Advance, TypeOK
<1>g. /\ idx' \in [Procs -> Nat]
      /\ \A q \in Procs : q # p => idx'[q] = idx[q]
      /\ idx'[p] = idx[p] + 1
  BY <1>a, <1>d DEF Stages, Advance, TypeOK
<1>h. lock \in [Aggs -> Procs \cup {NoProc}] /\ NoProc \notin Procs
  BY <1>a, CommandPlaneAssumption DEF TypeOK
<1>2. TypeOK'
  <2>1. results' \in [Procs -> Seq(Aggs \X Versions)]
    <3>0. results \in [Procs -> Seq(Aggs \X Versions)]
      BY <1>a DEF TypeOK
    <3>1. CASE UNCHANGED results
      BY <3>0, <3>1
    <3>2. ASSUME NEW v \in Versions,
                 results' = [results EXCEPT ![p] = Append(@, <<a, v>>)]
          PROVE  results' \in [Procs -> Seq(Aggs \X Versions)]
      <4>1. <<a, v>> \in Aggs \X Versions
        BY <1>c
      <4>2. Append(results[p], <<a, v>>) \in Seq(Aggs \X Versions)
        BY <4>1, <3>0
      <4> QED
        BY <3>0, <3>2, <4>2
    <3> QED
      BY <3>1, <3>2 DEF Reports
  <2>2. staged' \in [Aggs -> State]
    <3>1. staged \in [Aggs -> State]
      BY <1>a DEF TypeOK
    <3>2. staged' = [staged EXCEPT ![a] = t]
      BY DEF Stages
    <3> QED
      BY Zenon, <1>b, <3>1, <3>2
  <2>3. /\ committed' \in [Aggs -> State] /\ lock' \in [Aggs -> Procs \cup {NoProc}]
        /\ job' \in [Procs -> Seq(Command)] /\ acked' \in SUBSET (Aggs \X Versions)
    BY <1>a, <1>b DEF TypeOK
  <2> QED
    BY <2>1, <2>2, <2>3, <1>f, <1>g DEF TypeOK
<1>3. LockInv'
  <2>1. ASSUME NEW b \in Aggs, lock[b] = NoProc PROVE staged'[b] = committed'[b]
    <3>1. b # a /\ staged[b] = committed[b]
      BY <2>1, <1>a, <1>c, <1>h DEF LockInv
    <3> QED
      BY <3>1, <1>b, <1>e
  <2>2. ASSUME NEW b \in Aggs, lock[b] # NoProc PROVE pc'[lock[b]] # "idle"
    <3>1. lock[b] \in Procs /\ pc[lock[b]] # "idle"
      BY <2>2, <1>a, <1>h DEF LockInv
    <3> QED
      BY <3>1, <1>f
  <2>3. ASSUME NEW q \in Procs, pc'[q] = "apply"
        PROVE  /\ lock[Cmd(q)'.agg] = q
               /\ Cmd(q)'.op # "erase" => staged'[Cmd(q)'.agg].receipt = NoReceipt
    <3>1. q # p /\ pc[q] = "apply"
      BY <1>f, <2>3
    <3>2. Cmd(q)' = Cmd(q)
      BY <3>1, <1>b, <1>g DEF Cmd
    <3>3. Cmd(q).agg \in Aggs /\ lock[Cmd(q).agg] = q
      BY <3>1, <1>a, CmdType DEF LockInv
    <3>4. staged'[Cmd(q).agg] = staged[Cmd(q).agg]
      BY <3>1, <3>3, <1>c, <1>e
    <3> QED
      BY <3>1, <3>2, <3>3, <3>4, <1>a DEF LockInv
  <2> QED
    BY <2>1, <2>2, <2>3, <1>b DEF LockInv
<1>4. IndexInv'
  BY <1>a, <1>b, <1>d, <1>f, <1>g DEF IndexInv
<1>5. StoreInv'
  <2>1. Grows(committed[a], t)
    BY <1>a, <1>b, <1>c, GrowsTrans DEF StoreInv
  <2>2. ASSUME NEW b \in Aggs
        PROVE  /\ WellFormed(committed[b]) /\ WellFormed(staged'[b])
               /\ IsRedacted(committed[b]) /\ IsRedacted(staged'[b])
               /\ Grows(committed[b], staged'[b])
    BY <1>a, <1>b, <1>e, <2>1 DEF StoreInv
  <2> QED
    BY <1>b, <2>2 DEF StoreInv
<1>6. ResultInv'
  <2>1. acked' \subseteq Durable'
    BY <1>a, <1>b DEF ResultInv, Durable
  <2>2. ASSUME NEW q \in Procs, NEW r \in Aggs \X Versions,
               Reported(lock, committed, staged, q, r)
        PROVE  Reported(lock, committed, staged', q, r)
    <3>1. CASE r[1] = a
      <4>1. r[2] \in Versions /\ staged[a].log[r[2]] # NoEvent
        BY <2>2, <3>1 DEF Reported
      <4>2. t.log[r[2]] # NoEvent
        BY <4>1, <1>b DEF Grows
      <4>3. staged'[a] = t
        BY <1>c, <1>e
      <4> QED
        BY <2>2, <3>1, <4>2, <4>3 DEF Reported
    <3>2. CASE r[1] # a
      BY <2>2, <3>2, <1>e DEF Reported
    <3> QED
      BY <3>1, <3>2
  <2>3. ASSUME NEW q \in Procs, NEW i \in 1..Len(results[q])
        PROVE  Reported(lock, committed, staged', q, results[q][i])
    <3>1. results[q] \in Seq(Aggs \X Versions)
      BY <1>a DEF TypeOK
    <3>2. results[q][i] \in Aggs \X Versions
      BY <3>1
    <3>3. Reported(lock, committed, staged, q, results[q][i])
      BY <1>a DEF ResultInv
    <3> QED
      BY <3>2, <3>3, <2>2
  <2>4. CASE UNCHANGED results
    BY <2>1, <2>3, <2>4, <1>b DEF ResultInv
  <2>5. ASSUME NEW v \in Versions,
               results' = [results EXCEPT ![p] = Append(@, <<a, v>>)],
               committed[a].log[v] = NoEvent, t.log[v] # NoEvent
        PROVE  ResultInv'
    <3>0. /\ results \in [Procs -> Seq(Aggs \X Versions)]
          /\ \A q \in Procs : q # p => results'[q] = results[q]
          /\ results'[p] = Append(results[p], <<a, v>>)
      BY <1>a, <2>5 DEF TypeOK
    <3>1. Reported(lock, committed, staged', p, <<a, v>>)
      BY <2>5, <1>c, <1>e DEF Reported
    <3>2. ASSUME NEW q \in Procs, NEW i \in 1..Len(results'[q])
          PROVE  Reported(lock, committed, staged', q, results'[q][i])
      <4>1. CASE q # p
        BY <4>1, <3>0, <2>3
      <4>2. CASE q = p
        <5>1. results[p] \in Seq(Aggs \X Versions) /\ results'[p] = Append(results[p], <<a, v>>)
          BY <3>0
        <5>2. CASE i = Len(results[p]) + 1
          <6>1. results'[p][i] = <<a, v>>
            BY <5>1, <5>2
          <6> QED
            BY <6>1, <4>2, <3>1
        <5>3. CASE i # Len(results[p]) + 1
          <6>1. i \in 1..Len(results[p]) /\ results'[p][i] = results[p][i]
            BY <5>1, <5>3, <4>2
          <6> QED
            BY <6>1, <4>2, <2>3
        <5> QED
          BY <5>2, <5>3
      <4> QED
        BY <4>1, <4>2
    <3> QED
      BY <2>1, <3>2, <1>b DEF ResultInv
  <2> QED
    BY <2>4, <2>5 DEF Reports
<1> QED
  BY <1>2, <1>3, <1>4, <1>5, <1>6 DEF IInv

LEMMA ApplyIInv ==
    ASSUME IInv, NEW p \in Procs, Apply(p)
    PROVE  IInv'
<1> DEFINE c == Cmd(p)
           s == staged[c.agg]
           next == s.version + 1
           t == Written(s, c, next)
<1>0. /\ pc[p] = "apply" /\ c \in Command /\ c.agg \in Aggs /\ c.op # "erase"
      /\ s \in State /\ WellFormed(s) /\ s.receipt = NoReceipt
      /\ Grows(committed[c.agg], s)
  BY Zenon, CmdType DEF Apply, IInv, TypeOK, LockInv, StoreInv
<1>1. CASE Rollback(p)
  BY <1>1, RollbackIInv
<1>2. CASE /\ CheckVersion(c, s.version)
           /\ next <= MaxVersion
           /\ s.log[next] = NoEvent
           /\ staged' = [staged EXCEPT ![c.agg] = t]
           /\ results' = [results EXCEPT ![p] = Append(@, <<c.agg, next>>)]
           /\ Advance(p)
           /\ UNCHANGED <<committed, lock, job, acked>>
  <2>1. /\ t \in State /\ WellFormed(t) /\ IsRedacted(t) /\ Grows(s, t)
        /\ next \in Versions /\ t.log[next] # NoEvent
    BY Zenon, <1>0, <1>2, WrittenIsWellFormed
  <2>2. committed[c.agg].log[next] = NoEvent
    BY Zenon, <1>0, <1>2, <2>1 DEF Grows
  <2>3. Stages(p, t)
    BY Zenon, <1>0, <1>2, <2>1 DEF Stages
  <2>4. Reports(p, t)
    BY Zenon, <1>2, <2>1, <2>2 DEF Reports
  <2> QED
    BY Zenon, <1>0, <2>3, <2>4, StageIInv
<1> QED
  BY <1>1, <1>2 DEF Apply, ResultOf

LEMMA EraseAggregateIInv ==
    ASSUME IInv, NEW p \in Procs, EraseAggregate(p)
    PROVE  IInv'
<1> DEFINE c == Cmd(p)
           s == staged[c.agg]
           t == IF s.receipt # NoReceipt THEN s ELSE Redacted(s, c)
<1>0. /\ pc[p] = "apply" /\ c \in Command /\ c.agg \in Aggs
      /\ s \in State /\ WellFormed(s) /\ IsRedacted(s)
  BY Zenon, CmdType DEF EraseAggregate, IInv, TypeOK, StoreInv
<1>1. CASE Rollback(p)
  BY <1>1, RollbackIInv
<1>2. CASE /\ ~(IF s.receipt # NoReceipt THEN s.receipt # c.expected
                                         ELSE s.version # c.expected)
           /\ staged' = [staged EXCEPT ![c.agg] = t]
           /\ Advance(p)
           /\ UNCHANGED <<committed, lock, job, results, acked>>
  <2>1. t \in State /\ WellFormed(t) /\ IsRedacted(t) /\ Grows(s, t)
    <3>1. CASE s.receipt # NoReceipt
      BY <3>1, <1>0, GrowsRefl
    <3>2. CASE s.receipt = NoReceipt
      BY <3>2, <1>0, <1>2, RedactedIsWellFormed
    <3> QED
      BY Zenon, <3>1, <3>2
  <2>2. Stages(p, t)
    BY <1>0, <1>2, <2>1 DEF Stages
  <2>3. Reports(p, t)
    BY <1>2 DEF Reports
  <2> QED
    BY <1>0, <2>2, <2>3, StageIInv
<1> QED
  BY <1>1, <1>2 DEF EraseAggregate

(* A version the log holds is never lost from it.                           *)
LEMMA CommitIInv ==
    ASSUME IInv, NEW p \in Procs, Commit(p)
    PROVE  IInv'
<1> USE CommandPlaneAssumption DEF IInv
<1>1. /\ \A a \in Aggs : committed'[a] = (IF lock[a] = p THEN staged[a] ELSE committed[a])
      /\ \A a \in Aggs : lock'[a] = (IF lock[a] = p THEN NoProc ELSE lock[a])
      /\ staged' = staged
      /\ \A q \in Procs : q # p => /\ pc'[q] = pc[q] /\ job'[q] = job[q]
                                   /\ idx'[q] = idx[q] /\ results'[q] = results[q]
      /\ pc'[p] = "idle" /\ results'[p] = <<>>
      /\ acked' \in {acked, acked \cup Range(results[p])}
  BY DEF Commit, End, Released, TypeOK
<1>2. ASSUME NEW q \in Procs, NEW i \in 1..Len(results[q])
      PROVE  /\ results[q][i] \in Aggs \X Versions
             /\ Reported(lock, committed, staged, q, results[q][i])
  <2>1. results[q] \in Seq(Aggs \X Versions)
    BY DEF TypeOK
  <2>2. results[q][i] \in Aggs \X Versions
    BY <2>1
  <2>3. Reported(lock, committed, staged, q, results[q][i])
    BY DEF ResultInv
  <2> QED
    BY <2>2, <2>3
<1>3. TypeOK'
  <2>1. Range(results[p]) \subseteq Aggs \X Versions
    BY <1>2 DEF Range
  <2>2. acked' \in SUBSET (Aggs \X Versions)
    BY <2>1, <1>1 DEF TypeOK
  <2>3. committed' \in [Aggs -> State]
    BY DEF Commit, TypeOK
  <2>4. End(p) /\ UNCHANGED staged
    BY DEF Commit
  <2>5. /\ lock' \in [Aggs -> Procs \cup {NoProc}]
        /\ pc' \in [Procs -> {"idle", "fence", "apply", "commit"}]
        /\ job' \in [Procs -> Seq(Command)]
        /\ idx' \in [Procs -> Nat]
        /\ results' \in [Procs -> Seq(Aggs \X Versions)]
    BY <2>4 DEF End, Released, TypeOK
  <2> QED
    BY <2>2, <2>3, <2>4, <2>5 DEF TypeOK
<1>4. LockInv'
  <2>1. ASSUME NEW a \in Aggs PROVE /\ lock'[a] = NoProc => staged'[a] = committed'[a]
                                    /\ lock'[a] # NoProc => pc'[lock'[a]] # "idle"
    <3>1. /\ lock[a] \in Procs \cup {NoProc}
          /\ lock[a] = NoProc => staged[a] = committed[a]
          /\ lock[a] # NoProc => pc[lock[a]] # "idle"
      BY DEF LockInv, TypeOK
    <3>2. lock[a] \notin {p, NoProc} => pc'[lock[a]] = pc[lock[a]]
      BY <3>1, <1>1
    <3> QED
      BY <3>1, <3>2, <1>1
  <2>2. ASSUME NEW q \in Procs, pc'[q] = "apply"
        PROVE  /\ lock'[Cmd(q)'.agg] = q
               /\ Cmd(q)'.op # "erase" => staged'[Cmd(q)'.agg].receipt = NoReceipt
    <3>1. q # p /\ pc[q] = "apply" /\ Cmd(q)' = Cmd(q)
      BY <1>1, <2>2 DEF Cmd
    <3>2. Cmd(q).agg \in Aggs /\ lock[Cmd(q).agg] = q
      BY <3>1, CmdType DEF LockInv
    <3>3. /\ lock'[Cmd(q).agg] = q
          /\ staged'[Cmd(q).agg] = staged[Cmd(q).agg]
      BY <1>1, <3>1, <3>2
    <3>4. Cmd(q).op # "erase" => staged[Cmd(q).agg].receipt = NoReceipt
      BY <3>1 DEF LockInv
    <3> QED
      BY <3>1, <3>3, <3>4
  <2> QED
    BY <2>1, <2>2 DEF LockInv
<1>5. IndexInv'
  BY <1>1 DEF IndexInv
<1>6. StoreInv'
  BY <1>1, GrowsRefl DEF StoreInv
<1>7. ResultInv'
  <2>1. Durable \subseteq Durable'
    <3>1. ASSUME NEW d \in Aggs \X Versions, committed[d[1]].log[d[2]] # NoEvent
          PROVE  committed'[d[1]].log[d[2]] # NoEvent
      <4>1. Grows(committed[d[1]], staged[d[1]])
        BY DEF StoreInv
      <4>2. staged[d[1]].log[d[2]] # NoEvent
        BY <3>1, <4>1 DEF Grows
      <4> QED
        BY <3>1, <4>2, <1>1
    <3> QED
      BY <3>1 DEF Durable
  <2>2. Range(results[p]) \subseteq Durable'
    <3>1. ASSUME NEW r \in Aggs \X Versions, Reported(lock, committed, staged, p, r)
          PROVE  r \in Durable'
      BY <3>1, <1>1 DEF Durable, Reported
    <3> QED
      BY <3>1, <1>2 DEF Range
  <2>3. ASSUME NEW q \in Procs, q # p, NEW r \in Aggs \X Versions,
               Reported(lock, committed, staged, q, r)
        PROVE  Reported(lock', committed', staged', q, r)
    BY <1>1, <2>3 DEF Reported
  <2>4. ASSUME NEW q \in Procs, NEW i \in 1..Len(results'[q])
        PROVE  Reported(lock', committed', staged', q, results'[q][i])
    <3>1. q # p /\ results'[q] = results[q]
      BY <1>1, <2>4
    <3> QED
      BY <3>1, <1>2, <2>3, <2>4
  <2>5. acked' \subseteq Durable'
    BY <1>1, <2>1, <2>2 DEF ResultInv
  <2> QED
    BY <2>4, <2>5 DEF ResultInv
<1> QED
  BY <1>3, <1>4, <1>5, <1>6, <1>7

LEMMA NextIInv == IInv /\ [Next]_vars => IInv'
<1> SUFFICES ASSUME IInv, [Next]_vars PROVE IInv'
  OBVIOUS
<1>1. ASSUME NEW p \in Procs, ExecBatch(p) PROVE IInv'
  BY <1>1, ExecBatchIInv
<1>2. ASSUME NEW p \in Procs, FenceAggregate(p) PROVE IInv'
  BY <1>2, FenceAggregateIInv
<1>3. ASSUME NEW p \in Procs, Apply(p) PROVE IInv'
  BY <1>3, ApplyIInv
<1>4. ASSUME NEW p \in Procs, EraseAggregate(p) PROVE IInv'
  BY <1>4, EraseAggregateIInv
<1>5. ASSUME NEW p \in Procs, Commit(p) PROVE IInv'
  BY <1>5, CommitIInv
<1>6. ASSUME NEW p \in Procs, Abort(p) \/ DeadlockVictim(p) PROVE IInv'
  BY <1>6, RollbackIInv DEF Abort, DeadlockVictim
<1>7. CASE UNCHANGED vars
  <2>1. TypeOK' /\ LockInv' /\ IndexInv' /\ StoreInv'
    BY Zenon, <1>7 DEF vars, IInv, TypeOK, LockInv, IndexInv, StoreInv, Cmd
  <2>2. ResultInv'
    BY <1>7 DEF vars, IInv, ResultInv, Durable
  <2> QED
    BY <2>1, <2>2 DEF IInv
<1> QED
  BY <1>1, <1>2, <1>3, <1>4, <1>5, <1>6, <1>7 DEF Next, Step

(* The inductive invariant holds in every reachable state.                  *)
THEOREM Invariance == Spec => []IInv
  BY InitIInv, NextIInv, PTL DEF Spec

-----------------------------------------------------------------------------
(* The safety of the command plane.                                         *)

(* Every variable keeps its type; in particular no version leaves 1..       *)
(* MaxVersion and no batch index leaves its batch.                          *)
THEOREM TypeCorrect == Spec => []TypeOK
<1>1. IInv => TypeOK
  BY DEF IInv
<1> QED
  BY <1>1, Invariance, PTL

(* Row and outbox agree in every state, for any number of concurrent        *)
(* callers, batches of any length and any failure: one event per version,   *)
(* no gap, no event without its row change.                                 *)
THEOREM RowAndOutboxAgree == Spec => []LogMatchesRow
<1>1. IInv => LogMatchesRow
  BY DEF IInv, StoreInv, WellFormed, LogMatchesRow
<1> QED
  BY <1>1, Invariance, PTL

(* No version is handed to two callers, and an acknowledged version is      *)
(* durable: executor.go's version check under the aggregate lock loses no   *)
(* update.                                                                  *)
THEOREM NoLostUpdate == Spec => []ResultsAreUnique
<1>1. IInv => ResultsAreUnique
  <2> SUFFICES ASSUME IInv PROVE ResultsAreUnique
    OBVIOUS
  <2>1. acked \subseteq Durable
    BY DEF IInv, ResultInv
  <2>2. ASSUME NEW p \in Procs, NEW i \in 1..Len(results[p])
        PROVE  results[p][i] \notin acked /\ lock[results[p][i][1]] = p
    <3>1. Reported(lock, committed, staged, p, results[p][i])
      BY DEF IInv, ResultInv
    <3> QED
      BY <2>1, <3>1 DEF Reported, Durable
  <2>3. ASSUME NEW p \in Procs, NEW q \in Procs, p # q
        PROVE  Range(results[p]) \cap Range(results[q]) = {}
    BY <2>2, <2>3 DEF Range
  <2> QED
    BY Zenon, <2>1, <2>2, <2>3 DEF ResultsAreUnique
<1> QED
  BY <1>1, Invariance, PTL

(* An erased aggregate has neither a row nor a payload left in the outbox.  *)
THEOREM ErasureLeavesNoPayload == Spec => []ErasedIsRedacted
<1>1. IInv => ErasedIsRedacted
  BY DEF IInv, StoreInv, IsRedacted, ErasedIsRedacted
<1> QED
  BY <1>1, Invariance, PTL

(* No step of any caller changes an erased aggregate: fenceAggregate and    *)
(* the retained receipt make erasure final.                                 *)
THEOREM ErasedForever == Spec => ErasureIsFinal
<1> DEFINE Step0 == \A a \in Aggs : committed[a].receipt # NoReceipt => committed'[a] = committed[a]
<1>1. ASSUME IInv, [Next]_vars PROVE Step0
  <2>1. CASE UNCHANGED committed
    BY <2>1
  <2>2. ASSUME NEW p \in Procs, Commit(p) PROVE Step0
    BY Zenon, <1>1, <2>2 DEF Commit, IInv, StoreInv, Grows
  <2> QED
    BY Zenon, <1>1, <2>1, <2>2 DEF Next, Step, ExecBatch, FenceAggregate, Apply, EraseAggregate,
                             Abort, DeadlockVictim, Rollback, vars
<1> QED
  BY <1>1, Invariance, PTL DEF Spec, ErasureIsFinal
-----------------------------------------------------------------------------
(* Transactions as wholes.                                                  *)

(* What another process holds and has done is not touched by p's step.      *)
LEMMA OthersKept ==
    ASSUME JobInv, TxInv, NEW p \in Procs,
           \A q \in Procs : q # p => /\ pc'[q] = pc[q] /\ job'[q] = job[q]
                                     /\ idx'[q] = idx[q] /\ results'[q] = results[q],
           \A a \in Aggs, q \in Procs : q # p /\ lock'[a] = q =>
               lock[a] = q /\ staged'[a] = staged[a] /\ committed'[a] = committed[a],
           pc'[p] # "idle" => Progress(job'[p], pc'[p], idx'[p], results'[p]),
           \A a \in Aggs : lock'[a] = p => Holds(job'[p], committed'[a], staged'[a], a)
    PROVE  JobInv' /\ TxInv'
<1>1. ASSUME NEW q \in Procs, pc'[q] # "idle" PROVE Progress(job'[q], pc'[q], idx'[q], results'[q])
  <2>1. CASE q = p
    BY Zenon, <1>1, <2>1
  <2>2. CASE q # p
    BY Zenon, <1>1, <2>2 DEF JobInv
  <2> QED
    BY Zenon, <2>1, <2>2
<1>2. ASSUME NEW a \in Aggs, NEW q \in Procs, lock'[a] = q
      PROVE  Holds(job'[q], committed'[a], staged'[a], a)
  <2>1. CASE q = p
    BY Zenon, <1>2, <2>1
  <2>2. CASE q # p
    BY Zenon, <1>2, <2>2 DEF TxInv
  <2> QED
    BY Zenon, <2>1, <2>2
<1>3. JobInv'
  BY Zenon, <1>1 DEF JobInv
<1>4. TxInv'
  BY Zenon, <1>2 DEF TxInv
<1> QED
  BY <1>3, <1>4

(* The end of a transaction, committed or not, leaves p with no job and no  *)
(* lock.                                                                    *)
LEMMA EndTx ==
    ASSUME IInv, JobInv, TxInv, NEW p \in Procs, End(p),
           \A a \in Aggs : lock[a] # p => staged'[a] = staged[a] /\ committed'[a] = committed[a]
    PROVE  JobInv' /\ TxInv'
<1>0. TypeOK /\ NoProc \notin Procs
  BY CommandPlaneAssumption DEF IInv
<1>1. /\ \A q \in Procs : q # p => /\ pc'[q] = pc[q] /\ job'[q] = job[q]
                                   /\ idx'[q] = idx[q] /\ results'[q] = results[q]
      /\ pc'[p] = "idle"
  BY <1>0 DEF End, TypeOK
<1>2. \A a \in Aggs : lock'[a] = (IF lock[a] = p THEN NoProc ELSE lock[a])
  BY Zenon DEF End, Released
<1>3. \A a \in Aggs, q \in Procs : lock'[a] = q => q # p /\ lock[a] = q
  BY Zenon, <1>0, <1>2
<1>4. \A a \in Aggs, q \in Procs : q # p /\ lock'[a] = q =>
          lock[a] = q /\ staged'[a] = staged[a] /\ committed'[a] = committed[a]
  BY Zenon, <1>3
<1>5. \A a \in Aggs : lock'[a] # p
  BY Zenon, <1>3
<1> QED
  BY Zenon, <1>1, <1>4, <1>5, OthersKept

LEMMA RollbackTx ==
    ASSUME IInv, JobInv, TxInv, NEW p \in Procs, Rollback(p)
    PROVE  JobInv' /\ TxInv'
<1>1. End(p) /\ \A a \in Aggs : lock[a] # p => staged'[a] = staged[a] /\ committed'[a] = committed[a]
  BY Zenon DEF Rollback
<1> QED
  BY Zenon, <1>1, EndTx

LEMMA CommitTx ==
    ASSUME IInv, JobInv, TxInv, NEW p \in Procs, Commit(p)
    PROVE  JobInv' /\ TxInv'
<1>1. End(p) /\ \A a \in Aggs : lock[a] # p => staged'[a] = staged[a] /\ committed'[a] = committed[a]
  BY Zenon DEF Commit
<1> QED
  BY Zenon, <1>1, EndTx

LEMMA ExecBatchTx ==
    ASSUME IInv, JobInv, TxInv, NEW p \in Procs, ExecBatch(p)
    PROVE  JobInv' /\ TxInv'
<1>0. TypeOK /\ LockInv /\ NoProc \notin Procs
  BY CommandPlaneAssumption DEF IInv
<1>1. /\ \A q \in Procs : q # p => /\ pc'[q] = pc[q] /\ job'[q] = job[q]
                                   /\ idx'[q] = idx[q] /\ results'[q] = results[q]
      /\ pc[p] = "idle" /\ pc'[p] = "fence" /\ results'[p] = <<>> /\ idx'[p] = 1 /\ job'[p] \in Jobs
      /\ committed' = committed /\ staged' = staged /\ lock' = lock
  BY <1>0 DEF ExecBatch, TypeOK
<1>2. Progress(job'[p], pc'[p], idx'[p], results'[p])
  BY <1>1 DEF Progress
<1>3. \A a \in Aggs : lock[a] # p
  BY Zenon, <1>0, <1>1 DEF LockInv
<1>4. \A a \in Aggs, q \in Procs : q # p /\ lock'[a] = q =>
          lock[a] = q /\ staged'[a] = staged[a] /\ committed'[a] = committed[a]
  BY Zenon, <1>1
<1>5. \A a \in Aggs : lock'[a] # p
  BY Zenon, <1>1, <1>3
<1> QED
  BY Zenon, <1>1, <1>2, <1>4, <1>5, OthersKept
(* An unlocked aggregate is as committed, so a lock taken holds nothing yet.*)
LEMMA FenceTx ==
    ASSUME IInv, JobInv, TxInv, NEW p \in Procs, FenceAggregate(p)
    PROVE  JobInv' /\ TxInv'
<1>1. CASE Rollback(p)
  BY Zenon, <1>1, RollbackTx
<1>2. CASE /\ lock' = [lock EXCEPT ![Cmd(p).agg] = p]
           /\ pc' = [pc EXCEPT ![p] = "apply"]
           /\ UNCHANGED <<committed, staged, job, idx, results, acked>>
  <2>0. /\ TypeOK /\ LockInv /\ IndexInv /\ NoProc \notin Procs /\ pc[p] = "fence" /\ CanLock(p)
        /\ Cmd(p).agg \in Aggs
    BY Zenon, CmdType, CommandPlaneAssumption DEF IInv, FenceAggregate
  <2>1. /\ \A q \in Procs : q # p => pc'[q] = pc[q]
        /\ pc'[p] = "apply"
        /\ \A a \in Aggs : lock'[a] = (IF a = Cmd(p).agg THEN p ELSE lock[a])
        /\ lock[Cmd(p).agg] \in {NoProc, p}
        /\ committed' = committed /\ staged' = staged /\ job' = job /\ idx' = idx /\ results' = results
    BY Zenon, <1>2, <2>0 DEF TypeOK, CanLock
  <2>2. Progress(job'[p], pc'[p], idx'[p], results'[p])
    <3>1. Progress(job[p], pc[p], idx[p], results[p])
      BY Zenon, <2>0 DEF JobInv
    <3> QED
      BY Zenon, <2>1, <3>1 DEF Progress
  <2>3. ASSUME NEW a \in Aggs, lock'[a] = p PROVE Holds(job[p], committed[a], staged[a], a)
    <3>1. CASE lock[a] = p
      BY Zenon, <3>1 DEF TxInv
    <3>2. CASE lock[a] # p
      <4>1. a = Cmd(p).agg /\ lock[a] = NoProc
        BY Zenon, <2>1, <2>3, <3>2
      <4>2. staged[a] = committed[a]
        BY Zenon, <2>0, <4>1 DEF LockInv
      <4>3. idx[p] \in 1..Len(job[p]) /\ job[p][idx[p]].agg = a
        BY Zenon, <2>0, <4>1 DEF IndexInv, Cmd
      <4> QED
        BY Zenon, <4>2, <4>3 DEF Holds, SameTypes
    <3> QED
      BY Zenon, <3>1, <3>2
  <2>4. \A a \in Aggs, q \in Procs : q # p /\ lock'[a] = q =>
            lock[a] = q /\ staged'[a] = staged[a] /\ committed'[a] = committed[a]
    BY Zenon, <2>1
  <2>5. \A a \in Aggs : lock'[a] = p => Holds(job'[p], committed'[a], staged'[a], a)
    BY Zenon, <2>1, <2>3
  <2>6. \A q \in Procs : q # p => /\ pc'[q] = pc[q] /\ job'[q] = job[q]
                                  /\ idx'[q] = idx[q] /\ results'[q] = results[q]
    BY Zenon, <2>1
  <2> QED
    BY Zenon, <2>2, <2>4, <2>5, <2>6, OthersKept
<1> QED
  BY Zenon, <1>1, <1>2 DEF FenceAggregate

(* A command that succeeds moves on; what it stages for its aggregate is t. *)
LEMMA AdvanceTx ==
    ASSUME IInv, JobInv, TxInv, NEW p \in Procs, pc[p] = "apply", NEW t,
           staged' = [staged EXCEPT ![Cmd(p).agg] = t], Advance(p),
           UNCHANGED <<committed, lock, job, acked>>,
           \A q \in Procs : q # p => results'[q] = results[q],
           IF Erasing(job[p]) THEN results'[p] = <<>> ELSE Len(results'[p]) = idx[p],
           Holds(job[p], committed[Cmd(p).agg], t, Cmd(p).agg)
    PROVE  JobInv' /\ TxInv'
<1>0. /\ TypeOK /\ LockInv /\ IndexInv /\ Cmd(p).agg \in Aggs /\ lock[Cmd(p).agg] = p
      /\ job' = job /\ lock' = lock /\ committed' = committed
  BY Zenon, CmdType DEF IInv, LockInv
<1>1. /\ \A q \in Procs : q # p => pc'[q] = pc[q] /\ idx'[q] = idx[q]
      /\ pc'[p] = (IF idx[p] = Len(job[p]) THEN "commit" ELSE "fence")
      /\ idx'[p] = idx[p] + 1
  BY Zenon, <1>0 DEF Advance, TypeOK
<1>2. \A a \in Aggs : staged'[a] = (IF a = Cmd(p).agg THEN t ELSE staged[a])
  BY Zenon, <1>0 DEF TypeOK
<1>3. Progress(job'[p], pc'[p], idx'[p], results'[p])
  <2>1. job[p] \in Jobs /\ idx[p] \in Nat
    BY Zenon, <1>0 DEF JobInv, Progress, TypeOK
  <2>2. pc'[p] = "commit" => idx'[p] = Len(job[p]) + 1
    BY Zenon, <1>1
  <2>3. Len(results'[p]) = idx[p] => Len(results'[p]) = idx'[p] - 1
    BY <1>1, <2>1
  <2> QED
    BY Zenon, <1>0, <2>1, <2>2, <2>3 DEF Progress
<1>4. \A a \in Aggs : lock'[a] = p => Holds(job'[p], committed'[a], staged'[a], a)
  <2> SUFFICES ASSUME NEW a \in Aggs, lock[a] = p PROVE Holds(job[p], committed[a], staged'[a], a)
    BY Zenon, <1>0
  <2>1. CASE a = Cmd(p).agg
    BY Zenon, <1>2, <2>1
  <2>2. CASE a # Cmd(p).agg
    BY Zenon, <1>2, <2>2 DEF TxInv
  <2> QED
    BY Zenon, <2>1, <2>2
<1>5. \A a \in Aggs, q \in Procs : q # p /\ lock'[a] = q =>
          lock[a] = q /\ staged'[a] = staged[a] /\ committed'[a] = committed[a]
  BY Zenon, <1>0, <1>2
<1>6. \A q \in Procs : q # p => /\ pc'[q] = pc[q] /\ job'[q] = job[q]
                                /\ idx'[q] = idx[q] /\ results'[q] = results[q]
  BY Zenon, <1>0, <1>1
<1> QED
  BY Zenon, <1>3, <1>4, <1>5, <1>6, OthersKept

(* The job is an erasure exactly when the command p is at is one.           *)
LEMMA ErasesAlone ==
    ASSUME IInv, JobInv, NEW p \in Procs, pc[p] = "apply"
    PROVE  Erasing(job[p]) <=> Cmd(p).op = "erase"
<1>1. job[p] \in Jobs /\ idx[p] \in 1..Len(job[p]) /\ job[p] \in Seq(Command)
  BY Zenon DEF IInv, JobInv, Progress, IndexInv, TypeOK
<1>2. Erasing(job[p]) => Len(job[p]) = 1
  BY Zenon, <1>1, CommandPlaneAssumption DEF CommandPlaneAssumption
<1>3. ASSUME Erasing(job[p]) PROVE Cmd(p).op = "erase"
  <2>1. PICK i \in 1..Len(job[p]) : job[p][i].op = "erase"
    BY Zenon, <1>3 DEF Erasing
  <2>2. i = idx[p]
    <3>1. Len(job[p]) = 1
      BY Zenon, <1>2, <1>3
    <3> QED
      BY <1>1, <2>1, <3>1
  <2> QED
    BY Zenon, <2>1, <2>2 DEF Cmd
<1>4. Cmd(p).op = "erase" => Erasing(job[p])
  BY Zenon, <1>1 DEF Cmd, Erasing
<1> QED
  BY Zenon, <1>3, <1>4
LEMMA ApplyTx ==
    ASSUME IInv, JobInv, TxInv, NEW p \in Procs, Apply(p)
    PROVE  JobInv' /\ TxInv'
<1> DEFINE c == Cmd(p)
           s == staged[c.agg]
           next == s.version + 1
<1>1. CASE Rollback(p)
  BY Zenon, <1>1, RollbackTx
<1>2. CASE /\ staged' = [staged EXCEPT ![c.agg] = Written(s, c, next)]
           /\ results' = [results EXCEPT ![p] = Append(@, ResultOf(c, next))]
           /\ Advance(p)
           /\ UNCHANGED <<committed, lock, job, acked>>
  <2>0. /\ TypeOK /\ LockInv /\ pc[p] = "apply" /\ c.op # "erase" /\ c.agg \in Aggs /\ lock[c.agg] = p
    BY Zenon, CmdType DEF Apply, IInv, LockInv
  <2>1. ~ Erasing(job[p])
    BY Zenon, <2>0, ErasesAlone
  <2>2. /\ results[p] \in Seq(Aggs \X Versions) /\ results'[p] = Append(results[p], ResultOf(c, next))
        /\ \A q \in Procs : q # p => results'[q] = results[q]
    BY Zenon, <1>2, <2>0 DEF TypeOK
  <2>3. Len(results[p]) = idx[p] - 1 /\ idx[p] \in Nat
    BY Zenon, <2>0, <2>1 DEF JobInv, Progress, TypeOK
  <2>4. Len(results'[p]) = idx[p]
    BY <2>2, <2>3
  <2>5. Written(s, c, next).receipt = s.receipt
    BY Zenon DEF Written
  <2>6. Holds(job[p], committed[c.agg], Written(s, c, next), c.agg)
    BY Zenon, <2>0, <2>1, <2>5 DEF TxInv, Holds
  <2>7. pc[p] = "apply"
    BY <2>0
  <2> QED
    BY Zenon, <1>2, <2>1, <2>2, <2>4, <2>6, <2>7, AdvanceTx
<1> QED
  BY Zenon, <1>1, <1>2 DEF Apply

LEMMA EraseAggregateTx ==
    ASSUME IInv, JobInv, TxInv, NEW p \in Procs, EraseAggregate(p)
    PROVE  JobInv' /\ TxInv'
<1> DEFINE c == Cmd(p)
           s == staged[c.agg]
           t == IF s.receipt # NoReceipt THEN s ELSE Redacted(s, c)
<1>1. CASE Rollback(p)
  BY Zenon, <1>1, RollbackTx
<1>2. CASE /\ staged' = [staged EXCEPT ![c.agg] = t]
           /\ Advance(p)
           /\ UNCHANGED <<committed, lock, job, results, acked>>
  <2>0. /\ TypeOK /\ LockInv /\ pc[p] = "apply" /\ c.op = "erase" /\ c.agg \in Aggs /\ lock[c.agg] = p
        /\ s \in State
    BY Zenon, CmdType DEF EraseAggregate, IInv, LockInv, TypeOK
  <2>1. Erasing(job[p])
    BY Zenon, <2>0, ErasesAlone
  <2>2. results'[p] = <<>> /\ \A q \in Procs : q # p => results'[q] = results[q]
    BY Zenon, <1>2, <2>0, <2>1 DEF JobInv, Progress
  <2>3. SameTypes(s, t)
    <3>1. \A v \in Versions : s.log[v] \in Event
      BY Zenon, <2>0 DEF State
    <3>2. SameTypes(s, s)
      BY Zenon DEF SameTypes
    <3>3. ASSUME NEW v \in Versions
          PROVE  /\ (s.log[v] = NoEvent) <=> (Redacted(s, c).log[v] = NoEvent)
                 /\ s.log[v].type = Redacted(s, c).log[v].type
      BY <3>1 DEF Redacted, NoEvent, Event
    <3> QED
      BY Zenon, <3>2, <3>3 DEF SameTypes
  <2>4. Holds(job[p], committed[c.agg], s, c.agg)
    BY Zenon, <2>0 DEF TxInv
  <2>5. Holds(job[p], committed[c.agg], t, c.agg)
    BY Zenon, <2>1, <2>3, <2>4 DEF Holds, SameTypes
  <2> QED
    BY Zenon, <1>2, <2>0, <2>1, <2>2, <2>5, AdvanceTx
<1> QED
  BY Zenon, <1>1, <1>2 DEF EraseAggregate

(* The transactions stay whole in every reachable state.                    *)
THEOREM TransactionsStayWhole == Spec => [](IInv /\ JobInv /\ TxInv)
<1>1. Init => JobInv /\ TxInv
  BY Zenon, CommandPlaneAssumption DEF Init, JobInv, TxInv
<1>2. ASSUME IInv, JobInv, TxInv, [Next]_vars PROVE JobInv' /\ TxInv'
  <2>1. CASE UNCHANGED vars
    BY Zenon, <1>2, <2>1 DEF vars, JobInv, TxInv
  <2>2. ASSUME NEW p \in Procs, Abort(p) \/ DeadlockVictim(p) PROVE Rollback(p)
    BY Zenon, <2>2 DEF Abort, DeadlockVictim
  <2> QED
    BY Zenon, <1>2, <2>1, <2>2, ExecBatchTx, FenceTx, ApplyTx, EraseAggregateTx, CommitTx,
       RollbackTx DEF Next, Step
<1> QED
  BY <1>1, <1>2, Invariance, PTL DEF Spec
(* A transaction that ends has made every version it reports durable, or    *)
(* none of them: executor.go's ExecBatch commits or rolls back as a whole,  *)
(* and a batch that commits has reported one version per command.           *)
THEOREM BatchesAreAtomic == Spec => BatchIsAtomic
<1> DEFINE Done(p) == {i \in 1..Len(results[p]) : results[p][i] \in Durable'}
           Whole == \A p \in Procs : pc[p] # "idle" /\ pc'[p] = "idle" =>
                       Done(p) = {} \/ Done(p) = 1..Len(job[p])
<1>1. ASSUME IInv, JobInv, [Next]_vars PROVE Whole
  <2> SUFFICES ASSUME NEW p \in Procs, pc[p] # "idle", pc'[p] = "idle"
               PROVE  Done(p) = {} \/ Done(p) = 1..Len(job[p])
    BY Zenon
  <2>0. /\ TypeOK /\ \A i \in 1..Len(results[p]) : Reported(lock, committed, staged, p, results[p][i])
    BY Zenon, <1>1 DEF IInv, ResultInv
  <2>1. CASE UNCHANGED committed
    <3>1. \A i \in 1..Len(results[p]) : results[p][i] \notin Durable'
      BY Zenon, <2>0, <2>1 DEF Reported, Durable
    <3> QED
      BY Zenon, <3>1
  <2>2. CASE \E q \in Procs : Commit(q)
    <3>1. PICK q \in Procs : Commit(q)
      BY Zenon, <2>2
    <3>2. q = p
      BY Zenon, <2>0, <3>1 DEF Commit, End, TypeOK
    <3>3. /\ pc[p] = "commit"
          /\ \A a \in Aggs : committed'[a] = (IF lock[a] = p THEN staged[a] ELSE committed[a])
      BY Zenon, <3>1, <3>2 DEF Commit
    <3>4. results[p] \in Seq(Aggs \X Versions)
      BY Zenon, <2>0 DEF TypeOK
    <3>5. ASSUME NEW i \in 1..Len(results[p]) PROVE results[p][i] \in Durable'
      <4>1. results[p][i] \in Aggs \X Versions
        BY <3>4
      <4>2. results[p][i][1] \in Aggs
        BY <4>1
      <4> QED
        BY Zenon, <2>0, <3>3, <4>1, <4>2 DEF Reported, Durable
    <3>6. Done(p) = 1..Len(results[p])
      BY Zenon, <3>5
    <3>7. Progress(job[p], pc[p], idx[p], results[p])
      BY Zenon, <1>1 DEF JobInv
    <3>8. CASE Erasing(job[p])
      <4>1. Len(results[p]) = 0
        BY <3>7, <3>8 DEF Progress
      <4> QED
        BY <3>6, <4>1
    <3>9. CASE ~ Erasing(job[p])
      <4>1. Len(results[p]) = idx[p] - 1 /\ idx[p] = Len(job[p]) + 1
        BY Zenon, <3>3, <3>7, <3>9 DEF Progress
      <4>2. Len(job[p]) \in Nat
        BY <2>0 DEF TypeOK
      <4>3. Len(results[p]) = Len(job[p])
        BY <4>1, <4>2
      <4> QED
        BY Zenon, <3>6, <4>3
    <3> QED
      BY Zenon, <3>8, <3>9
  <2>3. UNCHANGED committed \/ \E q \in Procs : Commit(q)
    BY Zenon, <1>1 DEF Next, Step, ExecBatch, FenceAggregate, Apply, EraseAggregate,
                       Abort, DeadlockVictim, Rollback, vars
  <2> QED
    BY Zenon, <2>1, <2>2, <2>3
<1>2. ASSUME IInv, JobInv, [Next]_vars
      PROVE  [\A p \in Procs : pc[p] # "idle" /\ pc'[p] = "idle" =>
                LET done == {i \in 1..Len(results[p]) : results[p][i] \in Durable'}
                IN  \/ done = {}
                    \/ done = 1..Len(job[p])]_vars
  BY Zenon, <1>1, <1>2
<1> QED
  BY <1>2, TransactionsStayWhole, PTL DEF Spec, BatchIsAtomic
-----------------------------------------------------------------------------
(* The command plane implements the abstract log.                           *)

(* A log of length n is a sequence of n event types.                        *)
LEMMA HistOfLength ==
    ASSUME NEW s \in State, NEW n \in 0..MaxVersion, LogOfLength(s, n)
    PROVE  /\ HistOf(s) \in [1..n -> Verbs] /\ Len(HistOf(s)) = n
           /\ \A v \in 1..n : v \in Versions /\ HistOf(s)[v] = s.log[v].type
<1>0. n \in Nat /\ 1..n \subseteq Versions
  BY CommandPlaneAssumption DEF Versions
<1>1. {w \in Versions : s.log[w] # NoEvent} = 1..n
  BY <1>0 DEF LogOfLength, Versions
<1>2. HistOf(s) = [v \in 1..n |-> s.log[v].type]
  BY Zenon, <1>1 DEF HistOf
<1>3. \A v \in 1..n : s.log[v].type \in Verbs
  BY Zenon DEF LogOfLength
<1>4. HistOf(s) \in [1..n -> Verbs]
  BY Zenon, <1>2, <1>3
<1>5. Len(HistOf(s)) = n
  BY <1>0, <1>2, <1>3
<1> QED
  BY Zenon, <1>0, <1>2, <1>4, <1>5

LEMMA HistIsLifecycle ==
    ASSUME NEW s \in State, WellFormed(s)
    PROVE  HistOf(s) \in Log!Histories
<1>1. PICK n \in 0..MaxVersion : LogOfLength(s, n)
  BY Zenon DEF WellFormed
<1>2. /\ HistOf(s) \in [1..n -> Verbs] /\ Len(HistOf(s)) = n
      /\ \A v \in 1..n : HistOf(s)[v] = s.log[v].type
  BY Zenon, <1>1, HistOfLength
<1>3. Log!IsLifecycle(HistOf(s))
  BY Zenon, <1>1, <1>2 DEF LogOfLength, Log!IsLifecycle
<1>4. HistOf(s) \in UNION {[1..m -> Log!Verbs] : m \in 0..MaxVersion}
  BY Zenon, <1>2 DEF Verbs, Log!Verbs
<1> QED
  BY Zenon, <1>3, <1>4 DEF Log!Histories

(* Growing the log extends the history.                                     *)
LEMMA HistExtends ==
    ASSUME NEW s \in State, NEW t \in State, WellFormed(s), WellFormed(t), Grows(s, t)
    PROVE  Log!Extends(HistOf(t), HistOf(s))
<1>1. PICK m \in 0..MaxVersion : LogOfLength(s, m)
  BY Zenon DEF WellFormed
<1>2. PICK n \in 0..MaxVersion : LogOfLength(t, n)
  BY Zenon DEF WellFormed
<1>3. Len(HistOf(s)) = m /\ \A v \in 1..m : v \in Versions /\ HistOf(s)[v] = s.log[v].type
  BY Zenon, <1>1, HistOfLength
<1>4. Len(HistOf(t)) = n /\ \A v \in 1..n : v \in Versions /\ HistOf(t)[v] = t.log[v].type
  BY Zenon, <1>2, HistOfLength
<1>5. ASSUME NEW v \in 1..m PROVE v <= n /\ HistOf(t)[v] = HistOf(s)[v]
  <2>1. v \in Versions /\ s.log[v] # NoEvent
    BY <1>1, <1>3 DEF LogOfLength
  <2>2. t.log[v] # NoEvent /\ t.log[v].type = s.log[v].type
    BY Zenon, <2>1 DEF Grows
  <2>3. v <= n
    BY Zenon, <1>2, <2>1, <2>2 DEF LogOfLength
  <2>4. v \in 1..n
    BY <2>3
  <2> QED
    BY Zenon, <1>3, <1>4, <2>2, <2>3, <2>4
<1>6. m <= n
  <2>1. CASE m = 0
    BY <2>1
  <2>2. CASE m # 0
    <3>1. m \in 1..m
      BY <2>2
    <3> QED
      BY Zenon, <1>5, <3>1
  <2> QED
    BY Zenon, <2>1, <2>2
<1> QED
  BY Zenon, <1>3, <1>4, <1>5, <1>6 DEF Log!Extends

(* Events of the same types are the same history.                           *)
LEMMA HistSame ==
    ASSUME NEW s, NEW t, SameTypes(s, t)
    PROVE  HistOf(s) = HistOf(t)
<1>1. {w \in Versions : s.log[w] # NoEvent} = {w \in Versions : t.log[w] # NoEvent}
  BY Zenon DEF SameTypes
<1>2. \A v \in Versions : s.log[v].type = t.log[v].type
  BY Zenon DEF SameTypes
<1> QED
  BY Zenon, <1>1, <1>2 DEF HistOf
(* A committed batch extends histories and closes none.                     *)
LEMMA BatchCommits ==
    ASSUME IInv, IInv', TxInv, NEW p \in Procs, Commit(p), ~ Erasing(job[p])
    PROVE  Log!Commit
<1>0. /\ committed \in [Aggs -> State] /\ committed' \in [Aggs -> State]
      /\ \A a \in Aggs : WellFormed(committed[a]) /\ WellFormed(committed'[a])
                         /\ Grows(committed[a], staged[a])
  BY Zenon DEF IInv, TypeOK, StoreInv
<1>1. \A a \in Aggs : committed'[a] = (IF lock[a] = p THEN staged[a] ELSE committed[a])
  BY Zenon DEF Commit
<1>2. \A a \in Aggs : Grows(committed[a], committed'[a])
  BY Zenon, <1>0, <1>1, GrowsRefl
<1>3. ASSUME NEW a \in Aggs
      PROVE  /\ HistOf(committed'[a]) \in Log!Histories
             /\ Log!Extends(HistOf(committed'[a]), HistOf(committed[a]))
             /\ committed[a].receipt # NoReceipt => HistOf(committed'[a]) = HistOf(committed[a])
             /\ committed'[a].receipt = committed[a].receipt
  <2>1. committed[a] \in State /\ committed'[a] \in State
    BY Zenon, <1>0
  <2>2. HistOf(committed'[a]) \in Log!Histories
    BY Zenon, <1>0, <2>1, HistIsLifecycle
  <2>3. Log!Extends(HistOf(committed'[a]), HistOf(committed[a]))
    BY Zenon, <1>0, <1>2, <2>1, HistExtends
  <2>4. committed[a].receipt # NoReceipt => committed'[a] = committed[a]
    BY Zenon, <1>2 DEF Grows
  <2>5. committed'[a].receipt = committed[a].receipt
    BY Zenon, <1>1 DEF TxInv, Holds
  <2> QED
    BY Zenon, <2>2, <2>3, <2>4, <2>5
<1>4. [a \in Aggs |-> HistOf(committed'[a])] \in [Aggs -> Log!Histories]
  BY Zenon, <1>3
<1>5. [a \in Aggs |-> committed'[a].receipt # NoReceipt] = [a \in Aggs |-> committed[a].receipt # NoReceipt]
  BY Zenon, <1>3
<1> QED
  BY Zenon, <1>3, <1>4, <1>5 DEF Log!Commit, HistOf, Versions

(* A committed erasure closes one aggregate, or repeats itself.             *)
LEMMA ErasureCommits ==
    ASSUME IInv, JobInv, TxInv, NEW p \in Procs, Commit(p), Erasing(job[p])
    PROVE  (\E a \in Aggs : Log!Erase(a)) \/ UNCHANGED Log!vars
<1>0. job[p] \in Jobs /\ Len(job[p]) = 1
  BY Zenon, CommandPlaneAssumption DEF CommandPlaneAssumption, JobInv, Progress, Commit
<1>1. \A a \in Aggs : committed'[a] = (IF lock[a] = p THEN staged[a] ELSE committed[a])
  BY Zenon DEF Commit
<1>2. \A a \in Aggs : lock[a] = p => a = job[p][1].agg /\ SameTypes(committed[a], staged[a])
  <2> SUFFICES ASSUME NEW a \in Aggs, lock[a] = p
               PROVE  a = job[p][1].agg /\ SameTypes(committed[a], staged[a])
    BY Zenon
  <2>1. Holds(job[p], committed[a], staged[a], a)
    BY Zenon DEF TxInv
  <2>2. PICK i \in 1..Len(job[p]) : job[p][i].agg = a
    BY Zenon, <2>1 DEF Holds
  <2>3. i = 1
    BY <1>0, <2>2
  <2> QED
    BY Zenon, <2>1, <2>2, <2>3 DEF Holds
<1>3. \A a \in Aggs : HistOf(committed'[a]) = HistOf(committed[a])
  BY Zenon, <1>1, <1>2, HistSame
<1>4. [a \in Aggs |-> HistOf(committed'[a])] = [a \in Aggs |-> HistOf(committed[a])]
  BY Zenon, <1>3
<1>5. CASE \A a \in Aggs : (committed'[a].receipt # NoReceipt) <=> (committed[a].receipt # NoReceipt)
  <2>1. [a \in Aggs |-> committed'[a].receipt # NoReceipt] = [a \in Aggs |-> committed[a].receipt # NoReceipt]
    BY Zenon, <1>5
  <2> QED
    BY Zenon, <1>4, <2>1 DEF Log!vars, HistOf, Versions
<1>6. CASE ~ \A a \in Aggs : (committed'[a].receipt # NoReceipt) <=> (committed[a].receipt # NoReceipt)
  <2>1. PICK a \in Aggs : ~ ((committed'[a].receipt # NoReceipt) <=> (committed[a].receipt # NoReceipt))
    BY Zenon, <1>6
  <2>2. Grows(committed[a], staged[a]) /\ lock[a] = p
    BY Zenon, <1>1, <2>1 DEF IInv, StoreInv
  <2>3. committed[a].receipt = NoReceipt /\ committed'[a].receipt # NoReceipt
    BY Zenon, <1>1, <2>1, <2>2 DEF Grows
  <2>4. \A b \in Aggs : b # a => committed'[b] = committed[b]
    BY Zenon, <1>1, <1>2, <2>2
  <2>5. [b \in Aggs |-> committed'[b].receipt # NoReceipt]
        = [[b \in Aggs |-> committed[b].receipt # NoReceipt] EXCEPT ![a] = TRUE]
    BY <2>3, <2>4
  <2> QED
    BY Zenon, <1>4, <2>3, <2>5 DEF Log!Erase, HistOf, Versions
<1> QED
  BY Zenon, <1>5, <1>6

(* The transactions implement the abstract log of aggregates, for every     *)
(* number of callers and jobs: whatever interleaves, fails or deadlocks,    *)
(* each step of the store is one atomic extension of gap-free histories,    *)
(* the closing of one history, or nothing at all.                           *)
THEOREM RefinesAggregateLog == Spec => ImplementsAggregateLog
<1>1. Init => Log!Init
  <2> SUFFICES ASSUME Init PROVE Log!Init
    BY Zenon
  <2>1. \A a \in Aggs : committed[a] = Empty
    BY Zenon DEF Init
  <2>2. Empty.receipt = NoReceipt /\ \A v \in Versions : Empty.log[v] = NoEvent
    BY Zenon DEF Empty
  <2>3. HistOf(Empty) = <<>>
    <3>1. {w \in Versions : Empty.log[w] # NoEvent} = {}
      BY Zenon, <2>2
    <3> QED
      BY <3>1 DEF HistOf
  <2> QED
    BY Zenon, <2>1, <2>2, <2>3 DEF Log!Init
<1>2. ASSUME IInv, IInv', JobInv, TxInv, [Next]_vars PROVE [Log!Next]_(Log!vars)
  <2>1. CASE UNCHANGED committed
    BY Zenon, <2>1 DEF Log!vars, HistOf, Versions
  <2>2. ASSUME NEW p \in Procs, Commit(p) PROVE Log!Next \/ UNCHANGED Log!vars
    <3>1. CASE Erasing(job[p])
      BY Zenon, <1>2, <2>2, <3>1, ErasureCommits DEF Log!Next
    <3>2. CASE ~ Erasing(job[p])
      BY Zenon, <1>2, <2>2, <3>2, BatchCommits DEF Log!Next
    <3> QED
      BY Zenon, <3>1, <3>2
  <2>3. UNCHANGED committed \/ \E q \in Procs : Commit(q)
    BY Zenon, <1>2 DEF Next, Step, ExecBatch, FenceAggregate, Apply, EraseAggregate,
                       Abort, DeadlockVictim, Rollback, vars
  <2> QED
    BY Zenon, <2>1, <2>2, <2>3
<1> QED
  BY <1>1, <1>2, TransactionsStayWhole, PTL DEF Spec, ImplementsAggregateLog, Log!Spec
=============================================================================
