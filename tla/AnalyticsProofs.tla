--------------------------- MODULE AnalyticsProofs --------------------------
(* The analytics store for any log of versions, any number of consumers and  *)
(* any number of the operator's jobs.  What the property says of the tables  *)
(* holds between the three steps of a writer only because of how far each    *)
(* writer is: a writer past its first step is not ahead of the fact, one     *)
(* past its second has its event in the history, a reconcile pass holds a    *)
(* watermark no newer than the table's.                                      *)
EXTENDS Analytics, TLAPS

Zero == {0} \cup Versions

JobRecord == [pc : {"idle", "compare", "fact", "event", "mark"}, version : Zero,
              at : {"commit", "fill", "heal"}, have : Zero]
FactRecord == [version : Versions, payload : Zero, wide : BOOLEAN]
EventRecord == [version : Versions, at : {"commit", "fill", "heal"}, wide : BOOLEAN]
RewriteRecord == [pc : {"idle", "fact", "scan", "events", "done"}, payload : Zero, version : Zero,
                  todo : SUBSET Versions]

(* The types AnaTypeOK leaves out, and the version a writer is at.           *)
TypeInv ==
    /\ aset \in AnaSetup
    /\ head \in 0..Len(aset.log)
    /\ todo \subseteq Versions
    /\ fact \in FactRecord \cup {NoFact}
    /\ history \subseteq EventRecord
    /\ applied \in Zero /\ healed \in Zero
    /\ job \in [AnaWriters -> JobRecord]
    /\ \A w \in AnaWriters : job[w].pc \in {"fact", "event", "mark"} => job[w].version \in Versions
    /\ rewrite \in RewriteRecord
    /\ rewrite.pc = "fact" => rewrite.version \in Versions
    /\ torn \in BOOLEAN /\ mixed \in BOOLEAN /\ narrow \in BOOLEAN

Recorded(v) == \E e \in history : e.version = v

StepsInv ==
    /\ \A e \in history : e.version <= fact.version
    /\ applied > 0 => Recorded(applied)
    /\ \A w \in AnaWriters : job[w].pc \in {"event", "mark"} => job[w].version <= fact.version
    /\ \A w \in AnaWriters : job[w].pc = "mark" => Recorded(job[w].version)
    /\ job[Reconciler].pc = "compare" => job[Reconciler].have <= applied
    /\ healed <= fact.version /\ healed <= applied

PayloadInv ==
    /\ fact # NoFact => fact.payload = Projected(fact.version)
    /\ rewrite.pc = "fact" => rewrite.payload = Projected(rewrite.version)

NarrowInv ==
    /\ rewrite.pc \in {"scan", "events", "done"} => ~fact.wide
    /\ rewrite.pc = "events" => \A e \in history : e.wide => e.version \in rewrite.todo
    /\ rewrite.pc = "done" => \A e \in history : ~e.wide

AnaInv ==
    /\ TypeInv
    /\ ~torn => StepsInv
    /\ ~mixed => PayloadInv
    /\ narrow => NarrowInv

-----------------------------------------------------------------------------
(* No step changes the log or the replicas on the former allow-list.         *)
LEMMA SetupKept ==
    ASSUME TypeInv, [AnaNext]_anaVars
    PROVE  /\ aset' \in AnaSetup /\ aset'.log = aset.log /\ aset'.wide = aset.wide
           /\ Versions' = Versions /\ Zero' = Zero
<1>1. aset' \in AnaSetup /\ aset'.log = aset.log /\ aset'.wide = aset.wide
  <2>0. aset \in AnaSetup
    BY Zenon DEF TypeInv
  <2>1. CASE UNCHANGED aset
    BY <2>0, <2>1
  <2>2. ASSUME NEW w \in AnaWriters, WriteFails(w)
        PROVE  aset' \in AnaSetup /\ aset'.log = aset.log /\ aset'.wide = aset.wide
    <3>1. aset.fails > 0 /\ aset' = [aset EXCEPT !.fails = @ - 1]
      BY Zenon, <2>2 DEF WriteFails
    <3>2. aset.fails \in Nat /\ aset.fails - 1 \in Nat
      BY <2>0, <3>1 DEF AnaSetup
    <3>3. aset' \in AnaSetup
      BY Zenon, <2>0, <3>1, <3>2 DEF AnaSetup
    <3> QED
      BY Zenon, <2>0, <3>1, <3>3 DEF AnaSetup
  <2>3. CASE Backfill
    <3>1. aset.fills > 0 /\ aset' = [aset EXCEPT !.fills = @ - 1]
      BY <2>3 DEF Backfill
    <3>2. aset.fills \in Nat /\ aset.fills - 1 \in Nat
      BY <2>0, <3>1 DEF AnaSetup
    <3>3. aset' \in AnaSetup
      BY Zenon, <2>0, <3>1, <3>2 DEF AnaSetup
    <3> QED
      BY Zenon, <2>0, <3>1, <3>3 DEF AnaSetup
  <2>4. CASE ReadWatermarks
    <3>1. aset.heals > 0 /\ aset' = [aset EXCEPT !.heals = @ - 1]
      BY <2>4 DEF ReadWatermarks
    <3>2. aset.heals \in Nat /\ aset.heals - 1 \in Nat
      BY <2>0, <3>1 DEF AnaSetup
    <3>3. aset' \in AnaSetup
      BY Zenon, <2>0, <3>1, <3>2 DEF AnaSetup
    <3> QED
      BY Zenon, <2>0, <3>1, <3>3 DEF AnaSetup
  <2>5. CASE ScanFacts
    <3>1. aset.rewrites > 0 /\ aset' = [aset EXCEPT !.rewrites = @ - 1]
      BY <2>5 DEF ScanFacts
    <3>2. aset.rewrites \in Nat /\ aset.rewrites - 1 \in Nat
      BY <2>0, <3>1 DEF AnaSetup
    <3>3. aset' \in AnaSetup
      BY Zenon, <2>0, <3>1, <3>2 DEF AnaSetup
    <3> QED
      BY Zenon, <2>0, <3>1, <3>3 DEF AnaSetup
  <2>6. CASE PurgeTenant
    <3>1. aset.purges > 0 /\ aset' = [aset EXCEPT !.purges = @ - 1]
      BY Zenon, <2>6 DEF PurgeTenant
    <3>2. aset.purges \in Nat /\ aset.purges - 1 \in Nat
      BY <2>0, <3>1 DEF AnaSetup
    <3>3. aset' \in AnaSetup
      BY Zenon, <2>0, <3>1, <3>2 DEF AnaSetup
    <3> QED
      BY Zenon, <2>0, <3>1, <3>3 DEF AnaSetup
  <2>7. SourceCommits \/ CompareSnapshot => UNCHANGED aset
    BY DEF SourceCommits, CompareSnapshot
  <2>8. ASSUME NEW w \in AnaWriters, NEW v, Handle(w, v) \/ UpsertFacts(w) PROVE UNCHANGED aset
    BY <2>8 DEF Handle, UpsertFacts
  <2>9. ASSUME NEW w \in AnaWriters, AppendEvents(w) \/ SetWatermark(w) PROVE UNCHANGED aset
    BY <2>9 DEF AppendEvents, SetWatermark
  <2>10. RewriteFact \/ ScanEvents \/ RewriteEvent \/ RewriteEnds => UNCHANGED aset
    BY DEF RewriteFact, ScanEvents, RewriteEvent, RewriteEnds
  <2>11. UNCHANGED anaVars => UNCHANGED aset
    BY DEF anaVars
  <2>12. \A w \in Consumers : w \in AnaWriters
    BY DEF AnaWriters
  <2>13. \/ UNCHANGED aset \/ (\E w \in AnaWriters : WriteFails(w))
         \/ Backfill \/ ReadWatermarks \/ ScanFacts \/ PurgeTenant
    BY <2>7, <2>8, <2>9, <2>10, <2>11, <2>12 DEF AnaNext
  <2> QED
    BY <2>1, <2>2, <2>3, <2>4, <2>5, <2>6, <2>13
<1> QED
  BY <1>1 DEF Versions, Zero

LEMMA ProjectedType == ASSUME TypeInv, NEW v \in Versions PROVE Projected(v) \in Zero
  BY DEF Projected, Zero

LEMMA TypeInductive == ASSUME TypeInv, [AnaNext]_anaVars PROVE TypeInv'
<1> DEFINE L == Len(aset.log)
<1>0. /\ aset' \in AnaSetup /\ aset'.log = aset.log
      /\ Versions' = Versions /\ Zero' = Zero
  BY SetupKept
<1>a. L \in Nat /\ Versions = 1..L /\ Zero = 0..L
  <2>1. aset.log \in Seq({"put", "delete"})
    BY DEF TypeInv, AnaSetup
  <2> QED
    BY <2>1 DEF Versions, Zero
<1>b. /\ JobRecord' = JobRecord /\ FactRecord' = FactRecord /\ EventRecord' = EventRecord
      /\ RewriteRecord' = RewriteRecord
  BY <1>0 DEF JobRecord, FactRecord, EventRecord, RewriteRecord
<1>c. NoJob \in JobRecord /\ NoRewrite \in RewriteRecord
  BY DEF NoJob, JobRecord, NoRewrite, RewriteRecord, Zero
<1> USE <1>0, <1>a, <1>b, <1>c
<1>1. CASE SourceCommits
  BY <1>1 DEF SourceCommits, TypeInv
<1>2. ASSUME NEW w \in Consumers, NEW v \in todo, Handle(w, v) PROVE TypeInv'
  <2>1. w \in AnaWriters /\ v \in Versions
    BY DEF AnaWriters, TypeInv
  <2>2. Writing(v, "commit") \in JobRecord
    BY <2>1 DEF Writing, JobRecord
  <2>3. /\ job' = job \/ job' = [job EXCEPT ![w] = Writing(v, "commit")]
        /\ todo' \subseteq todo
    BY <1>2 DEF Handle
  <2>4. Writing(v, "commit").version = v
    BY DEF Writing
  <2>5. /\ job' \in [AnaWriters -> JobRecord] /\ todo' \subseteq Versions
        /\ \A x \in AnaWriters : job'[x].pc \in {"fact", "event", "mark"} => job'[x].version \in Versions
    BY <2>1, <2>2, <2>3, <2>4 DEF TypeInv
  <2> QED
    BY <1>2, <2>5 DEF Handle, TypeInv
<1>3. ASSUME NEW w \in AnaWriters, UpsertFacts(w) PROVE TypeInv'
  <2>1. job[w].version \in Versions
    BY <1>3 DEF UpsertFacts, TypeInv
  <2>2. Projected(job[w].version) \in Zero /\ OnFormerList(w, job[w].version) \in BOOLEAN
    BY <2>1, ProjectedType DEF OnFormerList
  <2>3. fact' \in FactRecord \cup {NoFact}
    <3>1. [version |-> job[w].version, payload |-> Projected(job[w].version),
           wide |-> OnFormerList(w, job[w].version)] \in FactRecord
      BY <2>1, <2>2 DEF FactRecord
    <3> QED
      BY <1>3, <3>1 DEF UpsertFacts, TypeInv
  <2>4. /\ job' \in [AnaWriters -> JobRecord]
        /\ \A x \in AnaWriters : job'[x].pc \in {"fact", "event", "mark"} => job'[x].version \in Versions
    BY Zenon, <1>3, <2>1 DEF UpsertFacts, TypeInv, JobRecord
  <2>5. narrow' \in BOOLEAN
    BY <1>3 DEF UpsertFacts
  <2> QED
    BY <1>3, <2>3, <2>4, <2>5 DEF UpsertFacts, TypeInv
<1>4. ASSUME NEW w \in AnaWriters, AppendEvents(w) PROVE TypeInv'
  <2>1. job[w].version \in Versions /\ job[w].at \in {"commit", "fill", "heal"}
    BY <1>4 DEF AppendEvents, TypeInv, JobRecord
  <2>2. OnFormerList(w, job[w].version) \in BOOLEAN
    BY DEF OnFormerList
  <2>3. history' \subseteq EventRecord
    BY <1>4, <2>1, <2>2 DEF AppendEvents, EventRecord, TypeInv
  <2>4. /\ job' \in [AnaWriters -> JobRecord]
        /\ \A x \in AnaWriters : job'[x].pc \in {"fact", "event", "mark"} => job'[x].version \in Versions
    BY <1>4, <2>1 DEF AppendEvents, TypeInv, JobRecord
  <2>5. narrow' \in BOOLEAN
    BY <1>4 DEF AppendEvents
  <2> QED
    BY <1>4, <2>3, <2>4, <2>5 DEF AppendEvents, TypeInv
<1>5. ASSUME NEW w \in AnaWriters, SetWatermark(w) PROVE TypeInv'
  <2>1. job[w].version \in Versions
    BY <1>5 DEF SetWatermark, TypeInv
  <2>2. /\ job' \in [AnaWriters -> JobRecord]
        /\ \A x \in AnaWriters : job'[x].pc \in {"fact", "event", "mark"} => job'[x].version \in Versions
    BY <1>5 DEF SetWatermark, TypeInv, NoJob
  <2>3. applied' \in Zero /\ healed' \in Zero /\ todo' \subseteq Versions
    <3>1. /\ applied' \in {applied, job[w].version} /\ healed' \in {healed, job[w].version}
          /\ todo' \subseteq todo
      BY <1>5 DEF SetWatermark
    <3> QED
      BY <2>1, <3>1 DEF TypeInv
  <2> QED
    BY <1>5, <2>2, <2>3 DEF SetWatermark, TypeInv
<1>6. ASSUME NEW w \in AnaWriters, WriteFails(w) PROVE TypeInv'
  BY <1>6 DEF WriteFails, TypeInv, NoJob
<1>7. CASE Backfill
  <2>1. Backfiller \in AnaWriters
    BY DEF AnaWriters
  <2>2. /\ job' = job \/ (Live /\ job' = [job EXCEPT ![Backfiller] = Writing(head, "fill")])
        /\ UNCHANGED <<head, todo, fact, history, applied, rewrite, healed, torn, mixed, narrow>>
    BY <1>7 DEF Backfill
  <2>3. Live => Writing(head, "fill") \in JobRecord /\ Writing(head, "fill").version \in Versions
    BY DEF Writing, JobRecord, Live, TypeInv
  <2>4. /\ job' \in [AnaWriters -> JobRecord]
        /\ \A x \in AnaWriters : job'[x].pc \in {"fact", "event", "mark"} => job'[x].version \in Versions
    BY <2>1, <2>2, <2>3 DEF TypeInv
  <2> QED
    BY <2>2, <2>4 DEF TypeInv
<1>8. CASE ReadWatermarks
  <2> DEFINE started == [pc |-> "compare", version |-> 0, at |-> "commit", have |-> applied]
  <2>1. Reconciler \in AnaWriters
    BY DEF AnaWriters
  <2>2. /\ job' = [job EXCEPT ![Reconciler] = started]
        /\ UNCHANGED <<head, todo, fact, history, applied, rewrite, healed, torn, mixed, narrow>>
    BY <1>8 DEF ReadWatermarks
  <2>3. started \in JobRecord /\ started.pc = "compare"
    BY DEF JobRecord, TypeInv
  <2> HIDE DEF started
  <2>4. /\ job' \in [AnaWriters -> JobRecord]
        /\ \A x \in AnaWriters : job'[x].pc \in {"fact", "event", "mark"} => job'[x].version \in Versions
    BY <2>1, <2>2, <2>3 DEF TypeInv
  <2> QED
    BY <2>2, <2>4 DEF TypeInv
<1>9. CASE CompareSnapshot
  <2>1. Reconciler \in AnaWriters
    BY DEF AnaWriters
  <2>2. /\ \/ job' = [job EXCEPT ![Reconciler] = NoJob]
           \/ Live /\ job' = [job EXCEPT ![Reconciler] = Writing(head, "heal")]
        /\ healed' \in {healed, head}
        /\ UNCHANGED <<head, todo, fact, history, applied, rewrite, torn, mixed, narrow>>
    BY Zenon, <1>9 DEF CompareSnapshot
  <2>3. Live => Writing(head, "heal") \in JobRecord /\ Writing(head, "heal").version \in Versions
    BY DEF Writing, JobRecord, Live, TypeInv
  <2>4. NoJob.pc = "idle"
    BY DEF NoJob
  <2>5. /\ job' \in [AnaWriters -> JobRecord] /\ healed' \in Zero
        /\ \A x \in AnaWriters : job'[x].pc \in {"fact", "event", "mark"} => job'[x].version \in Versions
    BY <2>1, <2>2, <2>3, <2>4 DEF TypeInv
  <2> QED
    BY <2>2, <2>5 DEF TypeInv
<1>10. CASE ScanFacts
  <2> DEFINE read == [pc |-> IF fact = NoFact THEN "scan" ELSE "fact",
                      payload |-> fact.payload, version |-> fact.version, todo |-> {}]
  <2>1. /\ rewrite' = read /\ narrow' = TRUE
        /\ UNCHANGED <<head, todo, fact, history, applied, job, healed, torn, mixed>>
    BY <1>10 DEF ScanFacts
  <2>2. fact.payload \in Zero /\ fact.version \in Zero /\ (fact # NoFact => fact.version \in Versions)
    BY DEF TypeInv, NoFact, FactRecord
  <2>3. read \in RewriteRecord /\ (read.pc = "fact" => read.version \in Versions)
    BY <2>2 DEF RewriteRecord
  <2> HIDE DEF read
  <2> QED
    BY <2>1, <2>3 DEF TypeInv
<1>11. CASE RewriteFact
  <2>1. fact' \in FactRecord \cup {NoFact}
    BY Zenon, <1>11 DEF RewriteFact, TypeInv, FactRecord, RewriteRecord
  <2>2. rewrite' \in RewriteRecord /\ rewrite'.pc = "scan" /\ mixed' \in BOOLEAN
    BY <1>11 DEF RewriteFact, NoRewrite, RewriteRecord
  <2> QED
    BY <1>11, <2>1, <2>2 DEF RewriteFact, TypeInv
<1>12. CASE ScanEvents \/ RewriteEnds
  <2>1. {e.version : e \in history} \subseteq Versions
    BY DEF TypeInv, EventRecord
  <2>2. CASE ScanEvents
    <3>1. rewrite' \in RewriteRecord /\ rewrite'.pc # "fact"
      BY <2>1, <2>2 DEF ScanEvents, RewriteRecord
    <3> QED
      BY <2>2, <3>1 DEF ScanEvents, TypeInv
  <2>3. CASE RewriteEnds
    <3>1. rewrite' \in RewriteRecord /\ rewrite'.pc # "fact"
      BY <2>3 DEF RewriteEnds, NoRewrite, RewriteRecord
    <3> QED
      BY <2>3, <3>1 DEF RewriteEnds, TypeInv
  <2> QED
    BY <1>12, <2>2, <2>3
<1>13. CASE RewriteEvent
  <2>1. PICK v \in rewrite.todo :
           /\ history' = {IF e.version = v THEN [e EXCEPT !.wide = FALSE] ELSE e : e \in history}
           /\ rewrite' = [rewrite EXCEPT !.todo = @ \ {v}]
    BY Zenon, <1>13 DEF RewriteEvent
  <2>2. \A e \in history : [e EXCEPT !.wide = FALSE] \in EventRecord /\ e \in EventRecord
    BY Zenon DEF TypeInv, EventRecord
  <2>3. rewrite' \in RewriteRecord /\ rewrite'.pc # "fact"
    BY <1>13, <2>1 DEF RewriteEvent, RewriteRecord, TypeInv
  <2> QED
    BY <1>13, <2>1, <2>2, <2>3 DEF RewriteEvent, TypeInv
<1>14. CASE PurgeTenant
  BY <1>14 DEF PurgeTenant, TypeInv
<1>15. CASE UNCHANGED anaVars
  BY <1>15 DEF anaVars, TypeInv
<1> QED
  BY <1>1, <1>2, <1>3, <1>4, <1>5, <1>6, <1>7, <1>8, <1>9, <1>10, <1>11, <1>12, <1>13, <1>14, <1>15
     DEF AnaNext

-----------------------------------------------------------------------------
(* The numbers the tables hold are natural numbers, and a writer that starts *)
(* or stops says nothing yet about the tables.                               *)
LEMMA Numbers ==
    ASSUME TypeInv
    PROVE  /\ fact.version \in Nat /\ applied \in Nat /\ healed \in Nat /\ head \in Nat
           /\ \A e \in history : e.version \in Nat
           /\ \A w \in AnaWriters : job[w].version \in Nat /\ job[w].have \in Nat
<1>1. aset.log \in Seq({"put", "delete"})
  BY DEF TypeInv, AnaSetup
<1>2. Versions \subseteq Nat /\ Zero \subseteq Nat
  BY <1>1 DEF Versions, Zero
<1>3. fact.version \in Nat
  <2>1. NoFact.version = 0
    BY DEF NoFact
  <2>2. \A f \in FactRecord : f.version \in Nat
    BY Zenon, <1>2 DEF FactRecord
  <2> QED
    BY <2>1, <2>2 DEF TypeInv
<1>4. applied \in Nat /\ healed \in Nat /\ head \in Nat
  BY <1>1, <1>2 DEF TypeInv
<1>5. \A e \in history : e.version \in Nat
  BY Zenon, <1>2 DEF TypeInv, EventRecord
<1>6. \A w \in AnaWriters : job[w].version \in Nat /\ job[w].have \in Nat
  BY Zenon, <1>2 DEF TypeInv, JobRecord
<1> QED
  BY <1>3, <1>4, <1>5, <1>6

LEMMA TablesUntouched ==
    ASSUME StepsInv, UNCHANGED <<history, applied, healed>>, fact'.version = fact.version,
           \A w \in AnaWriters : job'[w] = job[w] \/ job'[w].pc \in {"idle", "fact"}
    PROVE  StepsInv'
<1>1. Reconciler \in AnaWriters
  BY DEF AnaWriters
<1> QED
  BY <1>1 DEF StepsInv, Recorded

LEMMA StepsInductive ==
    ASSUME TypeInv, TypeInv', ~torn => StepsInv, ~torn', [AnaNext]_anaVars
    PROVE  StepsInv'
<1>a. /\ fact.version \in Nat /\ applied \in Nat /\ healed \in Nat /\ head \in Nat
      /\ \A e \in history : e.version \in Nat
      /\ \A w \in AnaWriters : job[w].version \in Nat /\ job[w].have \in Nat
  BY Numbers
<1>b. job \in [AnaWriters -> JobRecord] /\ Reconciler \in AnaWriters /\ Backfiller \in AnaWriters
  BY DEF TypeInv, AnaWriters
<1>c. NoJob.pc = "idle" /\ \A v, at : Writing(v, at).pc = "fact"
  BY DEF NoJob, Writing
<1>1. CASE SourceCommits
  BY <1>1, TablesUntouched DEF SourceCommits
<1>2. ASSUME NEW w \in Consumers, NEW v \in todo, Handle(w, v) PROVE StepsInv'
  <2>1. /\ job' = job \/ job' = [job EXCEPT ![w] = Writing(v, "commit")]
        /\ UNCHANGED <<fact, history, applied, healed, torn>>
    BY <1>2 DEF Handle
  <2>2. \A x \in AnaWriters : job'[x] = job[x] \/ job'[x].pc \in {"idle", "fact"}
    BY <2>1, <1>b, <1>c
  <2> QED
    BY <2>1, <2>2, TablesUntouched
<1>3. ASSUME NEW w \in AnaWriters, UpsertFacts(w) PROVE StepsInv'
  <2>1. /\ job' = [job EXCEPT ![w].pc = "event"]
        /\ UNCHANGED <<history, applied, healed, torn>>
    BY <1>3 DEF UpsertFacts
  <2>2. fact'.version >= fact.version /\ fact'.version >= job[w].version /\ fact'.version \in Nat
    BY <1>3, <1>a DEF UpsertFacts
  <2>3. /\ \A x \in AnaWriters : x # w => job'[x] = job[x]
        /\ job'[w].pc = "event" /\ job'[w].version = job[w].version
    BY <2>1, <1>b DEF JobRecord
  <2> QED
    BY <2>1, <2>2, <2>3, <1>a, <1>b DEF StepsInv, Recorded
<1>4. ASSUME NEW w \in AnaWriters, AppendEvents(w) PROVE StepsInv'
  <2>1. /\ job[w].pc = "event" /\ job' = [job EXCEPT ![w].pc = "mark"]
        /\ UNCHANGED <<fact, applied, healed, torn>>
    BY <1>4 DEF AppendEvents
  <2>2. job[w].version <= fact.version
    BY <2>1 DEF StepsInv
  <2>3. /\ history \subseteq history'
        /\ \A e \in history' : e \in history \/ e.version = job[w].version
        /\ \E e \in history' : e.version = job[w].version
    <3> DEFINE new == [version |-> job[w].version, at |-> job[w].at, wide |-> OnFormerList(w, job[w].version)]
    <3>1. \/ history' = history /\ \E e \in history : SameEvent(e, job[w].version, job[w].at)
          \/ history' = history \cup {new}
      BY <1>4 DEF AppendEvents
    <3>2. new.version = job[w].version
      OBVIOUS
    <3> HIDE DEF new
    <3> QED
      BY <3>1, <3>2 DEF SameEvent
  <2>4. /\ \A x \in AnaWriters : x # w => job'[x] = job[x]
        /\ job'[w].pc = "mark" /\ job'[w].version = job[w].version
    BY <2>1, <1>b DEF JobRecord
  <2> QED
    BY <2>1, <2>2, <2>3, <2>4, <1>b DEF StepsInv, Recorded
<1>5. ASSUME NEW w \in AnaWriters, SetWatermark(w) PROVE StepsInv'
  <2>1. /\ job[w].pc = "mark" /\ job' = [job EXCEPT ![w] = NoJob]
        /\ UNCHANGED <<fact, history, torn>>
        /\ applied' = IF job[w].version > applied THEN job[w].version ELSE applied
        /\ healed' \in {healed, job[w].version}
    BY <1>5 DEF SetWatermark
  <2>2. job[w].version <= fact.version /\ Recorded(job[w].version)
    BY <2>1 DEF StepsInv
  <2>3. applied' >= applied /\ applied' >= job[w].version /\ applied' \in {applied, job[w].version}
    BY <2>1, <1>a
  <2>4. \A x \in AnaWriters : job'[x] = job[x] \/ job'[x].pc = "idle"
    BY <2>1, <1>b, <1>c
  <2> QED
    BY <2>1, <2>2, <2>3, <2>4, <1>a, <1>b DEF StepsInv, Recorded
<1>6. ASSUME NEW w \in AnaWriters, WriteFails(w) PROVE StepsInv'
  <2>1. /\ job' = [job EXCEPT ![w] = NoJob]
        /\ UNCHANGED <<fact, history, applied, healed, torn>>
    BY <1>6 DEF WriteFails
  <2>2. \A x \in AnaWriters : job'[x] = job[x] \/ job'[x].pc \in {"idle", "fact"}
    BY <2>1, <1>b, <1>c
  <2> QED
    BY <2>1, <2>2, TablesUntouched
<1>7. CASE Backfill
  <2>1. /\ job' = job \/ job' = [job EXCEPT ![Backfiller] = Writing(head, "fill")]
        /\ UNCHANGED <<fact, history, applied, healed, torn>>
    BY <1>7 DEF Backfill
  <2>2. \A x \in AnaWriters : job'[x] = job[x] \/ job'[x].pc \in {"idle", "fact"}
    BY <2>1, <1>b, <1>c
  <2> QED
    BY <2>1, <2>2, TablesUntouched
<1>8. CASE ReadWatermarks
  <2> DEFINE started == [pc |-> "compare", version |-> 0, at |-> "commit", have |-> applied]
  <2>1. /\ job' = [job EXCEPT ![Reconciler] = started]
        /\ UNCHANGED <<fact, history, applied, healed, torn>>
    BY <1>8 DEF ReadWatermarks
  <2>2. started.pc = "compare" /\ started.have = applied
    OBVIOUS
  <2> HIDE DEF started
  <2>3. /\ \A x \in AnaWriters : x # Reconciler => job'[x] = job[x]
        /\ job'[Reconciler].pc = "compare" /\ job'[Reconciler].have = applied
    BY <2>1, <2>2, <1>b
  <2> QED
    BY <2>1, <2>3, <1>a, <1>b DEF StepsInv, Recorded
<1>9. CASE CompareSnapshot
  <2> DEFINE have == job[Reconciler].have
  <2>1. /\ job[Reconciler].pc = "compare"
        /\ \/ job' = [job EXCEPT ![Reconciler] = NoJob]
           \/ job' = [job EXCEPT ![Reconciler] = Writing(head, "heal")]
        /\ healed' = healed \/ (healed' = head /\ ~Drifted(have, head))
        /\ UNCHANGED <<fact, history, applied, torn>>
    BY Zenon, <1>9 DEF CompareSnapshot
  <2>2. \A x \in AnaWriters : job'[x] = job[x] \/ job'[x].pc \in {"idle", "fact"}
    BY <2>1, <1>b, <1>c
  <2>3. healed' <= applied /\ healed' <= fact.version
    <3>1. CASE healed' = healed
      BY <2>1, <3>1 DEF StepsInv
    <3>2. CASE healed' = head /\ ~Drifted(have, head)
      <4>1. have > 0 /\ head <= have
        BY <3>2, <1>a, <1>b DEF Drifted
      <4>2. have <= applied
        BY <2>1 DEF StepsInv
      <4>3. PICK e \in history : e.version = applied
        BY <4>1, <4>2, <2>1, <1>a, <1>b DEF StepsInv, Recorded
      <4>4. applied <= fact.version
        BY <4>3, <2>1 DEF StepsInv
      <4> QED
        BY <3>2, <4>1, <4>2, <4>4, <1>a, <1>b
    <3> QED
      BY <2>1, <3>1, <3>2
  <2> QED
    BY <2>1, <2>2, <2>3, <1>b DEF StepsInv, Recorded
<1>10. CASE ScanFacts \/ ScanEvents \/ RewriteEnds
  <2>1. UNCHANGED <<fact, history, applied, healed, torn, job>>
    BY <1>10 DEF ScanFacts, ScanEvents, RewriteEnds
  <2> QED
    BY <2>1, TablesUntouched
<1>11. CASE RewriteFact
  <2>1. UNCHANGED <<history, applied, healed, torn, job>>
    BY <1>11 DEF RewriteFact
  <2>2. fact'.version = fact.version
    BY <1>11 DEF RewriteFact, TypeInv, FactRecord
  <2> QED
    BY <2>1, <2>2, TablesUntouched
<1>12. CASE RewriteEvent
  <2>1. PICK v \in rewrite.todo :
           history' = {IF e.version = v THEN [e EXCEPT !.wide = FALSE] ELSE e : e \in history}
    BY Zenon, <1>12 DEF RewriteEvent
  <2>2. UNCHANGED <<fact, applied, healed, torn, job>>
    BY <1>12 DEF RewriteEvent
  <2>3. \A e \in history : [e EXCEPT !.wide = FALSE].version = e.version
    BY DEF TypeInv, EventRecord
  <2>4. /\ \A f \in history' : \E e \in history : f.version = e.version
        /\ \A e \in history : \E f \in history' : f.version = e.version
    BY Zenon, <2>1, <2>3
  <2> QED
    BY <2>2, <2>4 DEF StepsInv, Recorded
<1>13. CASE PurgeTenant
  <2>1. /\ fact' = NoFact /\ history' = {} /\ applied' = 0 /\ healed' = 0 /\ UNCHANGED job
        /\ torn' = (torn \/ \E w \in AnaWriters : job[w].pc \in {"event", "mark", "compare"})
    BY <1>13 DEF PurgeTenant
  <2>2. \A w \in AnaWriters : job[w].pc \notin {"event", "mark", "compare"}
    BY Zenon, <2>1
  <2>3. NoFact.version = 0
    BY DEF NoFact
  <2> QED
    BY <2>1, <2>2, <2>3, <1>b DEF StepsInv, Recorded
<1>14. CASE UNCHANGED anaVars
  <2>1. UNCHANGED <<fact, history, applied, healed, torn, job>>
    BY <1>14 DEF anaVars
  <2> QED
    BY <2>1, TablesUntouched
<1> QED
  BY <1>1, <1>2, <1>3, <1>4, <1>5, <1>6, <1>7, <1>8, <1>9, <1>10, <1>11, <1>12, <1>13, <1>14
     DEF AnaNext

-----------------------------------------------------------------------------
(* A reprojection carries the payload it read, and where no version came in  *)
(* between the payload is still the fact's own.                              *)
LEMMA PayloadInductive ==
    ASSUME TypeInv, ~mixed => PayloadInv, ~mixed', [AnaNext]_anaVars
    PROVE  PayloadInv'
<1>a. aset'.log = aset.log
  BY SetupKept
<1>1. ASSUME UNCHANGED <<fact, rewrite, mixed>> PROVE PayloadInv'
  BY <1>a, <1>1 DEF PayloadInv, Projected
<1>2. ASSUME NEW w \in AnaWriters, UpsertFacts(w) PROVE PayloadInv'
  <2> DEFINE v == job[w].version
             new == [version |-> v, payload |-> Projected(v), wide |-> OnFormerList(w, v)]
  <2>1. fact' \in {fact, new} /\ UNCHANGED <<rewrite, mixed>>
    BY <1>2 DEF UpsertFacts
  <2>2. new.payload = Projected(new.version)
    OBVIOUS
  <2> HIDE DEF new
  <2>3. fact' # NoFact => fact'.payload = Projected(fact'.version)
    BY <2>1, <2>2 DEF PayloadInv
  <2> QED
    BY <2>1, <2>3, <1>a DEF PayloadInv, Projected
<1>3. CASE ScanFacts
  <2> DEFINE read == [pc |-> IF fact = NoFact THEN "scan" ELSE "fact",
                      payload |-> fact.payload, version |-> fact.version, todo |-> {}]
  <2>1. rewrite' = read /\ UNCHANGED <<fact, mixed>>
    BY <1>3 DEF ScanFacts
  <2>2. read.pc = "fact" => fact # NoFact /\ read.payload = fact.payload /\ read.version = fact.version
    OBVIOUS
  <2> HIDE DEF read
  <2> QED
    BY <2>1, <2>2, <1>a DEF PayloadInv, Projected
<1>4. CASE RewriteFact
  <2>1. /\ rewrite.pc = "fact"
        /\ fact' = IF fact = NoFact THEN fact ELSE [fact EXCEPT !.payload = rewrite.payload, !.wide = FALSE]
        /\ mixed' = (mixed \/ (fact # NoFact /\ fact.version # rewrite.version))
        /\ rewrite' = [NoRewrite EXCEPT !.pc = "scan"]
    BY <1>4 DEF RewriteFact
  <2>2. rewrite'.pc # "fact"
    BY <2>1 DEF NoRewrite
  <2>3. ASSUME fact # NoFact PROVE fact'.payload = Projected(fact'.version)
    <3>1. fact'.payload = rewrite.payload /\ fact'.version = fact.version
      BY <2>1, <2>3 DEF TypeInv, FactRecord
    <3> QED
      BY Zenon, <2>1, <2>3, <3>1 DEF PayloadInv
  <2>4. fact = NoFact => fact' = NoFact
    BY <2>1
  <2> QED
    BY <2>2, <2>3, <2>4, <1>a DEF PayloadInv, Projected
<1>5. CASE ScanEvents
  <2>1. rewrite'.pc = "events" /\ UNCHANGED <<fact, mixed>>
    BY <1>5 DEF ScanEvents
  <2> QED
    BY <2>1, <1>a DEF PayloadInv, Projected
<1>6. CASE RewriteEvent
  <2>1. rewrite'.pc = "events" /\ UNCHANGED <<fact, mixed>>
    BY <1>6 DEF RewriteEvent, TypeInv, RewriteRecord
  <2> QED
    BY <2>1, <1>a DEF PayloadInv, Projected
<1>7. CASE RewriteEnds
  <2>1. rewrite'.pc = "done" /\ UNCHANGED <<fact, mixed>>
    BY <1>7 DEF RewriteEnds, NoRewrite
  <2> QED
    BY <2>1, <1>a DEF PayloadInv, Projected
<1>8. CASE PurgeTenant
  <2>1. fact' = NoFact /\ UNCHANGED <<rewrite, mixed>>
    BY <1>8 DEF PurgeTenant
  <2> QED
    BY <2>1, <1>a DEF PayloadInv, Projected
<1>9. ASSUME NEW w, NEW v, Handle(w, v) \/ AppendEvents(w) \/ SetWatermark(w) \/ WriteFails(w)
      PROVE  PayloadInv'
  <2>1. UNCHANGED <<fact, rewrite, mixed>>
    BY <1>9 DEF Handle, AppendEvents, SetWatermark, WriteFails
  <2> QED
    BY <2>1, <1>1
<1>10. CASE SourceCommits \/ Backfill \/ ReadWatermarks \/ CompareSnapshot \/ UNCHANGED anaVars
  <2>1. UNCHANGED <<fact, rewrite, mixed>>
    BY <1>10 DEF SourceCommits, Backfill, ReadWatermarks, CompareSnapshot, anaVars
  <2> QED
    BY <2>1, <1>1
<1> QED
  BY <1>2, <1>3, <1>4, <1>5, <1>6, <1>7, <1>8, <1>9, <1>10 DEF AnaNext

(* Behind the reprojection only payloads of the current allow-list are left, *)
(* and what is still wide is in front of it.                                 *)
LEMMA NarrowInductive ==
    ASSUME TypeInv, narrow => NarrowInv, narrow', [AnaNext]_anaVars
    PROVE  NarrowInv'
<1>1. ASSUME UNCHANGED <<fact, history, rewrite, narrow>> PROVE NarrowInv'
  BY <1>1 DEF NarrowInv
<1>2. ASSUME NEW w \in AnaWriters, UpsertFacts(w) PROVE NarrowInv'
  <2> DEFINE v == job[w].version
             new == [version |-> v, payload |-> Projected(v), wide |-> OnFormerList(w, v)]
  <2>1. /\ fact' \in {fact, new} /\ UNCHANGED <<rewrite, history>>
        /\ narrow' = (narrow /\ w \notin aset.wide)
    BY Zenon, <1>2 DEF UpsertFacts
  <2>2. w \notin aset.wide => ~new.wide
    BY Zenon DEF OnFormerList
  <2> HIDE DEF new
  <2> QED
    BY Zenon, <2>1, <2>2 DEF NarrowInv
<1>3. ASSUME NEW w \in AnaWriters, AppendEvents(w) PROVE NarrowInv'
  <2> DEFINE v == job[w].version
             new == [version |-> v, at |-> job[w].at, wide |-> OnFormerList(w, v)]
  <2>1. /\ history' = history \/ history' = history \cup {new}
        /\ narrow' = (narrow /\ w \notin aset.wide) /\ UNCHANGED <<rewrite, fact>>
    BY Zenon, <1>3 DEF AppendEvents
  <2>2. w \notin aset.wide => ~new.wide
    BY Zenon DEF OnFormerList
  <2> HIDE DEF new
  <2> QED
    BY Zenon, <2>1, <2>2 DEF NarrowInv
<1>4. CASE ScanFacts
  <2>1. /\ rewrite' = [pc |-> IF fact = NoFact THEN "scan" ELSE "fact",
                       payload |-> fact.payload, version |-> fact.version, todo |-> {}]
        /\ UNCHANGED <<fact, history>>
    BY <1>4 DEF ScanFacts
  <2>2. rewrite'.pc = "fact" \/ (rewrite'.pc = "scan" /\ fact = NoFact)
    BY <2>1
  <2>3. ~NoFact.wide
    BY DEF NoFact
  <2> QED
    BY <2>1, <2>2, <2>3 DEF NarrowInv
<1>5. CASE RewriteFact
  <2>1. /\ fact' = IF fact = NoFact THEN fact ELSE [fact EXCEPT !.payload = rewrite.payload, !.wide = FALSE]
        /\ rewrite' = [NoRewrite EXCEPT !.pc = "scan"]
    BY <1>5 DEF RewriteFact
  <2>2. rewrite'.pc = "scan"
    BY <2>1 DEF NoRewrite
  <2>3. ~fact'.wide
    BY <2>1 DEF TypeInv, FactRecord, NoFact
  <2> QED
    BY <2>2, <2>3 DEF NarrowInv
<1>6. CASE ScanEvents
  <2>1. /\ rewrite'.pc = "events" /\ rewrite'.todo = {e.version : e \in history}
        /\ rewrite.pc = "scan" /\ UNCHANGED <<fact, history, narrow>>
    BY Zenon, <1>6 DEF ScanEvents
  <2> QED
    BY <2>1 DEF NarrowInv
<1>7. CASE RewriteEvent
  <2>1. PICK v \in rewrite.todo :
           /\ history' = {IF e.version = v THEN [e EXCEPT !.wide = FALSE] ELSE e : e \in history}
           /\ rewrite' = [rewrite EXCEPT !.todo = @ \ {v}]
    BY Zenon, <1>7 DEF RewriteEvent
  <2>2. rewrite.pc = "events" /\ UNCHANGED <<fact, narrow>>
    BY Zenon, <1>7 DEF RewriteEvent
  <2>3. rewrite'.pc = "events" /\ rewrite'.todo = rewrite.todo \ {v}
    BY <2>1, <2>2 DEF TypeInv, RewriteRecord
  <2>4. \A e \in history : ~[e EXCEPT !.wide = FALSE].wide
    BY DEF TypeInv, EventRecord
  <2>5. \A f \in history' : f.wide => f \in history /\ f.version # v
    BY Zenon, <2>1, <2>4
  <2> QED
    BY <2>2, <2>3, <2>5 DEF NarrowInv
<1>8. CASE RewriteEnds
  <2>1. /\ rewrite.pc = "events" /\ rewrite.todo = {} /\ rewrite'.pc = "done"
        /\ UNCHANGED <<fact, history, narrow>>
    BY Zenon, <1>8 DEF RewriteEnds, NoRewrite
  <2> QED
    BY <2>1 DEF NarrowInv
<1>9. CASE PurgeTenant
  <2>1. fact' = NoFact /\ history' = {} /\ UNCHANGED <<rewrite, narrow>>
    BY Zenon, <1>9 DEF PurgeTenant
  <2>2. ~NoFact.wide
    BY DEF NoFact
  <2> QED
    BY <2>1, <2>2 DEF NarrowInv
<1>10. ASSUME NEW w, NEW v, Handle(w, v) \/ SetWatermark(w) \/ WriteFails(w) PROVE NarrowInv'
  <2>1. UNCHANGED <<fact, history, rewrite, narrow>>
    BY Zenon, <1>10 DEF Handle, SetWatermark, WriteFails
  <2> QED
    BY <2>1, <1>1
<1>11. CASE SourceCommits \/ Backfill \/ ReadWatermarks \/ CompareSnapshot \/ UNCHANGED anaVars
  <2>1. UNCHANGED <<fact, history, rewrite, narrow>>
    BY Zenon, <1>11 DEF SourceCommits, Backfill, ReadWatermarks, CompareSnapshot, anaVars
  <2> QED
    BY <2>1, <1>1
<1> QED
  BY <1>2, <1>3, <1>4, <1>5, <1>6, <1>7, <1>8, <1>9, <1>10, <1>11 DEF AnaNext

-----------------------------------------------------------------------------
(* Whoever writes the analytics store, in whatever order, however often a    *)
(* write is repeated or cut short: no event of the history is newer than the *)
(* fact, the watermark is in the history, a fact holds the payload of its    *)
(* version, a whole reconcile pass leaves no older row and a finished        *)
(* reprojection no stripped field (Consumer.write, sink.go, Reconciler,      *)
(* Reprojector).  For every log, group of consumers and number of jobs.      *)
THEOREM FactsAlwaysKept == AnaSpec => []FactsKept
<1>1. AnaInit => AnaInv
  <2> SUFFICES ASSUME AnaInit PROVE AnaInv
    OBVIOUS
  <2>1. aset \in AnaSetup /\ aset.log \in Seq({"put", "delete"})
    BY AnalyticsAssumption DEF AnaInit, AnaSetup
  <2>2. NoJob \in JobRecord /\ NoJob.pc = "idle"
    BY DEF NoJob, JobRecord, Zero
  <2>3. NoRewrite \in RewriteRecord /\ NoRewrite.pc = "idle"
    BY DEF NoRewrite, RewriteRecord, Zero
  <2>4. 0 \in 0..Len(aset.log) /\ 0 \in Zero
    BY <2>1 DEF Zero
  <2>5. \A w \in AnaWriters : job[w] = NoJob
    BY DEF AnaInit
  <2>6. TypeInv
    BY Zenon, <2>1, <2>2, <2>3, <2>4 DEF AnaInit, TypeInv
  <2>7. Reconciler \in AnaWriters /\ NoFact.version = 0
    BY DEF AnaWriters, NoFact
  <2>8. StepsInv
    BY <2>2, <2>5, <2>7 DEF AnaInit, StepsInv
  <2>9. PayloadInv /\ NarrowInv
    BY <2>3 DEF AnaInit, PayloadInv, NarrowInv
  <2> QED
    BY <2>6, <2>8, <2>9 DEF AnaInv
<1>2. AnaInv /\ [AnaNext]_anaVars => AnaInv'
  <2> SUFFICES ASSUME AnaInv, [AnaNext]_anaVars PROVE AnaInv'
    OBVIOUS
  <2>1. TypeInv'
    BY TypeInductive DEF AnaInv
  <2>2. ASSUME ~torn' PROVE StepsInv'
    BY <2>1, <2>2, StepsInductive DEF AnaInv
  <2>3. ASSUME ~mixed' PROVE PayloadInv'
    BY <2>3, PayloadInductive DEF AnaInv
  <2>4. ASSUME narrow' PROVE NarrowInv'
    BY <2>4, NarrowInductive DEF AnaInv
  <2> QED
    BY <2>1, <2>2, <2>3, <2>4 DEF AnaInv
<1>3. AnaInv => FactsKept
  <2> SUFFICES ASSUME AnaInv PROVE FactsKept
    OBVIOUS
  <2>1. AnaTypeOK
    BY DEF AnaInv, TypeInv, AnaTypeOK, JobRecord, RewriteRecord, FactRecord, EventRecord, Zero
  <2>2. /\ fact.version \in Nat /\ applied \in Nat /\ healed \in Nat
        /\ \A e \in history : e.version \in Nat
    BY Numbers DEF AnaInv
  <2>3. TablesAgree /\ ReconcileHeals
    BY <2>2 DEF AnaInv, StepsInv, Recorded, TablesAgree, ReconcileHeals
  <2>4. FactHoldsItsVersion /\ Narrowed
    BY DEF AnaInv, PayloadInv, NarrowInv, FactHoldsItsVersion, Narrowed
  <2> QED
    BY <2>1, <2>3, <2>4 DEF FactsKept
<1> QED
  BY <1>1, <1>2, <1>3, PTL DEF AnaSpec
=============================================================================
