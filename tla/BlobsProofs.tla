----------------------------- MODULE BlobsProofs ----------------------------
(* The blob plane, for any number of contents and of concurrent puts.  What  *)
(* a pass reads is old when it acts on it; what saves the bytes is the age   *)
(* of the entry: a put that did not find the row has made everything young,  *)
(* and nothing grows old while it or the pass runs, so an entry the pass     *)
(* collects was there, unreferred to, before any put it does not know of.    *)
EXTENDS Blobs, TLAPS

RowRecord == [there : BOOLEAN, count : Nat, old : BOOLEAN]
BytesRecord == [there : BOOLEAN, old : BOOLEAN]
PutRecord == [pc : {"idle", "row", "create"}, h : Hashes \cup {0}, src : Sources, found : BOOLEAN]
SinceRecord == [found : SUBSET Hashes, wrote : SUBSET Hashes, any : BOOLEAN]

(* The pass's counts once it has read them, and its rows once it has those.  *)
Counted == pass.pc \in {"ledger", "walk", "row", "orphans", "end"}
Listed == pass.pc \in {"walk", "row", "orphans", "end"}
Walks == pass.pc \in {"walk", "row"}

PassPcs == {"idle", "ledger", "walk", "row", "orphans", "end"}
PassRecord == [pc : PassPcs, truth : [Hashes -> Nat] \cup {<<>>}, rows : [Hashes -> RowRecord] \cup {<<>>},
               todo : SUBSET Hashes, h : Hashes \cup {0}, broken : SUBSET Hashes]

PassType ==
    /\ pass \in PassRecord
    /\ Counted => pass.truth \in [Hashes -> Nat]
    /\ Listed => pass.rows \in [Hashes -> RowRecord] /\ \A h \in Hashes : pass.rows[h].old => pass.rows[h].there
    /\ pass.pc = "row" => pass.h \in pass.todo

BlobsType ==
    /\ bset \in BlobSetup
    /\ ledger \in [Hashes -> RowRecord] /\ bytes \in [Hashes -> BytesRecord]
    /\ refs \in [Sources -> [Hashes -> Nat]] /\ put \in [Putters -> PutRecord]
    /\ \A h \in Hashes : (ledger[h].old => ledger[h].there) /\ (bytes[h].old => bytes[h].there)
    /\ \A p \in Putters : put[p].pc # "idle" => put[p].h \in Hashes
    /\ \A p \in Putters : put[p].pc = "idle" => ~put[p].found
    /\ since \in SinceRecord

Puts(h) == {p \in Putters : put[p].pc # "idle" /\ put[p].h = h}
HalfCollected(h) == pass.pc = "row" /\ pass.h = h

(* What a put under way has made sure of.                                    *)
PutInv ==
    \A h \in Hashes : \A p \in Puts(h) :
        /\ ~put[p].found => ~ledger[h].old
        /\ put[p].pc = "row" => ~bytes[h].old
        /\ h \notin blame => bytes[h].there /\ (put[p].pc = "create" => ledger[h].there)

(* What nobody is to blame for is there.                                     *)
KeptInv ==
    \A h \in Hashes :
        h \notin blame => /\ Referred(h) > 0 => ledger[h].there /\ bytes[h].there
                          /\ ledger[h].there /\ ~HalfCollected(h) => bytes[h].there
                          /\ HalfCollected(h) => Referred(h) = 0 /\ Puts(h) = {}

(* What the pass read holds of what it has still to do.                      *)
SightInv ==
    \A h \in Hashes :
        /\ Counted /\ pass.truth[h] = 0 /\ ledger[h].old /\ h \notin since.found => Referred(h) = 0
        /\ Walks /\ h \in pass.todo => /\ pass.rows[h].there /\ ledger[h].there
                                       /\ pass.rows[h].old => ledger[h].old
        /\ Walks /\ ~pass.rows[h].there /\ ledger[h].there => ~bytes[h].old
        /\ pass.pc = "orphans" /\ h \in pass.todo /\ h \notin since.wrote
             => /\ \A p \in Puts(h) : put[p].pc # "row"
                /\ h \notin blame => ~ledger[h].there /\ Referred(h) = 0 /\ Puts(h) = {}

(* A row the quiet pass has been through.                                    *)
Through(h) ==
    IF Collects(h) THEN ~ledger[h].there /\ ~bytes[h].there /\ h \notin pass.broken
    ELSE /\ ledger[h].there /\ ledger[h].old = pass.rows[h].old
         /\ pass.truth[h] > 0 => ledger[h].count = pass.truth[h]
         /\ h \in pass.broken <=> pass.truth[h] > 0 /\ ~bytes[h].there

QuietInv ==
    Counted /\ ~since.any =>
        \A h \in Hashes :
            /\ pass.truth[h] = Referred(h)
            /\ ~Listed => h \notin pass.broken
            /\ Listed /\ ~pass.rows[h].there => ~ledger[h].there
            /\ Walks => /\ h \in pass.todo => /\ pass.rows[h].there /\ ledger[h] = pass.rows[h] /\ h \notin pass.broken
                                              /\ HalfCollected(h) => Collects(h) /\ ~bytes[h].there
                        /\ h \notin pass.todo => IF pass.rows[h].there THEN Through(h) ELSE h \notin pass.broken
            /\ pass.pc \in {"orphans", "end"} =>
                  /\ pass.rows[h].there => Through(h) /\ h \notin pass.todo
                  /\ ~pass.rows[h].there => /\ h \in pass.broken <=> pass.truth[h] > 0
                                            /\ bytes[h].old => h \in pass.todo
            /\ pass.pc = "end" => h \notin pass.todo

BlobsInv == BlobsType /\ PassType /\ PutInv /\ KeptInv /\ SightInv /\ QuietInv

LEMMA BlobTypes ==
    ASSUME BlobsInv
    PROVE  /\ bset \in BlobSetup /\ pass \in PassRecord /\ since \in SinceRecord
           /\ ledger \in [Hashes -> RowRecord] /\ bytes \in [Hashes -> BytesRecord] /\ put \in [Putters -> PutRecord]
           /\ \A h \in Hashes : /\ ledger[h] \in RowRecord /\ ledger[h].there \in BOOLEAN /\ ledger[h].old \in BOOLEAN
                                /\ ledger[h].count \in Nat /\ bytes[h] \in BytesRecord /\ bytes[h].there \in BOOLEAN
                                /\ bytes[h].old \in BOOLEAN /\ Referred(h) \in Nat
                                /\ refs["object"][h] \in Nat /\ refs["summary"][h] \in Nat
           /\ \A p \in Putters : /\ put[p] \in PutRecord /\ put[p].pc \in {"idle", "row", "create"}
                                 /\ put[p].src \in Sources /\ put[p].found \in BOOLEAN
                                 /\ put[p].pc # "idle" => put[p].h \in Hashes
           /\ since.found \in SUBSET Hashes /\ since.wrote \in SUBSET Hashes /\ since.any \in BOOLEAN
           /\ pass.pc \in PassPcs /\ pass.todo \in SUBSET Hashes /\ pass.broken \in SUBSET Hashes
<1>1. BlobsType /\ PassType
  BY Zenon DEF BlobsInv
<1>2. /\ bset \in BlobSetup /\ pass \in PassRecord /\ since \in SinceRecord
      /\ ledger \in [Hashes -> RowRecord] /\ bytes \in [Hashes -> BytesRecord] /\ put \in [Putters -> PutRecord]
      /\ refs \in [Sources -> [Hashes -> Nat]]
      /\ \A p \in Putters : put[p].pc # "idle" => put[p].h \in Hashes
  BY Zenon, <1>1 DEF BlobsType, PassType
<1>3. \A h \in Hashes : /\ ledger[h].there \in BOOLEAN /\ ledger[h].old \in BOOLEAN /\ ledger[h].count \in Nat
                        /\ bytes[h].there \in BOOLEAN /\ bytes[h].old \in BOOLEAN
                        /\ ledger[h] \in RowRecord /\ bytes[h] \in BytesRecord
  BY Zenon, <1>2 DEF RowRecord, BytesRecord
<1>4. \A h \in Hashes : refs["object"][h] \in Nat /\ refs["summary"][h] \in Nat
  BY Zenon, <1>2 DEF Sources
<1>5. \A h \in Hashes : Referred(h) \in Nat
  BY <1>4 DEF Referred
<1>6. \A p \in Putters : /\ put[p] \in PutRecord /\ put[p].pc \in {"idle", "row", "create"}
                         /\ put[p].src \in Sources /\ put[p].found \in BOOLEAN
  BY Zenon, <1>2 DEF PutRecord
<1>7. /\ since.found \in SUBSET Hashes /\ since.wrote \in SUBSET Hashes /\ since.any \in BOOLEAN
  BY Zenon, <1>2 DEF SinceRecord
<1>8. pass.pc \in PassPcs /\ pass.todo \in SUBSET Hashes /\ pass.broken \in SUBSET Hashes
  BY Zenon, <1>2 DEF PassRecord
<1> QED
  BY Zenon, <1>2, <1>3, <1>4, <1>5, <1>6, <1>7, <1>8

LEMMA TouchedSince ==
    ASSUME since \in SinceRecord
    PROVE  Touched \in SinceRecord /\ Touched.any /\ Touched.found = since.found /\ Touched.wrote = since.wrote
  BY Zenon DEF Touched, SinceRecord

(* A put starts.                                                             *)
LEMMA StoreFindsKeeps ==
    ASSUME BlobsInv, NEW p \in Putters, NEW h \in Hashes, NEW s \in Sources, StoreFinds(p, h, s)
    PROVE  BlobsInv'
<1> DEFINE c == [pc |-> "create", h |-> h, src |-> s, found |-> TRUE]
           row == [ledger[h] EXCEPT !.count = @ + 1]
<1>1. /\ put[p].pc = "idle" /\ ledger[h].there
      /\ put' = [put EXCEPT ![p] = c] /\ since' = Touched
      /\ blame' = IF HalfCollected(h) THEN blame \cup {h} ELSE blame
      /\ UNCHANGED <<bytes, refs, pass>>
  BY Zenon DEF StoreFinds, HalfCollected
<1>2. bset' \in BlobSetup
  BY BlobTypes DEF StoreFinds, BlobSetup
<1>3. ledger' = [ledger EXCEPT ![h] = row]
  BY Zenon, BlobTypes DEF StoreFinds, RowRecord
<1>4. /\ row \in RowRecord /\ row.there = ledger[h].there /\ row.old = ledger[h].old
  BY BlobTypes DEF RowRecord
<1> HIDE DEF row
<1>5. /\ ledger' \in [Hashes -> RowRecord]
      /\ \A g \in Hashes : ledger'[g].there = ledger[g].there /\ ledger'[g].old = ledger[g].old
  BY Zenon, <1>3, <1>4, BlobTypes
<1>6. /\ c \in PutRecord /\ c.pc = "create" /\ c.h = h /\ c.found
  BY Zenon DEF PutRecord
<1> HIDE DEF c
<1>7. put' \in [Putters -> PutRecord] /\ \A q \in Putters : put'[q] = IF q = p THEN c ELSE put[q]
  BY Zenon, <1>1, <1>6, BlobTypes
<1>8. since' \in SinceRecord /\ since'.any /\ since'.found = since.found /\ since'.wrote = since.wrote
  BY Zenon, <1>1, TouchedSince, BlobTypes
<1>9. \A g \in Hashes : Referred(g)' = Referred(g)
  BY Zenon, <1>1 DEF Referred
<1>10. BlobsType' /\ PassType' /\ QuietInv'
  BY <1>1, <1>2, <1>5, <1>6, <1>7, <1>8 DEF BlobsInv, BlobsType, PassType, QuietInv, Counted, Listed
<1>11. \A g \in Hashes : Puts(g)' = IF g = h THEN Puts(g) \cup {p} ELSE Puts(g)
  BY Zenon, <1>1, <1>6, <1>7 DEF Puts
<1>12. PutInv'
  <2> SUFFICES ASSUME NEW g \in Hashes, NEW q \in Puts(g)'
               PROVE  /\ ~put'[q].found => ~ledger'[g].old
                      /\ put'[q].pc = "row" => ~bytes'[g].old
                      /\ g \notin blame' => bytes'[g].there /\ (put'[q].pc = "create" => ledger'[g].there)
    BY Zenon DEF PutInv
  <2>1. CASE q = p
    <3>1. g = h /\ q \in Putters
      BY Zenon, <2>1, <1>1, <1>11 DEF Puts
    <3>2. h \notin blame' => bytes[h].there
      BY Zenon, <1>1 DEF BlobsInv, KeptInv
    <3> QED
      BY Zenon, <3>1, <3>2, <2>1, <1>1, <1>5, <1>6, <1>7
  <2>2. CASE q # p
    <3>1. q \in Puts(g) /\ put'[q] = put[q]
      BY Zenon, <2>2, <1>7, <1>11 DEF Puts
    <3> QED
      BY <3>1, <1>1, <1>5 DEF BlobsInv, PutInv
  <2> QED
    BY Zenon, <2>1, <2>2
<1>13. KeptInv'
  BY Zenon, <1>1, <1>5, <1>9, <1>11 DEF BlobsInv, KeptInv, HalfCollected
<1>14. SightInv'
  <2>1. \A g \in Hashes : pass.pc = "orphans" /\ g \in pass.todo /\ g \notin since.wrote /\ g \notin blame => g # h
    BY Zenon, <1>1 DEF BlobsInv, SightInv
  <2> QED
    BY <2>1, <1>1, <1>5, <1>6, <1>7, <1>8, <1>9, <1>11 DEF BlobsInv, SightInv, Counted, Walks
<1> QED
  BY Zenon, <1>10, <1>12, <1>13, <1>14 DEF BlobsInv

LEMMA StoreBytesKeeps ==
    ASSUME BlobsInv, NEW p \in Putters, NEW h \in Hashes, NEW s \in Sources, StoreBytes(p, h, s)
    PROVE  BlobsInv'
<1> DEFINE c == [pc |-> "row", h |-> h, src |-> s, found |-> ledger[h].there]
           b == [there |-> TRUE, old |-> FALSE]
<1>1. /\ put[p].pc = "idle"
      /\ put' = [put EXCEPT ![p] = c] /\ bytes' = [bytes EXCEPT ![h] = b]
      /\ since' = [Touched EXCEPT !.wrote = @ \cup {h}]
      /\ blame' = IF HalfCollected(h) THEN blame \cup {h} ELSE blame
      /\ UNCHANGED <<ledger, refs, pass>>
  BY Zenon DEF StoreBytes, HalfCollected
<1>2. bset' \in BlobSetup
  BY BlobTypes DEF StoreBytes, BlobSetup
<1>3. b \in BytesRecord /\ b.there /\ ~b.old
  BY Zenon DEF BytesRecord
<1> HIDE DEF b
<1>4. bytes' \in [Hashes -> BytesRecord] /\ \A g \in Hashes : bytes'[g] = IF g = h THEN b ELSE bytes[g]
  BY Zenon, <1>1, <1>3, BlobTypes
<1>5. /\ c \in PutRecord /\ c.pc = "row" /\ c.h = h /\ c.found = ledger[h].there
  BY Zenon, BlobTypes DEF PutRecord
<1> HIDE DEF c
<1>6. put' \in [Putters -> PutRecord] /\ \A q \in Putters : put'[q] = IF q = p THEN c ELSE put[q]
  BY Zenon, <1>1, <1>5, BlobTypes
<1>7. since' \in SinceRecord /\ since'.any /\ since'.found = since.found /\ since'.wrote = since.wrote \cup {h}
  <2>1. Touched \in SinceRecord /\ Touched.any /\ Touched.found = since.found /\ Touched.wrote = since.wrote
    BY Zenon, TouchedSince, BlobTypes
  <2> QED
    BY Zenon, <1>1, <2>1 DEF SinceRecord
<1>8. \A g \in Hashes : Referred(g)' = Referred(g)
  BY Zenon, <1>1 DEF Referred
<1>9. BlobsType' /\ PassType' /\ QuietInv'
  BY <1>1, <1>2, <1>3, <1>4, <1>5, <1>6, <1>7 DEF BlobsInv, BlobsType, PassType, QuietInv, Counted, Listed
<1>10. \A g \in Hashes : Puts(g)' = IF g = h THEN Puts(g) \cup {p} ELSE Puts(g)
  BY Zenon, <1>1, <1>5, <1>6 DEF Puts
<1>11. PutInv'
  <2> SUFFICES ASSUME NEW g \in Hashes, NEW q \in Puts(g)'
               PROVE  /\ ~put'[q].found => ~ledger'[g].old
                      /\ put'[q].pc = "row" => ~bytes'[g].old
                      /\ g \notin blame' => bytes'[g].there /\ (put'[q].pc = "create" => ledger'[g].there)
    BY DEF PutInv
  <2>1. CASE q = p
    <3>1. g = h /\ q \in Putters
      BY Zenon, <2>1, <1>1, <1>10 DEF Puts
    <3>2. ledger[h].old => ledger[h].there
      BY Zenon DEF BlobsInv, BlobsType
    <3> QED
      BY Zenon, <3>1, <3>2, <2>1, <1>1, <1>3, <1>4, <1>5, <1>6
  <2>2. CASE q # p
    <3>1. q \in Puts(g) /\ put'[q] = put[q]
      BY Zenon, <2>2, <1>6, <1>10 DEF Puts
    <3> QED
      BY Zenon, <3>1, <1>1, <1>3, <1>4 DEF BlobsInv, PutInv
  <2> QED
    BY <2>1, <2>2
<1>12. KeptInv'
  BY Zenon, <1>1, <1>3, <1>4, <1>8, <1>10 DEF BlobsInv, KeptInv, HalfCollected
<1>13. SightInv'
  BY <1>1, <1>3, <1>4, <1>5, <1>6, <1>7, <1>8, <1>10 DEF BlobsInv, SightInv, Counted, Walks, Puts
<1> QED
  BY <1>9, <1>11, <1>12, <1>13 DEF BlobsInv

(* A put goes on.                                                            *)
LEMMA IndexPutKeeps == ASSUME BlobsInv, NEW p \in Putters, IndexPut(p) PROVE BlobsInv'
<1> DEFINE h == put[p].h
           c == [put[p] EXCEPT !.pc = "create"]
           row == IF ledger[h].there THEN [ledger[h] EXCEPT !.count = @ + 1]
                  ELSE [there |-> TRUE, count |-> 1, old |-> FALSE]
<1>1. /\ put[p].pc = "row" /\ since' = Touched
      /\ blame' = IF bytes[h].there /\ ~ledger[h].there THEN blame \ {h} ELSE blame
      /\ UNCHANGED <<bset, bytes, refs, pass>>
  BY Zenon DEF IndexPut
<1>2. h \in Hashes
  BY Zenon, <1>1, BlobTypes
<1>3. ledger' = [ledger EXCEPT ![h] = row]
  BY Zenon, <1>2, BlobTypes DEF IndexPut, RowRecord
<1>4. /\ row \in RowRecord /\ row.there /\ row.old = (ledger[h].there /\ ledger[h].old)
  <2>1. CASE ledger[h].there
    BY <2>1, <1>2, BlobTypes DEF RowRecord
  <2>2. CASE ~ledger[h].there
    BY Zenon, <2>2 DEF RowRecord
  <2> QED
    BY Zenon, <2>1, <2>2
<1> HIDE DEF row
<1>5. /\ ledger' \in [Hashes -> RowRecord]
      /\ \A g \in Hashes : ledger'[g] = IF g = h THEN row ELSE ledger[g]
  BY Zenon, <1>2, <1>3, <1>4, BlobTypes
<1>6. put' = [put EXCEPT ![p] = c]
  BY Zenon, BlobTypes DEF IndexPut, PutRecord
<1>7. /\ c \in PutRecord /\ c.pc = "create" /\ c.h = h /\ c.found = put[p].found
  BY Zenon, BlobTypes DEF PutRecord
<1> HIDE DEF c
<1>8. put' \in [Putters -> PutRecord] /\ \A q \in Putters : put'[q] = IF q = p THEN c ELSE put[q]
  BY Zenon, <1>6, <1>7, BlobTypes
<1>9. since' \in SinceRecord /\ since'.any /\ since'.found = since.found /\ since'.wrote = since.wrote
  BY Zenon, <1>1, TouchedSince, BlobTypes
<1>10. \A g \in Hashes : Referred(g)' = Referred(g)
  BY Zenon, <1>1 DEF Referred
<1>11. BlobsType' /\ PassType' /\ QuietInv'
  BY <1>1, <1>2, <1>4, <1>5, <1>7, <1>8, <1>9 DEF BlobsInv, BlobsType, PassType, QuietInv, Counted, Listed
<1>12. \A g \in Hashes : Puts(g)' = Puts(g)
  BY Zenon, <1>1, <1>7, <1>8 DEF Puts
<1>13. p \in Puts(h)
  BY Zenon, <1>1 DEF Puts
<1>14. /\ ~put[p].found => ~ledger[h].old
       /\ ~bytes[h].old
       /\ h \notin blame => bytes[h].there
  BY Zenon, <1>1, <1>2, <1>13 DEF BlobsInv, PutInv
<1>15. h \notin blame' => bytes[h].there
  BY Zenon, <1>1, <1>14
<1>16. PutInv'
  <2> SUFFICES ASSUME NEW g \in Hashes, NEW q \in Puts(g)
               PROVE  /\ ~put'[q].found => ~ledger'[g].old
                      /\ put'[q].pc = "row" => ~bytes[g].old
                      /\ g \notin blame' => bytes[g].there /\ (put'[q].pc = "create" => ledger'[g].there)
    BY Zenon, <1>1, <1>12 DEF PutInv
  <2>1. q \in Putters /\ put[q].h = g /\ put[q].pc # "idle"
    BY Zenon DEF Puts
  <2>2. CASE g = h
    <3>1. ~put[q].found => ~ledger[g].old
      BY Zenon DEF BlobsInv, PutInv
    <3> QED
      BY Zenon, <2>1, <2>2, <3>1, <1>4, <1>5, <1>7, <1>8, <1>14, <1>15
  <2>3. CASE g # h
    <3>1. ledger'[g] = ledger[g] /\ put'[q] = put[q] /\ (g \notin blame' => g \notin blame)
      BY Zenon, <2>1, <2>3, <1>1, <1>5, <1>7, <1>8
    <3> QED
      BY Zenon, <3>1 DEF BlobsInv, PutInv
  <2> QED
    BY Zenon, <2>2, <2>3
<1>17. pass.pc = "row" /\ pass.h = h => ledger[h].there
  BY Zenon, <1>2 DEF BlobsInv, SightInv, PassType, Walks
<1>18. KeptInv'
  <2> SUFFICES ASSUME NEW g \in Hashes, g \notin blame'
               PROVE  /\ Referred(g) > 0 => ledger'[g].there /\ bytes[g].there
                      /\ ledger'[g].there /\ ~HalfCollected(g) => bytes[g].there
                      /\ HalfCollected(g) => Referred(g) = 0 /\ Puts(g) = {}
    BY Zenon, <1>1, <1>10, <1>12 DEF KeptInv, HalfCollected
  <2>1. CASE g = h
    <3>1. HalfCollected(h) => h \notin blame
      BY Zenon, <2>1, <1>1, <1>17 DEF HalfCollected
    <3> QED
      BY Zenon, <2>1, <3>1, <1>4, <1>5, <1>15 DEF BlobsInv, KeptInv
  <2>2. CASE g # h
    BY Zenon, <2>2, <1>1, <1>5 DEF BlobsInv, KeptInv
  <2> QED
    BY Zenon, <2>1, <2>2
<1>19. SightInv'
  <2> SUFFICES ASSUME NEW g \in Hashes
               PROVE  /\ Counted /\ pass.truth[g] = 0 /\ ledger'[g].old /\ g \notin since.found => Referred(g) = 0
                      /\ Walks /\ g \in pass.todo => /\ pass.rows[g].there /\ ledger'[g].there
                                                     /\ pass.rows[g].old => ledger'[g].old
                      /\ Walks /\ ~pass.rows[g].there /\ ledger'[g].there => ~bytes[g].old
                      /\ pass.pc = "orphans" /\ g \in pass.todo /\ g \notin since.wrote
                           => /\ \A q \in Puts(g) : put'[q].pc # "row"
                              /\ g \notin blame' => ~ledger'[g].there /\ Referred(g) = 0 /\ Puts(g) = {}
    BY Zenon, <1>1, <1>9, <1>10, <1>12 DEF SightInv, Counted, Walks
  <2>1. CASE g = h
    <3>1. pass.pc = "orphans" /\ h \in pass.todo => h \in since.wrote
      BY Zenon, <1>1, <1>2, <1>13 DEF BlobsInv, SightInv
    <3> QED
      BY Zenon, <2>1, <3>1, <1>4, <1>5, <1>14 DEF BlobsInv, SightInv
  <2>2. CASE g # h
    <3>1. ledger'[g] = ledger[g] /\ (g \notin blame' => g \notin blame)
      BY Zenon, <2>2, <1>1, <1>5
    <3>2. \A q \in Puts(g) : put'[q] = put[q]
      BY Zenon, <2>2, <1>8 DEF Puts
    <3> QED
      BY Zenon, <3>1, <3>2 DEF BlobsInv, SightInv
  <2> QED
    BY Zenon, <2>1, <2>2
<1> QED
  BY Zenon, <1>11, <1>16, <1>18, <1>19 DEF BlobsInv

(* The command refers to the hash.                                           *)
LEMMA CreateObjectKeeps == ASSUME BlobsInv, NEW p \in Putters, CreateObject(p) PROVE BlobsInv'
<1> DEFINE h == put[p].h
<1>1. /\ put[p].pc = "create" /\ put' = [put EXCEPT ![p] = NoPut]
      /\ refs' = [refs EXCEPT ![put[p].src][h] = @ + 1]
      /\ UNCHANGED <<bset, ledger, bytes, pass, blame>>
  BY Zenon DEF CreateObject
<1>2. h \in Hashes /\ put[p].src \in {"object", "summary"}
  BY Zenon, <1>1, BlobTypes DEF Sources
<1>3. refs \in [Sources -> [Hashes -> Nat]]
  BY Zenon DEF BlobsInv, BlobsType
<1>4. refs' \in [Sources -> [Hashes -> Nat]]
  BY <1>1, <1>2, <1>3 DEF Sources
<1>5. \A g \in Hashes : g # h => Referred(g)' = Referred(g)
  <2> SUFFICES ASSUME NEW g \in Hashes, g # h PROVE Referred(g)' = Referred(g)
    BY Zenon
  <2>1. refs'["object"][g] = refs["object"][g] /\ refs'["summary"][g] = refs["summary"][g]
    BY Zenon, <1>1, <1>2, <1>3 DEF Sources
  <2> QED
    BY Zenon, <2>1 DEF Referred
<1>6. since' \in SinceRecord /\ since'.any /\ since'.wrote = since.wrote
      /\ since'.found = IF put[p].found THEN since.found \cup {h} ELSE since.found
  <2>1. Touched \in SinceRecord /\ Touched.any /\ Touched.found = since.found /\ Touched.wrote = since.wrote
    BY Zenon, TouchedSince, BlobTypes
  <2> DEFINE f == IF put[p].found THEN Touched.found \cup {h} ELSE Touched.found
  <2>2. since' = [Touched EXCEPT !.found = f]
    BY Zenon, <2>1 DEF CreateObject, SinceRecord
  <2>3. f \in SUBSET Hashes /\ f = IF put[p].found THEN since.found \cup {h} ELSE since.found
    BY Zenon, <2>1, <1>2, BlobTypes
  <2> HIDE DEF f
  <2> QED
    BY Zenon, <2>1, <2>2, <2>3 DEF SinceRecord
<1>7. NoPut \in PutRecord /\ NoPut.pc = "idle" /\ ~NoPut.found
  BY Zenon DEF NoPut, PutRecord, Sources
<1>8. put' \in [Putters -> PutRecord] /\ \A q \in Putters : put'[q] = IF q = p THEN NoPut ELSE put[q]
  BY Zenon, <1>1, <1>7, BlobTypes
<1>9. BlobsType' /\ PassType' /\ QuietInv'
  BY <1>1, <1>4, <1>6, <1>7, <1>8 DEF BlobsInv, BlobsType, PassType, QuietInv, Counted, Listed
<1>10. \A g \in Hashes : \A q \in Puts(g)' : q \in Puts(g) /\ put'[q] = put[q]
  BY Zenon, <1>7, <1>8 DEF Puts
<1>11. p \in Puts(h)
  BY Zenon, <1>1 DEF Puts
<1>12. PutInv'
  BY <1>1, <1>10 DEF BlobsInv, PutInv
<1>13. /\ ~put[p].found => ~ledger[h].old
       /\ h \notin blame => bytes[h].there /\ ledger[h].there /\ ~HalfCollected(h)
  BY Zenon, <1>1, <1>2, <1>11 DEF BlobsInv, PutInv, KeptInv
<1>14. KeptInv'
  <2> SUFFICES ASSUME NEW g \in Hashes, g \notin blame
               PROVE  /\ Referred(g)' > 0 => ledger[g].there /\ bytes[g].there
                      /\ ledger[g].there /\ ~HalfCollected(g) => bytes[g].there
                      /\ HalfCollected(g) => Referred(g)' = 0 /\ Puts(g)' = {}
    BY Zenon, <1>1 DEF KeptInv, HalfCollected
  <2>1. CASE g = h
    BY Zenon, <2>1, <1>13
  <2>2. CASE g # h
    BY Zenon, <2>2, <1>5, <1>10 DEF BlobsInv, KeptInv
  <2> QED
    BY Zenon, <2>1, <2>2
<1>15. SightInv'
  <2> SUFFICES ASSUME NEW g \in Hashes
               PROVE  /\ Counted /\ pass.truth[g] = 0 /\ ledger[g].old /\ g \notin since'.found => Referred(g)' = 0
                      /\ pass.pc = "orphans" /\ g \in pass.todo /\ g \notin since.wrote
                           => /\ \A q \in Puts(g)' : put'[q].pc # "row"
                              /\ g \notin blame => ~ledger[g].there /\ Referred(g)' = 0 /\ Puts(g)' = {}
    BY Zenon, <1>1, <1>6 DEF BlobsInv, SightInv, Counted, Walks
  <2>1. CASE g = h
    <3>1. pass.pc = "orphans" /\ h \in pass.todo /\ h \notin since.wrote => h \in blame
      BY Zenon, <1>2, <1>11 DEF BlobsInv, SightInv
    <3>2. ledger[h].old => h \in since'.found
      BY Zenon, <1>6, <1>13
    <3>3. pass.pc = "orphans" /\ h \in pass.todo /\ h \notin since.wrote => \A q \in Puts(h) : put[q].pc # "row"
      BY Zenon, <1>2 DEF BlobsInv, SightInv
    <3> QED
      BY Zenon, <2>1, <3>1, <3>2, <3>3, <1>10
  <2>2. CASE g # h
    <3>1. g \in since'.found <=> g \in since.found
      BY Zenon, <2>2, <1>6
    <3> QED
      BY Zenon, <2>2, <3>1, <1>5, <1>10 DEF BlobsInv, SightInv
  <2> QED
    BY Zenon, <2>1, <2>2
<1> QED
  BY <1>9, <1>12, <1>14, <1>15 DEF BlobsInv

LEMMA PutFailsKeeps == ASSUME BlobsInv, NEW p \in Putters, PutFails(p) PROVE BlobsInv'
<1>1. put' = [put EXCEPT ![p] = NoPut] /\ UNCHANGED <<ledger, bytes, refs, pass, since, blame>>
  BY Zenon DEF PutFails
<1>2. bset' \in BlobSetup /\ bset'.pinned = bset.pinned
  BY BlobTypes DEF PutFails, BlobFault, BlobSetup
<1>3. NoPut \in PutRecord /\ NoPut.pc = "idle" /\ ~NoPut.found
  BY DEF NoPut, PutRecord, Sources
<1>4. put' \in [Putters -> PutRecord] /\ \A q \in Putters : put'[q] = IF q = p THEN NoPut ELSE put[q]
  BY Zenon, <1>1, <1>3, BlobTypes
<1>5. BlobsType' /\ PassType'
  BY Zenon, <1>1, <1>2, <1>3, <1>4 DEF BlobsInv, BlobsType, PassType, Counted, Listed
<1>6. \A g \in Hashes : \A q \in Puts(g)' : q \in Puts(g) /\ put'[q] = put[q]
  BY <1>3, <1>4 DEF Puts
<1>7. \A g \in Hashes : Referred(g)' = Referred(g)
  BY Zenon, <1>1 DEF Referred
<1>8. PutInv' /\ KeptInv' /\ SightInv'
  BY <1>1, <1>6, <1>7 DEF BlobsInv, PutInv, KeptInv, SightInv, HalfCollected, Counted, Walks
<1>9. QuietInv'
  BY <1>1, <1>2, <1>7 DEF BlobsInv, QuietInv, Counted, Listed, Walks, HalfCollected, Through, Collects
<1> QED
  BY Zenon, <1>5, <1>8, <1>9 DEF BlobsInv

LEMMA DeleteObjectKeeps ==
    ASSUME BlobsInv, NEW s \in Sources, NEW h \in Hashes, DeleteObject(s, h)
    PROVE  BlobsInv'
<1>1. /\ refs[s][h] > 0 /\ refs' = [refs EXCEPT ![s][h] = @ - 1] /\ since' = Touched
      /\ UNCHANGED <<ledger, bytes, put, pass, blame>>
  BY Zenon DEF DeleteObject
<1>2. bset' \in BlobSetup
  BY BlobTypes DEF DeleteObject, BlobSetup
<1>3. refs \in [Sources -> [Hashes -> Nat]] /\ s \in {"object", "summary"}
  BY Zenon DEF BlobsInv, BlobsType, Sources
<1>4. refs' \in [Sources -> [Hashes -> Nat]]
  BY <1>1, <1>3 DEF Sources
<1>5. \A g \in Hashes : Referred(g)' <= Referred(g) /\ Referred(g)' \in Nat
  <2> SUFFICES ASSUME NEW g \in Hashes PROVE Referred(g)' <= Referred(g) /\ Referred(g)' \in Nat
    BY Zenon
  <2>1. /\ refs'["object"][g] <= refs["object"][g] /\ refs'["summary"][g] <= refs["summary"][g]
        /\ refs'["object"][g] \in Nat /\ refs'["summary"][g] \in Nat
        /\ refs["object"][g] \in Nat /\ refs["summary"][g] \in Nat
    BY <1>1, <1>3 DEF Sources
  <2> QED
    BY <2>1 DEF Referred
<1>6. since' \in SinceRecord /\ since'.any /\ since'.found = since.found /\ since'.wrote = since.wrote
  BY Zenon, <1>1, TouchedSince, BlobTypes
<1>7. BlobsType' /\ PassType' /\ QuietInv'
  BY Zenon, <1>1, <1>2, <1>4, <1>6 DEF BlobsInv, BlobsType, PassType, QuietInv, Counted, Listed
<1>8. \A g \in Hashes : (Referred(g) = 0 => Referred(g)' = 0) /\ (Referred(g)' > 0 => Referred(g) > 0)
  BY <1>5, BlobTypes
<1>9. \A g \in Hashes : Puts(g)' = Puts(g)
  BY Zenon, <1>1 DEF Puts
<1>10. PutInv' /\ KeptInv' /\ SightInv'
  BY <1>1, <1>6, <1>8, <1>9 DEF BlobsInv, PutInv, KeptInv, SightInv, HalfCollected, Counted, Walks
<1> QED
  BY Zenon, <1>7, <1>10 DEF BlobsInv

LEMMA AgesKeeps == ASSUME BlobsInv, NEW h \in Hashes, Ages(h) PROVE BlobsInv'
<1> DEFINE row == [ledger[h] EXCEPT !.old = ledger[h].there]
           b == [bytes[h] EXCEPT !.old = bytes[h].there]
<1>1. /\ pass.pc = "idle" /\ \A p \in Putters : put[p].h # h
      /\ UNCHANGED <<bset, refs, put, pass, since, blame>>
  BY Zenon DEF Ages
<1>2. ledger' = [ledger EXCEPT ![h] = row] /\ bytes' = [bytes EXCEPT ![h] = b]
  BY Zenon, BlobTypes DEF Ages, RowRecord, BytesRecord
<1>3. /\ row \in RowRecord /\ row.there = ledger[h].there /\ row.old = ledger[h].there
      /\ b \in BytesRecord /\ b.there = bytes[h].there /\ b.old = bytes[h].there
  BY Zenon, BlobTypes DEF RowRecord, BytesRecord
<1> HIDE DEF row, b
<1>4. /\ ledger' \in [Hashes -> RowRecord] /\ bytes' \in [Hashes -> BytesRecord]
      /\ \A g \in Hashes : ledger'[g].there = ledger[g].there /\ bytes'[g].there = bytes[g].there
      /\ \A g \in Hashes : g # h => ledger'[g].old = ledger[g].old /\ bytes'[g].old = bytes[g].old
      /\ \A g \in Hashes : (ledger'[g].old => ledger'[g].there) /\ (bytes'[g].old => bytes'[g].there)
  BY Zenon, <1>2, <1>3, BlobTypes DEF BlobsInv, BlobsType
<1>5. BlobsType' /\ PassType' /\ QuietInv' /\ SightInv'
  BY Zenon, <1>1, <1>4 DEF BlobsInv, BlobsType, PassType, QuietInv, SightInv, Counted, Listed, Walks
<1>6. Puts(h) = {} /\ \A g \in Hashes : Puts(g)' = Puts(g) /\ Referred(g)' = Referred(g)
  BY Zenon, <1>1 DEF Puts, Referred
<1>7. PutInv' /\ KeptInv'
  BY <1>1, <1>4, <1>6 DEF BlobsInv, PutInv, KeptInv, HalfCollected
<1> QED
  BY Zenon, <1>5, <1>7 DEF BlobsInv

(* The reconciler's pass.                                                    *)
LEMMA IdlePass == NoPass \in PassRecord /\ NoPass.pc = "idle" /\ NoPass.broken = {}
  BY Zenon DEF NoPass, PassRecord, PassPcs

LEMMA PassParts ==
    ASSUME NEW q \in PassRecord
    PROVE  /\ q.pc \in PassPcs /\ q.truth \in [Hashes -> Nat] \cup {<<>>} /\ q.rows \in [Hashes -> RowRecord] \cup {<<>>}
           /\ q.todo \in SUBSET Hashes /\ q.h \in Hashes \cup {0} /\ q.broken \in SUBSET Hashes
  BY Zenon DEF PassRecord

(* No pass: nothing depends on it.                                           *)
LEMMA PassOver ==
    ASSUME BlobsInv, pass' = NoPass, bset' \in BlobSetup, UNCHANGED <<ledger, bytes, refs, put, since>>,
           blame \subseteq blame', \A h \in Hashes : HalfCollected(h) => h \in blame'
    PROVE  BlobsInv'
<1>1. pass'.pc = "idle" /\ pass' \in PassRecord
  BY Zenon, IdlePass
<1>2. BlobsType' /\ PassType' /\ QuietInv' /\ SightInv'
  BY Zenon, <1>1 DEF BlobsInv, BlobsType, PassType, QuietInv, SightInv, Counted, Listed, Walks
<1>3. \A g \in Hashes : Puts(g)' = Puts(g) /\ Referred(g)' = Referred(g)
  BY Zenon DEF Puts, Referred
<1>4. PutInv'
  BY Zenon, <1>3 DEF BlobsInv, PutInv
<1>5. KeptInv'
  BY Zenon, <1>1, <1>3 DEF BlobsInv, KeptInv, HalfCollected
<1> QED
  BY Zenon, <1>2, <1>4, <1>5 DEF BlobsInv

LEMMA PassFailsKeeps == ASSUME BlobsInv, PassFails PROVE BlobsInv'
<1>1. /\ pass' = NoPass /\ UNCHANGED <<ledger, bytes, refs, put, since>>
      /\ blame' = IF pass.pc = "row" THEN blame \cup {pass.h} ELSE blame
  BY Zenon DEF PassFails
<1>2. bset' \in BlobSetup
  BY BlobTypes DEF PassFails, BlobFault, BlobSetup
<1>3. blame \subseteq blame' /\ \A h \in Hashes : HalfCollected(h) => h \in blame'
  BY Zenon, <1>1 DEF HalfCollected
<1> QED
  BY Zenon, <1>1, <1>2, <1>3, PassOver

LEMMA ReportKeeps == ASSUME BlobsInv, Report PROVE BlobsInv'
<1>1. /\ pass' = NoPass /\ UNCHANGED <<ledger, bytes, refs, put, since>> /\ bset' = bset
      /\ blame' = blame /\ pass.pc = "end"
  BY Zenon DEF Report
<1>2. bset' \in BlobSetup
  BY Zenon, <1>1, BlobTypes
<1>3. blame \subseteq blame' /\ \A h \in Hashes : HalfCollected(h) => h \in blame'
  BY Zenon, <1>1 DEF HalfCollected
<1> QED
  BY Zenon, <1>1, <1>2, <1>3, PassOver

LEMMA ReadTruthKeeps == ASSUME BlobsInv, ReadTruth PROVE BlobsInv'
<1> DEFINE t == [h \in Hashes |-> TruthCounts(h)]
           q == [NoPass EXCEPT !.pc = "ledger", !.truth = t]
           n == [found |-> {}, wrote |-> {}, any |-> FALSE]
<1>1. /\ pass.pc = "idle" /\ pass' = q /\ since' = n /\ UNCHANGED <<ledger, bytes, refs, put, blame>>
  BY Zenon DEF ReadTruth
<1>2. bset' \in BlobSetup
  BY BlobTypes DEF ReadTruth, BlobSetup
<1>3. n \in SinceRecord /\ n.found = {} /\ n.wrote = {} /\ ~n.any
  BY Zenon DEF SinceRecord
<1> HIDE DEF n
<1>4. t \in [Hashes -> Nat] /\ \A h \in Hashes : t[h] = Referred(h)
  BY Zenon, BlobTypes DEF TruthCounts
<1> HIDE DEF t
<1>5. q \in PassRecord /\ q.pc = "ledger" /\ q.truth = t /\ q.broken = {}
  <2>1. NoPass \in PassRecord /\ NoPass.broken = {}
    BY Zenon, IdlePass
  <2> QED
    BY Zenon, <2>1, <1>4 DEF PassRecord, PassPcs
<1> HIDE DEF q
<1>6. BlobsType' /\ PassType'
  BY Zenon, <1>1, <1>2, <1>3, <1>4, <1>5 DEF BlobsInv, BlobsType, PassType, Counted, Listed
<1>7. \A g \in Hashes : Puts(g)' = Puts(g) /\ Referred(g)' = Referred(g)
  BY Zenon, <1>1 DEF Puts, Referred
<1>8. PutInv' /\ KeptInv'
  BY Zenon, <1>1, <1>5, <1>7 DEF BlobsInv, PutInv, KeptInv, HalfCollected
<1>9. SightInv'
  BY Zenon, <1>1, <1>4, <1>5, <1>7 DEF SightInv, Walks
<1>10. QuietInv'
  BY Zenon, <1>1, <1>4, <1>5, <1>7 DEF QuietInv, Listed, Walks
<1> QED
  BY Zenon, <1>6, <1>8, <1>9, <1>10 DEF BlobsInv

LEMMA LedgerRowsKeeps == ASSUME BlobsInv, LedgerRows PROVE BlobsInv'
<1> DEFINE there == {h \in Hashes : ledger[h].there}
           q == [pass EXCEPT !.pc = "walk", !.rows = ledger, !.todo = there]
<1>1. pass.pc = "ledger" /\ pass' = q /\ UNCHANGED <<bset, ledger, bytes, refs, put, since, blame>>
  BY Zenon DEF LedgerRows
<1>2. there \in SUBSET Hashes /\ \A h \in Hashes : h \in there <=> ledger[h].there
  BY Zenon
<1> HIDE DEF there
<1>3. /\ q \in PassRecord /\ q.pc = "walk" /\ q.rows = ledger /\ q.todo = there /\ q.truth = pass.truth
      /\ q.broken = pass.broken
  BY Zenon, <1>2, BlobTypes DEF PassRecord, PassPcs
<1> HIDE DEF q
<1>4. BlobsType' /\ PassType'
  BY Zenon, <1>1, <1>3 DEF BlobsInv, BlobsType, PassType, Counted, Listed
<1>5. \A g \in Hashes : Puts(g)' = Puts(g) /\ Referred(g)' = Referred(g)
  BY Zenon, <1>1 DEF Puts, Referred
<1>6. PutInv' /\ KeptInv'
  BY Zenon, <1>1, <1>3, <1>5 DEF BlobsInv, PutInv, KeptInv, HalfCollected
<1>7. SightInv'
  BY Zenon, <1>1, <1>2, <1>3, <1>5 DEF BlobsInv, SightInv, Counted, Walks
<1>8. QuietInv'
  BY ZenonT(60), <1>1, <1>2, <1>3, <1>5 DEF BlobsInv, QuietInv, Counted, Listed, Walks, HalfCollected
<1> QED
  BY <1>4, <1>6, <1>7, <1>8 DEF BlobsInv

LEMMA WalkRowKeeps == ASSUME BlobsInv, NEW h \in Hashes, WalkRow(h) PROVE BlobsInv'
<1> DEFINE corrects == pass.rows[h].count # pass.truth[h] /\ pass.truth[h] > 0 /\ ledger[h].there
           row == IF corrects THEN [ledger[h] EXCEPT !.count = pass.truth[h]] ELSE ledger[h]
           broken == IF pass.truth[h] > 0 /\ ~bytes[h].there THEN pass.broken \cup {h} ELSE pass.broken
           q == [pass EXCEPT !.todo = pass.todo \ {h}, !.broken = broken]
<1>1. /\ pass.pc = "walk" /\ h \in pass.todo /\ ~Collects(h) /\ pass' = q
      /\ UNCHANGED <<bset, bytes, refs, put, since, blame>>
  BY Zenon DEF WalkRow
<1>2. pass.truth \in [Hashes -> Nat] /\ pass.rows \in [Hashes -> RowRecord]
  BY Zenon, <1>1 DEF BlobsInv, PassType, Counted, Listed
<1>3. ledger' = [ledger EXCEPT ![h] = row]
  BY Zenon, BlobTypes DEF WalkRow, RowRecord
<1>4. /\ row \in RowRecord /\ row.there = ledger[h].there /\ row.old = ledger[h].old
      /\ row.count = IF corrects THEN pass.truth[h] ELSE ledger[h].count
  <2>1. pass.truth[h] \in Nat
    BY Zenon, <1>2
  <2> HIDE DEF corrects
  <2> QED
    BY <2>1, BlobTypes DEF RowRecord
<1>5. broken \in SUBSET Hashes /\ \A g \in Hashes : g \in broken <=> g \in pass.broken \/ (g = h /\ pass.truth[h] > 0 /\ ~bytes[h].there)
  BY Zenon, BlobTypes
<1> HIDE DEF row, broken
<1>6. /\ ledger' \in [Hashes -> RowRecord] /\ \A g \in Hashes : ledger'[g] = IF g = h THEN row ELSE ledger[g]
  BY Zenon, <1>3, <1>4, BlobTypes
<1>7. /\ q \in PassRecord /\ q.pc = "walk" /\ q.rows = pass.rows /\ q.todo = pass.todo \ {h} /\ q.truth = pass.truth
      /\ q.broken = broken
  BY Zenon, <1>1, <1>5, BlobTypes DEF PassRecord
<1> HIDE DEF q
<1>8. BlobsType' /\ PassType'
  BY Zenon, <1>1, <1>4, <1>6, <1>7 DEF BlobsInv, BlobsType, PassType, Counted, Listed
<1>9. \A g \in Hashes : Puts(g)' = Puts(g) /\ Referred(g)' = Referred(g)
  BY Zenon, <1>1 DEF Puts, Referred
<1>10. \A g \in Hashes : ledger'[g].there = ledger[g].there /\ ledger'[g].old = ledger[g].old
  BY Zenon, <1>4, <1>6
<1>11. PutInv' /\ KeptInv'
  BY <1>1, <1>7, <1>9, <1>10 DEF BlobsInv, PutInv, KeptInv, HalfCollected
<1>12. SightInv'
  BY Zenon, <1>1, <1>7, <1>9, <1>10 DEF BlobsInv, SightInv, Counted, Walks
<1>13. QuietInv'
  <2> SUFFICES ASSUME ~since.any, NEW g \in Hashes
               PROVE  /\ pass.truth[g] = Referred(g)
                      /\ ~pass.rows[g].there => ~ledger'[g].there
                      /\ g \in pass.todo /\ g # h => pass.rows[g].there /\ ledger'[g] = pass.rows[g] /\ g \notin broken
                      /\ ~(g \in pass.todo /\ g # h) => IF pass.rows[g].there THEN Through(g)' ELSE g \notin broken
    BY Zenon, <1>1, <1>7, <1>9 DEF QuietInv, Listed, Walks, HalfCollected
  <2>1. /\ pass.truth[g] = Referred(g)
        /\ ~pass.rows[g].there => ~ledger[g].there
        /\ g \in pass.todo => pass.rows[g].there /\ ledger[g] = pass.rows[g] /\ g \notin pass.broken
        /\ g \notin pass.todo => IF pass.rows[g].there THEN Through(g) ELSE g \notin pass.broken
    BY Zenon, <1>1 DEF BlobsInv, QuietInv, Counted, Listed, Walks
  <2>2. Collects(g)' <=> Collects(g)
    BY Zenon, <1>1, <1>7 DEF Collects
  <2>3. CASE g = h
    <3>1. pass.truth[h] > 0 => row.count = pass.truth[h]
      BY Zenon, <2>1, <2>3, <1>1, <1>4
    <3>2. Through(h)'
      BY <2>1, <2>2, <2>3, <3>1, <1>1, <1>4, <1>5, <1>6, <1>7 DEF Through
    <3> QED
      BY Zenon, <2>1, <2>3, <3>2, <1>1, <1>10
  <2>4. CASE g # h
    <3>1. ledger'[g] = ledger[g] /\ (g \in broken <=> g \in pass.broken)
      BY Zenon, <2>4, <1>5, <1>6
    <3>2. Through(g)' <=> Through(g)
      BY Zenon, <2>2, <3>1, <1>1, <1>7 DEF Through
    <3> QED
      BY Zenon, <2>1, <2>4, <3>1, <3>2
  <2> QED
    BY Zenon, <2>3, <2>4
<1> QED
  BY Zenon, <1>8, <1>11, <1>12, <1>13 DEF BlobsInv

(* The pass deletes the bytes of an entry that nobody referred to.           *)
LEMMA DeleteByteKeeps == ASSUME BlobsInv, NEW h \in Hashes, DeleteByte(h) PROVE BlobsInv'
<1> DEFINE q == [pass EXCEPT !.pc = "row", !.h = h]
<1>1. /\ pass.pc = "walk" /\ h \in pass.todo /\ Collects(h) /\ pass' = q
      /\ bytes' = [bytes EXCEPT ![h] = NoBytes]
      /\ blame' = IF FoundMeanwhile(h) THEN blame \cup {h} ELSE blame
      /\ UNCHANGED <<bset, ledger, refs, put, since>>
  BY Zenon DEF DeleteByte
<1>2. NoBytes \in BytesRecord /\ ~NoBytes.there /\ ~NoBytes.old
  BY Zenon DEF NoBytes, BytesRecord
<1>3. bytes' \in [Hashes -> BytesRecord] /\ \A g \in Hashes : bytes'[g] = IF g = h THEN NoBytes ELSE bytes[g]
  BY Zenon, <1>1, <1>2, BlobTypes
<1>4. /\ q \in PassRecord /\ q.pc = "row" /\ q.h = h /\ q.rows = pass.rows /\ q.todo = pass.todo
      /\ q.truth = pass.truth /\ q.broken = pass.broken
  BY Zenon, BlobTypes DEF PassRecord, PassPcs
<1> HIDE DEF q
<1>5. BlobsType' /\ PassType'
  BY Zenon, <1>1, <1>2, <1>3, <1>4 DEF BlobsInv, BlobsType, PassType, Counted, Listed
<1>6. \A g \in Hashes : Puts(g)' = Puts(g) /\ Referred(g)' = Referred(g)
  BY Zenon, <1>1 DEF Puts, Referred
<1>7. ledger[h].old /\ ledger[h].there /\ pass.truth[h] = 0
  BY Zenon, <1>1 DEF BlobsInv, SightInv, Walks, Collects
<1>8. h \notin blame' => Referred(h) = 0 /\ Puts(h) = {}
  <2> SUFFICES ASSUME h \notin blame' PROVE Referred(h) = 0 /\ Puts(h) = {}
    BY Zenon
  <2>1. ~FoundMeanwhile(h)
    BY Zenon, <1>1
  <2>2. Referred(h) = 0
    BY Zenon, <2>1, <1>1, <1>7 DEF FoundMeanwhile, BlobsInv, SightInv, Counted
  <2>3. \A p \in Puts(h) : put[p].found
    BY Zenon, <1>7 DEF BlobsInv, PutInv
  <2> QED
    BY Zenon, <2>1, <2>2, <2>3 DEF FoundMeanwhile, Puts
<1>9. \A g \in Hashes : g \notin blame' => g \notin blame
  BY Zenon, <1>1
<1>10. PutInv'
  <2> SUFFICES ASSUME NEW g \in Hashes, NEW p \in Puts(g)
               PROVE  /\ ~put[p].found => ~ledger[g].old
                      /\ put[p].pc = "row" => ~bytes'[g].old
                      /\ g \notin blame' => bytes'[g].there /\ (put[p].pc = "create" => ledger[g].there)
    BY Zenon, <1>1, <1>6 DEF PutInv
  <2>1. CASE g = h
    BY Zenon, <2>1, <1>2, <1>3, <1>8 DEF BlobsInv, PutInv
  <2>2. CASE g # h
    BY Zenon, <2>2, <1>3, <1>9 DEF BlobsInv, PutInv
  <2> QED
    BY Zenon, <2>1, <2>2
<1>11. KeptInv'
  <2> SUFFICES ASSUME NEW g \in Hashes, g \notin blame'
               PROVE  /\ Referred(g) > 0 => ledger[g].there /\ bytes'[g].there
                      /\ ledger[g].there /\ g # h => bytes'[g].there
                      /\ g = h => Referred(g) = 0 /\ Puts(g) = {}
    BY Zenon, <1>1, <1>4, <1>6 DEF KeptInv, HalfCollected
  <2>1. CASE g = h
    BY <2>1, <1>8
  <2>2. CASE g # h
    BY Zenon, <2>2, <1>1, <1>3, <1>9 DEF BlobsInv, KeptInv, HalfCollected
  <2> QED
    BY Zenon, <2>1, <2>2
<1>12. SightInv'
  BY <1>1, <1>2, <1>3, <1>4, <1>6 DEF BlobsInv, SightInv, Counted, Walks
<1>13. QuietInv'
  <2> SUFFICES ASSUME ~since.any, NEW g \in Hashes
               PROVE  /\ pass.truth[g] = Referred(g)
                      /\ ~pass.rows[g].there => ~ledger[g].there
                      /\ g \in pass.todo => /\ pass.rows[g].there /\ ledger[g] = pass.rows[g] /\ g \notin pass.broken
                                            /\ g = h => Collects(g)' /\ ~bytes'[g].there
                      /\ g \notin pass.todo => IF pass.rows[g].there THEN Through(g)' ELSE g \notin pass.broken
    BY <1>1, <1>4, <1>6 DEF QuietInv, Listed, Walks, HalfCollected
  <2>1. /\ pass.truth[g] = Referred(g)
        /\ ~pass.rows[g].there => ~ledger[g].there
        /\ g \in pass.todo => pass.rows[g].there /\ ledger[g] = pass.rows[g] /\ g \notin pass.broken
        /\ g \notin pass.todo => IF pass.rows[g].there THEN Through(g) ELSE g \notin pass.broken
    BY Zenon, <1>1 DEF BlobsInv, QuietInv, Counted, Listed, Walks
  <2>2. Collects(g)' <=> Collects(g)
    BY Zenon, <1>1, <1>4 DEF Collects
  <2>3. g # h => (Through(g)' <=> Through(g))
    BY Zenon, <2>2, <1>1, <1>3, <1>4 DEF Through
  <2> QED
    BY Zenon, <2>1, <2>2, <2>3, <1>1, <1>2, <1>3
<1> QED
  BY Zenon, <1>5, <1>10, <1>11, <1>12, <1>13 DEF BlobsInv

LEMMA DeleteRowKeeps == ASSUME BlobsInv, DeleteRow PROVE BlobsInv'
<1> DEFINE h == pass.h
           q == [pass EXCEPT !.pc = "walk", !.todo = pass.todo \ {h}]
<1>1. /\ pass.pc = "row" /\ pass' = q /\ ledger' = [ledger EXCEPT ![h] = NoRow]
      /\ UNCHANGED <<bset, bytes, refs, put, since, blame>>
  BY Zenon DEF DeleteRow
<1>2. h \in pass.todo /\ h \in Hashes
  BY Zenon, <1>1, BlobTypes DEF BlobsInv, PassType
<1>3. NoRow \in RowRecord /\ ~NoRow.there /\ ~NoRow.old
  BY Zenon DEF NoRow, RowRecord
<1>4. ledger' \in [Hashes -> RowRecord] /\ \A g \in Hashes : ledger'[g] = IF g = h THEN NoRow ELSE ledger[g]
  BY Zenon, <1>1, <1>2, <1>3, BlobTypes
<1>5. /\ q \in PassRecord /\ q.pc = "walk" /\ q.rows = pass.rows /\ q.todo = pass.todo \ {h}
      /\ q.truth = pass.truth /\ q.broken = pass.broken
  BY Zenon, BlobTypes DEF PassRecord, PassPcs
<1> HIDE DEF q
<1>6. BlobsType' /\ PassType'
  BY Zenon, <1>1, <1>3, <1>4, <1>5 DEF BlobsInv, BlobsType, PassType, Counted, Listed
<1>7. \A g \in Hashes : Puts(g)' = Puts(g) /\ Referred(g)' = Referred(g)
  BY Zenon, <1>1 DEF Puts, Referred
<1>8. h \notin blame => Referred(h) = 0 /\ Puts(h) = {}
  BY Zenon, <1>1, <1>2 DEF BlobsInv, KeptInv, HalfCollected
<1>9. PutInv'
  BY <1>1, <1>3, <1>4, <1>7, <1>8 DEF BlobsInv, PutInv
<1>10. KeptInv'
  <2> SUFFICES ASSUME NEW g \in Hashes, g \notin blame
               PROVE  /\ Referred(g) > 0 => ledger'[g].there /\ bytes[g].there
                      /\ ledger'[g].there => bytes[g].there
    BY Zenon, <1>1, <1>5, <1>7 DEF KeptInv, HalfCollected
  <2>1. CASE g = h
    BY <2>1, <1>3, <1>4, <1>8
  <2>2. CASE g # h
    BY Zenon, <2>2, <1>4 DEF BlobsInv, KeptInv, HalfCollected
  <2> QED
    BY Zenon, <2>1, <2>2
<1>11. SightInv'
  BY ZenonT(60), <1>1, <1>3, <1>4, <1>5, <1>7 DEF BlobsInv, SightInv, Counted, Walks
<1>12. QuietInv'
  <2> SUFFICES ASSUME ~since.any, NEW g \in Hashes
               PROVE  /\ pass.truth[g] = Referred(g)
                      /\ ~pass.rows[g].there => ~ledger'[g].there
                      /\ g \in pass.todo /\ g # h =>
                            pass.rows[g].there /\ ledger'[g] = pass.rows[g] /\ g \notin pass.broken
                      /\ ~(g \in pass.todo /\ g # h) =>
                            IF pass.rows[g].there THEN Through(g)' ELSE g \notin pass.broken
    BY <1>1, <1>5, <1>7 DEF QuietInv, Listed, Walks, HalfCollected
  <2>1. /\ pass.truth[g] = Referred(g)
        /\ ~pass.rows[g].there => ~ledger[g].there
        /\ g \in pass.todo => /\ pass.rows[g].there /\ ledger[g] = pass.rows[g] /\ g \notin pass.broken
                              /\ g = h => Collects(g) /\ ~bytes[g].there
        /\ g \notin pass.todo => IF pass.rows[g].there THEN Through(g) ELSE g \notin pass.broken
    BY Zenon, <1>1 DEF BlobsInv, QuietInv, Counted, Listed, Walks, HalfCollected
  <2>2. Collects(g)' <=> Collects(g)
    BY Zenon, <1>1, <1>5 DEF Collects
  <2>3. CASE g = h
    <3>1. Through(g)'
      BY Zenon, <2>1, <2>2, <2>3, <1>1, <1>2, <1>3, <1>4, <1>5 DEF Through
    <3> QED
      BY Zenon, <2>1, <2>3, <3>1, <1>3, <1>4
  <2>4. CASE g # h
    <3>1. ledger'[g] = ledger[g]
      BY Zenon, <2>4, <1>4
    <3>2. Through(g)' <=> Through(g)
      BY Zenon, <2>2, <3>1, <1>1, <1>5 DEF Through
    <3> QED
      BY Zenon, <2>1, <2>4, <3>1, <3>2
  <2> QED
    BY Zenon, <2>3, <2>4
<1> QED
  BY Zenon, <1>6, <1>9, <1>10, <1>11, <1>12 DEF BlobsInv

(* Old bytes without a row, as far as the pass knows.                        *)
LEMMA ListOrphansKeeps == ASSUME BlobsInv, ListOrphans PROVE BlobsInv'
<1> DEFINE rowless == {h \in Hashes : ~pass.rows[h].there}
           todo == {h \in rowless : bytes[h].there /\ bytes[h].old}
           broken == pass.broken \cup {h \in rowless : pass.truth[h] > 0}
           q == [pass EXCEPT !.pc = "orphans", !.todo = todo, !.broken = broken]
<1>1. /\ pass.pc = "walk" /\ pass.todo = {} /\ pass' = q
      /\ UNCHANGED <<bset, ledger, bytes, refs, put, since, blame>>
  BY Zenon DEF ListOrphans
<1>2. /\ todo \in SUBSET Hashes /\ broken \in SUBSET Hashes
      /\ \A g \in Hashes : g \in todo <=> ~pass.rows[g].there /\ bytes[g].there /\ bytes[g].old
      /\ \A g \in Hashes : g \in broken <=> g \in pass.broken \/ (~pass.rows[g].there /\ pass.truth[g] > 0)
  BY Zenon, BlobTypes
<1> HIDE DEF todo, broken
<1>3. /\ q \in PassRecord /\ q.pc = "orphans" /\ q.rows = pass.rows /\ q.todo = todo
      /\ q.truth = pass.truth /\ q.broken = broken
  BY Zenon, <1>2, BlobTypes DEF PassRecord, PassPcs
<1> HIDE DEF q
<1>4. BlobsType' /\ PassType'
  BY Zenon, <1>1, <1>3 DEF BlobsInv, BlobsType, PassType, Counted, Listed
<1>5. \A g \in Hashes : Puts(g)' = Puts(g) /\ Referred(g)' = Referred(g)
  BY Zenon, <1>1 DEF Puts, Referred
<1>6. PutInv' /\ KeptInv'
  BY <1>1, <1>3, <1>5 DEF BlobsInv, PutInv, KeptInv, HalfCollected
<1>7. SightInv'
  <2> SUFFICES ASSUME NEW g \in Hashes
               PROVE  /\ pass.truth[g] = 0 /\ ledger[g].old /\ g \notin since.found => Referred(g) = 0
                      /\ g \in todo /\ g \notin since.wrote
                           => /\ \A p \in Puts(g) : put[p].pc # "row"
                              /\ g \notin blame => ~ledger[g].there /\ Referred(g) = 0 /\ Puts(g) = {}
    BY Zenon, <1>1, <1>3, <1>5 DEF SightInv, Walks
  <2>1. pass.truth[g] = 0 /\ ledger[g].old /\ g \notin since.found => Referred(g) = 0
    BY Zenon, <1>1 DEF BlobsInv, SightInv, Counted
  <2>2. ASSUME g \in todo PROVE \A p \in Puts(g) : put[p].pc # "row"
    BY Zenon, <2>2, <1>2 DEF BlobsInv, PutInv
  <2>3. ASSUME g \in todo, g \notin blame PROVE ~ledger[g].there /\ Referred(g) = 0 /\ Puts(g) = {}
    <3>1. ~ledger[g].there
      BY Zenon, <2>3, <1>1, <1>2 DEF BlobsInv, SightInv, Walks
    <3>2. Referred(g) = 0
      BY <2>3, <3>1, BlobTypes DEF BlobsInv, KeptInv
    <3>3. \A p \in Puts(g) : put[p].pc # "create" /\ put[p].pc # "row"
      BY Zenon, <2>2, <2>3, <3>1 DEF BlobsInv, PutInv
    <3>4. \A p \in Puts(g) : put[p].pc \in {"row", "create"}
      BY Zenon, BlobTypes DEF Puts
    <3> QED
      BY Zenon, <3>1, <3>2, <3>3, <3>4
  <2> QED
    BY Zenon, <2>1, <2>2, <2>3
<1>8. QuietInv'
  <2> SUFFICES ASSUME ~since.any, NEW g \in Hashes
               PROVE  /\ pass.truth[g] = Referred(g)
                      /\ ~pass.rows[g].there => ~ledger[g].there
                      /\ pass.rows[g].there => Through(g)' /\ g \notin todo
                      /\ ~pass.rows[g].there => /\ g \in broken <=> pass.truth[g] > 0
                                                /\ bytes[g].old => g \in todo
    BY Zenon, <1>1, <1>3, <1>5 DEF QuietInv, Listed, Walks
  <2>1. /\ pass.truth[g] = Referred(g)
        /\ ~pass.rows[g].there => ~ledger[g].there
        /\ IF pass.rows[g].there THEN Through(g) ELSE g \notin pass.broken
    BY Zenon, <1>1 DEF BlobsInv, QuietInv, Counted, Listed, Walks
  <2>2. Collects(g)' <=> Collects(g)
    BY Zenon, <1>1, <1>3 DEF Collects
  <2>3. pass.rows[g].there => (Through(g)' <=> Through(g))
    BY Zenon, <2>2, <1>1, <1>2, <1>3 DEF Through
  <2>4. bytes[g].old => bytes[g].there
    BY Zenon DEF BlobsInv, BlobsType
  <2> QED
    BY Zenon, <2>1, <2>3, <2>4, <1>2
<1> QED
  BY <1>4, <1>6, <1>7, <1>8 DEF BlobsInv

LEMMA DeleteOrphanKeeps == ASSUME BlobsInv, NEW h \in Hashes, DeleteOrphan(h) PROVE BlobsInv'
<1> DEFINE q == [pass EXCEPT !.todo = pass.todo \ {h}]
<1>1. /\ pass.pc = "orphans" /\ h \in pass.todo /\ pass' = q
      /\ bytes' = [bytes EXCEPT ![h] = NoBytes]
      /\ blame' = IF h \in since.wrote THEN blame \cup {h} ELSE blame
      /\ UNCHANGED <<bset, ledger, refs, put, since>>
  BY Zenon DEF DeleteOrphan
<1>2. NoBytes \in BytesRecord /\ ~NoBytes.there /\ ~NoBytes.old
  BY DEF NoBytes, BytesRecord
<1>3. bytes' \in [Hashes -> BytesRecord] /\ \A g \in Hashes : bytes'[g] = IF g = h THEN NoBytes ELSE bytes[g]
  BY Zenon, <1>1, <1>2, BlobTypes
<1>4. /\ q \in PassRecord /\ q.pc = "orphans" /\ q.rows = pass.rows /\ q.todo = pass.todo \ {h}
      /\ q.truth = pass.truth /\ q.broken = pass.broken
  BY Zenon, <1>1, BlobTypes DEF PassRecord
<1> HIDE DEF q
<1>5. BlobsType' /\ PassType'
  BY Zenon, <1>1, <1>2, <1>3, <1>4 DEF BlobsInv, BlobsType, PassType, Counted, Listed
<1>6. \A g \in Hashes : Puts(g)' = Puts(g) /\ Referred(g)' = Referred(g)
  BY Zenon, <1>1 DEF Puts, Referred
<1>7. h \notin blame' => ~ledger[h].there /\ Referred(h) = 0 /\ Puts(h) = {}
  BY Zenon, <1>1 DEF BlobsInv, SightInv
<1>8. \A g \in Hashes : g \notin blame' => g \notin blame
  BY Zenon, <1>1
<1>9. PutInv'
  <2> SUFFICES ASSUME NEW g \in Hashes, NEW p \in Puts(g)
               PROVE  /\ ~put[p].found => ~ledger[g].old
                      /\ put[p].pc = "row" => ~bytes'[g].old
                      /\ g \notin blame' => bytes'[g].there /\ (put[p].pc = "create" => ledger[g].there)
    BY Zenon, <1>1, <1>6 DEF PutInv
  <2>1. CASE g = h
    BY Zenon, <2>1, <1>2, <1>3, <1>7 DEF BlobsInv, PutInv
  <2>2. CASE g # h
    BY <2>2, <1>3, <1>8 DEF BlobsInv, PutInv
  <2> QED
    BY <2>1, <2>2
<1>10. KeptInv'
  <2> SUFFICES ASSUME NEW g \in Hashes, g \notin blame'
               PROVE  /\ Referred(g) > 0 => ledger[g].there /\ bytes'[g].there
                      /\ ledger[g].there => bytes'[g].there
    BY Zenon, <1>1, <1>4, <1>6 DEF KeptInv, HalfCollected
  <2>1. CASE g = h
    BY <2>1, <1>7
  <2>2. CASE g # h
    BY Zenon, <2>2, <1>1, <1>3, <1>8 DEF BlobsInv, KeptInv, HalfCollected
  <2> QED
    BY Zenon, <2>1, <2>2
<1>11. SightInv'
  BY ZenonT(60), <1>1, <1>4, <1>6, <1>8 DEF BlobsInv, SightInv, Counted, Walks
<1>12. QuietInv'
  <2> SUFFICES ASSUME ~since.any, NEW g \in Hashes
               PROVE  /\ pass.truth[g] = Referred(g)
                      /\ ~pass.rows[g].there => ~ledger[g].there
                      /\ pass.rows[g].there => Through(g)' /\ g \notin pass.todo \ {h}
                      /\ ~pass.rows[g].there => /\ g \in pass.broken <=> pass.truth[g] > 0
                                                /\ bytes'[g].old => g \in pass.todo \ {h}
    BY Zenon, <1>1, <1>4, <1>6 DEF QuietInv, Listed, Walks
  <2>1. /\ pass.truth[g] = Referred(g)
        /\ ~pass.rows[g].there => ~ledger[g].there
        /\ pass.rows[g].there => Through(g) /\ g \notin pass.todo
        /\ ~pass.rows[g].there => /\ g \in pass.broken <=> pass.truth[g] > 0
                                  /\ bytes[g].old => g \in pass.todo
    BY Zenon, <1>1 DEF BlobsInv, QuietInv, Counted, Listed
  <2>2. Collects(g)' <=> Collects(g)
    BY Zenon, <1>1, <1>4 DEF Collects
  <2>3. g # h => (Through(g)' <=> Through(g))
    BY Zenon, <2>2, <1>1, <1>3, <1>4 DEF Through
  <2> QED
    BY Zenon, <2>1, <2>3, <1>1, <1>2, <1>3
<1> QED
  BY <1>5, <1>9, <1>10, <1>11, <1>12 DEF BlobsInv

LEMMA PassEndsKeeps == ASSUME BlobsInv, PassEnds PROVE BlobsInv'
<1> DEFINE q == [pass EXCEPT !.pc = "end"]
<1>1. pass.pc = "orphans" /\ pass.todo = {} /\ pass' = q /\ UNCHANGED <<bset, ledger, bytes, refs, put, since, blame>>
  BY Zenon DEF PassEnds
<1>2. /\ q \in PassRecord /\ q.pc = "end" /\ q.rows = pass.rows /\ q.todo = {}
      /\ q.truth = pass.truth /\ q.broken = pass.broken
  BY Zenon, <1>1, BlobTypes DEF PassRecord, PassPcs
<1> HIDE DEF q
<1>3. BlobsType' /\ PassType'
  BY Zenon, <1>1, <1>2 DEF BlobsInv, BlobsType, PassType, Counted, Listed
<1>4. \A g \in Hashes : Puts(g)' = Puts(g) /\ Referred(g)' = Referred(g)
  BY Zenon, <1>1 DEF Puts, Referred
<1>5. PutInv' /\ KeptInv'
  BY <1>1, <1>2, <1>4 DEF BlobsInv, PutInv, KeptInv, HalfCollected
<1>6. SightInv'
  BY Zenon, <1>1, <1>2, <1>4 DEF BlobsInv, SightInv, Counted, Walks
<1>7. QuietInv'
  <2> SUFFICES ASSUME ~since.any, NEW g \in Hashes
               PROVE  /\ pass.truth[g] = Referred(g)
                      /\ ~pass.rows[g].there => ~ledger[g].there
                      /\ pass.rows[g].there => Through(g)'
                      /\ ~pass.rows[g].there => /\ g \in pass.broken <=> pass.truth[g] > 0
                                                /\ ~bytes[g].old
    BY Zenon, <1>1, <1>2, <1>4 DEF QuietInv, Listed, Walks
  <2>1. /\ pass.truth[g] = Referred(g)
        /\ ~pass.rows[g].there => ~ledger[g].there
        /\ pass.rows[g].there => Through(g)
        /\ ~pass.rows[g].there => /\ g \in pass.broken <=> pass.truth[g] > 0
                                  /\ bytes[g].old => g \in pass.todo
    BY Zenon, <1>1 DEF BlobsInv, QuietInv, Counted, Listed
  <2>2. Collects(g)' <=> Collects(g)
    BY Zenon, <1>1, <1>2 DEF Collects
  <2>3. Through(g)' <=> Through(g)
    BY Zenon, <2>2, <1>1, <1>2 DEF Through
  <2> QED
    BY Zenon, <2>1, <2>3, <1>1
<1> QED
  BY <1>3, <1>5, <1>6, <1>7 DEF BlobsInv

LEMMA BlobsStart == BlobsInit => BlobsInv
<1> SUFFICES ASSUME BlobsInit PROVE BlobsInv
  BY Zenon
<1>1. pass = NoPass /\ pass.pc = "idle" /\ pass \in PassRecord
  BY Zenon, IdlePass DEF BlobsInit
<1>2. bset \in BlobSetup
  BY Zenon, BlobsAssumption DEF BlobsInit
<1>3. /\ NoRow \in RowRecord /\ ~NoRow.there /\ ~NoRow.old /\ NoBytes \in BytesRecord /\ ~NoBytes.there /\ ~NoBytes.old
      /\ NoPut \in PutRecord /\ NoPut.pc = "idle" /\ ~NoPut.found
  BY Zenon DEF NoRow, RowRecord, NoBytes, BytesRecord, NoPut, PutRecord, Sources
<1>4. /\ ledger \in [Hashes -> RowRecord] /\ bytes \in [Hashes -> BytesRecord] /\ put \in [Putters -> PutRecord]
      /\ refs \in [Sources -> [Hashes -> Nat]]
      /\ \A h \in Hashes : ledger[h] = NoRow /\ bytes[h] = NoBytes /\ Referred(h) = 0
      /\ \A p \in Putters : put[p] = NoPut
  BY <1>3 DEF BlobsInit, Referred, Sources
<1>5. since \in SinceRecord
  BY Zenon DEF BlobsInit, SinceRecord
<1>6. BlobsType /\ PassType
  BY Zenon, <1>1, <1>2, <1>3, <1>4, <1>5 DEF BlobsType, PassType, Counted, Listed
<1>7. \A h \in Hashes : Puts(h) = {}
  BY Zenon, <1>3, <1>4 DEF Puts
<1>8. PutInv /\ KeptInv
  BY <1>1, <1>3, <1>4, <1>7 DEF PutInv, KeptInv, HalfCollected
<1>9. SightInv /\ QuietInv
  BY Zenon, <1>1 DEF SightInv, QuietInv, Counted, Walks
<1> QED
  BY Zenon, <1>6, <1>8, <1>9 DEF BlobsInv

LEMMA BlobsInvSuffices == BlobsInv => BytesKept
<1> SUFFICES ASSUME BlobsInv PROVE BlobsTypeOK /\ ReferredHasBytes /\ QuietPassSettles
  BY Zenon DEF BytesKept
<1>1. BlobsTypeOK
  <2>1. \A h \in Hashes : (ledger[h].old => ledger[h].there) /\ (bytes[h].old => bytes[h].there)
    BY Zenon DEF BlobsInv, BlobsType
  <2> QED
    BY Zenon, <2>1, BlobTypes DEF BlobsTypeOK, PassPcs
<1>2. ReferredHasBytes
  BY Zenon DEF ReferredHasBytes, BlobsInv, KeptInv
<1>3. QuietPassSettles
  <2> SUFFICES ASSUME pass.pc = "end", ~since.any
               PROVE  /\ \A h \in Hashes :
                            /\ Referred(h) > 0 /\ ledger[h].there => ledger[h].count = Referred(h)
                            /\ Referred(h) = 0 /\ ~bset.pinned => ~ledger[h].old
                            /\ bytes[h].old => ledger[h].there
                      /\ pass.broken = {h \in Hashes : Referred(h) > 0 /\ ~(ledger[h].there /\ bytes[h].there)}
    BY Zenon DEF QuietPassSettles
  <2>1. ASSUME NEW h \in Hashes
        PROVE  /\ Referred(h) > 0 /\ ledger[h].there => ledger[h].count = Referred(h)
               /\ Referred(h) = 0 /\ ~bset.pinned => ~ledger[h].old
               /\ bytes[h].old => ledger[h].there
               /\ h \in pass.broken <=> Referred(h) > 0 /\ ~(ledger[h].there /\ bytes[h].there)
    <3>1. /\ pass.truth[h] = Referred(h) /\ h \notin pass.todo
          /\ ~pass.rows[h].there => ~ledger[h].there
          /\ pass.rows[h].there => Through(h)
          /\ ~pass.rows[h].there => /\ h \in pass.broken <=> pass.truth[h] > 0
                                    /\ bytes[h].old => h \in pass.todo
      BY Zenon DEF BlobsInv, QuietInv, Counted, Listed
    <3>2. (ledger[h].old => ledger[h].there) /\ (bytes[h].old => bytes[h].there) /\ Referred(h) \in Nat
      BY Zenon, BlobTypes DEF BlobsInv, BlobsType
    <3>3. CASE pass.rows[h].there
      BY <3>1, <3>2, <3>3 DEF Through, Collects
    <3>4. CASE ~pass.rows[h].there
      BY Zenon, <3>1, <3>2, <3>4
    <3> QED
      BY Zenon, <3>3, <3>4
  <2>2. pass.broken \in SUBSET Hashes
    BY Zenon, BlobTypes
  <2> QED
    BY Zenon, <2>1, <2>2
<1> QED
  BY Zenon, <1>1, <1>2, <1>3

(* Whatever puts, deletes and passes overlap, the bytes of a hash that a row *)
(* refers to are in the bucket, unless a pass collected them while a put     *)
(* took them for granted; and a pass that nothing else disturbs leaves every *)
(* count right and nothing to collect (reconcile.go Reconcile, truthCounts,  *)
(* orphanKeys; blob_writepath.go PutBlob).                                   *)
THEOREM BytesAlwaysKept == BlobsSpec => []BytesKept
<1>1. BlobsInit => BlobsInv
  BY Zenon, BlobsStart
<1>2. BlobsInv /\ [BlobsNext]_blobVars => BlobsInv'
  <2> SUFFICES ASSUME BlobsInv, [BlobsNext]_blobVars PROVE BlobsInv'
    BY Zenon
  <2>1. ASSUME NEW p \in Putters,
               \/ \E h \in Hashes, s \in Sources : StoreFinds(p, h, s) \/ StoreBytes(p, h, s)
               \/ IndexPut(p) \/ CreateObject(p) \/ PutFails(p)
        PROVE  BlobsInv'
    BY Zenon, <2>1, StoreFindsKeeps, StoreBytesKeeps, IndexPutKeeps, CreateObjectKeeps, PutFailsKeeps
  <2>2. ASSUME NEW h \in Hashes,
               \/ \E s \in Sources : DeleteObject(s, h)
               \/ Ages(h) \/ WalkRow(h) \/ DeleteByte(h) \/ DeleteOrphan(h)
        PROVE  BlobsInv'
    BY Zenon, <2>2, DeleteObjectKeeps, AgesKeeps, WalkRowKeeps, DeleteByteKeeps, DeleteOrphanKeeps
  <2>3. CASE ReadTruth \/ LedgerRows \/ DeleteRow \/ ListOrphans \/ PassEnds \/ Report \/ PassFails
    BY Zenon, <2>3, ReadTruthKeeps, LedgerRowsKeeps, DeleteRowKeeps, ListOrphansKeeps, PassEndsKeeps, ReportKeeps,
       PassFailsKeeps
  <2>4. CASE UNCHANGED blobVars
    <3>1. UNCHANGED <<bset, ledger, bytes, refs, put, pass, since, blame>>
      BY Zenon, <2>4 DEF blobVars
    <3>2. BlobsType' /\ PassType'
      BY Zenon, <3>1 DEF BlobsInv, BlobsType, PassType, Counted, Listed
    <3>3. PutInv' /\ KeptInv'
      BY Zenon, <3>1 DEF BlobsInv, PutInv, KeptInv, HalfCollected, Puts, Referred
    <3>4. SightInv'
      BY Zenon, <3>1 DEF BlobsInv, SightInv, Counted, Walks, Puts, Referred
    <3>5. \A h \in Hashes : /\ Collects(h)' <=> Collects(h)
                            /\ HalfCollected(h)' <=> HalfCollected(h)
                            /\ Referred(h)' = Referred(h)
      BY Zenon, <3>1 DEF Collects, HalfCollected, Referred
    <3>6. \A h \in Hashes : Through(h)' <=> Through(h)
      BY Zenon, <3>1, <3>5 DEF Through
    <3>7. QuietInv'
      BY Zenon, <3>1, <3>5, <3>6 DEF BlobsInv, QuietInv, Counted, Listed, Walks
    <3> QED
      BY Zenon, <3>2, <3>3, <3>4, <3>7 DEF BlobsInv
  <2> QED
    BY Zenon, <2>1, <2>2, <2>3, <2>4 DEF BlobsNext
<1>3. BlobsInv => BytesKept
  BY Zenon, BlobsInvSuffices
<1> QED
  BY <1>1, <1>2, <1>3, PTL DEF BlobsSpec
=============================================================================
