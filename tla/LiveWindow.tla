----------------------------- MODULE LiveWindow -----------------------------
(* A live query (core/livequery): the view of one query shape in one         *)
(* partition, the ordered window it maintains, the change feed that drives   *)
(* it, the reconcile pass and a client that splices the deltas it is sent.   *)
(* A row is its sort position `key` (0: deleted, or not matching the filter) *)
(* with the id as tiebreak; everything under p.do or in dispatch runs on the *)
(* partition's goroutine and is one step.                                    *)
EXTENDS Naturals, Sequences, FiniteSets, SequencesExt

CONSTANTS
    LiveKeys,      \* sort positions a write may give a row, 0 among them
    LiveSetups     \* [limit, cushion, indexed, mode, table, commits: bound on the writes, faults]

VARIABLES
    lq,        \* the setup of this behaviour
    table,     \* Postgres: id -> [ver, key]
    log,       \* the entity's events in the order of the feed
    pos,       \* how many of them the partition has dispatched
    view,      \* the view
    client,    \* the rows the subscriber shows, as it spliced them
    recon,     \* the snapshot a Reconcile pass holds, <<>> when none
    blame      \* history: events that may leave the window wrong

liveVars == <<lq, table, log, pos, view, client, recon, blame>>

LiveIds == DOMAIN lq.table

(* Limit and cushion of the query (Engine options). *)
n == lq.limit
cap == lq.limit + lq.cushion

Row(id, c) == [id |-> id, ver |-> c.ver, key |-> c.key]

(* CompareCursors(a, b) <= 0: sort value first, id last. *)
NotAfter(a, b) == a.key < b.key \/ (a.key = b.key /\ a.id <= b.id)
Before(a, b) == NotAfter(a, b) /\ ~ NotAfter(b, a)

(* LiveStore.read: the matching rows in total order. *)
Truth == SetToSortSeq({Row(i, table[i]) : i \in {j \in LiveIds : table[j].key # 0}}, Before)
First(s, k) == SubSeq(s, 1, IF k < Len(s) THEN k ELSE Len(s))
Snapshot(limit) == First(Truth, limit)
After(rows, limit) ==
    First(IF rows = <<>> THEN Truth ELSE SelectSeq(Truth, LAMBDA r : Before(rows[Len(rows)], r)), limit)

-----------------------------------------------------------------------------
(* Window *)

indexOf(rows, id) ==
    IF \E i \in DOMAIN rows : rows[i].id = id
    THEN CHOOSE i \in DOMAIN rows : rows[i].id = id /\ \A j \in 1..(i - 1) : rows[j].id # id
    ELSE 0

(* 1-based: the place of the first row that sorts strictly after r. *)
insertPos(rows, r) == Cardinality({i \in DOMAIN rows : NotAfter(rows[i], r)}) + 1

Visible(w) == First(w.rows, n)

Enter(r, new) == [op |-> "enter", row |-> r, old |-> 0, new |-> new]
Leave(r, old) == [op |-> "leave", row |-> r, old |-> old, new |-> 0]
Move(r, old, new) == [op |-> "move", row |-> r, old |-> old, new |-> new]
Update(r, at) == [op |-> "update", row |-> r, old |-> at, new |-> at]

(* Mutant: a trimmed window still counts as the whole result. *)
trimTailComplete(w) ==
    IF Len(w.rows) > cap THEN [w EXCEPT !.rows = First(@, cap)] ELSE w

(* Window.trimTail: evict past the capacity. *)
trimTail(w) ==
    IF Len(w.rows) > cap THEN [w EXCEPT !.rows = First(@, cap), !.complete = FALSE] ELSE w

(* maybeRefill; ok says whether Postgres answers.  Tags: "dup", the answer   *)
(* holds a row the window has at another place; "refill", no answer.         *)
maybeRefill(w, ok) ==
    LET low  == lq.cushion \div 2
        need == cap - Len(w.rows)
        more == After(w.rows, need)
    IN CASE w.complete \/ Len(w.rows) >= n + low -> w
         [] ~ ok -> [w EXCEPT !.tags = @ \cup {"refill"}]
         [] OTHER -> [w EXCEPT !.complete = @ \/ Len(more) < need,
                               !.rows = @ \o more,
                               !.tags = @ \cup IF \E i \in DOMAIN more : indexOf(w.rows, more[i].id) # 0
                                               THEN {"dup"} ELSE {}]

(* A splice behind the last row of a window that does not reach the end of   *)
(* the result is tagged "tail" when a row it does not hold sorts before it.  *)
Splice(w, r, at) ==
    LET skipped == SelectSeq(Truth, LAMBDA t : t.id # r.id /\ indexOf(w.rows, t.id) = 0 /\ Before(t, r))
    IN [w EXCEPT !.rows = InsertAt(@, at, r),
                 !.tags = @ \cup IF at > Len(w.rows) /\ skipped # <<>> THEN {"tail"} ELSE {}]

insert(w, r, ok) ==
    LET at == insertPos(w.rows, r)
        evicted == IF Len(w.rows) >= n THEN <<Leave(w.rows[n], n + 1)>> ELSE <<>>
    IN IF at > Len(w.rows) /\ Len(w.rows) >= cap /\ ~ w.complete
       THEN w
       ELSE maybeRefill(trimTail([Splice(w, r, at) EXCEPT
                !.deltas = IF at <= n THEN <<Enter(r, at)>> \o evicted ELSE <<>>]), ok)

remove(w, at, ok) ==
    LET left == RemoveAt(w.rows, at)
        promoted == IF n <= Len(left) THEN <<Enter(left[n], n)>> ELSE <<>>
    IN maybeRefill([w EXCEPT !.rows = left,
                             !.deltas = IF at <= n THEN <<Leave(w.rows[at], at)>> \o promoted ELSE <<>>], ok)

reposition(w, old, r, ok) ==
    LET same == NotAfter(w.rows[old], r) /\ NotAfter(r, w.rows[old])
        cut  == [w EXCEPT !.rows = RemoveAt(@, old)]
        at   == insertPos(cut.rows, r)
        put  == Splice(cut, r, at)
        next == IF n <= Len(put.rows) THEN <<Enter(put.rows[n], n)>> ELSE <<>>
    IN IF same
       THEN [w EXCEPT !.rows[old] = r, !.deltas = IF old <= n THEN <<Update(r, old)>> ELSE <<>>]
       ELSE maybeRefill(trimTail([put EXCEPT
                !.deltas = CASE old <= n /\ at <= n -> <<Move(r, old, at)>>
                             [] old <= n /\ at > n -> <<Leave(r, old)>> \o next
                             [] old > n /\ at <= n -> <<Enter(r, at)>>
                             [] OTHER -> <<>>]), ok)

(* Window.Apply *)
Apply(w, ch, ok) ==
    LET old == indexOf(w.rows, ch.id)
        matches == ch.key # 0
    IN CASE old = 0 /\ ~ matches -> w
         [] old = 0 /\ matches -> insert(w, ch, ok)
         [] old # 0 /\ ~ matches -> remove(w, old, ok)
         [] OTHER -> reposition(w, old, ch, ok)

(* The client's side of the delta protocol: an entering row may push the     *)
(* last one out of the N it shows.                                           *)
Spliced(rows, d) ==
    CASE d.op = "enter" -> First(InsertAt(rows, d.new, d.row), n)
      [] d.op = "leave" -> IF d.old <= Len(rows) THEN RemoveAt(rows, d.old) ELSE rows
      [] d.old > Len(rows) -> rows
      [] d.op = "move"  -> InsertAt(RemoveAt(rows, d.old), d.new, d.row)
      [] OTHER -> ReplaceAt(rows, d.new, d.row)

-----------------------------------------------------------------------------
(* The view *)

(* A window is the rows, complete and, for one application, deltas and tags. *)
NoWindow == [rows |-> <<>>, complete |-> FALSE, deltas |-> <<>>, tags |-> {}]
newView == [st |-> "absent", win |-> NoWindow, streamMembers |-> {}, members |-> {},
            seen |-> [i \in LiveIds |-> 0], pending |-> <<>>, seed |-> <<>>, ids |-> {}]

Streamed == lq.mode = "streamed"
contains(v, id) == IF Streamed THEN id \in v.streamMembers ELSE indexOf(v.win.rows, id) # 0

(* view.applyStreamed: membership alone. *)
applyStreamed(v, ch) ==
    [v EXCEPT !.streamMembers = IF ch.key # 0 THEN @ \cup {ch.id} ELSE @ \ {ch.id}]

(* view.applyReady: the version high-water mark, the change, and the member  *)
(* index entry of the changed row, of no other.                              *)
applyReady(v, ch, ok) ==
    IF ch.ver <= v.seen[ch.id]
    THEN [v EXCEPT !.win.deltas = <<>>]
    ELSE LET new == [IF Streamed THEN applyStreamed(v, ch)
                     ELSE [v EXCEPT !.win = Apply([@ EXCEPT !.deltas = <<>>], ch, ok)]
                        EXCEPT !.seen[ch.id] = ch.ver]
             was == contains(v, ch.id)
             is == contains(new, ch.id)
         IN [new EXCEPT !.members = IF was = is THEN @
                                    ELSE IF is THEN @ \cup {ch.id} ELSE @ \ {ch.id}]

(* The pending changes, applied in turn when the view becomes ready. *)
Drained(v, ok) == FoldLeft(LAMBDA w, ch : applyReady(w, ch, ok), [v EXCEPT !.pending = <<>>], v.pending)

Held(v) == IF Streamed THEN v.streamMembers ELSE {v.win.rows[i].id : i \in DOMAIN v.win.rows}

(* High-water marks and member index of a freshly seeded view. *)
Seeded(v, page) ==
    [v EXCEPT !.seen = [i \in LiveIds |->
                           IF indexOf(page, i) # 0 /\ page[indexOf(page, i)].ver > @[i]
                           THEN page[indexOf(page, i)].ver ELSE @[i]],
              !.members = Held(v)]

(* predicateIndex.Candidates with the member index: an indexed equality      *)
(* filter lets through what matches now, a residual one everything.          *)
Candidate(ch) == ~ lq.indexed \/ ch.key # 0 \/ ch.id \in view.members

LiveInit ==
    /\ lq \in LiveSetups
    /\ table = [i \in LiveIds |-> [ver |-> 1, key |-> lq.table[i]]]
    /\ log = <<>>
    /\ pos = 0
    /\ view = newView
    /\ client = <<>>
    /\ recon = <<>>
    /\ blame = {}

(* A command commits: the row and its event; the relay publishes in order.   *)
Commit(id, key) ==
    /\ Len(log) < lq.commits
    /\ key # table[id].key \/ key # 0
    /\ LET c == [ver |-> table[id].ver + 1, key |-> key]
       IN /\ table' = [table EXCEPT ![id] = c]
          /\ log' = Append(log, Row(id, c))
    /\ UNCHANGED <<lq, pos, view, client, recon, blame>>

(* Engine.attach, first subscriber of the shape: the view is registered and  *)
(* buffers from now on.                                                      *)
attach ==
    /\ view.st = "absent"
    /\ view' = [view EXCEPT !.st = "registered"]
    /\ UNCHANGED <<lq, table, log, pos, client, recon, blame>>

(* seedView reads its snapshot off the dispatch goroutine, a streamed view   *)
(* a first page and then, in a read of its own, the full membership.         *)
ReadSeed ==
    /\ view.st = "registered"
    /\ view' = [view EXCEPT !.st = IF Streamed THEN "paged" ELSE "read",
                            !.seed = Snapshot(IF Streamed THEN n ELSE cap)]
    /\ UNCHANGED <<lq, table, log, pos, client, recon, blame>>

memberIDs ==
    /\ view.st = "paged"
    /\ view' = [view EXCEPT !.st = "read", !.ids = {i \in LiveIds : table[i].key # 0}]
    /\ UNCHANGED <<lq, table, log, pos, client, recon, blame>>

(* seedView activates the view and drains what was buffered; the subscriber  *)
(* renders the snapshot.                                                     *)
seedView(ok) ==
    /\ view.st = "read"
    /\ LET win  == IF Streamed THEN NoWindow
                   ELSE [NoWindow EXCEPT !.rows = view.seed, !.complete = Len(view.seed) < cap]
           held == [view EXCEPT !.st = "ready", !.seed = <<>>, !.ids = {}, !.win = win,
                                !.streamMembers = view.ids]
           v    == Drained(Seeded(held, view.seed), ok)
       IN /\ view' = [v EXCEPT !.win.tags = {}, !.win.deltas = <<>>]
          /\ blame' = blame \cup v.win.tags
          /\ client' = Visible(v.win)
    /\ UNCHANGED <<lq, table, log, pos, recon>>

(* seedView's read fails: the view is dropped, the next subscriber creates   *)
(* it again.                                                                 *)
SeedFails ==
    /\ lq.faults /\ view.st \in {"registered", "paged"}
    /\ view' = newView
    /\ UNCHANGED <<lq, table, log, pos, client, recon, blame>>

(* partition.dispatch of the next change of the feed.  Tags: "unrouted", the *)
(* view holds the row and is not among the candidates; "seeding", so do the  *)
(* snapshot or the changes of a view that is not ready yet.                  *)
dispatch(ok) ==
    /\ pos < Len(log)
    /\ pos' = pos + 1
    /\ LET ch == log[pos + 1]
           v  == CASE view.st = "absent" \/ ~ Candidate(ch) -> view
                   [] view.st # "ready" -> [view EXCEPT !.pending = Append(@, ch)]
                   [] OTHER -> applyReady(view, ch, ok)
           lost == IF view.st = "absent" \/ Candidate(ch) THEN {}
                   ELSE (IF view.st = "ready" /\ contains(view, ch.id) THEN {"unrouted"} ELSE {})
                        \cup (IF view.st # "ready" /\ (ch.id \in view.ids \/ indexOf(view.seed \o view.pending, ch.id) # 0)
                              THEN {"seeding"} ELSE {})
       IN /\ view' = [v EXCEPT !.win.tags = {}, !.win.deltas = <<>>]
          /\ blame' = blame \cup v.win.tags \cup lost
          /\ client' = FoldLeft(Spliced, client, v.win.deltas)
    /\ UNCHANGED <<lq, table, log, recon>>

(* Engine.Reconcile reads the truth off the dispatch goroutine ...           *)
ReconcileRead ==
    /\ view.st = "ready" /\ ~ Streamed /\ recon = <<>>
    /\ recon' = <<[seed |-> Snapshot(cap), at |-> pos]>>
    /\ UNCHANGED <<lq, table, log, pos, view, client, blame>>

(* windowDrift: the visible rows differ by id or version. *)
windowDrift(win, truth) ==
    LET ids(s) == [i \in DOMAIN s |-> <<s[i].id, s[i].ver>>]
    IN ids(Visible(win)) # ids(First(truth, n))

(* ... and then, on it, re-seeds a window that drifted and resets the        *)
(* clients, which render the view again.  "stale": changes were applied      *)
(* after the read.                                                           *)
Reconcile ==
    /\ recon # <<>> /\ view.st = "ready"
    /\ recon' = <<>>
    /\ LET seed == recon[1].seed
           win == [NoWindow EXCEPT !.rows = seed, !.complete = Len(seed) < cap]
       IN IF windowDrift(view.win, seed)
          THEN /\ view' = Seeded([view EXCEPT !.win = win, !.seen = [i \in LiveIds |-> 0]], seed)
               /\ client' = Visible(win)
               /\ blame' = IF recon[1].at = pos THEN {} ELSE {"stale"}
          ELSE UNCHANGED <<view, client, blame>>
    /\ UNCHANGED <<lq, table, log, pos>>

LiveNext ==
    \/ \E i \in LiveIds, k \in LiveKeys : Commit(i, k)
    \/ attach \/ ReadSeed \/ memberIDs \/ SeedFails \/ ReconcileRead \/ Reconcile
    \/ \E ok \in {TRUE} \cup (IF lq.faults THEN {FALSE} ELSE {}) : seedView(ok) \/ dispatch(ok)

LiveSpec == LiveInit /\ [][LiveNext]_liveVars

-----------------------------------------------------------------------------
(* Properties *)

CaughtUp == view.st = "ready" /\ pos = Len(log)

LiveTypeOK ==
    /\ view.st \in {"absent", "registered", "paged", "read", "ready"}
    /\ Len(view.win.rows) <= cap
    /\ pos \in 0..Len(log)
    /\ \A i \in DOMAIN view.win.rows : view.win.rows[i].id \in LiveIds /\ view.win.rows[i].key # 0

(* Window's invariant (window.go:11): once the feed is consumed, the rows    *)
(* are exactly the first len(rows) of the Postgres-ordered result, and       *)
(* complete means all of it, unless since the last seed or reconcile a row   *)
(* was spliced past rows the window does not hold (tail, insert and          *)
(* reposition), a refill ran ahead of the feed (dup), the index withheld a   *)
(* change of a held row (unrouted, seeding), or the reconcile pass applied a *)
(* snapshot older than the window (stale).                                   *)
ExactPrefix ==
    CaughtUp /\ ~ Streamed /\ blame \subseteq {"refill"} =>
        /\ view.win.rows = First(Truth, Len(view.win.rows))
        /\ view.win.complete => view.win.rows = Truth

(* A window with a row past its tail skips rows and shows no wrong one: what *)
(* it holds are rows of the result, current and in order (insert).           *)
RowsAreTrue ==
    CaughtUp /\ ~ Streamed /\ blame \subseteq {"refill", "tail"} =>
        /\ ToSet(view.win.rows) \subseteq ToSet(Truth)
        /\ \A i \in 2..Len(view.win.rows) : Before(view.win.rows[i - 1], view.win.rows[i])

(* The boundary refill: the visible window is full while rows exist, as long *)
(* as Postgres answers and none of the events of ExactPrefix came before.    *)
VisibleFull ==
    CaughtUp /\ ~ Streamed /\ blame = {} => Visible(view.win) = First(Truth, n)

(* The deltas of insert, remove and reposition: splicing them keeps the      *)
(* client's rows equal to the visible window, with a cushion of two or more  *)
(* and no failed refill.                                                     *)
ClientShowsWindow ==
    view.st = "ready" /\ ~ Streamed /\ lq.cushion >= 2 /\ "refill" \notin blame =>
        client = Visible(view.win)

(* ModeStreamed: membership is exact once the feed is consumed. *)
StreamedExact ==
    CaughtUp /\ Streamed /\ blame = {} => view.streamMembers = {i \in LiveIds : table[i].key # 0}
=============================================================================
