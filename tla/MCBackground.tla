---------------------------- MODULE MCBackground ----------------------------
(* Instances of the loops that run in the background for TLC: the outbox     *)
(* relay, the reconciler and the document plane.  A behaviour is about one   *)
(* of them, its focus; the others stay as they begin.                        *)
EXTENDS OutboxRelay, Reconcile, Documents

CONSTANT Focuses  \* subset of {"relay", "reconcile", "documents"}

VARIABLE focus

-----------------------------------------------------------------------------
(* Of the reconciler: one aggregate of an index, or of a graph; two of an    *)
(* index, of which one is not written again; one that is created while the   *)
(* reconciler scans.  No symmetry, repairs are in id order.                  *)
Repairing(sink, existing, versions, losses) ==
    [sink |-> sink, existing |-> existing, written |-> {1}, versions |-> versions, lost |-> losses]
Repairings ==
    { Repairing("search", {1}, 3, 2), Repairing("graph", {1}, 3, 2), Repairing("search", {1, 2}, 2, 1),
      Repairing("search", {}, 2, 1), Repairing("graph", {}, 2, 1) }
RepairingsInShort == { Repairing("search", {1}, 3, 2), Repairing("graph", {1}, 3, 2) }

(* One document, two writers, the leader and one client that compacts.       *)
Usual == {{"sync"}, {"callers"}, {"archive"}, {"archive", "purge"}, {"archive", "callers"}}
UsualInShort == {{"sync"}, {"archive", "callers"}}

-----------------------------------------------------------------------------
allVars == <<focus, vars, recVars, docVars>>

Some(S) == CHOOSE x \in S : TRUE

BackgroundInit ==
    /\ focus \in Focuses
    /\ Init
    /\ RecInit /\ (focus # "reconcile" => recSetup = Some(RecSetups))
    /\ DocInit /\ (focus # "documents" => features = Some(Deployments))

RelayStep == focus = "relay" /\ Next /\ UNCHANGED <<focus, recVars, docVars>>
ReconcileStep == focus = "reconcile" /\ RecNext /\ UNCHANGED <<focus, vars, docVars>>
DocumentStep == focus = "documents" /\ DocNext /\ UNCHANGED <<focus, vars, recVars>>

BackgroundNext == RelayStep \/ ReconcileStep \/ DocumentStep

BackgroundSpec == BackgroundInit /\ [][BackgroundNext]_allVars

(* A worker process keeps running: it campaigns on a timer, the watchdog     *)
(* ticks, the relay polls on an interval whether or not it is notified.      *)
RelayFair ==
    \A w \in Workers :
        /\ WF_vars(focus = "relay" /\ Campaign(w)) /\ WF_vars(focus = "relay" /\ Heartbeat(w))
        /\ WF_vars(focus = "relay" /\ (Select(w) \/ Publish(w) \/ Commit(w)))

(* The relay and the consumers poll without end and the reconciler runs on   *)
(* every tick; commands and losses need not happen.                          *)
Repaired(A) == focus = "reconcile" /\ A /\ UNCHANGED recSetup
RecFair ==
    /\ WF_recVars(Repaired(\E e \in outbox : PublishRow(e)))
    /\ WF_recVars(Repaired(\E e \in flight : Apply(e)))
    /\ WF_recVars(Repaired(Reconciler))

(* Transactions end, time passes, and the document-plane loop ticks.         *)
DocFair ==
    /\ \A w \in Writers : WF_docVars(focus = "documents" /\ EndUpdate(w))
    /\ WF_docVars(focus = "documents" /\ BecomeQuiet)
    /\ WF_docVars(focus = "documents" /\ DocumentPlane)

FairBackgroundSpec == BackgroundSpec /\ RelayFair /\ RecFair /\ DocFair

-----------------------------------------------------------------------------
(* The document plane (document.go): serial compactions change no merge result, history is   *)
(* kept, the row keeps up, an unchanged document is not materialised again while its log is  *)
(* there, and a client that syncs has every update.                                          *)
DocumentsKept ==
    /\ DocTypeOK /\ MergeKeptIfSerial /\ HistoryKept /\ RowKeepsUp /\ NewsWhileLogged /\ SyncHeals

(* Every copy catches up: a committed event is published (relay.go Run), the projection ends *)
(* up holding exactly the rows (core/projection/reconcile.go), and a document's merged text   *)
(* reaches its row (document.go Materialize).                                                *)
CopiesCatchUp == EventuallyPublished /\ (focus = "reconcile" => Healed) /\ EventuallyInRow
=============================================================================
