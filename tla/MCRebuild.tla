----------------------------- MODULE MCRebuild -----------------------------
(* Two aggregates and the deployments the runs consider.                    *)
EXTENDS Rebuild, TLC

Deployment(sink, consumers, deletes, models, f, cached) ==
    [sink |-> sink, consumers |-> consumers, deletes |-> deletes,
     models |-> models, faults |-> f, cached |-> cached]

(* Without caches: a graph kept by all consumers, rows are never deleted,    *)
(* an apply or a rebuild fails; an index kept by one consumer, built twice.  *)
Fresh == {Deployment("graph", Consumers, FALSE, 2, {"apply", "rebuild"}, FALSE)}
         \cup {Deployment("search", {c}, FALSE, 3, {"rebuild"}, FALSE) : c \in Consumers}

(* With caches, one consumer that applies in order: a graph, consumer and    *)
(* rebuild fail or die; an index, rows are deleted.                          *)
Caching == {Deployment("graph", {c}, FALSE, 2, {"consumer", "rebuild"}, TRUE) : c \in Consumers}
           \cup {Deployment("search", {c}, TRUE, 2, {}, TRUE) : c \in Consumers}

Safe == Fresh \cup Caching

(* An index, nothing is deleted and nothing fails.                          *)
Quiet == {Deployment("search", Consumers, FALSE, 2, {}, TRUE)}

(* Consumers are interchangeable; aggregates are not (they are read in id   *)
(* order).                                                                  *)
Symmetric == Permutations(Consumers)
=============================================================================
