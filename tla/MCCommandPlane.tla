--------------------------- MODULE MCCommandPlane ---------------------------
(* Two callers, two aggregates, up to three versions.                       *)
EXTENDS CommandPlane, TLC

CONSTANTS a1, a2

C(op, a, e) == [op |-> op, agg |-> a, expected |-> e]

(* An upsert and a delete of a1, batches that lock both aggregates in       *)
(* opposite orders, one that expects versions and writes a2 twice, and      *)
(* erasures of an identity with no row and of one at version 2.             *)
MCJobs ==
    {<<C("upsert", a1, -1)>>,
     <<C("delete", a1, -1)>>, <<C("upsert", a1, -1), C("upsert", a2, -1)>>,
     <<C("upsert", a2, -1), C("update", a1, -1)>>,
     <<C("create", a2, 0), C("update", a2, 1)>>,
     <<C("erase", a1, 0)>>, <<C("erase", a1, 2)>>}
=============================================================================
