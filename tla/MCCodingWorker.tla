---- MODULE MCCodingWorker ----
(* Two worker processes with worker ids of their own. *)
EXTENDS CodingWorker, TLC

CONSTANTS p1, p2, w1, w2, y1, k1, k2, same

OwnIds == (p1 :> w1) @@ (p2 :> w2)

\* The payload asks for a run_id prefix, so that every attempt derives its run from it.
SamePrefix == [y \in {y1} |-> same]
====
