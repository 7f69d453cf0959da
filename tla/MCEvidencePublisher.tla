---- MODULE MCEvidencePublisher ----
(* Three calls that compete for run ids, with faults and a power failure. *)
EXTENDS EvidencePublisher, TLC

CONSTANTS p1, p2, p3

Symmetry == Permutations({p1, p2, p3})
====
