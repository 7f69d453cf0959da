---- MODULE MCControlOutcome ----
(* Two Control processes adjudicate a job while the queue still runs. *)
EXTENDS ControlOutcome, TLC

CONSTANTS p1, p2

\* One contract is satisfied by the fact "ok", the other is never decided.
MCEvaluate ==
  [c \in Contracts |-> [f \in Facts |->
     IF c = "open" THEN "indeterminate" ELSE IF f = "ok" THEN "passed" ELSE "failed"]]

Symmetry == Permutations({p1, p2})
====
