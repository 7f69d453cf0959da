---- MODULE MCJobQueue ----
(* JobQueue with two jobs, two workers and every clock reading. *)
EXTENDS JobQueue, TLC

CONSTANTS k1, k2, p1, p2, w1, w2, b1, b2, r1

MCKeys == {k1, k2}
MCPayloads == {p1, p2}
MCWorkerIds == {w1, w2}
MCBundles == {b1, b2}
MCReports == {r1}

Symmetry == Permutations(MCKeys) \cup Permutations(MCPayloads)
              \cup Permutations(MCWorkerIds) \cup Permutations(MCBundles)
====
