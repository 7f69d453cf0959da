----------------------------- MODULE MCRegistries -----------------------------
(* The two registries beside the task path, which share no state: a          *)
(* behaviour is one of the policy registry, or one of the knowledge index.   *)
(* Of the latter it has one reader beside one writer, or two writers.        *)
EXTENDS PolicyRegistry, KnowledgeIndex, TLC

CONSTANTS p1, p2, w1, w2

Node(i, k, w) == [id |-> i, kind |-> k, weight |-> w]
Edge(a, b, t) == [source |-> a, target |-> b, type |-> t, note |-> 0]
Query(op, a, d, dd) == [op |-> op, anchor |-> a, depth |-> d, dependency_depth |-> dd, limit |-> 1]

\* A chain of dependencies, one that would close a cycle, and another relation;
\* the last node is submitted with two contents.
MCSubmissions ==
  {Node(1, "ready", 0), Node(2, "completed", 1), Node(3, "blocked", 0), Node(3, "knowledge", 1)}
MCLinks ==
  {Edge(1, 2, "depends_on"), Edge(2, 1, "requires"), Edge(2, 3, "requires"), Edge(3, 1, "relates_to")}
MCRequests ==
  {Query("search", 1, 2, 0), Query("dependencies", 1, 0, 2), Query("next", 3, 2, 1)}

VARIABLE part

MCInit == RInit /\ KInit /\ part \in {"policy", "reads", "writes"}

\* A step beside a reader: no second writer, no edge that closes a cycle, and
\* nobody touches the rows of the metadata, the edges and the first nodes.
BesideReader ==
  /\ wpc'[w2] = "idle" /\ wedge'[w1] # Edge(2, 1, "requires")
  /\ damages' # damages => /\ meta' = meta /\ edges' = edges
                           /\ \A n \in 1..2 : nodes'[n] = nodes[n] /\ terms'[n] = terms[n]

MCNext ==
  \/ part = "policy" /\ RNext /\ UNCHANGED <<kvars, part>>
  \/ part = "reads" /\ KNext /\ BesideReader /\ UNCHANGED <<rvars, part>>
  \/ part = "writes" /\ (Write \/ Damage) /\ UNCHANGED <<rvars, part>>

MCSpec == MCInit /\ [][MCNext]_<<rvars, kvars, part>>
Symmetry == Permutations({p1, p2})
=============================================================================
