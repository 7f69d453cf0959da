--------------------------- MODULE EvidenceProofs ---------------------------
(***************************************************************************)
(* Evidence, for every contract, receipt, adapter and sequence of          *)
(* observations, and for any number of callers of the evidence store.      *)
(*                                                                         *)
(* The evaluator.  An expression is a tree whose references name different *)
(* clauses.  A decided node has its truth value in every world that agrees *)
(* with the decided clauses (induction from the leaves); and there is a    *)
(* world in which every node says what the undecided clauses allow it to,  *)
(* one way or the other, by its polarity (chosen from the root).  So the   *)
(* result is forced and nothing else is.  That a clause counts is shown on *)
(* the path from its reference to the root, with the siblings beside the   *)
(* path chosen from the root such that they do not decide.                 *)
(*                                                                         *)
(* The adapter.  Control accepts as many observations as there are facts,  *)
(* no two of one fact, and one that states each fact: by counting, those   *)
(* are all, and each is one the evaluator cannot tell from the built-in.   *)
(*                                                                         *)
(* The store.  A run directory is created last, after its record is on     *)
(* disk, and its record is removed only while there is no directory.  So a *)
(* directory that exists, or may come back, has its record both in memory  *)
(* and on disk; and a call that was answered has seen its own directory    *)
(* synced.                                                                 *)
(***************************************************************************)
EXTENDS EvidenceAdjudication, EvidencePublisher, FiniteSetTheorems, NaturalsInduction,
        SequenceTheorems, TLAPS

(* Numbers. *)

\* A set of numbers has a least one.
LEMMA LeastNumber ==
  ASSUME NEW T, T \subseteq Nat, T # {}
  PROVE  \E x \in T : \A y \in T : x <= y
<1>1. PICK R : R = OpToRel(<, Nat)
  OBVIOUS
<1>2. IsWellFoundedOn(R, Nat)
  BY <1>1, NatLessThanWellFounded
<1>3. PICK x \in T : \A y \in T : ~ (<<y, x>> \in R)
  BY <1>2, WFMin
<1>4. \A y \in T : ~ (y < x)
  BY <1>1, <1>3 DEF OpToRel
<1> QED BY <1>3, <1>4

\* Induction, for a set of numbers.
LEMMA NumberInduction ==
  ASSUME NEW K, 0 \in K, \A k \in Nat : k \in K => k + 1 \in K
  PROVE  \A k \in Nat : k \in K
<1> DEFINE T == Nat \ K
<1> SUFFICES ASSUME T # {} PROVE FALSE
  OBVIOUS
<1>1. PICK x \in T : \A y \in T : x <= y
  <2>1. T \subseteq Nat
    OBVIOUS
  <2> HIDE DEF T
  <2> QED BY <2>1, LeastNumber
<1>2. x # 0 /\ x - 1 \in Nat /\ x - 1 < x /\ (x - 1) + 1 = x
  BY <1>1
<1>3. x - 1 \notin T
  BY <1>1, <1>2
<1> QED BY <1>1, <1>2, <1>3

\* Induction over the nodes of a tree: children come before their node.
LEMMA TreeInduction ==
  ASSUME NEW root, IsTree(root), NEW Q,
         \A i \in DOMAIN root : (\A k \in root[i].kids : k \in Q) => i \in Q
  PROVE  \A i \in DOMAIN root : i \in Q
<1> DEFINE K == {m \in Nat : \A i \in DOMAIN root : i <= m => i \in Q}
<1>0. Len(root) \in Nat /\ DOMAIN root = 1..Len(root)
  BY DEF IsTree
<1>1. 0 \in K
  BY <1>0
<1>2. ASSUME NEW m \in Nat, m \in K PROVE m + 1 \in K
  <2>1. ASSUME NEW i \in DOMAIN root, i <= m + 1 PROVE i \in Q
    <3>1. root[i].kids \subseteq 1..(i - 1)
      BY DEF IsTree
    <3>2. ASSUME NEW k \in root[i].kids PROVE k \in Q
      <4>1. k \in DOMAIN root /\ k <= m
        BY <1>0, <2>1, <3>1
      <4> QED BY <1>2, <4>1
    <3> QED BY <3>2
  <2> QED BY <2>1
<1>3. \A m \in Nat : m \in K
  <2> HIDE DEF K
  <2> QED BY <1>1, <1>2, NumberInduction
<1>4. ASSUME NEW i \in DOMAIN root PROVE i \in Q
  <2>1. i \in Nat
    BY <1>0
  <2>2. i \in K
    BY <1>3, <2>1
  <2> QED BY <2>1, <2>2
<1> QED BY <1>4

-----------------------------------------------------------------------------
(* The two recursive functions over an expression: the three-valued results  *)
(* and the two-valued meaning. *)

IsValue(root, pr, v) == v = [i \in DOMAIN root |-> EvaluateNode(root[i], pr, v)]

IsTruth(root, S, h) == h = [i \in DOMAIN root |-> NodeHolds(root[i], S, h)]

\* The value of a node is determined by those of its children.
LEMMA ValueAgrees ==
  ASSUME NEW root, IsTree(root), NEW pr, NEW g, NEW h, NEW i \in DOMAIN root,
         \A k \in root[i].kids : g[k] = h[k]
  PROVE  EvaluateNode(root[i], pr, g) = EvaluateNode(root[i], pr, h)
<1> DEFINE kids == root[i].kids
<1>1. AllOf(kids, g) = AllOf(kids, h)
  BY DEF AllOf
<1>2. AnyOf(kids, g) = AnyOf(kids, h)
  BY DEF AnyOf
<1>3. \A r : {k \in kids : g[k] = r} = {k \in kids : h[k] = r}
  OBVIOUS
<1>4. \A r : Count(kids, g, r) = Count(kids, h, r)
  <2> HIDE DEF kids
  <2> QED BY <1>3 DEF Count
<1>5. AtLeast(root[i].minimum, kids, g) = AtLeast(root[i].minimum, kids, h)
  <2> HIDE DEF kids
  <2> QED BY <1>4 DEF AtLeast
<1>6. ASSUME root[i].kind = "not"
      PROVE  g[CHOOSE k \in kids : TRUE] = h[CHOOSE k \in kids : TRUE]
  <2>1. kids # {}
    BY <1>6 DEF IsTree
  <2>2. (CHOOSE k \in kids : TRUE) \in kids
    BY <2>1
  <2> QED BY <2>2
<1>7. root[i].kind \in NodeKinds
  BY DEF IsTree
<1> QED
  <2> HIDE DEF kids
  <2> USE <1>7 DEF NodeKinds
  <2>1. CASE root[i].kind = "clause_ref"
    BY <2>1 DEF EvaluateNode
  <2>2. CASE root[i].kind = "all_of"
    BY <2>2, <1>1 DEF EvaluateNode, kids
  <2>3. CASE root[i].kind = "any_of"
    BY <2>3, <1>2 DEF EvaluateNode, kids
  <2>4. CASE root[i].kind = "at_least"
    BY <2>4, <1>5 DEF EvaluateNode, kids
  <2>5. CASE root[i].kind = "not"
    BY <2>5, <1>6 DEF EvaluateNode, kids
  <2> QED BY <2>1, <2>2, <2>3, <2>4, <2>5

LEMMA TruthAgrees ==
  ASSUME NEW root, NEW S, NEW g, NEW h, NEW i \in DOMAIN root,
         \A k \in root[i].kids : g[k] = h[k]
  PROVE  NodeHolds(root[i], S, g) = NodeHolds(root[i], S, h)
<1>1. {k \in root[i].kids : g[k]} = {k \in root[i].kids : h[k]}
  OBVIOUS
<1> QED BY <1>1 DEF NodeHolds

LEMMA ValueExists ==
  ASSUME NEW root, IsTree(root), NEW pr
  PROVE  \E v : IsValue(root, pr, v)
<1> DEFINE n == Len(root)
           Upto(m) == \E g : g = [i \in 1..m |-> EvaluateNode(root[i], pr, g)]
           K == {m \in Nat : m <= n => Upto(m)}
<1>0. n \in Nat /\ DOMAIN root = 1..n
  BY DEF IsTree
<1>1. 0 \in K
  <2>1. PICK g : g = [i \in 1..0 |-> 0]
    OBVIOUS
  <2>2. g = [i \in 1..0 |-> EvaluateNode(root[i], pr, g)]
    BY <2>1
  <2> QED BY <2>2
<1>2. ASSUME NEW m \in Nat, m \in K PROVE m + 1 \in K
  <2> SUFFICES ASSUME m + 1 <= n PROVE Upto(m + 1)
    OBVIOUS
  <2>1. m <= n
    BY <1>0
  <2>2. PICK g : g = [i \in 1..m |-> EvaluateNode(root[i], pr, g)]
    BY <1>2, <2>1
  <2>3. PICK h : h = [i \in 1..(m + 1) |-> EvaluateNode(root[i], pr, g)]
    OBVIOUS
  <2>4. ASSUME NEW k \in 1..m PROVE h[k] = g[k]
    <3>1. h[k] = EvaluateNode(root[k], pr, g)
      <4>1. k \in 1..(m + 1)
        OBVIOUS
      <4> QED BY <2>3, <4>1
    <3>2. g[k] = EvaluateNode(root[k], pr, g)
      BY <2>2
    <3> QED BY <3>1, <3>2
  <2>5. ASSUME NEW i \in 1..(m + 1) PROVE EvaluateNode(root[i], pr, g) = EvaluateNode(root[i], pr, h)
    <3>1. i \in DOMAIN root
      BY <1>0
    <3>2. root[i].kids \subseteq 1..(i - 1)
      BY <3>1 DEF IsTree
    <3>3. root[i].kids \subseteq 1..m
      BY <3>2
    <3>4. \A k \in root[i].kids : g[k] = h[k]
      BY <2>4, <3>3
    <3> QED BY <3>1, <3>4, ValueAgrees
  <2>6. h = [i \in 1..(m + 1) |-> EvaluateNode(root[i], pr, h)]
    BY <2>3, <2>5
  <2> QED BY <2>6
<1>3. n \in K
  <2> HIDE DEF K
  <2> QED BY <1>0, <1>1, <1>2, NumberInduction
<1>4. Upto(n)
  BY <1>0, <1>3
<1>5. PICK g : g = [i \in 1..n |-> EvaluateNode(root[i], pr, g)]
  BY <1>4
<1> QED BY <1>0, <1>5 DEF IsValue

LEMMA TruthExists ==
  ASSUME NEW root, IsTree(root), NEW S
  PROVE  \E h : IsTruth(root, S, h)
<1> DEFINE n == Len(root)
           Upto(m) == \E g : g = [i \in 1..m |-> NodeHolds(root[i], S, g)]
           K == {m \in Nat : m <= n => Upto(m)}
<1>0. n \in Nat /\ DOMAIN root = 1..n
  BY DEF IsTree
<1>1. 0 \in K
  <2>1. PICK g : g = [i \in 1..0 |-> 0]
    OBVIOUS
  <2>2. g = [i \in 1..0 |-> NodeHolds(root[i], S, g)]
    BY <2>1
  <2> QED BY <2>2
<1>2. ASSUME NEW m \in Nat, m \in K PROVE m + 1 \in K
  <2> SUFFICES ASSUME m + 1 <= n PROVE Upto(m + 1)
    OBVIOUS
  <2>1. m <= n
    BY <1>0
  <2>2. PICK g : g = [i \in 1..m |-> NodeHolds(root[i], S, g)]
    BY <1>2, <2>1
  <2>3. PICK h : h = [i \in 1..(m + 1) |-> NodeHolds(root[i], S, g)]
    OBVIOUS
  <2>4. ASSUME NEW k \in 1..m PROVE h[k] = g[k]
    <3>1. h[k] = NodeHolds(root[k], S, g)
      <4>1. k \in 1..(m + 1)
        OBVIOUS
      <4> QED BY <2>3, <4>1
    <3>2. g[k] = NodeHolds(root[k], S, g)
      BY <2>2
    <3> QED BY <3>1, <3>2
  <2>5. ASSUME NEW i \in 1..(m + 1) PROVE NodeHolds(root[i], S, g) = NodeHolds(root[i], S, h)
    <3>1. i \in DOMAIN root
      BY <1>0
    <3>2. root[i].kids \subseteq 1..(i - 1)
      BY <3>1 DEF IsTree
    <3>3. root[i].kids \subseteq 1..m
      BY <3>2
    <3>4. \A k \in root[i].kids : g[k] = h[k]
      BY <2>4, <3>3
    <3> QED BY <3>1, <3>4, TruthAgrees
  <2>6. h = [i \in 1..(m + 1) |-> NodeHolds(root[i], S, h)]
    BY <2>3, <2>5
  <2> QED BY <2>6
<1>3. n \in K
  <2> HIDE DEF K
  <2> QED BY <1>0, <1>1, <1>2, NumberInduction
<1>4. Upto(n)
  BY <1>0, <1>3
<1>5. PICK g : g = [i \in 1..n |-> NodeHolds(root[i], S, g)]
  BY <1>4
<1> QED BY <1>0, <1>5 DEF IsTruth

\* EvaluateExpression and Holds read such a function at the root.
LEMMA ValueOfRoot ==
  ASSUME NEW root, IsTree(root), NEW pr
  PROVE  \E v : IsValue(root, pr, v) /\ EvaluateExpression(root, pr) = v[Len(root)]
<1> DEFINE C == CHOOSE v : IsValue(root, pr, v)
<1>1. IsValue(root, pr, C)
  <2>1. \E v : IsValue(root, pr, v)
    BY ValueExists
  <2> QED BY <2>1, Zenon
<1>2. EvaluateExpression(root, pr) = C[Len(root)]
  BY Zenon DEF EvaluateExpression, IsValue
<1> QED BY <1>1, <1>2

LEMMA TruthOfRoot ==
  ASSUME NEW root, IsTree(root), NEW S
  PROVE  \E h : IsTruth(root, S, h) /\ Holds(root, S) = h[Len(root)]
<1> DEFINE C == CHOOSE h : IsTruth(root, S, h)
<1>1. IsTruth(root, S, C)
  <2>1. \E h : IsTruth(root, S, h)
    BY TruthExists
  <2> QED BY <2>1, Zenon
<1>2. Holds(root, S) = C[Len(root)]
  BY Zenon DEF Holds, IsTruth
<1> QED BY <1>1, <1>2

LEMMA ValueStep ==
  ASSUME NEW root, NEW pr, NEW v, IsValue(root, pr, v), NEW i \in DOMAIN root
  PROVE  v[i] = EvaluateNode(root[i], pr, v)
BY DEF IsValue

LEMMA TruthStep ==
  ASSUME NEW root, IsTree(root), NEW S, NEW h, IsTruth(root, S, h), NEW i \in DOMAIN root
  PROVE  h[i] = NodeHolds(root[i], S, h) /\ h[i] \in BOOLEAN
<1>1. h[i] = NodeHolds(root[i], S, h)
  BY DEF IsTruth
<1>2. root[i].kind \in NodeKinds
  BY DEF IsTree
<1>3. NodeHolds(root[i], S, h) \in BOOLEAN
  <2> USE <1>2 DEF NodeKinds
  <2>1. CASE root[i].kind = "clause_ref"
    BY <2>1 DEF NodeHolds
  <2>2. CASE root[i].kind = "all_of"
    BY <2>2 DEF NodeHolds
  <2>3. CASE root[i].kind = "any_of"
    BY <2>3 DEF NodeHolds
  <2>4. CASE root[i].kind = "at_least"
    BY <2>4 DEF NodeHolds
  <2>5. CASE root[i].kind = "not"
    BY <2>5 DEF NodeHolds
  <2> QED BY <2>1, <2>2, <2>3, <2>4, <2>5
<1> QED BY <1>1, <1>3

-----------------------------------------------------------------------------
(* What a node says of its children. *)

LEMMA Children ==
  ASSUME NEW root, IsTree(root), NEW i \in DOMAIN root
  PROVE  /\ root[i].kids \subseteq DOMAIN root
         /\ IsFiniteSet(root[i].kids)
<1>1. Len(root) \in Nat /\ DOMAIN root = 1..Len(root) /\ root[i].kids \subseteq 1..(i - 1)
  BY DEF IsTree
<1>2. root[i].kids \subseteq DOMAIN root
  BY <1>1
<1>3. IsFiniteSet(DOMAIN root)
  BY <1>1, FS_Interval
<1> QED BY <1>2, <1>3, FS_Subset

LEMMA OnlyChild ==
  ASSUME NEW root, IsTree(root), NEW i \in DOMAIN root, root[i].kind = "not"
  PROVE  \E k \in DOMAIN root : root[i].kids = {k} /\ (CHOOSE x \in root[i].kids : TRUE) = k
<1>1. PICK k : root[i].kids = {k}
  BY DEF IsTree
<1>2. k \in DOMAIN root
  BY <1>1, Children
<1>3. (CHOOSE x \in {k} : TRUE) = k
  OBVIOUS
<1> QED BY <1>1, <1>2, <1>3

LEMMA TruthRef ==
  ASSUME NEW root, IsTree(root), NEW S, NEW h, IsTruth(root, S, h), NEW i \in DOMAIN root,
         root[i].kind = "clause_ref"
  PROVE  h[i] <=> root[i].clause \in S
<1>1. h[i] = NodeHolds(root[i], S, h)
  BY TruthStep
<1> QED BY <1>1 DEF NodeHolds

LEMMA TruthAll ==
  ASSUME NEW root, IsTree(root), NEW S, NEW h, IsTruth(root, S, h), NEW i \in DOMAIN root,
         root[i].kind = "all_of"
  PROVE  h[i] <=> \A k \in root[i].kids : h[k]
<1>1. h[i] = NodeHolds(root[i], S, h)
  BY TruthStep
<1>2. h[i] <=> {k \in root[i].kids : h[k]} = root[i].kids
  BY <1>1 DEF NodeHolds
<1> QED BY <1>2

LEMMA TruthAny ==
  ASSUME NEW root, IsTree(root), NEW S, NEW h, IsTruth(root, S, h), NEW i \in DOMAIN root,
         root[i].kind = "any_of"
  PROVE  h[i] <=> \E k \in root[i].kids : h[k]
<1>1. h[i] = NodeHolds(root[i], S, h)
  BY TruthStep
<1>2. h[i] <=> {k \in root[i].kids : h[k]} # {}
  BY <1>1 DEF NodeHolds
<1> QED BY <1>2

LEMMA TruthCount ==
  ASSUME NEW root, IsTree(root), NEW S, NEW h, IsTruth(root, S, h), NEW i \in DOMAIN root,
         root[i].kind = "at_least"
  PROVE  h[i] <=> Cardinality({k \in root[i].kids : h[k]}) >= root[i].minimum
<1>1. h[i] = NodeHolds(root[i], S, h)
  BY TruthStep
<1> QED BY <1>1 DEF NodeHolds

LEMMA TruthNot ==
  ASSUME NEW root, IsTree(root), NEW S, NEW h, IsTruth(root, S, h), NEW i \in DOMAIN root,
         root[i].kind = "not"
  PROVE  \A k : root[i].kids = {k} => (h[i] <=> ~ h[k])
<1>1. h[i] = NodeHolds(root[i], S, h)
  BY TruthStep
<1>2. h[i] <=> {k \in root[i].kids : h[k]} = {}
  BY <1>1 DEF NodeHolds
<1>3. \A k : {x \in {k} : h[x]} = {} <=> ~ h[k]
  OBVIOUS
<1> QED BY <1>2, <1>3

LEMMA ValueKinds ==
  ASSUME NEW root, IsTree(root), NEW pr, NEW v, IsValue(root, pr, v), NEW i \in DOMAIN root
  PROVE  /\ root[i].kind = "clause_ref" => v[i] = pr[root[i].clause]
         /\ root[i].kind = "all_of" => v[i] = AllOf(root[i].kids, v)
         /\ root[i].kind = "any_of" => v[i] = AnyOf(root[i].kids, v)
         /\ root[i].kind = "at_least" => v[i] = AtLeast(root[i].minimum, root[i].kids, v)
         /\ root[i].kind = "not" => \E k \in DOMAIN root : root[i].kids = {k} /\ v[i] = Not(v[k])
<1>1. v[i] = EvaluateNode(root[i], pr, v)
  BY ValueStep
<1>2. root[i].kind = "clause_ref" => v[i] = pr[root[i].clause]
  BY <1>1 DEF EvaluateNode
<1>3. root[i].kind = "all_of" => v[i] = AllOf(root[i].kids, v)
  BY <1>1 DEF EvaluateNode
<1>4. root[i].kind = "any_of" => v[i] = AnyOf(root[i].kids, v)
  BY <1>1 DEF EvaluateNode
<1>5. root[i].kind = "at_least" => v[i] = AtLeast(root[i].minimum, root[i].kids, v)
  BY <1>1 DEF EvaluateNode
<1>6. ASSUME root[i].kind = "not"
      PROVE  \E k \in DOMAIN root : root[i].kids = {k} /\ v[i] = Not(v[k])
  <2>1. v[i] = Not(v[CHOOSE x \in root[i].kids : TRUE])
    BY <1>1, <1>6 DEF EvaluateNode
  <2> QED BY <1>6, <2>1, OnlyChild
<1> QED BY <1>2, <1>3, <1>4, <1>5, <1>6

LEMMA NotFacts ==
  ASSUME NEW r \in LogicalResult
  PROVE  /\ Not(r) \in LogicalResult
         /\ Not(r) = "pass" <=> r = "fail"
         /\ Not(r) = "fail" <=> r = "pass"
BY DEF Not, LogicalResult

\* The results of the clauses are logical results, so those of the nodes are.
LEMMA ValueTyped ==
  ASSUME NEW root, IsTree(root), NEW pr, NEW v, IsValue(root, pr, v),
         \A i \in Refs(root) : pr[root[i].clause] \in LogicalResult
  PROVE  \A i \in DOMAIN root : v[i] \in LogicalResult
<1> DEFINE Q == {i \in DOMAIN root : v[i] \in LogicalResult}
<1>1. ASSUME NEW i \in DOMAIN root, \A k \in root[i].kids : k \in Q PROVE i \in Q
  <2>1. root[i].kind \in NodeKinds
    BY DEF IsTree
  <2>2. CASE root[i].kind = "clause_ref"
    BY <2>2, ValueKinds DEF Refs
  <2>3. CASE root[i].kind = "all_of"
    <3>1. v[i] = AllOf(root[i].kids, v)
      BY <2>3, ValueKinds
    <3> QED BY <3>1 DEF AllOf, LogicalResult
  <2>4. CASE root[i].kind = "any_of"
    <3>1. v[i] = AnyOf(root[i].kids, v)
      BY <2>4, ValueKinds
    <3> QED BY <3>1 DEF AnyOf, LogicalResult
  <2>5. CASE root[i].kind = "at_least"
    <3>1. v[i] = AtLeast(root[i].minimum, root[i].kids, v)
      BY <2>5, ValueKinds
    <3> QED BY <3>1 DEF AtLeast, LogicalResult
  <2>6. CASE root[i].kind = "not"
    <3>1. PICK k \in DOMAIN root : root[i].kids = {k} /\ v[i] = Not(v[k])
      BY <2>6, ValueKinds
    <3>2. v[k] \in LogicalResult
      BY <1>1, <3>1
    <3> QED BY <3>1, <3>2, NotFacts
  <2> QED BY <2>1, <2>2, <2>3, <2>4, <2>5, <2>6 DEF NodeKinds
<1>2. \A i \in DOMAIN root : i \in Q
  <2> HIDE DEF Q
  <2> QED BY <1>1, TreeInduction
<1> QED BY <1>2

\* The threshold: decided by the passes, and by what may still pass.
LEMMA ThresholdFacts ==
  ASSUME NEW kids, IsFiniteSet(kids), NEW v, NEW m \in Int
  PROVE  LET p == {k \in kids : v[k] = "pass"}
             u == {k \in kids : v[k] = "indeterminate"}
         IN  /\ Cardinality(p) \in Nat /\ Cardinality(p \cup u) \in Nat
             /\ AtLeast(m, kids, v) = "pass" <=> Cardinality(p) >= m
             /\ AtLeast(m, kids, v) = "fail" <=> Cardinality(p \cup u) < m
<1> DEFINE p == {k \in kids : v[k] = "pass"}
           u == {k \in kids : v[k] = "indeterminate"}
<1>1. IsFiniteSet(p) /\ IsFiniteSet(u)
  BY FS_Subset
<1>2. p \cap u = {}
  OBVIOUS
<1>3. Cardinality(p) = Count(kids, v, "pass") /\ Cardinality(u) = Count(kids, v, "indeterminate")
  BY DEF Count
<1> HIDE DEF p, u
<1>4. Cardinality(p) \in Nat /\ Cardinality(u) \in Nat
  BY <1>1, FS_CardinalityType
<1>5. Cardinality(p \cup u) = Cardinality(p) + Cardinality(u)
  <2>1. Cardinality(p \cap u) = 0
    BY <1>2, FS_EmptySet
  <2>2. Cardinality(p \cup u) = Cardinality(p) + Cardinality(u) - Cardinality(p \cap u)
    BY <1>1, FS_Union
  <2> QED BY <1>4, <2>1, <2>2
<1>6. /\ AtLeast(m, kids, v) = "pass" <=> Cardinality(p) >= m
      /\ AtLeast(m, kids, v) = "fail" <=> Cardinality(p \cup u) < m
  BY <1>3, <1>4, <1>5 DEF AtLeast
<1> QED BY <1>4, <1>5, <1>6 DEF p, u

-----------------------------------------------------------------------------
(* The three-valued results against the two-valued meaning. *)

\* In a world that agrees with the decided clauses, every decided node has the
\* truth value of its result.
LEMMA ValueIsSound ==
  ASSUME NEW root, IsTree(root), NEW pr, NEW v, IsValue(root, pr, v),
         NEW S, NEW h, IsTruth(root, S, h),
         \A i \in Refs(root) : /\ pr[root[i].clause] \in LogicalResult
                               /\ pr[root[i].clause] = "pass" => root[i].clause \in S
                               /\ pr[root[i].clause] = "fail" => root[i].clause \notin S
  PROVE  \A i \in DOMAIN root : (v[i] = "pass" => h[i]) /\ (v[i] = "fail" => ~ h[i])
<1> DEFINE Q == {i \in DOMAIN root : (v[i] = "pass" => h[i]) /\ (v[i] = "fail" => ~ h[i])}
<1>0. \A i \in DOMAIN root : v[i] \in LogicalResult
  BY ValueTyped
<1>1. ASSUME NEW i \in DOMAIN root, \A k \in root[i].kids : k \in Q PROVE i \in Q
  <2>1. root[i].kind \in NodeKinds /\ root[i].minimum \in Int
    BY DEF IsTree
  <2>2. CASE root[i].kind = "clause_ref"
    <3>1. i \in Refs(root)
      BY <2>2 DEF Refs
    <3>2. v[i] = pr[root[i].clause]
      BY <2>2, ValueKinds
    <3>9. h[i] <=> root[i].clause \in S
      BY <2>2, TruthRef
    <3> QED BY <3>1, <3>2, <3>9
  <2>3. CASE root[i].kind = "all_of"
    <3>1. v[i] = AllOf(root[i].kids, v)
      BY <2>3, ValueKinds
    <3>9. h[i] <=> \A k \in root[i].kids : h[k]
      BY <2>3, TruthAll
    <3> QED BY <1>1, <3>1, <3>9 DEF AllOf
  <2>4. CASE root[i].kind = "any_of"
    <3>1. v[i] = AnyOf(root[i].kids, v)
      BY <2>4, ValueKinds
    <3>9. h[i] <=> \E k \in root[i].kids : h[k]
      BY <2>4, TruthAny
    <3> QED BY <1>1, <3>1, <3>9 DEF AnyOf
  <2>5. CASE root[i].kind = "at_least"
    <3> DEFINE p == {k \in root[i].kids : v[k] = "pass"}
               u == {k \in root[i].kids : v[k] = "indeterminate"}
               t == {k \in root[i].kids : h[k]}
    <3>1. v[i] = AtLeast(root[i].minimum, root[i].kids, v)
      BY <2>5, ValueKinds
    <3>2. h[i] <=> Cardinality(t) >= root[i].minimum
      BY <2>5, TruthCount
    <3>3. IsFiniteSet(root[i].kids) /\ root[i].kids \subseteq DOMAIN root
      BY Children
    <3>4. IsFiniteSet(t) /\ IsFiniteSet(p \cup u)
      BY <3>3, FS_Subset
    <3>5. p \subseteq t
      BY <1>1
    <3>6. t \subseteq p \cup u
      <4>1. \A k \in t : v[k] # "fail"
        BY <1>1
      <4>2. \A k \in t : v[k] \in LogicalResult
        BY <1>0, <3>3
      <4> QED BY <4>1, <4>2 DEF LogicalResult
    <3>7. /\ Cardinality(p) \in Nat /\ Cardinality(p \cup u) \in Nat
          /\ v[i] = "pass" <=> Cardinality(p) >= root[i].minimum
          /\ v[i] = "fail" <=> Cardinality(p \cup u) < root[i].minimum
      <4>1. /\ Cardinality(p) \in Nat /\ Cardinality(p \cup u) \in Nat
            /\ AtLeast(root[i].minimum, root[i].kids, v) = "pass" <=> Cardinality(p) >= root[i].minimum
            /\ AtLeast(root[i].minimum, root[i].kids, v) = "fail" <=> Cardinality(p \cup u) < root[i].minimum
        BY <2>1, <3>3, ThresholdFacts, Zenon
      <4> QED BY <3>1, <4>1
    <3> HIDE DEF p, u, t
    <3>8. Cardinality(t) \in Nat /\ Cardinality(p) <= Cardinality(t)
      BY <3>4, <3>5, FS_Subset, FS_CardinalityType
    <3>9. Cardinality(t) <= Cardinality(p \cup u)
      BY <3>4, <3>6, FS_Subset
    <3>10. (v[i] = "pass" => h[i]) /\ (v[i] = "fail" => ~ h[i])
      BY <2>1, <3>2, <3>7, <3>8, <3>9
    <3> QED BY <3>10
  <2>6. CASE root[i].kind = "not"
    <3>1. PICK k \in DOMAIN root : root[i].kids = {k} /\ v[i] = Not(v[k])
      BY <2>6, ValueKinds
    <3>2. h[i] <=> ~ h[k]
      BY <2>6, <3>1, TruthNot
    <3>3. k \in Q
      BY <1>1, <3>1
    <3>4. (v[i] = "pass" <=> v[k] = "fail") /\ (v[i] = "fail" <=> v[k] = "pass")
      BY <1>0, <3>1, NotFacts
    <3> QED BY <3>2, <3>3, <3>4
  <2> QED
    <3> HIDE DEF Q
    <3> QED BY <2>1, <2>2, <2>3, <2>4, <2>5, <2>6 DEF NodeKinds
<1>2. \A i \in DOMAIN root : i \in Q
  <2> HIDE DEF Q
  <2> QED BY <1>1, TreeInduction
<1> QED BY <1>2

\* The polarity of the nodes below one of polarity b: it turns at every "not".
IsPolarity(root, b, g) ==
  /\ g \in [DOMAIN root -> BOOLEAN]
  /\ g[Len(root)] = b
  /\ \A i \in DOMAIN root : \A k \in root[i].kids :
       g[k] = IF root[i].kind = "not" THEN ~ g[i] ELSE g[i]

LEMMA PolarityExists ==
  ASSUME NEW root, IsTree(root), NEW b \in BOOLEAN
  PROVE  \E g : IsPolarity(root, b, g)
<1> DEFINE n == Len(root)
           Turned(g, i) == IF root[i].kind = "not" THEN ~ g[i] ELSE g[i]
           Good(g, m) == /\ g \in [DOMAIN root -> BOOLEAN]
                         /\ g[n] = b
                         /\ \A i \in DOMAIN root : i + m > n =>
                              \A k \in root[i].kids : g[k] = Turned(g, i)
           K == {m \in Nat : \E g : Good(g, m)}
<1>0. n \in Nat \ {0} /\ DOMAIN root = 1..n
  BY DEF IsTree
<1>1. 0 \in K
  <2>1. PICK g : g = [i \in DOMAIN root |-> b]
    OBVIOUS
  <2>2. Good(g, 0)
    BY <1>0, <2>1
  <2> QED BY <2>2
<1>2. ASSUME NEW m \in Nat, m \in K PROVE m + 1 \in K
  <2>1. PICK g : Good(g, m)
    BY <1>2
  <2>2. CASE n - m \notin DOMAIN root
    <3>1. \A i \in DOMAIN root : i + (m + 1) > n => i + m > n
      BY <1>0, <2>2
    <3>2. Good(g, m + 1)
      BY <2>1, <3>1
    <3> QED BY <3>2
  <2>3. CASE n - m \in DOMAIN root
    <3> DEFINE j == n - m
               f == [k \in DOMAIN root |-> IF k \in root[j].kids THEN Turned(g, j) ELSE g[k]]
    <3>1. \A i \in DOMAIN root : i + (m + 1) > n => i = j \/ i + m > n
      BY <1>0
    <3>2. \A i \in DOMAIN root : i >= j => i \notin root[j].kids
      <4>1. root[j].kids \subseteq 1..(j - 1)
        BY <2>3 DEF IsTree
      <4> QED BY <1>0, <2>3, <4>1
    <3>3. \A i \in DOMAIN root : i >= j => f[i] = g[i]
      BY <3>2
    <3>4. f \in [DOMAIN root -> BOOLEAN]
      BY <2>1, <2>3
    <3>5. f[n] = b
      <4>1. n \in DOMAIN root /\ n >= j
        BY <1>0
      <4> QED BY <2>1, <3>3, <4>1
    <3>6. ASSUME NEW i \in DOMAIN root, i + (m + 1) > n, NEW k \in root[i].kids
          PROVE  f[k] = Turned(f, i)
      <4>1. k \in DOMAIN root
        BY Children
      <4>2. i >= j
        BY <1>0, <3>6
      <4>3. f[i] = g[i]
        BY <3>3, <4>2
      <4>4. CASE i = j
        <5>1. f[k] = Turned(g, j)
          BY <3>6, <4>1, <4>4
        <5> QED BY <4>3, <4>4, <5>1
      <4>5. CASE i # j
        <5>1. k \notin root[j].kids
          BY <2>3, <3>6, <4>5 DEF IsTree
        <5>2. f[k] = g[k]
          BY <4>1, <5>1
        <5>3. g[k] = Turned(g, i)
          BY <2>1, <3>1, <3>6, <4>5
        <5> QED BY <4>3, <5>2, <5>3
      <4> QED BY <4>4, <4>5
    <3>7. Good(f, m + 1)
      <4> HIDE DEF f, j, Turned
      <4> QED BY <3>4, <3>5, <3>6
    <3> QED
      <4> HIDE DEF f, Good
      <4> QED BY <3>7
  <2> QED BY <2>2, <2>3
<1>3. n \in K
  <2> HIDE DEF K
  <2> QED BY <1>0, <1>1, <1>2, NumberInduction
<1>4. PICK g : Good(g, n)
  BY <1>3
<1>5. \A i \in DOMAIN root : i + n > n
  BY <1>0
<1> QED BY <1>4, <1>5 DEF IsPolarity

\* What a node can be made to say by the clauses that are not decided: where its
\* polarity is TRUE, that it holds unless it fails; else that it does not unless
\* it passes.
Reached(g, v, i) == IF g[i] THEN v[i] # "fail" ELSE v[i] = "pass"

\* When every reference says that, every node does.
LEMMA ValueIsReached ==
  ASSUME NEW root, IsTree(root), NEW pr, NEW v, IsValue(root, pr, v),
         NEW b, NEW g, IsPolarity(root, b, g), NEW S, NEW h, IsTruth(root, S, h),
         \A i \in Refs(root) : /\ pr[root[i].clause] \in LogicalResult
                               /\ root[i].clause \in S <=> Reached(g, v, i)
  PROVE  \A i \in DOMAIN root : h[i] <=> Reached(g, v, i)
<1> DEFINE Q == {i \in DOMAIN root : h[i] <=> Reached(g, v, i)}
<1>0. \A i \in DOMAIN root : v[i] \in LogicalResult /\ g[i] \in BOOLEAN
  BY ValueTyped DEF IsPolarity
<1>1. ASSUME NEW i \in DOMAIN root, \A k \in root[i].kids : k \in Q PROVE i \in Q
  <2>1. root[i].kind \in NodeKinds /\ root[i].minimum \in Int
    BY DEF IsTree
  <2>2. CASE root[i].kind = "clause_ref"
    <3>1. i \in Refs(root)
      BY <2>2 DEF Refs
    <3>2. h[i] <=> root[i].clause \in S
      BY <2>2, TruthRef
    <3> QED BY <3>1, <3>2
  <2>7. ASSUME root[i].kind # "not", NEW k \in root[i].kids
        PROVE  k \in DOMAIN root /\ g[k] = g[i] /\ (h[k] <=> Reached(g, v, k)) /\ v[k] \in LogicalResult
    <3>1. k \in DOMAIN root
      BY Children
    <3>2. g[k] = g[i]
      BY <2>7 DEF IsPolarity
    <3> QED BY <1>0, <1>1, <3>1, <3>2
  <2>3. CASE root[i].kind = "all_of"
    <3>1. v[i] = AllOf(root[i].kids, v)
      BY <2>3, ValueKinds
    <3>2. h[i] <=> \A k \in root[i].kids : h[k]
      BY <2>3, TruthAll
    <3>3. /\ v[i] = "fail" <=> \E k \in root[i].kids : v[k] = "fail"
          /\ v[i] = "pass" <=> \A k \in root[i].kids : v[k] = "pass"
      BY <3>1 DEF AllOf
    <3>4. CASE g[i]
      <4>1. \A k \in root[i].kids : h[k] <=> v[k] # "fail"
        BY <2>3, <2>7, <3>4 DEF Reached
      <4> QED BY <3>2, <3>3, <3>4, <4>1 DEF Reached
    <3>5. CASE ~ g[i]
      <4>1. \A k \in root[i].kids : h[k] <=> v[k] = "pass"
        BY <2>3, <2>7, <3>5 DEF Reached
      <4> QED BY <3>2, <3>3, <3>5, <4>1 DEF Reached
    <3> QED BY <3>4, <3>5
  <2>4. CASE root[i].kind = "any_of"
    <3>1. v[i] = AnyOf(root[i].kids, v)
      BY <2>4, ValueKinds
    <3>2. h[i] <=> \E k \in root[i].kids : h[k]
      BY <2>4, TruthAny
    <3>3. /\ v[i] = "pass" <=> \E k \in root[i].kids : v[k] = "pass"
          /\ v[i] = "fail" <=> \A k \in root[i].kids : v[k] = "fail"
      BY <3>1 DEF AnyOf
    <3>4. CASE g[i]
      <4>1. \A k \in root[i].kids : h[k] <=> v[k] # "fail"
        BY <2>4, <2>7, <3>4 DEF Reached
      <4> QED BY <3>2, <3>3, <3>4, <4>1 DEF Reached
    <3>5. CASE ~ g[i]
      <4>1. \A k \in root[i].kids : h[k] <=> v[k] = "pass"
        BY <2>4, <2>7, <3>5 DEF Reached
      <4> QED BY <3>2, <3>3, <3>5, <4>1 DEF Reached
    <3> QED BY <3>4, <3>5
  <2>5. CASE root[i].kind = "at_least"
    <3> DEFINE p == {k \in root[i].kids : v[k] = "pass"}
               u == {k \in root[i].kids : v[k] = "indeterminate"}
               t == {k \in root[i].kids : h[k]}
    <3>1. v[i] = AtLeast(root[i].minimum, root[i].kids, v)
      BY <2>5, ValueKinds
    <3>2. h[i] <=> Cardinality(t) >= root[i].minimum
      BY <2>5, TruthCount
    <3>3. /\ Cardinality(p) \in Nat /\ Cardinality(p \cup u) \in Nat
          /\ v[i] = "pass" <=> Cardinality(p) >= root[i].minimum
          /\ v[i] = "fail" <=> Cardinality(p \cup u) < root[i].minimum
      <4>1. IsFiniteSet(root[i].kids)
        BY Children
      <4>2. /\ Cardinality(p) \in Nat /\ Cardinality(p \cup u) \in Nat
            /\ AtLeast(root[i].minimum, root[i].kids, v) = "pass" <=> Cardinality(p) >= root[i].minimum
            /\ AtLeast(root[i].minimum, root[i].kids, v) = "fail" <=> Cardinality(p \cup u) < root[i].minimum
        BY <2>1, <4>1, ThresholdFacts, Zenon
      <4> QED BY <3>1, <4>2
    <3>4. CASE g[i]
      <4>1. \A k \in root[i].kids : (h[k] <=> v[k] # "fail") /\ v[k] \in LogicalResult
        BY <2>5, <2>7, <3>4 DEF Reached
      <4>2. t = p \cup u
        BY <4>1 DEF LogicalResult
      <4>3. h[i] <=> v[i] # "fail"
        <5> HIDE DEF p, u, t
        <5> QED BY <2>1, <3>2, <3>3, <4>2
      <4> QED BY <3>4, <4>3 DEF Reached
    <3>5. CASE ~ g[i]
      <4>1. \A k \in root[i].kids : h[k] <=> v[k] = "pass"
        BY <2>5, <2>7, <3>5 DEF Reached
      <4>2. t = p
        BY <4>1
      <4>3. h[i] <=> v[i] = "pass"
        <5> HIDE DEF p, u, t
        <5> QED BY <3>2, <3>3, <4>2
      <4> QED BY <3>5, <4>3 DEF Reached
    <3> QED BY <3>4, <3>5
  <2>6. CASE root[i].kind = "not"
    <3>1. PICK k \in DOMAIN root : root[i].kids = {k} /\ v[i] = Not(v[k])
      BY <2>6, ValueKinds
    <3>2. h[i] <=> ~ h[k]
      BY <2>6, <3>1, TruthNot
    <3>3. k \in Q
      BY <1>1, <3>1
    <3>4. (v[i] = "pass" <=> v[k] = "fail") /\ (v[i] = "fail" <=> v[k] = "pass")
      BY <1>0, <3>1, NotFacts
    <3>5. g[k] = ~ g[i]
      BY <2>6, <3>1 DEF IsPolarity
    <3>6. Reached(g, v, i) <=> ~ Reached(g, v, k)
      BY <1>0, <3>4, <3>5 DEF Reached
    <3> QED BY <3>2, <3>3, <3>6
  <2> QED
    <3> HIDE DEF Q
    <3> QED BY <2>1, <2>2, <2>3, <2>4, <2>5, <2>6 DEF NodeKinds
<1>2. \A i \in DOMAIN root : i \in Q
  <2> HIDE DEF Q
  <2> QED BY <1>1, TreeInduction
<1> QED BY <1>2

\* Rules without an unknown or a repeated reference, and results of their clauses.
ProperResults(root, pr) ==
  /\ IsTree(root)
  /\ \A c \in DOMAIN pr : pr[c] \in LogicalResult
  /\ \A i \in Refs(root) : root[i].clause \in DOMAIN pr
  /\ \A i, j \in Refs(root) : i # j => root[i].clause # root[j].clause

\* There is a world in which the root says what it can be made to say.
LEMMA WorldExists ==
  ASSUME NEW root, NEW pr, ProperResults(root, pr), NEW b \in BOOLEAN
  PROVE  \E S \in Completions(pr) :
           Holds(root, S) <=> IF b THEN EvaluateExpression(root, pr) # "fail"
                                   ELSE EvaluateExpression(root, pr) = "pass"
<1>0. IsTree(root) /\ Len(root) \in DOMAIN root
  BY DEF ProperResults, IsTree
<1>1. PICK v : IsValue(root, pr, v) /\ EvaluateExpression(root, pr) = v[Len(root)]
  BY <1>0, ValueOfRoot
<1>2. PICK g : IsPolarity(root, b, g)
  BY <1>0, PolarityExists
<1> DEFINE S == {c \in DOMAIN pr : \/ pr[c] = "pass"
                                   \/ \E i \in Refs(root) : root[i].clause = c /\ Reached(g, v, i)}
<1>3. \A i \in Refs(root) : i \in DOMAIN root /\ v[i] = pr[root[i].clause]
  BY <1>0, <1>1, ValueKinds DEF Refs
<1>4. S \in Completions(pr)
  <2>1. ASSUME NEW c \in DOMAIN pr, pr[c] = "fail" PROVE c \notin S
    <3>1. ASSUME NEW i \in Refs(root), root[i].clause = c PROVE ~ Reached(g, v, i)
      BY <1>3, <2>1, <3>1 DEF Reached
    <3> QED BY <2>1, <3>1
  <2> QED BY <2>1 DEF Completions
<1>5. ASSUME NEW i \in Refs(root) PROVE root[i].clause \in S <=> Reached(g, v, i)
  <2>1. root[i].clause \in DOMAIN pr
    BY DEF ProperResults
  <2>2. pr[root[i].clause] = "pass" => Reached(g, v, i)
    BY <1>3 DEF Reached
  <2>3. \A j \in Refs(root) : root[j].clause = root[i].clause => j = i
    BY DEF ProperResults
  <2> QED BY <2>1, <2>2, <2>3
<1>6. PICK h : IsTruth(root, S, h) /\ Holds(root, S) = h[Len(root)]
  BY <1>0, TruthOfRoot
<1>7. h[Len(root)] <=> Reached(g, v, Len(root))
  <2>1. \A i \in Refs(root) : pr[root[i].clause] \in LogicalResult
    BY DEF ProperResults
  <2> HIDE DEF S
  <2> QED BY <1>0, <1>1, <1>2, <1>5, <1>6, <2>1, ValueIsReached
<1>8. g[Len(root)] = b
  BY <1>2 DEF IsPolarity
<1>9. Holds(root, S) <=> IF b THEN EvaluateExpression(root, pr) # "fail"
                              ELSE EvaluateExpression(root, pr) = "pass"
  BY <1>1, <1>6, <1>7, <1>8 DEF Reached
<1> QED
  <2> HIDE DEF S
  <2> QED BY <1>4, <1>9

\* The evaluation of an expression is forced by the decided clauses, and by them
\* alone.
LEMMA ValueIsForced ==
  ASSUME NEW root, NEW pr, ProperResults(root, pr)
  PROVE  /\ EvaluateExpression(root, pr) \in LogicalResult
         /\ EvaluateExpression(root, pr) = "pass" <=> \A S \in Completions(pr) : Holds(root, S)
         /\ EvaluateExpression(root, pr) = "fail" <=> \A S \in Completions(pr) : ~ Holds(root, S)
<1>0. IsTree(root) /\ Len(root) \in DOMAIN root
  BY DEF ProperResults, IsTree
<1>1. PICK v : IsValue(root, pr, v) /\ EvaluateExpression(root, pr) = v[Len(root)]
  BY <1>0, ValueOfRoot
<1>2. \A i \in Refs(root) : root[i].clause \in DOMAIN pr /\ pr[root[i].clause] \in LogicalResult
  BY DEF ProperResults
<1>3. v[Len(root)] \in LogicalResult
  BY <1>0, <1>1, <1>2, ValueTyped
<1>4. ASSUME NEW S \in Completions(pr)
      PROVE  (v[Len(root)] = "pass" => Holds(root, S)) /\ (v[Len(root)] = "fail" => ~ Holds(root, S))
  <2>1. PICK h : IsTruth(root, S, h) /\ Holds(root, S) = h[Len(root)]
    BY <1>0, TruthOfRoot
  <2>2. \A i \in Refs(root) : /\ pr[root[i].clause] = "pass" => root[i].clause \in S
                              /\ pr[root[i].clause] = "fail" => root[i].clause \notin S
    BY <1>2, <1>4 DEF Completions
  <2>3. \A i \in DOMAIN root : (v[i] = "pass" => h[i]) /\ (v[i] = "fail" => ~ h[i])
    BY <1>0, <1>1, <1>2, <2>1, <2>2, ValueIsSound
  <2> QED BY <1>0, <2>1, <2>3
<1>5. PICK S \in Completions(pr) : Holds(root, S) <=> v[Len(root)] # "fail"
  BY <1>1, WorldExists
<1>6. PICK T \in Completions(pr) : Holds(root, T) <=> v[Len(root)] = "pass"
  BY <1>1, WorldExists
<1> QED BY <1>1, <1>3, <1>4, <1>5, <1>6

-----------------------------------------------------------------------------
(* The clauses. *)

LEMMA ClauseTyped ==
  ASSUME NEW clause, NEW obs
  PROVE  EvaluateClause(clause, obs) \in LogicalResult
<1>1. \A op, a, e : EvaluatePredicate(op, a, e) \in LogicalResult
  BY DEF EvaluatePredicate, LogicalResult
<1> HIDE DEF EvaluatePredicate
<1>2. "indeterminate" \in LogicalResult
  BY DEF LogicalResult
<1> QED BY <1>1, <1>2 DEF EvaluateClause

\* What the lint has accepted is fit for evaluation.
LEMMA LintedIsProper ==
  ASSUME NEW rs, IsTree(rs.root), ~ LintFails(rs), NEW obs
  PROVE  /\ ProperResults(rs.root, EvaluateClauses(rs, obs))
         /\ DOMAIN EvaluateClauses(rs, obs) = ClauseIds(rs)
<1> DEFINE pr == EvaluateClauses(rs, obs)
<1>1. DOMAIN pr = ClauseIds(rs)
  BY DEF EvaluateClauses
<1>2. ASSUME NEW c \in ClauseIds(rs) PROVE pr[c] \in LogicalResult
  BY <1>2, ClauseTyped DEF EvaluateClauses
<1>3. \A i \in Refs(rs.root) : rs.root[i].clause \in ClauseIds(rs)
  BY DEF LintFails, UnknownReference
<1>4. \A i, j \in Refs(rs.root) : i # j => rs.root[i].clause # rs.root[j].clause
  BY DEF LintFails, DuplicateReference
<1> QED BY <1>1, <1>2, <1>3, <1>4 DEF ProperResults

\* A completed evaluation is one of rules the lint accepts, and its verdict is
\* the result of the root.
LEMMA CompletedFacts ==
  ASSUME NEW rs, IsTree(rs.root), NEW obs, Evaluation(rs, obs).lifecycle = "completed"
  PROVE  /\ ~ LintFails(rs)
         /\ Evaluation(rs, obs) = Completed(rs, EvaluateExpression(rs.root, EvaluateClauses(rs, obs)))
         /\ Verdict(Evaluation(rs, obs)) = EvaluateExpression(rs.root, EvaluateClauses(rs, obs))
<1> DEFINE r == EvaluateExpression(rs.root, EvaluateClauses(rs, obs))
<1>1. \A code : Errored(code).lifecycle # "completed"
  BY DEF Errored
<1>2. ~ LintFails(rs) /\ Evaluation(rs, obs) = Completed(rs, r)
  <2> HIDE DEF r
  <2>1. \/ \E code : Evaluation(rs, obs) = Errored(code)
        \/ ~ LintFails(rs) /\ Evaluation(rs, obs) = Completed(rs, r)
    BY DEF Evaluation, r
  <2> QED BY <1>1, <2>1
<1>3. r \in LogicalResult
  BY <1>2, LintedIsProper, ValueIsForced
<1>4. Verdict(Completed(rs, r)) = r
  <2> HIDE DEF r
  <2> QED BY <1>3 DEF Verdict, Completed, LogicalResult
<1> QED BY <1>2, <1>4

\* Results that decide more clauses leave fewer worlds.
LEMMA RefinedResults ==
  ASSUME NEW root, NEW pr, NEW qr, ProperResults(root, pr), ProperResults(root, qr),
         DOMAIN pr = DOMAIN qr,
         \A c \in DOMAIN pr : qr[c] = pr[c] \/ pr[c] = "indeterminate"
  PROVE  \/ EvaluateExpression(root, qr) = EvaluateExpression(root, pr)
         \/ EvaluateExpression(root, pr) = "indeterminate"
<1>1. Completions(qr) \subseteq Completions(pr)
  BY DEF Completions
<1>2. EvaluateExpression(root, pr) = "pass" => EvaluateExpression(root, qr) = "pass"
  BY <1>1, ValueIsForced
<1>3. EvaluateExpression(root, pr) = "fail" => EvaluateExpression(root, qr) = "fail"
  BY <1>1, ValueIsForced
<1>4. EvaluateExpression(root, pr) \in LogicalResult
  BY ValueIsForced
<1> QED BY <1>2, <1>3, <1>4 DEF LogicalResult

Matches(clause, obs) == {i \in DOMAIN obs : obs[i].selector = clause.selector}

\* The clause, by its matches and one of them.
ByMatch(clause, obs, matches, i) ==
  IF Cardinality(matches) = 1 /\ obs[i].status = "observed"
  THEN EvaluatePredicate(clause.operator, obs[i].value, clause.expected)
  ELSE "indeterminate"

LEMMA ClauseByMatches ==
  ASSUME NEW clause, NEW obs
  PROVE  EvaluateClause(clause, obs)
           = ByMatch(clause, obs, Matches(clause, obs), CHOOSE i \in Matches(clause, obs) : TRUE)
BY Zenon DEF EvaluateClause, ByMatch, Matches

\* One more observation leaves the clauses about other selectors alone; it may
\* decide a clause whose selector nobody observed, and undecides the others.
LEMMA ClauseAppended ==
  ASSUME NEW V, NEW obs \in Seq(V), NEW o \in V, NEW clause
  PROVE  /\ clause.selector # o.selector =>
              EvaluateClause(clause, Append(obs, o)) = EvaluateClause(clause, obs)
         /\ (clause.selector = o.selector /\ \A i \in DOMAIN obs : obs[i].selector # o.selector) =>
              EvaluateClause(clause, obs) = "indeterminate"
         /\ (clause.selector = o.selector /\ \E i \in DOMAIN obs : obs[i].selector = o.selector) =>
              EvaluateClause(clause, Append(obs, o)) = "indeterminate"
<1> DEFINE new == Append(obs, o)
           n == Len(obs)
<1>1. /\ n \in Nat /\ DOMAIN obs = 1..n /\ DOMAIN new = 1..(n + 1)
      /\ new[n + 1] = o /\ \A i \in 1..n : new[i] = obs[i]
  OBVIOUS
<1> HIDE DEF new, n
<1>2. ASSUME clause.selector # o.selector PROVE EvaluateClause(clause, new) = EvaluateClause(clause, obs)
  <2>1. Matches(clause, new) = Matches(clause, obs)
    BY <1>1, <1>2 DEF Matches
  <2>2. CASE Matches(clause, obs) = {}
    <3>1. Cardinality(Matches(clause, obs)) # 1
      BY <2>2, FS_EmptySet
    <3> QED BY <2>1, <3>1 DEF EvaluateClause, Matches
  <2>3. CASE Matches(clause, obs) # {}
    <3>1. PICK x : x = CHOOSE i \in Matches(clause, obs) : TRUE
      OBVIOUS
    <3>2. x \in 1..n
      BY <1>1, <2>3, <3>1 DEF Matches
    <3>3. new[x] = obs[x]
      BY <1>1, <3>2
    <3>4. /\ EvaluateClause(clause, new) = ByMatch(clause, new, Matches(clause, obs), x)
          /\ EvaluateClause(clause, obs) = ByMatch(clause, obs, Matches(clause, obs), x)
      BY <2>1, <3>1, ClauseByMatches
    <3> QED BY <3>3, <3>4 DEF ByMatch
  <2> QED BY <2>2, <2>3
<1>3. ASSUME clause.selector = o.selector, \A i \in DOMAIN obs : obs[i].selector # o.selector
      PROVE  EvaluateClause(clause, obs) = "indeterminate"
  <2>1. Matches(clause, obs) = {}
    BY <1>3 DEF Matches
  <2>2. Cardinality(Matches(clause, obs)) # 1
    BY <2>1, FS_EmptySet
  <2> QED BY <2>2 DEF EvaluateClause, Matches
<1>4. ASSUME clause.selector = o.selector, NEW j \in DOMAIN obs, obs[j].selector = o.selector
      PROVE  EvaluateClause(clause, new) = "indeterminate"
  <2>1. j \in Matches(clause, new) /\ n + 1 \in Matches(clause, new) /\ j # n + 1
    BY <1>1, <1>4 DEF Matches
  <2>2. IsFiniteSet(Matches(clause, new))
    <3>1. IsFiniteSet(1..(n + 1)) /\ Matches(clause, new) \subseteq 1..(n + 1)
      BY <1>1, FS_Interval DEF Matches
    <3> QED BY <3>1, FS_Subset
  <2>3. Cardinality(Matches(clause, new)) # 1
    <3> SUFFICES ASSUME Cardinality(Matches(clause, new)) = 1 PROVE FALSE
      OBVIOUS
    <3>1. \E x : Matches(clause, new) = {x}
      BY <2>2, FS_Singleton
    <3> QED BY <2>1, <3>1
  <2> QED BY <2>3 DEF EvaluateClause, Matches
<1> QED BY <1>2, <1>3, <1>4 DEF new

-----------------------------------------------------------------------------
(* Every clause counts. *)

\* The nodes from the reference at position a up to node x.
IsPath(root, a, P, x) ==
  /\ P \subseteq DOMAIN root /\ a \in P /\ x \in P
  /\ \A p \in P : p <= x
  /\ \A p \in P : p # a => \E y \in P : root[p].kids \cap P = {y}
  /\ \A p \in P : p # x => \E q \in P : p \in root[q].kids

LEMMA LongerPath ==
  ASSUME NEW root, IsTree(root), NEW a, NEW P, NEW x, IsPath(root, a, P, x), x # Len(root)
  PROVE  \E y \in DOMAIN root : y > x /\ IsPath(root, a, P \cup {y}, y)
<1>1. Len(root) \in Nat /\ DOMAIN root = 1..Len(root)
  BY DEF IsTree
<1>2. x \in DOMAIN root /\ P \subseteq DOMAIN root /\ \A p \in P : p <= x
  BY DEF IsPath
<1>3. x \in 1..(Len(root) - 1)
  BY <1>1, <1>2
<1>4. PICK y \in DOMAIN root : x \in root[y].kids
  BY <1>3 DEF IsTree
<1>5. \A i \in DOMAIN root : root[i].kids \subseteq 1..(i - 1)
  BY DEF IsTree
<1>6. y > x
  BY <1>1, <1>2, <1>4, <1>5
<1>7. y \notin P /\ y # a
  BY <1>1, <1>2, <1>6 DEF IsPath
<1> DEFINE R == P \cup {y}
<1>8. \A p \in R : p <= y
  BY <1>1, <1>2, <1>6
<1>9. ASSUME NEW p \in R, p # a PROVE \E z \in R : root[p].kids \cap R = {z}
  <2>1. CASE p = y
    <3>1. y \notin root[y].kids
      BY <1>1, <1>5
    <3>2. ASSUME NEW q \in P, q # x PROVE q \notin root[y].kids
      <4>1. PICK z \in P : q \in root[z].kids
        BY <3>2 DEF IsPath
      <4>2. z # y /\ z \in DOMAIN root
        BY <1>2, <1>7
      <4> QED BY <4>1, <4>2 DEF IsTree
    <3>3. root[y].kids \cap R = {x}
      BY <1>4, <3>1, <3>2 DEF IsPath
    <3> QED BY <2>1, <3>3 DEF IsPath
  <2>2. CASE p # y
    <3>1. p \in P /\ p <= x /\ p \in DOMAIN root
      BY <1>2, <2>2
    <3>2. y \notin root[p].kids
      BY <1>1, <1>2, <1>5, <1>6, <3>1
    <3>3. PICK z \in P : root[p].kids \cap P = {z}
      BY <1>9, <3>1 DEF IsPath
    <3>4. root[p].kids \cap R = {z}
      BY <3>2, <3>3
    <3> QED BY <3>4
  <2> QED BY <2>1, <2>2
<1>10. ASSUME NEW p \in R, p # y PROVE \E q \in R : p \in root[q].kids
  <2>1. CASE p = x
    BY <1>4, <2>1
  <2>2. CASE p # x
    BY <1>10, <2>2 DEF IsPath
  <2> QED BY <2>1, <2>2
<1>11. R \subseteq DOMAIN root /\ a \in R /\ y \in R
  BY <1>2 DEF IsPath
<1>12. IsPath(root, a, R, y)
  <2> HIDE DEF R
  <2> QED BY <1>8, <1>9, <1>10, <1>11 DEF IsPath
<1> QED BY <1>6, <1>12

LEMMA PathExists ==
  ASSUME NEW root, IsTree(root), NEW a \in DOMAIN root
  PROVE  \E P : IsPath(root, a, P, Len(root))
<1> DEFINE n == Len(root)
           Some(x) == \E P : IsPath(root, a, P, x)
           K == {m \in Nat : \E x \in DOMAIN root : Some(x) /\ (x = n \/ x >= a + m)}
<1>0. n \in Nat /\ DOMAIN root = 1..n
  BY DEF IsTree
<1>1. 0 \in K
  <2>1. IsPath(root, a, {a}, a)
    BY <1>0 DEF IsPath
  <2>2. a >= a + 0
    BY <1>0
  <2> QED BY <2>1, <2>2
<1>2. ASSUME NEW m \in Nat, m \in K PROVE m + 1 \in K
  <2>1. PICK x \in DOMAIN root : Some(x) /\ (x = n \/ x >= a + m)
    BY <1>2
  <2>2. CASE x = n
    BY <2>1, <2>2
  <2>3. CASE x # n
    <3>1. PICK P : IsPath(root, a, P, x)
      BY <2>1
    <3>2. PICK y \in DOMAIN root : y > x /\ IsPath(root, a, P \cup {y}, y)
      BY <2>3, <3>1, LongerPath
    <3>3. y >= a + (m + 1)
      BY <1>0, <2>1, <2>3, <3>2
    <3>4. Some(y)
      BY <3>2
    <3> HIDE DEF Some
    <3> QED BY <3>3, <3>4
  <2> QED BY <2>2, <2>3
<1>3. n \in K
  <2> HIDE DEF K
  <2> QED BY <1>0, <1>1, <1>2, NumberInduction
<1>4. PICK x \in DOMAIN root : Some(x) /\ (x = n \/ x >= a + n)
  BY <1>3
<1>5. x = n
  BY <1>0, <1>4
<1> QED BY <1>4, <1>5

\* Beside the path there is nothing of it.
LEMMA BesidePath ==
  ASSUME NEW root, IsTree(root), NEW a, NEW P, IsPath(root, a, P, Len(root)),
         NEW i \in DOMAIN root, i \notin P
  PROVE  root[i].kids \cap P = {}
<1> SUFFICES ASSUME NEW k \in root[i].kids, k \in P PROVE FALSE
  OBVIOUS
<1>1. k # Len(root)
  BY DEF IsTree
<1>2. PICK q \in P : k \in root[q].kids
  BY <1>1 DEF IsPath
<1>3. q \in DOMAIN root /\ q # i
  BY <1>2 DEF IsPath
<1> QED BY <1>2, <1>3 DEF IsTree

\* A finite set has subsets of every smaller size.
LEMMA SubsetOfSize ==
  ASSUME NEW T, IsFiniteSet(T), NEW m \in Nat, m <= Cardinality(T)
  PROVE  \E A \in SUBSET T : Cardinality(A) = m
<1> DEFINE K == {k \in Nat : k <= Cardinality(T) => \E A \in SUBSET T : Cardinality(A) = k}
<1>0. Cardinality(T) \in Nat
  BY FS_CardinalityType
<1>1. 0 \in K
  <2>1. Cardinality({}) = 0
    BY FS_EmptySet
  <2> QED BY <2>1
<1>2. ASSUME NEW k \in Nat, k \in K PROVE k + 1 \in K
  <2> SUFFICES ASSUME k + 1 <= Cardinality(T) PROVE \E A \in SUBSET T : Cardinality(A) = k + 1
    OBVIOUS
  <2>1. k <= Cardinality(T) /\ k # Cardinality(T)
    BY <1>0
  <2>2. PICK A \in SUBSET T : Cardinality(A) = k
    BY <1>2, <2>1
  <2>3. PICK z \in T : z \notin A
    BY <2>1, <2>2
  <2>4. IsFiniteSet(A)
    BY FS_Subset
  <2>5. Cardinality(A \cup {z}) = k + 1
    BY <2>2, <2>3, <2>4, FS_AddElement
  <2> QED BY <2>3, <2>5
<1>3. m \in K
  <2> HIDE DEF K
  <2> QED BY <1>1, <1>2, NumberInduction
<1> QED BY <1>3

\* The children beside the path that hold under g.
Chosen(root, P, g, i) == {k \in root[i].kids \ P : g[k]}

\* The children of a node hold such that, on the path, the one on it decides,
\* and elsewhere the node has the truth value g gives it.
Allowed(node, off, onpath, b) ==
  {t \in SUBSET off :
     IF onpath THEN /\ node.kind = "all_of" => t = off
                    /\ node.kind = "any_of" => t = {}
                    /\ node.kind = "at_least" => Cardinality(t) = node.minimum - 1
     ELSE t = IF b = (node.kind = "not") THEN {} ELSE off}

Suits(root, P, g, i) == Chosen(root, P, g, i) \in Allowed(root[i], root[i].kids \ P, i \in P, g[i])

LEMMA AllowedExists ==
  ASSUME NEW root, IsTree(root), NEW a, NEW P, IsPath(root, a, P, Len(root)), root[a].kids = {},
         NEW i \in DOMAIN root, ValidNode(root[i]), NEW b
  PROVE  \E t : t \in Allowed(root[i], root[i].kids \ P, i \in P, b)
<1> DEFINE off == root[i].kids \ P
<1>1. CASE i \notin P
  BY <1>1 DEF Allowed
<1>2. CASE i \in P /\ root[i].kind # "at_least"
  <2>1. CASE root[i].kind = "all_of"
    <3>1. off \in Allowed(root[i], off, i \in P, b)
      BY <1>2, <2>1 DEF Allowed
    <3> QED BY <3>1
  <2>2. CASE root[i].kind # "all_of"
    <3>1. {} \in Allowed(root[i], off, i \in P, b)
      BY <1>2, <2>2 DEF Allowed
    <3> QED BY <3>1
  <2> QED BY <2>1, <2>2
<1>3. CASE i \in P /\ root[i].kind = "at_least"
  <2>1. root[i].kids # {} /\ root[i].minimum \in 1..Cardinality(root[i].kids)
    BY <1>3 DEF ValidNode
  <2>2. IsFiniteSet(root[i].kids) /\ Cardinality(root[i].kids) \in Nat
    BY Children, FS_CardinalityType
  <2>3. PICK y \in P : root[i].kids \cap P = {y}
    BY <1>3, <2>1 DEF IsPath
  <2>4. off = root[i].kids \ {y} /\ y \in root[i].kids
    BY <2>3
  <2>5. IsFiniteSet(off) /\ Cardinality(off) = Cardinality(root[i].kids) - 1
    BY <2>2, <2>4, FS_RemoveElement
  <2>6. root[i].minimum - 1 \in Nat /\ root[i].minimum - 1 <= Cardinality(off)
    BY <2>1, <2>2, <2>5
  <2> HIDE DEF off
  <2>7. PICK t \in SUBSET off : Cardinality(t) = root[i].minimum - 1
    BY <2>5, <2>6, SubsetOfSize
  <2>8. t \in Allowed(root[i], off, i \in P, b)
    BY <1>3, <2>7 DEF Allowed
  <2> QED BY <2>8 DEF off
<1> QED BY <1>1, <1>2, <1>3

LEMMA TargetsExist ==
  ASSUME NEW root, IsTree(root), NEW a, NEW P, IsPath(root, a, P, Len(root)), root[a].kids = {},
         \A i \in DOMAIN root : ValidNode(root[i])
  PROVE  \E g \in [DOMAIN root -> BOOLEAN] : \A i \in DOMAIN root : Suits(root, P, g, i)
<1> DEFINE n == Len(root)
           Good(g, m) == /\ g \in [DOMAIN root -> BOOLEAN]
                         /\ \A i \in DOMAIN root : i + m > n => Suits(root, P, g, i)
           K == {m \in Nat : \E g : Good(g, m)}
<1>0. n \in Nat \ {0} /\ DOMAIN root = 1..n
  BY DEF IsTree
<1>1. 0 \in K
  <2>1. PICK g : g = [i \in DOMAIN root |-> TRUE]
    OBVIOUS
  <2>2. Good(g, 0)
    BY <1>0, <2>1
  <2> QED BY <2>2
<1>2. ASSUME NEW m \in Nat, m \in K PROVE m + 1 \in K
  <2>1. PICK g : Good(g, m)
    BY <1>2
  <2>2. CASE n - m \notin DOMAIN root
    <3>1. \A i \in DOMAIN root : i + (m + 1) > n => i + m > n
      BY <1>0, <2>2
    <3>2. Good(g, m + 1)
      BY <2>1, <3>1
    <3> QED BY <3>2
  <2>3. CASE n - m \in DOMAIN root
    <3> DEFINE j == n - m
    <3>1. PICK t : t \in Allowed(root[j], root[j].kids \ P, j \in P, g[j])
      BY <2>3, AllowedExists
    <3> DEFINE f == [k \in DOMAIN root |-> IF k \in root[j].kids THEN k \in t ELSE g[k]]
    <3>2. \A i \in DOMAIN root : i + (m + 1) > n => i >= j /\ (i = j \/ i + m > n)
      BY <1>0
    <3>3. \A i \in DOMAIN root : i >= j => f[i] = g[i]
      <4>1. root[j].kids \subseteq 1..(j - 1)
        BY <2>3 DEF IsTree
      <4>2. \A i \in DOMAIN root : i >= j => i \notin root[j].kids
        BY <1>0, <2>3, <4>1
      <4> QED BY <4>2
    <3>4. f \in [DOMAIN root -> BOOLEAN]
      <4>1. \A k \in DOMAIN root : g[k] \in BOOLEAN
        BY <2>1
      <4>2. \A k : (k \in t) \in BOOLEAN
        OBVIOUS
      <4>3. \A k \in DOMAIN root : (IF k \in root[j].kids THEN k \in t ELSE g[k]) \in BOOLEAN
        BY <4>1, <4>2
      <4> QED BY <4>3, Zenon
    <3>5. Suits(root, P, f, j)
      <4>1. t \subseteq root[j].kids \ P
        BY <3>1 DEF Allowed
      <4>2. root[j].kids \subseteq DOMAIN root
        BY <2>3, Children
      <4>3. Chosen(root, P, f, j) = t
        BY <4>1, <4>2 DEF Chosen
      <4>4. f[j] = g[j]
        BY <1>0, <2>3, <3>3
      <4> HIDE DEF f, j
      <4> QED BY <3>1, <4>3, <4>4 DEF Suits
    <3>6. ASSUME NEW i \in DOMAIN root, i + m > n PROVE Suits(root, P, f, i)
      <4>1. i >= j /\ i # j
        BY <1>0, <2>3, <3>6
      <4>2. f[i] = g[i]
        BY <3>3, <4>1
      <4>3. \A k \in root[i].kids : k \in DOMAIN root /\ k \notin root[j].kids
        BY <2>3, <4>1, Children DEF IsTree
      <4>4. \A k \in root[i].kids : f[k] = g[k]
        BY <4>3
      <4> HIDE DEF f, j
      <4>5. Chosen(root, P, f, i) = Chosen(root, P, g, i)
        BY <4>4 DEF Chosen
      <4>6. Suits(root, P, g, i)
        BY <2>1, <3>6
      <4> QED BY <4>2, <4>5, <4>6 DEF Suits
    <3>7. Good(f, m + 1)
      <4> HIDE DEF f, j
      <4> QED BY <3>2, <3>4, <3>5, <3>6
    <3> QED
      <4> HIDE DEF f, Good
      <4> QED BY <3>7
  <2> QED BY <2>2, <2>3
<1>3. n \in K
  <2> HIDE DEF K
  <2> QED BY <1>0, <1>1, <1>2, NumberInduction
<1>4. PICK g : Good(g, n)
  BY <1>3
<1>5. \A i \in DOMAIN root : i + n > n
  BY <1>0
<1> QED BY <1>4, <1>5

\* Beside the path every node has the truth value g gives it.
LEMMA OffPath ==
  ASSUME NEW root, IsTree(root), NEW a, NEW P, IsPath(root, a, P, Len(root)),
         \A i \in DOMAIN root : ValidNode(root[i]),
         NEW g \in [DOMAIN root -> BOOLEAN], \A i \in DOMAIN root : Suits(root, P, g, i),
         NEW S, NEW h, IsTruth(root, S, h),
         \A i \in Refs(root) \ P : root[i].clause \in S <=> g[i]
  PROVE  \A i \in DOMAIN root \ P : h[i] <=> g[i]
<1> DEFINE Q == {i \in DOMAIN root : i \notin P => (h[i] <=> g[i])}
<1>1. ASSUME NEW i \in DOMAIN root, \A k \in root[i].kids : k \in Q PROVE i \in Q
  <2> SUFFICES ASSUME i \notin P PROVE h[i] <=> g[i]
    OBVIOUS
  <2>1. root[i].kind \in NodeKinds /\ root[i].minimum \in Int /\ ValidNode(root[i])
    BY DEF IsTree
  <2>2. root[i].kids \ P = root[i].kids
    BY BesidePath
  <2> DEFINE t == {k \in root[i].kids : h[k]}
  <2>3. t = Chosen(root, P, g, i)
    <3>1. \A k \in root[i].kids : h[k] <=> g[k]
      BY <1>1, <2>2
    <3> QED BY <2>2, <3>1 DEF Chosen
  <2>4. t = IF g[i] = (root[i].kind = "not") THEN {} ELSE root[i].kids
    <3>1. Suits(root, P, g, i)
      OBVIOUS
    <3>2. Chosen(root, P, g, i) = IF g[i] = (root[i].kind = "not") THEN {} ELSE root[i].kids
      BY <2>2, <3>1 DEF Suits, Allowed
    <3> QED BY <2>3, <3>2
  <2>5. g[i] \in BOOLEAN
    OBVIOUS
  <2>6. root[i].kind # "not" => (g[i] => t = root[i].kids) /\ (~ g[i] => t = {})
    <3> HIDE DEF t
    <3> QED BY <2>4, <2>5
  <2>10. CASE root[i].kind = "clause_ref"
    <3>1. i \in Refs(root) \ P
      BY <2>10 DEF Refs
    <3>2. h[i] <=> root[i].clause \in S
      BY <2>10, TruthRef
    <3> QED BY <3>1, <3>2
  <2>11. CASE root[i].kind = "all_of"
    <3>1. h[i] <=> \A k \in root[i].kids : h[k]
      BY <2>11, TruthAll
    <3>2. root[i].kids # {}
      BY <2>1, <2>11 DEF ValidNode
    <3> QED BY <2>5, <2>6, <2>11, <3>1, <3>2
  <2>12. CASE root[i].kind = "any_of"
    <3>1. h[i] <=> \E k \in root[i].kids : h[k]
      BY <2>12, TruthAny
    <3>2. root[i].kids # {}
      BY <2>1, <2>12 DEF ValidNode
    <3> QED BY <2>5, <2>6, <2>12, <3>1, <3>2
  <2>13. CASE root[i].kind = "at_least"
    <3>1. h[i] <=> Cardinality(t) >= root[i].minimum
      BY <2>13, TruthCount
    <3>2. root[i].minimum \in 1..Cardinality(root[i].kids)
      BY <2>1, <2>13 DEF ValidNode
    <3>3. Cardinality({}) = 0 /\ Cardinality(root[i].kids) \in Nat
      BY Children, FS_CardinalityType, FS_EmptySet
    <3> HIDE DEF t
    <3>4. CASE g[i]
      <4>1. Cardinality(t) >= root[i].minimum
        BY <2>6, <2>13, <3>2, <3>3, <3>4
      <4> QED BY <3>1, <3>4, <4>1
    <3>5. CASE ~ g[i]
      <4>1. ~ (Cardinality(t) >= root[i].minimum)
        <5>1. t = {}
          BY <2>6, <2>13, <3>5
        <5>2. Cardinality(t) = 0
          BY <3>3, <5>1
        <5> QED BY <3>2, <3>3, <5>2
      <4> QED BY <3>1, <3>5, <4>1
    <3> QED BY <3>4, <3>5
  <2>14. CASE root[i].kind = "not"
    <3>1. PICK k \in DOMAIN root : root[i].kids = {k}
      BY <2>14, OnlyChild
    <3>2. h[i] <=> ~ h[k]
      BY <2>14, <3>1, TruthNot
    <3>3. (g[i] => t = {}) /\ (~ g[i] => t = {k})
      <4> HIDE DEF t
      <4> QED BY <2>4, <2>5, <2>14, <3>1
    <3> QED BY <2>5, <3>1, <3>2, <3>3
  <2> QED BY <2>1, <2>10, <2>11, <2>12, <2>13, <2>14 DEF NodeKinds
<1>2. \A i \in DOMAIN root : i \in Q
  <2> HIDE DEF Q
  <2> QED BY <1>1, TreeInduction
<1> QED BY <1>2

\* On the path a node says what the node below it on the path says, or the
\* opposite.
LEMMA OnPath ==
  ASSUME NEW root, IsTree(root), NEW a, NEW P, IsPath(root, a, P, Len(root)),
         NEW g \in [DOMAIN root -> BOOLEAN], \A i \in DOMAIN root : Suits(root, P, g, i),
         NEW S, NEW h, IsTruth(root, S, h),
         \A i \in DOMAIN root \ P : h[i] <=> g[i],
         NEW i \in P, NEW y, root[i].kids \cap P = {y}
  PROVE  h[i] <=> IF root[i].kind = "not" THEN ~ h[y] ELSE h[y]
<1>1. i \in DOMAIN root /\ y \in root[i].kids
  BY DEF IsPath
<1>2. root[i].kind \in NodeKinds /\ root[i].minimum \in Int /\ root[i].kind # "clause_ref"
  BY <1>1 DEF IsTree
<1> DEFINE off == root[i].kids \ P
           t == {k \in off : h[k]}
<1>3. root[i].kids = off \cup {y} /\ y \notin off
  OBVIOUS
<1>4. t = Chosen(root, P, g, i)
  <2>1. root[i].kids \subseteq DOMAIN root
    BY <1>1, Children
  <2>2. \A k \in off : h[k] <=> g[k]
    BY <2>1
  <2> QED BY <2>2 DEF Chosen
<1>5. /\ root[i].kind = "all_of" => t = off
      /\ root[i].kind = "any_of" => t = {}
      /\ root[i].kind = "at_least" => Cardinality(t) = root[i].minimum - 1
  <2>1. Suits(root, P, g, i)
    BY <1>1
  <2> HIDE DEF t
  <2> QED BY <1>4, <2>1 DEF Suits, Allowed
<1>6. CASE root[i].kind = "all_of"
  <2>1. h[i] <=> \A k \in root[i].kids : h[k]
    BY <1>1, <1>6, TruthAll
  <2>2. \A k \in off : h[k]
    BY <1>5, <1>6
  <2> QED BY <1>3, <1>6, <2>1, <2>2
<1>7. CASE root[i].kind = "any_of"
  <2>1. h[i] <=> \E k \in root[i].kids : h[k]
    BY <1>1, <1>7, TruthAny
  <2>2. \A k \in off : ~ h[k]
    BY <1>5, <1>7
  <2> QED BY <1>3, <1>7, <2>1, <2>2
<1>8. CASE root[i].kind = "at_least"
  <2>1. h[i] <=> Cardinality({k \in root[i].kids : h[k]}) >= root[i].minimum
    BY <1>1, <1>8, TruthCount
  <2>2. IsFiniteSet(t) /\ y \notin t
    <3>1. IsFiniteSet(root[i].kids) /\ t \subseteq root[i].kids
      BY <1>1, Children
    <3> QED BY <3>1, FS_Subset
  <2>3. CASE h[y]
    <3>1. {k \in root[i].kids : h[k]} = t \cup {y}
      BY <1>3, <2>3
    <3>2. Cardinality(t \cup {y}) = Cardinality(t) + 1
      <4> HIDE DEF t
      <4> QED BY <2>2, FS_AddElement
    <3>3. Cardinality(t \cup {y}) = root[i].minimum
      <4>1. Cardinality(t) = root[i].minimum - 1
        BY <1>5, <1>8
      <4> HIDE DEF t
      <4> QED BY <1>2, <3>2, <4>1
    <3>4. Cardinality({k \in root[i].kids : h[k]}) >= root[i].minimum
      <4> DEFINE all == {k \in root[i].kids : h[k]}
      <4> HIDE DEF t, all
      <4>1. all = t \cup {y}
        BY <3>1 DEF all
      <4>2. Cardinality(all) >= root[i].minimum
        BY <1>2, <3>3, <4>1
      <4> QED BY <4>2 DEF all
    <3>5. h[i]
      BY <2>1, <3>4
    <3> QED BY <1>8, <2>3, <3>5
  <2>4. CASE ~ h[y]
    <3>1. {k \in root[i].kids : h[k]} = t
      BY <1>3, <2>4
    <3>2. Cardinality(t) = root[i].minimum - 1
      BY <1>5, <1>8
    <3>3. ~ (Cardinality({k \in root[i].kids : h[k]}) >= root[i].minimum)
      <4> DEFINE all == {k \in root[i].kids : h[k]}
      <4> HIDE DEF t, all
      <4>1. all = t
        BY <3>1 DEF all
      <4>2. ~ (Cardinality(all) >= root[i].minimum)
        BY <1>2, <3>2, <4>1
      <4> QED BY <4>2 DEF all
    <3>4. ~ h[i]
      BY <2>1, <3>3
    <3> QED BY <1>8, <2>4, <3>4
  <2> QED BY <2>3, <2>4
<1>9. CASE root[i].kind = "not"
  <2>1. root[i].kids = {y}
    BY <1>1, <1>9, OnlyChild
  <2>2. h[i] <=> ~ h[y]
    BY <1>1, <1>9, <2>1, TruthNot
  <2> QED BY <1>9, <2>2
<1> QED BY <1>2, <1>6, <1>7, <1>8, <1>9 DEF NodeKinds

\* Each clause that is referenced once can turn the root.
LEMMA ClauseCounts ==
  ASSUME NEW root, IsTree(root), \A i \in DOMAIN root : ValidNode(root[i]), NEW C,
         \A i \in Refs(root) : root[i].clause \in C,
         \A i, j \in Refs(root) : i # j => root[i].clause # root[j].clause,
         NEW a \in Refs(root)
  PROVE  \E S \in SUBSET C :
           Holds(root, S \cup {root[a].clause}) # Holds(root, S \ {root[a].clause})
<1> DEFINE c == root[a].clause
<1>0. a \in DOMAIN root /\ root[a].kind = "clause_ref" /\ root[a].kids = {}
  BY DEF Refs, IsTree
<1>1. PICK P : IsPath(root, a, P, Len(root))
  BY <1>0, PathExists
<1>2. PICK g \in [DOMAIN root -> BOOLEAN] : \A i \in DOMAIN root : Suits(root, P, g, i)
  BY <1>0, <1>1, TargetsExist
<1> DEFINE S == {x \in C : \E i \in Refs(root) \ P : root[i].clause = x /\ g[i]}
<1>3. \A i \in Refs(root) \ P : /\ root[i].clause # c
                                /\ root[i].clause \in S <=> g[i]
  <2>1. a \in P
    BY <1>1 DEF IsPath
  <2> QED BY <2>1
<1> HIDE DEF S
<1>4. PICK h : IsTruth(root, S \cup {c}, h) /\ Holds(root, S \cup {c}) = h[Len(root)]
  BY TruthOfRoot
<1>5. PICK f : IsTruth(root, S \ {c}, f) /\ Holds(root, S \ {c}) = f[Len(root)]
  BY TruthOfRoot
<1>6. \A i \in DOMAIN root \ P : h[i] <=> g[i]
  <2>1. \A i \in Refs(root) \ P : root[i].clause \in S \cup {c} <=> g[i]
    BY <1>3
  <2> QED BY <1>1, <1>2, <1>4, <2>1, OffPath
<1>7. \A i \in DOMAIN root \ P : f[i] <=> g[i]
  <2>1. \A i \in Refs(root) \ P : root[i].clause \in S \ {c} <=> g[i]
    BY <1>3
  <2> QED BY <1>1, <1>2, <1>5, <2>1, OffPath
<1> DEFINE Q == {i \in DOMAIN root : i \in P => (h[i] <=> ~ f[i])}
<1>8. ASSUME NEW i \in DOMAIN root, \A k \in root[i].kids : k \in Q PROVE i \in Q
  <2> SUFFICES ASSUME i \in P PROVE h[i] <=> ~ f[i]
    OBVIOUS
  <2>1. CASE i = a
    <3>1. h[a] <=> c \in S \cup {c}
      BY <1>0, <1>4, TruthRef
    <3>2. f[a] <=> c \in S \ {c}
      BY <1>0, <1>5, TruthRef
    <3> QED BY <2>1, <3>1, <3>2
  <2>2. CASE i # a
    <3>1. PICK y \in P : root[i].kids \cap P = {y}
      BY <1>1, <2>2 DEF IsPath
    <3>2. h[y] <=> ~ f[y]
      BY <1>8, <3>1
    <3>3. h[i] <=> IF root[i].kind = "not" THEN ~ h[y] ELSE h[y]
      BY <1>1, <1>2, <1>4, <1>6, <3>1, OnPath
    <3>4. f[i] <=> IF root[i].kind = "not" THEN ~ f[y] ELSE f[y]
      BY <1>1, <1>2, <1>5, <1>7, <3>1, OnPath
    <3> QED BY <3>2, <3>3, <3>4
  <2> QED BY <2>1, <2>2
<1>9. \A i \in DOMAIN root : i \in Q
  <2> HIDE DEF Q
  <2> QED BY <1>8, TreeInduction
<1>10. h[Len(root)] <=> ~ f[Len(root)]
  <2>1. Len(root) \in P /\ Len(root) \in DOMAIN root
    BY <1>1 DEF IsPath
  <2> QED BY <1>9, <2>1
<1>11. Holds(root, S \cup {c}) # Holds(root, S \ {c})
  BY <1>4, <1>5, <1>10
<1>12. S \in SUBSET C
  BY DEF S
<1> QED BY <1>11, <1>12

-----------------------------------------------------------------------------
(* The built-in adapter. *)

\* The observations of the first commands of a receipt.
IsUpto(r, u) ==
  u = [n \in 0..Len(r) |-> IF n = 0 THEN <<>> ELSE u[n - 1] \o CommandObservations(n, r[n])]

LEMMA UptoExists ==
  ASSUME NEW r, Len(r) \in Nat
  PROVE  \E u : IsUpto(r, u)
<1> DEFINE Body(g, k) == IF k = 0 THEN <<>> ELSE g[k - 1] \o CommandObservations(k, r[k])
           K == {m \in Nat : \E g : g = [k \in 0..m |-> Body(g, k)]}
<1>1. 0 \in K
  <2>1. PICK g : g = [k \in 0..0 |-> <<>>]
    OBVIOUS
  <2>2. g = [k \in 0..0 |-> Body(g, k)]
    BY <2>1
  <2> QED BY <2>2
<1>2. ASSUME NEW m \in Nat, m \in K PROVE m + 1 \in K
  <2>1. PICK g : g = [k \in 0..m |-> Body(g, k)]
    BY <1>2
  <2>2. PICK h : h = [k \in 0..(m + 1) |-> Body(g, k)]
    OBVIOUS
  <2>3. ASSUME NEW k \in 0..m PROVE h[k] = g[k]
    <3>1. h[k] = Body(g, k)
      <4>1. k \in 0..(m + 1)
        OBVIOUS
      <4> HIDE DEF Body
      <4> QED BY <2>2, <4>1
    <3>2. g[k] = Body(g, k)
      <4> HIDE DEF Body
      <4> QED BY <2>1
    <3> QED BY <3>1, <3>2
  <2>4. ASSUME NEW k \in 0..(m + 1) PROVE Body(g, k) = Body(h, k)
    <3>1. CASE k = 0
      BY <3>1
    <3>2. CASE k # 0
      <4>1. k - 1 \in 0..m
        BY <3>2
      <4>2. h[k - 1] = g[k - 1]
        BY <2>3, <4>1
      <4> QED BY <3>2, <4>2
    <3> QED BY <3>1, <3>2
  <2>5. h = [k \in 0..(m + 1) |-> Body(h, k)]
    <3> HIDE DEF Body
    <3> QED BY <2>2, <2>4
  <2> HIDE DEF Body
  <2> QED BY <2>5
<1>3. Len(r) \in K
  <2> HIDE DEF K
  <2> QED BY <1>1, <1>2, NumberInduction
<1>4. PICK g : g = [k \in 0..Len(r) |-> Body(g, k)]
  BY <1>3
<1> QED BY <1>4 DEF IsUpto

LEMMA AdaptIsUpto ==
  ASSUME NEW r, Len(r) \in Nat
  PROVE  \E u : IsUpto(r, u) /\ Adapt(r) = u[Len(r)]
<1> DEFINE C == CHOOSE u : IsUpto(r, u)
<1>1. IsUpto(r, C)
  <2>1. \E u : IsUpto(r, u)
    BY UptoExists
  <2> QED BY <2>1, Zenon
<1>2. Adapt(r) = C[Len(r)]
  BY Zenon DEF Adapt, IsUpto
<1> QED BY <1>1, <1>2

\* The facts of the first n commands, each stated once.
Covers(r, n, s) ==
  /\ \A i \in DOMAIN s : \E m \in 1..n, ty \in FactTypes : s[i] = Observe(m, r[m], ty)
  /\ \A m \in 1..n, ty \in FactTypes : \E i \in DOMAIN s : s[i] = Observe(m, r[m], ty)
  /\ \A i, j \in DOMAIN s : i # j => s[i].id # s[j].id

LEMMA ObserveId ==
  ASSUME NEW m, NEW c, NEW ty
  PROVE  Observe(m, c, ty).id = <<m, ty>>
BY DEF Observe

LEMMA CommandObservationsFacts ==
  ASSUME NEW V, NEW n, NEW c, \A ty \in FactTypes : Observe(n, c, ty) \in V,
         NEW t, t = CommandObservations(n, c)
  PROVE  /\ t \in Seq(V) /\ Len(t) = 5
         /\ \A j \in 1..5 : \E ty \in FactTypes : t[j] = Observe(n, c, ty)
         /\ \A ty \in FactTypes : \E j \in 1..5 : t[j] = Observe(n, c, ty)
         /\ \A i, j \in 1..5 : i # j => t[i].id # t[j].id
<1>1. t \in Seq(V) /\ Len(t) = 5
  BY DEF CommandObservations, FactTypes
<1>2. /\ t[1] = Observe(n, c, "passed") /\ t[2] = Observe(n, c, "exit_code")
      /\ t[3] = Observe(n, c, "timed_out") /\ t[4] = Observe(n, c, "workspace_unchanged")
      /\ t[5] = Observe(n, c, "failure_category")
  BY DEF CommandObservations
<1>3. \A j \in 1..5 : \E ty \in FactTypes : t[j] = Observe(n, c, ty)
  <2>1. \A j \in 1..5 : j = 1 \/ j = 2 \/ j = 3 \/ j = 4 \/ j = 5
    OBVIOUS
  <2> QED BY <1>2, <2>1 DEF FactTypes
<1>4. \A ty \in FactTypes : \E j \in 1..5 : t[j] = Observe(n, c, ty)
  BY <1>2 DEF FactTypes
<1>5. \A i, j \in 1..5 : i # j => t[i].id # t[j].id
  <2>1. /\ t[1].id = <<n, "passed">> /\ t[2].id = <<n, "exit_code">>
        /\ t[3].id = <<n, "timed_out">> /\ t[4].id = <<n, "workspace_unchanged">>
        /\ t[5].id = <<n, "failure_category">>
    BY <1>2, ObserveId
  <2> QED BY <2>1
<1> QED BY <1>1, <1>3, <1>4, <1>5

Observed(r) == {Observe(n, r[n], ty) : n \in DOMAIN r, ty \in FactTypes}

LEMMA AdaptFacts ==
  ASSUME NEW r \in Receipts
  PROVE  /\ Adapt(r) \in Seq(Observed(r)) /\ Len(Adapt(r)) = 5 * Len(r)
         /\ Covers(r, Len(r), Adapt(r))
<1>0. Len(r) \in Nat /\ DOMAIN r = 1..Len(r)
  BY ReceiptsAssumption
<1>1. PICK u : IsUpto(r, u) /\ Adapt(r) = u[Len(r)]
  BY <1>0, AdaptIsUpto
<1> DEFINE Whole(n) == u[n] \in Seq(Observed(r)) /\ Len(u[n]) = 5 * n /\ Covers(r, n, u[n])
           K == {n \in Nat : n <= Len(r) => Whole(n)}
<1>2. 0 \in K
  <2>1. u[0] = <<>>
    BY <1>0, <1>1 DEF IsUpto
  <2>2. Whole(0)
    BY <2>1 DEF Covers
  <2> QED BY <2>2
<1>3. ASSUME NEW n \in Nat, n \in K PROVE n + 1 \in K
  <2> SUFFICES ASSUME n + 1 <= Len(r) PROVE Whole(n + 1)
    OBVIOUS
  <2>1. Whole(n)
    BY <1>0, <1>3
  <2>2. n + 1 \in DOMAIN r /\ n + 1 \in 0..Len(r) /\ n + 1 # 0 /\ (n + 1) - 1 = n
    BY <1>0
  <2> DEFINE t == CommandObservations(n + 1, r[n + 1])
             s == u[n]
  <2>3. u[n + 1] = s \o t
    BY <1>1, <2>2 DEF IsUpto
  <2>4. /\ t \in Seq(Observed(r)) /\ Len(t) = 5
        /\ \A j \in 1..5 : \E ty \in FactTypes : t[j] = Observe(n + 1, r[n + 1], ty)
        /\ \A ty \in FactTypes : \E j \in 1..5 : t[j] = Observe(n + 1, r[n + 1], ty)
        /\ \A i, j \in 1..5 : i # j => t[i].id # t[j].id
    <3>1. \A ty \in FactTypes : Observe(n + 1, r[n + 1], ty) \in Observed(r)
      BY <2>2 DEF Observed
    <3> QED BY <3>1, CommandObservationsFacts
  <2> HIDE DEF t
  <2>5. s \in Seq(Observed(r)) /\ Len(s) = 5 * n /\ Covers(r, n, s)
    BY <2>1
  <2> HIDE DEF s
  <2>6. /\ s \o t \in Seq(Observed(r)) /\ Len(s \o t) = 5 * (n + 1)
        /\ DOMAIN s = 1..(5 * n) /\ DOMAIN (s \o t) = 1..(5 * n + 5)
        /\ \A i \in 1..(5 * n) : (s \o t)[i] = s[i]
        /\ \A j \in 1..5 : (s \o t)[5 * n + j] = t[j]
    <3>0. s \in Seq(Observed(r)) /\ t \in Seq(Observed(r))
      BY <2>4, <2>5
    <3>1. /\ s \o t \in Seq(Observed(r)) /\ Len(s \o t) = Len(s) + Len(t)
          /\ DOMAIN s = 1..Len(s) /\ DOMAIN (s \o t) = 1..(Len(s) + Len(t))
          /\ Len(s) \in Nat /\ Len(t) \in Nat
      BY <3>0, ConcatProperties
    <3>2. \A i \in 1..Len(s) : (s \o t)[i] = s[i]
      BY <3>0, <3>1, ConcatProperties
    <3>3. ASSUME NEW j \in 1..Len(t) PROVE (s \o t)[Len(s) + j] = t[j]
      <4>1. Len(s) + j \in 1..(Len(s) + Len(t)) /\ ~ (Len(s) + j <= Len(s)) /\ (Len(s) + j) - Len(s) = j
        BY <3>1
      <4> QED BY <3>0, <4>1, ConcatProperties
    <3>4. 5 * n + 5 = 5 * (n + 1) /\ 5 * n \in Nat
      OBVIOUS
    <3> QED BY <2>4, <2>5, <3>1, <3>2, <3>3, <3>4
  <2>7. ASSUME NEW i \in 1..(5 * n + 5), i \notin 1..(5 * n)
        PROVE  \E j \in 1..5 : i = 5 * n + j /\ (s \o t)[i] = t[j]
    <3>1. i - 5 * n \in 1..5 /\ i = 5 * n + (i - 5 * n)
      BY <2>7
    <3> QED BY <2>6, <3>1
  <2>8. ASSUME NEW i \in DOMAIN (s \o t)
        PROVE  \E m \in 1..(n + 1), ty \in FactTypes : (s \o t)[i] = Observe(m, r[m], ty)
    <3>1. CASE i \in 1..(5 * n)
      <4>1. PICK m \in 1..n, ty \in FactTypes : s[i] = Observe(m, r[m], ty)
        BY <2>5, <2>6, <3>1 DEF Covers
      <4>2. m \in 1..(n + 1)
        OBVIOUS
      <4> QED BY <2>6, <3>1, <4>1, <4>2
    <3>2. CASE i \notin 1..(5 * n)
      <4>1. PICK j \in 1..5 : (s \o t)[i] = t[j]
        BY <2>6, <2>7, <3>2
      <4>2. n + 1 \in 1..(n + 1)
        OBVIOUS
      <4> QED BY <2>4, <4>1, <4>2
    <3> QED BY <3>1, <3>2
  <2>9. ASSUME NEW m \in 1..(n + 1), NEW ty \in FactTypes
        PROVE  \E i \in DOMAIN (s \o t) : (s \o t)[i] = Observe(m, r[m], ty)
    <3>1. CASE m \in 1..n
      <4>1. PICK i \in DOMAIN s : s[i] = Observe(m, r[m], ty)
        BY <2>5, <3>1 DEF Covers
      <4>2. i \in 1..(5 * n) /\ i \in DOMAIN (s \o t)
        BY <2>6
      <4> QED BY <2>6, <4>1, <4>2
    <3>2. CASE m \notin 1..n
      <4>1. m = n + 1
        BY <3>2
      <4>2. PICK j \in 1..5 : t[j] = Observe(n + 1, r[n + 1], ty)
        BY <2>4
      <4>3. 5 * n + j \in DOMAIN (s \o t)
        BY <2>6
      <4> QED BY <2>6, <4>1, <4>2, <4>3
    <3> QED BY <3>1, <3>2
  <2>10. ASSUME NEW i \in DOMAIN (s \o t), NEW j \in DOMAIN (s \o t), i < j
         PROVE  (s \o t)[i].id # (s \o t)[j].id
    <3>1. CASE j \in 1..(5 * n)
      <4>1. i \in 1..(5 * n)
        BY <2>6, <2>10, <3>1
      <4>2. i # j /\ i \in DOMAIN s /\ j \in DOMAIN s
        BY <2>6, <2>10, <3>1, <4>1
      <4>3. s[i].id # s[j].id
        BY <2>5, <4>2 DEF Covers
      <4>4. (s \o t)[i] = s[i] /\ (s \o t)[j] = s[j]
        BY <2>6, <3>1, <4>1
      <4> QED BY <4>3, <4>4
    <3>2. CASE j \notin 1..(5 * n) /\ i \in 1..(5 * n)
      <4>1. PICK m \in 1..n, ty \in FactTypes : (s \o t)[i] = Observe(m, r[m], ty)
        <5>1. i \in DOMAIN s /\ (s \o t)[i] = s[i]
          BY <2>6, <3>2
        <5>2. \E m \in 1..n, ty \in FactTypes : s[i] = Observe(m, r[m], ty)
          BY <2>5, <5>1 DEF Covers
        <5> QED BY <5>1, <5>2
      <4>2. PICK k \in 1..5 : (s \o t)[j] = t[k]
        BY <2>6, <2>7, <3>2
      <4>3. PICK tz \in FactTypes : (s \o t)[j] = Observe(n + 1, r[n + 1], tz)
        BY <2>4, <4>2
      <4>4. (s \o t)[i].id = <<m, ty>> /\ (s \o t)[j].id = <<n + 1, tz>>
        BY <4>1, <4>3, ObserveId
      <4>5. m # n + 1
        OBVIOUS
      <4> QED BY <4>4, <4>5
    <3>3. CASE j \notin 1..(5 * n) /\ i \notin 1..(5 * n)
      <4>1. PICK k \in 1..5 : i = 5 * n + k /\ (s \o t)[i] = t[k]
        BY <2>6, <2>7, <3>3
      <4>2. PICK l \in 1..5 : j = 5 * n + l /\ (s \o t)[j] = t[l]
        BY <2>6, <2>7, <3>3
      <4>3. k # l
        BY <2>10, <4>1, <4>2
      <4> QED BY <2>4, <4>1, <4>2, <4>3
    <3> QED BY <3>1, <3>2, <3>3
  <2>11. Covers(r, n + 1, s \o t)
    <3>1. \A i, j \in DOMAIN (s \o t) : i # j => (s \o t)[i].id # (s \o t)[j].id
      <4>1. \A i, j \in DOMAIN (s \o t) : i # j => i < j \/ j < i
        BY <2>6
      <4> QED BY <2>10, <4>1
    <3> QED BY <2>8, <2>9, <3>1 DEF Covers
  <2> QED BY <2>3, <2>6, <2>11
<1>4. Len(r) \in K
  <2> HIDE DEF K
  <2> QED BY <1>0, <1>2, <1>3, NumberInduction
<1>5. Whole(Len(r))
  BY <1>0, <1>4
<1> QED BY <1>1, <1>5

-----------------------------------------------------------------------------
(* What Control validates. *)

Offered(r) == Candidates \cup Observed(r)

WellFormed(o) ==
  /\ o.selector = [type |-> o.selector.type, stage |-> o.selector.stage,
                   check |-> o.selector.check, producer |-> o.selector.producer]
  /\ o.status = "observed" => o.value # None /\ (o.value.t = "list" \/ IsScalar(o.value))

LEMMA FactIsScalar ==
  ASSUME NEW r \in Receipts, NEW n \in DOMAIN r, NEW ty \in FactTypes
  PROVE  Fact(r[n], ty) = None \/ IsScalar(Fact(r[n], ty))
<1>1. \A b : IsScalar(Bool(b))
  BY DEF Bool, IsScalar
<1>2. \A x \in {r[n].exit_code, r[n].failure_category} : x = None \/ IsScalar(x)
  BY ReceiptsAssumption
<1> HIDE DEF IsScalar, Bool
<1>3. CASE ty = "exit_code" \/ ty = "failure_category"
  BY <1>2, <1>3 DEF Fact
<1>4. CASE ty = "passed"
  BY <1>1, <1>4 DEF Fact
<1>5. CASE ty = "timed_out"
  BY <1>1, <1>5 DEF Fact
<1>6. CASE ty = "workspace_unchanged"
  BY <1>1, <1>6 DEF Fact
<1> QED BY <1>3, <1>4, <1>5, <1>6 DEF FactTypes

LEMMA ObserveFields ==
  ASSUME NEW n, NEW c, NEW ty
  PROVE  /\ Observe(n, c, ty).selector = Selector(c.name, ty)
         /\ Observe(n, c, ty).status = IF Fact(c, ty) = None THEN "unavailable" ELSE "observed"
         /\ Observe(n, c, ty).value = Fact(c, ty)
BY DEF Observe

LEMMA OfferedIsWellFormed ==
  ASSUME NEW r \in Receipts, NEW o \in Offered(r)
  PROVE  WellFormed(o)
<1>1. CASE o \in Candidates
  BY <1>1, CandidatesAssumption DEF WellFormed
<1>2. CASE o \in Observed(r)
  <2>1. PICK n \in DOMAIN r, ty \in FactTypes : o = Observe(n, r[n], ty)
    BY <1>2 DEF Observed
  <2>2. /\ o.selector = Selector(r[n].name, ty) /\ o.value = Fact(r[n], ty)
        /\ o.status = "observed" => Fact(r[n], ty) # None
    BY <2>1, ObserveFields
  <2>3. o.selector = [type |-> o.selector.type, stage |-> o.selector.stage,
                      check |-> o.selector.check, producer |-> o.selector.producer]
    BY <2>2 DEF Selector
  <2>4. o.status = "observed" => o.value # None /\ IsScalar(o.value)
    BY <2>2, FactIsScalar
  <2> QED BY <2>3, <2>4 DEF WellFormed
<1> QED BY <1>1, <1>2 DEF Offered

LEMMA FiveFactTypes == Cardinality(FactTypes) = 5
<1>1. IsFiniteSet({}) /\ Cardinality({}) = 0
  BY FS_EmptySet
<1> DEFINE a == {} \cup {"passed"}
           b == a \cup {"exit_code"}
           c == b \cup {"timed_out"}
           d == c \cup {"workspace_unchanged"}
           e == d \cup {"failure_category"}
<1>2. IsFiniteSet(a) /\ Cardinality(a) = 1
  BY <1>1, FS_AddElement
<1>3. IsFiniteSet(b) /\ Cardinality(b) = 2
  <2>1. "exit_code" \notin a
    OBVIOUS
  <2> HIDE DEF a
  <2> QED BY <1>2, <2>1, FS_AddElement
<1>4. IsFiniteSet(c) /\ Cardinality(c) = 3
  <2>1. "timed_out" \notin b
    OBVIOUS
  <2> HIDE DEF b
  <2> QED BY <1>3, <2>1, FS_AddElement
<1>5. IsFiniteSet(d) /\ Cardinality(d) = 4
  <2>1. "workspace_unchanged" \notin c
    OBVIOUS
  <2> HIDE DEF c
  <2> QED BY <1>4, <2>1, FS_AddElement
<1>6. IsFiniteSet(e) /\ Cardinality(e) = 5
  <2>1. "failure_category" \notin d
    OBVIOUS
  <2> HIDE DEF d
  <2> QED BY <1>5, <2>1, FS_AddElement
<1>7. FactTypes = e
  BY DEF FactTypes
<1> QED BY <1>6, <1>7

\* An injection of 1..N into itself reaches everything.
LEMMA Pigeonhole ==
  ASSUME NEW N \in Nat, NEW f \in [1..N -> 1..N],
         \A j, k \in 1..N : f[j] = f[k] => j = k
  PROVE  \A i \in 1..N : \E j \in 1..N : f[j] = i
<1>1. IsFiniteSet(1..N)
  BY FS_Interval
<1>2. f \in Injection(1..N, 1..N)
  BY DEF Injection, IsInjective
<1>3. f \in Surjection(1..N, 1..N)
  BY <1>1, <1>2, FS_Injection
<1> QED BY <1>3 DEF Surjection

\* Two observations the evaluator cannot tell apart.
Twins(o, p) == o.selector = p.selector /\ o.status = p.status /\ o.value = p.value

\* An observation Control accepts for a fact is a twin of the built-in one.
LEMMA AcceptedIsTwin ==
  ASSUME NEW r \in Receipts, NEW n \in DOMAIN r, NEW ty \in FactTypes,
         NEW o \in Offered(r), BoundObservation(o),
         o.selector.check = r[n].name, o.selector.type = ty, StatesFact(o, Fact(r[n], ty))
  PROVE  Twins(o, Observe(n, r[n], ty))
<1> DEFINE fact == Fact(r[n], ty)
<1>1. WellFormed(o)
  BY OfferedIsWellFormed
<1>2. o.selector = Selector(r[n].name, ty)
  BY <1>1 DEF WellFormed, BoundObservation, Selector
<1>3. fact = None \/ IsScalar(fact)
  BY FactIsScalar
<1>4. /\ Observe(n, r[n], ty).selector = Selector(r[n].name, ty)
      /\ Observe(n, r[n], ty).status = IF fact = None THEN "unavailable" ELSE "observed"
      /\ Observe(n, r[n], ty).value = fact
  BY ObserveFields
<1> HIDE DEF fact
<1>5. CASE fact = None
  <2>1. o.status = "unavailable" /\ o.value = None
    BY <1>5 DEF StatesFact, fact
  <2> QED BY <1>2, <1>4, <1>5, <2>1 DEF Twins
<1>6. CASE fact # None
  <2>1. o.status = "observed" /\ o.value.t = fact.t /\ o.value.v = fact.v
    BY <1>6 DEF StatesFact, fact
  <2>2. fact = [t |-> fact.t, v |-> fact.v] /\ fact.t # "list"
    BY <1>3, <1>6 DEF IsScalar
  <2>3. o.value = [t |-> o.value.t, v |-> o.value.v]
    BY <1>1, <2>1, <2>2 DEF WellFormed, IsScalar
  <2>4. o.value = fact
    BY <2>1, <2>2, <2>3
  <2> QED BY <1>2, <1>4, <1>6, <2>1, <2>4 DEF Twins
<1> QED BY <1>5, <1>6

\* Clauses over observations that are twins one by one have the same results.
LEMMA TwinsAgree ==
  ASSUME NEW a, NEW b, NEW clause,
         \A i \in DOMAIN a : \E j \in DOMAIN b : Twins(a[i], b[j]),
         \A j \in DOMAIN b : \E i \in DOMAIN a : Twins(a[i], b[j]),
         \A i, j \in DOMAIN a : a[i].selector = a[j].selector => i = j,
         \A i, j \in DOMAIN b : b[i].selector = b[j].selector => i = j
  PROVE  EvaluateClause(clause, a) = EvaluateClause(clause, b)
<1>1. CASE Matches(clause, a) = {}
  <2>1. Matches(clause, b) = {}
    BY <1>1 DEF Matches, Twins
  <2>2. Cardinality({}) # 1
    BY FS_EmptySet
  <2> QED BY <1>1, <2>1, <2>2, ClauseByMatches DEF ByMatch
<1>2. CASE Matches(clause, a) # {}
  <2>1. PICK i \in DOMAIN a : a[i].selector = clause.selector
    BY <1>2 DEF Matches
  <2>2. PICK j \in DOMAIN b : Twins(a[i], b[j])
    OBVIOUS
  <2>3. Matches(clause, a) = {i} /\ Matches(clause, b) = {j}
    BY <2>1, <2>2 DEF Matches, Twins
  <2>4. (CHOOSE x \in {i} : TRUE) = i /\ (CHOOSE x \in {j} : TRUE) = j
    OBVIOUS
  <2>5. Cardinality({i}) = 1 /\ Cardinality({j}) = 1
    BY FS_Singleton
  <2>6. EvaluateClause(clause, a) = ByMatch(clause, a, {i}, i)
    BY <2>3, <2>4, ClauseByMatches
  <2>7. EvaluateClause(clause, b) = ByMatch(clause, b, {j}, j)
    BY <2>3, <2>4, ClauseByMatches
  <2> QED BY <2>2, <2>5, <2>6, <2>7 DEF ByMatch, Twins
<1> QED BY <1>1, <1>2

\* What Control accepts is what the built-in adapter says, in another order.
LEMMA ValidIsAdapted ==
  ASSUME NEW r \in Receipts, NEW obs \in Seq(Offered(r)), ValidObservations(r, obs)
  PROVE  /\ Len(obs) = Len(Adapt(r))
         /\ ~ DuplicateObservation(Adapt(r))
         /\ \A clause : EvaluateClause(clause, obs) = EvaluateClause(clause, Adapt(r))
<1> DEFINE ad == Adapt(r)
           N == 5 * Len(r)
<1>0. Len(r) \in Nat /\ DOMAIN r = 1..Len(r) /\ N \in Nat
  BY ReceiptsAssumption
<1>1. ad \in Seq(Observed(r)) /\ Len(ad) = N /\ Covers(r, Len(r), ad)
  BY AdaptFacts
<1> HIDE DEF ad
<1>2. DOMAIN ad = 1..N
  BY <1>1
<1>3. Len(obs) = N /\ DOMAIN obs = 1..N
  <2>1. Len(obs) = Len(r) * 5
    BY FiveFactTypes DEF ValidObservations
  <2> QED BY <1>0, <2>1
<1>4. \A i, j \in 1..N : obs[i].selector = obs[j].selector => i = j
  BY <1>3 DEF ValidObservations, SelectorDuplicated
<1>5. ASSUME NEW i \in 1..N, NEW j \in 1..N, ad[i].selector = ad[j].selector PROVE i = j
  <2>1. PICK m \in 1..Len(r), ty \in FactTypes : ad[i] = Observe(m, r[m], ty)
    BY <1>1, <1>2 DEF Covers
  <2>2. PICK n \in 1..Len(r), tz \in FactTypes : ad[j] = Observe(n, r[n], tz)
    BY <1>1, <1>2 DEF Covers
  <2>3. Selector(r[m].name, ty) = Selector(r[n].name, tz)
    BY <1>5, <2>1, <2>2, ObserveFields
  <2>4. r[m].name = r[n].name /\ ty = tz
    BY <2>3 DEF Selector
  <2>5. m = n
    BY <1>0, <2>4, ReceiptsAssumption
  <2>6. ad[i].id = ad[j].id
    BY <2>1, <2>2, <2>4, <2>5
  <2> QED BY <1>1, <1>2, <2>6 DEF Covers
<1>6. ASSUME NEW j \in 1..N PROVE \E i \in 1..N : Twins(obs[i], ad[j])
  <2>1. PICK n \in 1..Len(r), ty \in FactTypes : ad[j] = Observe(n, r[n], ty)
    BY <1>1, <1>2 DEF Covers
  <2>2. PICK i \in DOMAIN obs : /\ obs[i].selector.check = r[n].name
                                /\ obs[i].selector.type = ty
                                /\ StatesFact(obs[i], Fact(r[n], ty))
    BY <1>0 DEF ValidObservations
  <2>3. BoundObservation(obs[i]) /\ obs[i] \in Offered(r)
    BY DEF ValidObservations
  <2>4. Twins(obs[i], Observe(n, r[n], ty))
    BY <1>0, <2>2, <2>3, AcceptedIsTwin
  <2> QED BY <1>3, <2>1, <2>4
<1> DEFINE f == [j \in 1..N |-> CHOOSE i \in 1..N : Twins(obs[i], ad[j])]
<1>7. \A j \in 1..N : f[j] \in 1..N /\ Twins(obs[f[j]], ad[j])
  <2> HIDE DEF N
  <2> QED BY <1>6
<1>8. f \in [1..N -> 1..N]
  <2> HIDE DEF N
  <2> QED BY <1>7
<1>9. \A j, k \in 1..N : f[j] = f[k] => j = k
  <2> HIDE DEF f, N
  <2> QED BY <1>5, <1>7 DEF Twins
<1>10. \A i \in 1..N : \E j \in 1..N : f[j] = i
  <2> HIDE DEF f, N
  <2> QED BY <1>0, <1>8, <1>9, Pigeonhole
<1>11. \A i \in 1..N : \E j \in 1..N : Twins(obs[i], ad[j])
  <2> HIDE DEF f, N
  <2> QED BY <1>7, <1>10
<1> HIDE DEF N
<1>12. \A clause : EvaluateClause(clause, obs) = EvaluateClause(clause, ad)
  BY <1>2, <1>3, <1>4, <1>5, <1>6, <1>11, TwinsAgree
<1>13. ~ DuplicateObservation(ad)
  BY <1>1 DEF Covers, DuplicateObservation
<1> QED BY <1>1, <1>3, <1>12, <1>13 DEF ad

-----------------------------------------------------------------------------
(* The adjudication. *)

\* There is an evaluation only of a constructed rule set, and it is the one of
\* the observations that are there.
EvaluationIsCurrent ==
  evaluation # None \/ phase = "done" => evaluation = Evaluation(rules, observations)

\* What is evaluated against a contract was offered by some adapter for the
\* receipt, and accepted.
ObservationsAreBound ==
  /\ phase \in {"adapted", "validated", "done"} =>
       receipt \in Receipts /\ observations \in Seq(Offered(receipt))
  /\ phase \in {"validated", "done"} => ValidObservations(receipt, observations)

AdjudicationInv ==
  /\ phase \in {"new", "raised", "verify", "adapted", "validated", "done", "collect"}
  /\ phase \notin {"new", "raised"} => rules \in Proposals /\ Constructible(rules)
  /\ phase \notin {"done", "collect"} => evaluation = None
  /\ EvaluationIsCurrent
  /\ ObservationsAreBound
  /\ phase = "collect" => observations \in Seq(Reported)
  /\ phase = "new" => observations = <<>>

LEMMA DeviateKeepsSeq ==
  ASSUME AdjudicationInv, Deviate
  PROVE  observations' \in Seq(Offered(receipt))
<1>1. observations \in Seq(Offered(receipt))
  BY DEF Deviate, AdjudicationInv, ObservationsAreBound
<1>2. Candidates \subseteq Offered(receipt)
  BY DEF Offered
<1>3. ASSUME NEW i \in DOMAIN observations, NEW o \in Candidates,
             observations' = [observations EXCEPT ![i] = o]
      PROVE  observations' \in Seq(Offered(receipt))
  BY <1>1, <1>2, <1>3
<1>4. ASSUME NEW o \in Candidates, observations' = Append(observations, o)
      PROVE  observations' \in Seq(Offered(receipt))
  BY <1>1, <1>2, <1>4
<1>5. ASSUME observations' = SubSeq(observations, 1, Len(observations) - 1)
      PROVE  observations' \in Seq(Offered(receipt))
  BY <1>1, <1>5
<1> QED BY <1>3, <1>4, <1>5 DEF Deviate

LEMMA AdjudicationStep ==
  ASSUME AdjudicationInv, [ENext]_evars
  PROVE  AdjudicationInv'
<1> USE DEF AdjudicationInv, EvaluationIsCurrent, ObservationsAreBound
<1>1. ASSUME NEW p \in Proposals, Construct(p) PROVE AdjudicationInv'
  <2>1. phase = "new" /\ evaluation = None /\ evaluation' = None /\ observations' = <<>>
    BY <1>1 DEF Construct
  <2>2. CASE Constructible(p) /\ rules' = p /\ phase' = IF p.label = "contract" THEN "verify" ELSE "collect"
    BY <2>1, <2>2
  <2>3. CASE ~ Constructible(p) /\ phase' = "raised" /\ UNCHANGED rules
    BY <2>1, <2>3
  <2> QED BY <1>1, <2>2, <2>3 DEF Construct
<1>2. ASSUME NEW r \in Receipts, Receive(r) PROVE AdjudicationInv'
  <2>1. /\ phase = "verify" /\ phase' = "adapted" /\ receipt' = r /\ observations' = Adapt(r)
        /\ rules' = rules /\ evaluation' = evaluation
    BY <1>2 DEF Receive
  <2>2. Adapt(r) \in Seq(Offered(r))
    <3>1. Adapt(r) \in Seq(Observed(r)) /\ Observed(r) \subseteq Offered(r)
      BY AdaptFacts DEF Offered
    <3> QED BY <3>1
  <2> QED BY <2>1, <2>2
<1>3. CASE Deviate
  <2>1. /\ phase = "adapted" /\ phase' = phase /\ rules' = rules /\ receipt' = receipt
        /\ evaluation' = evaluation
    BY <1>3 DEF Deviate
  <2>2. observations' \in Seq(Offered(receipt))
    BY <1>3, DeviateKeepsSeq
  <2> QED BY <2>1, <2>2
<1>4. CASE Validate
  <2>1. /\ phase = "adapted" /\ rules' = rules /\ receipt' = receipt /\ evaluation' = evaluation
        /\ observations' = observations
        /\ phase' = IF ValidObservations(receipt, observations) THEN "validated" ELSE "raised"
    BY <1>4 DEF Validate
  <2> QED BY <2>1
<1>5. CASE Evaluate
  BY <1>5 DEF Evaluate
<1>6. ASSUME NEW o \in Reported, Report(o) PROVE AdjudicationInv'
  <2>1. phase = "collect" /\ phase' = "collect" /\ rules' = rules
    BY <1>6 DEF Report
  <2>2. observations' = Append(observations, o) /\ observations' \in Seq(Reported)
    BY <1>6, <2>1 DEF Report
  <2>3. evaluation' = Evaluation(rules, observations')
    BY <1>6 DEF Report
  <2> QED BY <2>1, <2>2, <2>3
<1>7. CASE UNCHANGED evars
  BY <1>7 DEF evars
<1> QED BY <1>1, <1>2, <1>3, <1>4, <1>5, <1>6, <1>7 DEF ENext

\* An evaluation is always the one of the observations the adjudication, or the
\* collection for a closure rule, has at that moment; those of an adjudication
\* were validated against the receipt (adjudicate, evaluate_gap_closure_rule).
THEOREM AdjudicationInvariant == ESpec => []AdjudicationInv
<1>1. EInit => AdjudicationInv
  BY DEF EInit, AdjudicationInv, EvaluationIsCurrent, ObservationsAreBound
<1>2. AdjudicationInv /\ [ENext]_evars => AdjudicationInv'
  BY AdjudicationStep
<1> QED BY <1>1, <1>2, PTL DEF ESpec

\* A completed evaluation: the rules are a tree the lint accepts.
LEMMA EvaluationFacts ==
  ASSUME AdjudicationInv, evaluation # None, evaluation.lifecycle = "completed"
  PROVE  /\ IsTree(rules.root) /\ ~ LintFails(rules) /\ Constructible(rules)
         /\ evaluation = Evaluation(rules, observations)
         /\ Verdict(evaluation) = EvaluateExpression(rules.root, EvaluateClauses(rules, observations))
<1>1. rules \in Proposals /\ Constructible(rules) /\ evaluation = Evaluation(rules, observations)
  BY DEF AdjudicationInv, EvaluationIsCurrent
<1>2. IsTree(rules.root)
  BY <1>1, ProposalsAssumption
<1> QED BY <1>1, <1>2, CompletedFacts

\* The verdict of any contract or closure rule over any observations is forced by
\* the decided clauses, and by them alone (evaluate_evidence_contract,
\* evaluate_gap_closure_rule): VerdictIsForced for every expression.
THEOREM VerdictsAreForced == ESpec => []VerdictIsForced
<1>1. AdjudicationInv => VerdictIsForced
  <2> SUFFICES ASSUME AdjudicationInv, evaluation # None, evaluation.lifecycle = "completed"
               PROVE  LET worlds == Completions(EvaluateClauses(rules, observations))
                      IN /\ (Verdict(evaluation) = "pass") = (\A S \in worlds : Holds(rules.root, S))
                         /\ (Verdict(evaluation) = "fail") = (\A S \in worlds : ~ Holds(rules.root, S))
    BY DEF VerdictIsForced
  <2>1. PICK r : r = EvaluateExpression(rules.root, EvaluateClauses(rules, observations))
    OBVIOUS
  <2>2. PICK W : W = Completions(EvaluateClauses(rules, observations))
    OBVIOUS
  <2>3. Verdict(evaluation) = r
    BY <2>1, EvaluationFacts
  <2>4. /\ r = "pass" <=> \A S \in W : Holds(rules.root, S)
        /\ r = "fail" <=> \A S \in W : ~ Holds(rules.root, S)
    BY <2>1, <2>2, EvaluationFacts, LintedIsProper, ValueIsForced
  <2> QED BY <2>2, <2>3, <2>4
<1> QED BY <1>1, AdjudicationInvariant, PTL

\* Later evidence never overturns the verdict of a closure rule, for every rule
\* and every sequence of observations (evaluate_gap_closure_rule called again).
THEOREM EvidenceRefines == ESpec => EvidenceOnlyRefines
<1>1. ASSUME AdjudicationInv, AdjudicationInv', NEW o \in Reported, evaluation # None, Report(o),
             {evaluation.lifecycle, evaluation'.lifecycle} = {"completed"}
      PROVE  \/ Verdict(evaluation') = Verdict(evaluation)
             \/ /\ Verdict(evaluation) = "indeterminate"
                /\ \A i \in DOMAIN observations : observations[i].selector # o.selector
             \/ /\ Verdict(evaluation') = "indeterminate"
                /\ \E i \in DOMAIN observations : observations[i].selector = o.selector
  <2> DEFINE pr == EvaluateClauses(rules, observations)
             qr == EvaluateClauses(rules, Append(observations, o))
  <2>1. evaluation.lifecycle = "completed" /\ evaluation'.lifecycle = "completed"
    BY <1>1
  <2>2. /\ observations' = Append(observations, o) /\ rules' = rules /\ observations \in Seq(Reported)
        /\ evaluation' = Evaluation(rules, Append(observations, o))
    BY <1>1 DEF Report, AdjudicationInv
  <2>3. IsTree(rules.root) /\ ~ LintFails(rules) /\ Verdict(evaluation) = EvaluateExpression(rules.root, pr)
    BY <1>1, <2>1, EvaluationFacts
  <2>4. Verdict(evaluation') = EvaluateExpression(rules.root, qr)
    BY <2>1, <2>2, <2>3, CompletedFacts
  <2>5. /\ ProperResults(rules.root, pr) /\ DOMAIN pr = ClauseIds(rules)
        /\ ProperResults(rules.root, qr) /\ DOMAIN qr = ClauseIds(rules)
    BY <2>3, LintedIsProper
  <2>6. \A c \in ClauseIds(rules) : \E clause :
          pr[c] = EvaluateClause(clause, observations) /\ qr[c] = EvaluateClause(clause, Append(observations, o))
    BY DEF EvaluateClauses
  <2>7. CASE \A i \in DOMAIN observations : observations[i].selector # o.selector
    <3>1. \A c \in ClauseIds(rules) : qr[c] = pr[c] \/ pr[c] = "indeterminate"
      <4> HIDE DEF pr, qr
      <4> QED BY <2>2, <2>6, <2>7, ClauseAppended
    <3>2. \/ EvaluateExpression(rules.root, qr) = EvaluateExpression(rules.root, pr)
          \/ EvaluateExpression(rules.root, pr) = "indeterminate"
      <4> HIDE DEF pr, qr
      <4> QED BY <2>5, <3>1, RefinedResults
    <3> QED BY <2>3, <2>4, <2>7, <3>2
  <2>8. CASE \E i \in DOMAIN observations : observations[i].selector = o.selector
    <3>1. \A c \in ClauseIds(rules) : pr[c] = qr[c] \/ qr[c] = "indeterminate"
      <4> HIDE DEF pr, qr
      <4> QED BY <2>2, <2>6, <2>8, ClauseAppended
    <3>2. \/ EvaluateExpression(rules.root, pr) = EvaluateExpression(rules.root, qr)
          \/ EvaluateExpression(rules.root, qr) = "indeterminate"
      <4> HIDE DEF pr, qr
      <4> QED BY <2>5, <3>1, RefinedResults
    <3> QED BY <2>3, <2>4, <2>8, <3>2
  <2> QED BY <2>7, <2>8
<1> DEFINE Refines ==
      \A o \in Reported :
       (/\ evaluation # None
        /\ Report(o)
        /\ {evaluation.lifecycle, evaluation'.lifecycle} = {"completed"}) =>
         \/ Verdict(evaluation') = Verdict(evaluation)
         \/ /\ Verdict(evaluation) = "indeterminate"
            /\ \A i \in DOMAIN observations : observations[i].selector # o.selector
         \/ /\ Verdict(evaluation') = "indeterminate"
            /\ \E i \in DOMAIN observations : observations[i].selector = o.selector
<1>2. AdjudicationInv /\ AdjudicationInv' /\ [ENext]_evars => [Refines]_evars
  BY <1>1
<1>3. ESpec => [][Refines]_evars
  BY <1>2, AdjudicationInvariant, PTL DEF ESpec
<1> QED BY <1>3 DEF EvidenceOnlyRefines

\* No clause of rules the lint accepts is vacuous, whatever the expression: each
\* one alone turns the root in some world (lint_evidence_contract).
THEOREM ClausesCount == ESpec => []EveryClauseCounts
<1>1. AdjudicationInv => EveryClauseCounts
  <2> SUFFICES ASSUME AdjudicationInv, evaluation # None, evaluation.lifecycle = "completed",
                      NEW c \in ClauseIds(rules)
               PROVE  \E S \in SUBSET ClauseIds(rules) :
                        Holds(rules.root, S \cup {c}) # Holds(rules.root, S \ {c})
    BY DEF EveryClauseCounts
  <2>1. IsTree(rules.root) /\ ~ LintFails(rules) /\ Constructible(rules)
    BY EvaluationFacts
  <2>2. PICK a \in Refs(rules.root) : rules.root[a].clause = c
    BY <2>1 DEF LintFails, UnusedClause
  <2>3. \A i \in DOMAIN rules.root : ValidNode(rules.root[i])
    BY <2>1 DEF Constructible, ValidExpression
  <2>4. /\ \A i \in Refs(rules.root) : rules.root[i].clause \in ClauseIds(rules)
        /\ \A i, j \in Refs(rules.root) : i # j => rules.root[i].clause # rules.root[j].clause
    BY <2>1 DEF LintFails, UnknownReference, DuplicateReference
  <2>5. \E S \in SUBSET ClauseIds(rules) :
          Holds(rules.root, S \cup {rules.root[a].clause}) # Holds(rules.root, S \ {rules.root[a].clause})
    BY <2>1, <2>3, <2>4, ClauseCounts
  <2> QED BY <2>2, <2>5
<1> QED BY <1>1, AdjudicationInvariant, PTL

\* Whatever an injected adapter answers, the verdict is the one of the built-in
\* adapter, or there is none (validate_final_command_observations in adjudicate).
THEOREM AdaptersCannotDecide == ESpec => []AdapterCannotDecide
<1>1. AdjudicationInv => AdapterCannotDecide
  <2> SUFFICES ASSUME AdjudicationInv, phase = "done"
               PROVE  \/ evaluation = Evaluation(rules, Adapt(receipt))
                      \/ evaluation.lifecycle = "error"
    BY DEF AdapterCannotDecide
  <2>1. /\ evaluation = Evaluation(rules, observations)
        /\ receipt \in Receipts /\ observations \in Seq(Offered(receipt))
        /\ ValidObservations(receipt, observations)
    BY DEF AdjudicationInv, EvaluationIsCurrent, ObservationsAreBound
  <2>2. /\ Len(observations) = Len(Adapt(receipt)) /\ ~ DuplicateObservation(Adapt(receipt))
        /\ \A clause : EvaluateClause(clause, observations) = EvaluateClause(clause, Adapt(receipt))
    BY <2>1, ValidIsAdapted
  <2>3. EvaluateClauses(rules, observations) = EvaluateClauses(rules, Adapt(receipt))
    BY <2>2 DEF EvaluateClauses
  <2>4. CASE DuplicateObservation(observations)
    <3>1. \E code : evaluation = Errored(code)
      BY <2>1, <2>4 DEF Evaluation
    <3> QED BY <3>1 DEF Errored
  <2>5. CASE ~ DuplicateObservation(observations)
    BY <2>1, <2>2, <2>3, <2>5 DEF Evaluation
  <2> QED BY <2>4, <2>5
<1> QED BY <1>1, AdjudicationInvariant, PTL

-----------------------------------------------------------------------------
(* The evidence store. *)

\* A run that exists has its record, also on disk; a run on disk exists.
RunInv(r) ==
  /\ disk.runs[r] = NULL \/ disk.runs[r] = runs[r]
  /\ runs[r] # NULL => records[r] = runs[r].body /\ disk.records[r] = runs[r].body

\* What a call knows of its run id, by where it stands.
Done == {"readback", "ok"}
Leaving == {"unlock", "fsync_unlock"}
CallInv(p) ==
  LET r == call[p].run_id
  IN /\ call[p].pc \in {"record", "write"} => runs[r] = NULL
     /\ call[p].pc \in {"fsync_record", "rename"} => records[r] = call[p].body
     /\ call[p].pc = "rename" => disk.records[r] = call[p].body
     /\ call[p].pc = "fsync" => runs[r] = RunOf(p)
     /\ call[p].pc \in {"rollback", "fsync_rollback"} => call[p].fine = FALSE
     /\ call[p].pc = "fsync_rollback" => runs[r] = NULL
     /\ (call[p].pc \in Leaving /\ call[p].fine = TRUE) \/ call[p].pc \in Done
          => runs[r] = RunOf(p) /\ disk.runs[r] = RunOf(p)

PInv ==
  /\ PTypeOK
  /\ \A r \in RunIds : RunInv(r)
  /\ \A p \in Procs : CallInv(p)

-----------------------------------------------------------------------------
(* Lemmas *)

\* Moving a call on changes its program counter only.
LEMMA GoToFacts ==
  ASSUME call \in [Procs -> Call], NEW p \in Procs, NEW pc \in PC, GoTo(p, pc)
  PROVE  /\ call' \in [Procs -> Call]
         /\ call'[p].pc = pc /\ call'[p].fine = call[p].fine
         /\ call'[p].run_id = call[p].run_id /\ call'[p].body = call[p].body
         /\ \A q \in Procs \ {p} : call'[q] = call[q]
  BY DEF GoTo, Call

\* Moving a call on with an exception pending.
LEMMA FailingFacts ==
  ASSUME call \in [Procs -> Call], NEW p \in Procs, NEW pc \in PC, Failing(p, pc)
  PROVE  /\ call' \in [Procs -> Call]
         /\ call'[p].pc = pc /\ call'[p].fine = FALSE
         /\ call'[p].run_id = call[p].run_id /\ call'[p].body = call[p].body
         /\ \A q \in Procs \ {p} : call'[q] = call[q]
  BY DEF Failing, Call

\* fsync of service-requests.
LEMMA FsyncRecordsFacts ==
  ASSUME PTypeOK, FsyncRecords
  PROVE  /\ disk'.records = records /\ disk'.runs = disk.runs /\ disk'.locks = disk.locks
         /\ disk' \in [locks : [RunIds -> Procs \cup {NULL}], runs : [RunIds -> Run \cup {NULL}],
                       records : [RunIds -> Bodies \cup {NULL}]]
  BY DEF PTypeOK, FsyncRecords

\* fsync of the artifact root.
LEMMA FsyncRootFacts ==
  ASSUME PTypeOK, FsyncRoot
  PROVE  /\ disk'.records = disk.records /\ disk'.runs = runs
         /\ disk' \in [locks : [RunIds -> Procs \cup {NULL}], runs : [RunIds -> Run \cup {NULL}],
                       records : [RunIds -> Bodies \cup {NULL}]]
  BY DEF PTypeOK, FsyncRoot

\* What a step of p may do to the others: inside, p may touch its own run id,
\* outside nothing; runs are never removed, and disk only catches up.
OwnId(p) == IF call[p].pc \in Inside THEN {call[p].run_id} ELSE {}
Frame(p) ==
  /\ \A q \in Procs \ {p} : call'[q] = call[q]
  /\ \A r \in RunIds : runs[r] # NULL => runs'[r] = runs[r]
  /\ \A r \in RunIds : disk.runs[r] # NULL => disk'.runs[r] = disk.runs[r]
  /\ \A r \in RunIds \ OwnId(p) :
        /\ runs'[r] = runs[r] /\ records'[r] = records[r]
        /\ disk'.records[r] = disk.records[r] \/ disk'.records[r] = records[r]

\* The types after a step of p.
Typed(p) ==
  /\ call' \in [Procs -> Call]
  /\ call'[p].run_id \in RunIds /\ call'[p].body \in Bodies
  /\ call'[p].pc \in Inside => locks'[call'[p].run_id] = p
  /\ \A q \in Procs \ {p} : call[q].pc \in Inside => locks'[call[q].run_id] = q
  /\ locks' \in [RunIds -> Procs \cup {NULL}]
  /\ runs' \in [RunIds -> Run \cup {NULL}]
  /\ records' \in [RunIds -> Bodies \cup {NULL}]
  /\ disk' \in [locks : [RunIds -> Procs \cup {NULL}], runs : [RunIds -> Run \cup {NULL}],
                records : [RunIds -> Bodies \cup {NULL}]]

\* A step within its frame leaves what the other calls know.
LEMMA OthersKeepCallInv ==
  ASSUME PInv, NEW p \in Procs, Frame(p), NEW q \in Procs \ {p}
  PROVE  CallInv(q)'
<1>1. call'[q] = call[q] /\ RunOf(q)' = RunOf(q)
  BY DEF Frame, RunOf
<1>2. CASE call[q].pc = "idle" \/ call[q].pc \in {"staged", "failed", "dead"}
  BY <1>1, <1>2 DEF CallInv, Leaving, Done
<1>3. CASE call[q].pc \in Inside
  <2>1. PICK r \in RunIds : r = call[q].run_id
    BY <1>3 DEF PInv, PTypeOK, At, Inside
  <2>2. r \notin OwnId(p)
    BY <1>3, <2>1 DEF OwnId, PInv, PTypeOK
  <2>3. /\ runs'[r] = runs[r] /\ records'[r] = records[r]
        /\ disk'.records[r] = disk.records[r] \/ disk'.records[r] = records[r]
        /\ disk.runs[r] # NULL => disk'.runs[r] = disk.runs[r]
    BY <2>1, <2>2 DEF Frame
  <2>4. RunOf(q) # NULL
    BY <1>3, PublisherAssumption DEF PInv, PTypeOK, At, Inside, RunOf
  <2> QED
    BY <1>1, <2>1, <2>3, <2>4 DEF PInv, CallInv
<1>4. CASE call[q].pc \in {"fsync_unlock", "readback", "ok"}
  <2>1. PICK r \in RunIds : r = call[q].run_id
    BY <1>4 DEF PInv, PTypeOK, At
  <2>2. RunOf(q) # NULL
    BY <1>4, PublisherAssumption DEF PInv, PTypeOK, At, RunOf
  <2> QED
    BY <1>1, <1>4, <2>1, <2>2 DEF PInv, CallInv, Frame, Done, Leaving
<1>5. call[q].pc \in PC
  BY DEF PInv, PTypeOK, Call
<1> QED
  BY <1>2, <1>3, <1>4, <1>5 DEF PC, Over

\* To show that a step of p keeps the invariant it is enough to look at p and at
\* the run ids.
LEMMA StepKeeps ==
  ASSUME PInv, NEW p \in Procs, Frame(p), Typed(p),
         \A r \in RunIds : RunInv(r)', CallInv(p)'
  PROVE  PInv'
<1>1. \A q \in Procs : CallInv(q)'
  BY OthersKeepCallInv
<1>2. \A q \in Procs : ~ At(q, "idle")' => call'[q].run_id \in RunIds /\ call'[q].body \in Bodies
  BY DEF Typed, Frame, PInv, PTypeOK, At
<1>3. \A q \in Procs : call'[q].pc \in Inside => locks'[call'[q].run_id] = q
  BY DEF Typed, Frame
<1>4. PTypeOK'
  BY <1>2, <1>3 DEF PTypeOK, Typed
<1> QED
  BY <1>1, <1>4 DEF PInv

\* The run id and the run of a call that has begun.
LEMMA BegunFacts ==
  ASSUME PInv, NEW p \in Procs, ~ At(p, "idle")
  PROVE  /\ call[p].run_id \in RunIds /\ call[p].body \in Bodies
         /\ RunOf(p) \in Run /\ RunOf(p) # NULL /\ RunOf(p).body = call[p].body
  BY PublisherAssumption DEF PInv, PTypeOK, RunOf, Run

\* A step that only moves p on: what p must know at its new place.
LEMMA MoveKeeps ==
  ASSUME PInv, NEW p \in Procs, UNCHANGED <<locks, runs, records, disk>>,
         call' \in [Procs -> Call], \A q \in Procs \ {p} : call'[q] = call[q],
         call'[p].run_id \in RunIds, call'[p].body \in Bodies,
         call'[p].pc \in Inside => locks[call'[p].run_id] = p,
         CallInv(p)'
  PROVE  PInv'
<1>1. Frame(p)
  BY DEF Frame
<1>2. Typed(p)
  BY DEF Typed, PInv, PTypeOK
<1>3. \A r \in RunIds : RunInv(r)'
  BY DEF PInv, RunInv
<1> QED
  BY <1>1, <1>2, <1>3, StepKeeps

\* A call begins.
LEMMA StageKeeps ==
  ASSUME PInv, NEW p \in Procs, NEW r \in RunIds, NEW b \in Bodies, Stage(p, r, b)
  PROVE  PInv'
<1>1. PICK c \in Call : c = [pc |-> "staged", run_id |-> r, body |-> b, fine |-> TRUE]
  BY DEF Call, PC
<1>2. c.pc = "staged" /\ c.run_id = r /\ c.body = b
  BY <1>1
<1>3. call' = [call EXCEPT ![p] = c] /\ UNCHANGED <<locks, runs, records, disk>>
  BY <1>1 DEF Stage
<1>4. call' \in [Procs -> Call] /\ call'[p] = c /\ \A q \in Procs \ {p} : call'[q] = call[q]
  BY <1>3 DEF PInv, PTypeOK
<1>5. CallInv(p)'
  BY <1>2, <1>4 DEF CallInv, Leaving, Done
<1> QED
  BY <1>2, <1>3, <1>4, <1>5, MoveKeeps DEF Inside

\* Steps that fail: p goes on with an exception, or is refused.
LEMMA FailingKeeps ==
  ASSUME PInv, NEW p \in Procs, ~ At(p, "idle"), UNCHANGED <<locks, runs, records, disk>>,
         \/ Failing(p, "failed")
         \/ call[p].pc \in Inside /\ Failing(p, "unlock")
         \/ call[p].pc \in Inside /\ Failing(p, "rollback")
         \/ GoTo(p, "dead")
         \/ call[p].pc \in Inside /\ call[p].fine = FALSE /\ GoTo(p, "unlock")
  PROVE  PInv'
<1>1. PICK pc \in {"failed", "unlock", "rollback", "dead"} :
        /\ Failing(p, pc) \/ GoTo(p, pc)
        /\ pc = "unlock" => Failing(p, pc) \/ call[p].fine = FALSE
        /\ pc = "rollback" => Failing(p, pc)
        /\ pc \in {"unlock", "rollback"} => call[p].pc \in Inside
  OBVIOUS
<1>2. pc \in PC
  BY DEF PC, Inside, Over
<1>3. call \in [Procs -> Call]
  BY DEF PInv, PTypeOK
<1>4. /\ call' \in [Procs -> Call] /\ call'[p].pc = pc
      /\ call'[p].run_id = call[p].run_id /\ call'[p].body = call[p].body
      /\ \A q \in Procs \ {p} : call'[q] = call[q]
  BY <1>1, <1>2, <1>3, GoToFacts, FailingFacts
<1>5. pc \in {"unlock", "rollback"} => call'[p].fine = FALSE
  BY <1>1, <1>2, <1>3, GoToFacts, FailingFacts
<1>6. CallInv(p)'
  BY <1>4, <1>5 DEF CallInv, Leaving, Done
<1>7. call'[p].pc \in Inside => locks[call'[p].run_id] = p
  BY <1>1, <1>4 DEF Inside, PInv, PTypeOK
<1>8. call'[p].run_id \in RunIds /\ call'[p].body \in Bodies
  BY <1>4, BegunFacts
<1> QED
  BY <1>4, <1>6, <1>7, <1>8, MoveKeeps

\* The two checks under the lock.
LEMMA CheckKeeps ==
  ASSUME PInv, NEW p \in Procs, CheckRun(p) \/ CheckRecord(p)
  PROVE  PInv'
<1>1. /\ UNCHANGED <<locks, runs, records, disk>>
      /\ call[p].pc \in {"locked", "record"} /\ call[p].pc \in Inside /\ ~ At(p, "idle")
  BY DEF CheckRun, CheckRecord, At, Inside
<1>2. CASE Failing(p, "unlock")
  BY <1>1, <1>2, FailingKeeps
<1>3. CASE GoTo(p, "record") \/ GoTo(p, "write")
  <2>1. PICK pc \in {"record", "write"} : GoTo(p, pc)
    BY <1>3
  <2>2. pc \in PC /\ pc \in Inside
    BY DEF PC, Inside
  <2>3. /\ call' \in [Procs -> Call] /\ call'[p].pc = pc
        /\ call'[p].run_id = call[p].run_id /\ call'[p].body = call[p].body
        /\ \A q \in Procs \ {p} : call'[q] = call[q]
    BY <2>1, <2>2, GoToFacts DEF PInv, PTypeOK
  <2>4. ~ Failing(p, "unlock") => runs[call[p].run_id] = NULL
    BY DEF CheckRun, CheckRecord, At, PInv, CallInv
  <2>5. CASE ~ Failing(p, "unlock")
    <3>1. CallInv(p)'
      BY <1>1, <2>3, <2>4, <2>5 DEF CallInv, Leaving, Done
    <3>2. locks[call'[p].run_id] = p
      BY <1>1, <2>3 DEF PInv, PTypeOK
    <3>3. call'[p].run_id \in RunIds /\ call'[p].body \in Bodies
      BY <1>1, <2>3, BegunFacts
    <3> QED
      BY <1>1, <2>3, <3>1, <3>2, <3>3, MoveKeeps
  <2> QED
    BY <1>2, <2>5
<1> QED
  BY <1>2, <1>3 DEF CheckRun, CheckRecord

\* The lock file is created: nobody else holds it.
LEMMA TakeLockKeeps ==
  ASSUME PInv, NEW p \in Procs, TakeLock(p)
  PROVE  PInv'
<1>1. PICK pc \in PC : pc = "locked"
  BY DEF PC, Inside, Over
<1>2. PICK r \in RunIds : r = call[p].run_id
  BY BegunFacts DEF TakeLock, At
<1>3. /\ call' \in [Procs -> Call] /\ call'[p].pc = pc /\ call'[p].fine = call[p].fine
      /\ call'[p].run_id = r /\ call'[p].body = call[p].body /\ call[p].body \in Bodies
      /\ \A q \in Procs \ {p} : call'[q] = call[q]
  BY <1>1, <1>2, GoToFacts, BegunFacts DEF PInv, PTypeOK, TakeLock, At
<1>4. /\ UNCHANGED <<runs, records, disk>> /\ locks[r] = NULL
      /\ locks' = [locks EXCEPT ![r] = p] /\ call[p].pc = "staged"
  BY <1>2 DEF TakeLock, LockFree, At
<1>5. Frame(p)
  BY <1>3, <1>4 DEF Frame
<1>6. Typed(p)
  <2>1. \A q \in Procs \ {p} : call[q].pc \in Inside => locks'[call[q].run_id] = q
    <3> SUFFICES ASSUME NEW q \in Procs \ {p}, call[q].pc \in Inside
                 PROVE  locks'[call[q].run_id] = q
      OBVIOUS
    <3>1. locks[call[q].run_id] = q /\ call[q].run_id \in RunIds
      BY DEF PInv, PTypeOK, At, Inside
    <3>2. call[q].run_id # r
      BY <1>4, <3>1, PublisherAssumption
    <3> QED
      BY <1>4, <3>1, <3>2 DEF PInv, PTypeOK
  <2> QED
    BY <1>3, <1>4, <2>1 DEF Typed, PInv, PTypeOK
<1>7. \A x \in RunIds : RunInv(x)'
  BY <1>4 DEF PInv, RunInv
<1>8. CallInv(p)'
  BY <1>1, <1>3 DEF CallInv, Leaving, Done
<1> QED
  BY <1>5, <1>6, <1>7, <1>8, StepKeeps

\* The lock file is removed, by the call that created it.
LEMMA UnlockKeeps ==
  ASSUME PInv, NEW p \in Procs, Unlock(p)
  PROVE  PInv'
<1>1. PICK pc \in PC : pc = "fsync_unlock"
  BY DEF PC, Inside, Over
<1>2. PICK r \in RunIds : r = call[p].run_id
  BY BegunFacts DEF Unlock, At
<1>3. /\ call' \in [Procs -> Call] /\ call'[p].pc = pc /\ call'[p].fine = call[p].fine
      /\ call'[p].run_id = r /\ call'[p].body = call[p].body /\ call[p].body \in Bodies
      /\ \A q \in Procs \ {p} : call'[q] = call[q]
  BY <1>1, <1>2, GoToFacts, BegunFacts DEF PInv, PTypeOK, Unlock, At
<1>4. /\ UNCHANGED <<runs, records, disk>>
      /\ locks' = [locks EXCEPT ![r] = NULL] /\ call[p].pc = "unlock"
  BY <1>2 DEF Unlock, At
<1>5. Frame(p)
  BY <1>3, <1>4 DEF Frame
<1>6. Typed(p)
  <2>1. \A q \in Procs \ {p} : call[q].pc \in Inside => locks'[call[q].run_id] = q
    <3> SUFFICES ASSUME NEW q \in Procs \ {p}, call[q].pc \in Inside
                 PROVE  locks'[call[q].run_id] = q
      OBVIOUS
    <3>1. locks[call[q].run_id] = q /\ call[q].run_id \in RunIds /\ locks[r] = p
      BY <1>2, <1>4 DEF PInv, PTypeOK, At, Inside
    <3> QED
      BY <1>4, <3>1 DEF PInv, PTypeOK
  <2> QED
    BY <1>1, <1>3, <1>4, <2>1 DEF Typed, PInv, PTypeOK, Inside
<1>7. \A x \in RunIds : RunInv(x)'
  BY <1>4 DEF PInv, RunInv
<1>8. CallInv(p)'
  BY <1>1, <1>2, <1>3, <1>4 DEF CallInv, Leaving, Done, PInv, RunOf
<1> QED
  BY <1>5, <1>6, <1>7, <1>8, StepKeeps

\* Inside, p changes only the record of its run id, while there is no run.
LEMMA RecordKeeps ==
  ASSUME PInv, NEW p \in Procs, NEW r \in RunIds, r = call[p].run_id, call[p].pc \in Inside,
         runs[r] = NULL, NEW b \in Bodies \cup {NULL},
         records' = [records EXCEPT ![r] = b], UNCHANGED <<locks, runs, disk>>,
         call' \in [Procs -> Call], \A q \in Procs \ {p} : call'[q] = call[q],
         call'[p].run_id = r, call'[p].body \in Bodies, CallInv(p)'
  PROVE  PInv'
<1>1. Frame(p)
  BY DEF Frame, OwnId, PInv, PTypeOK
<1>2. Typed(p)
  BY DEF Typed, PInv, PTypeOK
<1>3. \A x \in RunIds : RunInv(x)'
  BY DEF PInv, PTypeOK, RunInv
<1> QED
  BY <1>1, <1>2, <1>3, StepKeeps

\* The record is written.
LEMMA WriteRecordKeeps ==
  ASSUME PInv, NEW p \in Procs, WriteRecord(p)
  PROVE  PInv'
<1>1. PICK pc \in PC : pc = "fsync_record"
  BY DEF PC, Inside, Over
<1>2. PICK r \in RunIds : r = call[p].run_id
  BY BegunFacts DEF WriteRecord, At
<1>3. /\ call' \in [Procs -> Call] /\ call'[p].pc = pc /\ call'[p].fine = call[p].fine
      /\ call'[p].run_id = r /\ call'[p].body = call[p].body /\ call[p].body \in Bodies
      /\ \A q \in Procs \ {p} : call'[q] = call[q]
  BY <1>1, <1>2, GoToFacts, BegunFacts DEF PInv, PTypeOK, WriteRecord, At
<1>4. /\ records' = [records EXCEPT ![r] = call[p].body] /\ UNCHANGED <<locks, runs, disk>>
      /\ runs[r] = NULL /\ call[p].pc \in Inside
  BY <1>2 DEF WriteRecord, At, Inside, PInv, CallInv
<1>5. records'[r] = call[p].body
  BY <1>4 DEF PInv, PTypeOK
<1>6. CallInv(p)'
  BY <1>1, <1>3, <1>5 DEF CallInv, Leaving, Done
<1> QED
  BY <1>2, <1>3, <1>4, <1>6, RecordKeeps

\* The record is removed while there is no run, or kept because there is one.
LEMMA RollbackKeeps ==
  ASSUME PInv, NEW p \in Procs, Rollback(p)
  PROVE  PInv'
<1>1. PICK pc \in PC : pc = "fsync_rollback"
  BY DEF PC, Inside, Over
<1>2. PICK r \in RunIds : r = call[p].run_id
  BY BegunFacts DEF Rollback, At
<1>3. call[p].pc = "rollback" /\ call[p].pc \in Inside /\ call[p].fine = FALSE
  BY DEF Rollback, At, Inside, PInv, CallInv
<1>4. CASE Uncommitted(r) /\ records' = [records EXCEPT ![r] = NULL] /\ GoTo(p, "fsync_rollback")
           /\ UNCHANGED <<locks, runs, disk>>
  <2>1. /\ call' \in [Procs -> Call] /\ call'[p].pc = pc /\ call'[p].fine = call[p].fine
        /\ call'[p].run_id = r /\ call'[p].body = call[p].body /\ call[p].body \in Bodies
        /\ \A q \in Procs \ {p} : call'[q] = call[q]
    BY <1>1, <1>2, <1>3, <1>4, GoToFacts, BegunFacts DEF PInv, PTypeOK, At
  <2>2. CallInv(p)'
    BY <1>1, <1>3, <1>4, <2>1 DEF CallInv, Leaving, Done, Uncommitted
  <2> QED
    BY <1>2, <1>3, <1>4, <2>1, <2>2, RecordKeeps DEF Uncommitted
<1>5. CASE GoTo(p, "unlock") /\ UNCHANGED <<locks, runs, records, disk>>
  BY <1>3, <1>5, FailingKeeps DEF At
<1> QED
  BY <1>2, <1>4, <1>5 DEF Rollback

\* service-requests is synced.
LEMMA SyncRecordsKeeps ==
  ASSUME PInv, NEW p \in Procs, FsyncRecord(p) \/ FsyncRollback(p)
  PROVE  PInv'
<1>1. PICK pc \in {"rename", "unlock"} :
        /\ GoTo(p, pc) /\ (pc = "rename" <=> At(p, "fsync_record"))
  BY DEF FsyncRecord, FsyncRollback, At
<1>2. /\ call[p].pc \in {"fsync_record", "fsync_rollback"} /\ call[p].pc \in Inside
      /\ ~ At(p, "idle") /\ UNCHANGED <<locks, runs, records>> /\ FsyncRecords
  BY DEF FsyncRecord, FsyncRollback, At, Inside
<1>3. PICK r \in RunIds : r = call[p].run_id
  BY <1>2, BegunFacts
<1>4. pc \in PC /\ pc \in Inside
  BY DEF PC, Inside
<1>5. /\ call' \in [Procs -> Call] /\ call'[p].pc = pc /\ call'[p].fine = call[p].fine
      /\ call'[p].run_id = r /\ call'[p].body = call[p].body /\ call[p].body \in Bodies
      /\ \A q \in Procs \ {p} : call'[q] = call[q]
  BY <1>1, <1>2, <1>3, <1>4, GoToFacts, BegunFacts DEF PInv, PTypeOK
<1>6. /\ disk'.records = records /\ disk'.runs = disk.runs
      /\ disk' \in [locks : [RunIds -> Procs \cup {NULL}], runs : [RunIds -> Run \cup {NULL}],
                    records : [RunIds -> Bodies \cup {NULL}]]
  BY <1>2, FsyncRecordsFacts DEF PInv
<1>7. Frame(p)
  BY <1>2, <1>5, <1>6 DEF Frame
<1>8. Typed(p)
  BY <1>2, <1>3, <1>4, <1>5, <1>6 DEF Typed, PInv, PTypeOK
<1>9. \A x \in RunIds : RunInv(x)'
  BY <1>2, <1>6 DEF PInv, RunInv
<1>10. CallInv(p)'
  <2>1. pc = "rename" => records[r] = call[p].body
    BY <1>1, <1>3 DEF PInv, CallInv, At
  <2>2. pc = "unlock" => call[p].fine = FALSE
    BY <1>1, <1>2 DEF PInv, CallInv, At
  <2> QED
    BY <1>2, <1>5, <1>6, <2>1, <2>2 DEF CallInv, Leaving, Done
<1> QED
  BY <1>7, <1>8, <1>9, <1>10, StepKeeps

\* The run directory appears, its record being on disk.
LEMMA RenameKeeps ==
  ASSUME PInv, NEW p \in Procs, Rename(p)
  PROVE  PInv'
<1>1. PICK pc \in PC : pc = "fsync"
  BY DEF PC, Inside
<1>2. PICK r \in RunIds : r = call[p].run_id
  BY BegunFacts DEF Rename, At
<1>3. /\ call' \in [Procs -> Call] /\ call'[p].pc = pc /\ call'[p].fine = call[p].fine
      /\ call'[p].run_id = r /\ call'[p].body = call[p].body /\ call[p].body \in Bodies
      /\ \A q \in Procs \ {p} : call'[q] = call[q]
  BY <1>1, <1>2, GoToFacts, BegunFacts DEF PInv, PTypeOK, Rename, At
<1>4. PICK run \in Run : run = RunOf(p) /\ run.body = call[p].body /\ run # NULL
  BY BegunFacts DEF Rename, At
<1>5. /\ runs' = [runs EXCEPT ![r] = run] /\ UNCHANGED <<locks, records, disk>>
      /\ runs[r] = NULL /\ call[p].pc = "rename" /\ call[p].pc \in Inside
  BY <1>2, <1>4 DEF Rename, At, Inside
<1>6. runs'[r] = run /\ \A x \in RunIds \ {r} : runs'[x] = runs[x]
  BY <1>5 DEF PInv, PTypeOK
<1>7. Frame(p)
  BY <1>2, <1>3, <1>5, <1>6 DEF Frame, OwnId
<1>8. Typed(p)
  BY <1>2, <1>3, <1>5 DEF Typed, PInv, PTypeOK
<1>9. \A x \in RunIds : RunInv(x)'
  <2>1. records[r] = run.body /\ disk.records[r] = run.body
    BY <1>2, <1>4, <1>5 DEF PInv, CallInv
  <2>2. disk.runs[r] = NULL
    BY <1>5 DEF PInv, RunInv
  <2> QED
    BY <1>5, <1>6, <2>1, <2>2 DEF PInv, RunInv
<1>10. RunOf(p)' = RunOf(p)
  BY <1>3 DEF RunOf
<1>11. CallInv(p)'
  BY <1>1, <1>3, <1>4, <1>6, <1>10 DEF CallInv, Leaving, Done
<1> QED
  BY <1>7, <1>8, <1>9, <1>11, StepKeeps

\* The artifact root is synced, before or after the lock file is removed.
LEMMA SyncRootKeeps ==
  ASSUME PInv, NEW p \in Procs, Fsync(p) \/ FsyncUnlock(p)
  PROVE  PInv'
<1>1. PICK pc \in {"unlock", "readback", "failed"} :
        /\ GoTo(p, pc)
        /\ pc = "unlock" => At(p, "fsync")
        /\ pc = "readback" => At(p, "fsync_unlock") /\ call[p].fine
  BY DEF Fsync, FsyncUnlock, At
<1>2. /\ call[p].pc \in {"fsync", "fsync_unlock"} /\ ~ At(p, "idle")
      /\ UNCHANGED <<locks, runs, records>> /\ FsyncRoot
  BY DEF Fsync, FsyncUnlock, At
<1>3. PICK r \in RunIds : r = call[p].run_id
  BY <1>2, BegunFacts
<1>4. pc \in PC
  BY DEF PC, Inside, Over
<1>5. /\ call' \in [Procs -> Call] /\ call'[p].pc = pc /\ call'[p].fine = call[p].fine
      /\ call'[p].run_id = r /\ call'[p].body = call[p].body /\ call[p].body \in Bodies
      /\ \A q \in Procs \ {p} : call'[q] = call[q]
  BY <1>1, <1>2, <1>3, <1>4, GoToFacts, BegunFacts DEF PInv, PTypeOK
<1>6. /\ disk'.records = disk.records /\ disk'.runs = runs
      /\ disk' \in [locks : [RunIds -> Procs \cup {NULL}], runs : [RunIds -> Run \cup {NULL}],
                    records : [RunIds -> Bodies \cup {NULL}]]
  BY <1>2, FsyncRootFacts DEF PInv
<1>7. Frame(p)
  BY <1>2, <1>5, <1>6 DEF Frame, PInv, RunInv
<1>8. Typed(p)
  <2>1. pc \in Inside => locks[r] = p
    BY <1>1, <1>3 DEF PInv, PTypeOK, At, Inside
  <2> QED
    BY <1>2, <1>5, <1>6, <2>1 DEF Typed, PInv, PTypeOK
<1>9. \A x \in RunIds : RunInv(x)'
  BY <1>2, <1>6 DEF PInv, RunInv
<1>10. RunOf(p)' = RunOf(p)
  BY <1>5 DEF RunOf
<1>11. CallInv(p)'
  <2>1. call[p].fine \in BOOLEAN
    BY DEF PInv, PTypeOK, Call
  <2>2. pc = "unlock" => runs[r] = RunOf(p)
    BY <1>1, <1>3 DEF PInv, CallInv, At
  <2>3. pc = "readback" => runs[r] = RunOf(p)
    BY <1>1, <1>3, <2>1 DEF PInv, CallInv, At, Leaving
  <2> QED
    BY <1>2, <1>5, <1>6, <1>10, <2>2, <2>3 DEF CallInv, Leaving, Done
<1> QED
  BY <1>7, <1>8, <1>9, <1>11, StepKeeps

\* The call reads back what it published, and is answered.
LEMMA AnswerKeeps ==
  ASSUME PInv, NEW p \in Procs, At(p, "readback"), GoTo(p, "ok"),
         UNCHANGED <<locks, runs, records, disk>>
  PROVE  PInv'
<1>1. PICK pc \in PC : pc = "ok"
  BY DEF PC, Over
<1>2. /\ call' \in [Procs -> Call] /\ call'[p].pc = pc
      /\ call'[p].run_id = call[p].run_id /\ call'[p].body = call[p].body
      /\ \A q \in Procs \ {p} : call'[q] = call[q]
  BY <1>1, GoToFacts DEF PInv, PTypeOK
<1>3. RunOf(p)' = RunOf(p)
  BY <1>2 DEF RunOf
<1>4. CallInv(p)'
  BY <1>1, <1>2, <1>3 DEF CallInv, Leaving, Done, PInv, At
<1>5. call'[p].run_id \in RunIds /\ call'[p].body \in Bodies
  BY <1>2, BegunFacts DEF At
<1> QED
  BY <1>1, <1>2, <1>4, <1>5, MoveKeeps DEF Inside

\* The power fails: every directory that is left is one that was there, and its
\* record is the same on disk and in memory.
LEMMA PowerFailsKeeps ==
  ASSUME PInv, PowerFails
  PROVE  PInv'
<1>1. /\ locks' \in [RunIds -> Procs \cup {NULL}]
      /\ runs' \in [RunIds -> Run \cup {NULL}]
      /\ records' \in [RunIds -> Bodies \cup {NULL}]
  BY DEF PowerFails, Survivors, PInv, PTypeOK
<1>2. /\ \A r \in RunIds : runs'[r] = disk.runs[r] \/ runs'[r] = runs[r]
      /\ \A r \in RunIds : records'[r] = disk.records[r] \/ records'[r] = records[r]
  BY DEF PowerFails, Survivors
<1>3. disk'.runs = runs' /\ disk'.records = records'
  BY DEF PowerFails
<1>4. disk' \in [locks : [RunIds -> Procs \cup {NULL}], runs : [RunIds -> Run \cup {NULL}],
                records : [RunIds -> Bodies \cup {NULL}]]
  BY <1>1 DEF PowerFails
<1>5. \A r \in RunIds : RunInv(r)'
  BY <1>2, <1>3 DEF PInv, RunInv
<1>6. \A p \in Procs : /\ call'[p] \in Call
                       /\ call'[p].run_id = call[p].run_id /\ call'[p].body = call[p].body
                       /\ IF Running(p) THEN call'[p].pc = "dead" ELSE call'[p] = call[p]
  <2> SUFFICES ASSUME NEW p \in Procs
               PROVE  /\ call'[p] \in Call
                      /\ call'[p].run_id = call[p].run_id /\ call'[p].body = call[p].body
                      /\ IF Running(p) THEN call'[p].pc = "dead" ELSE call'[p] = call[p]
    OBVIOUS
  <2>1. call'[p] = IF Running(p) THEN [call[p] EXCEPT !.pc = "dead"] ELSE call[p]
    BY DEF PowerFails
  <2>2. call[p] \in Call
    BY DEF PInv, PTypeOK
  <2>3. CASE Running(p)
    <3>1. PICK c : c = call[p]
      OBVIOUS
    <3>2. PICK d : d = [c EXCEPT !.pc = "dead"]
      OBVIOUS
    <3>3. "dead" \in PC
      BY DEF PC, Over
    <3>4. d \in Call /\ d.pc = "dead" /\ d.run_id = c.run_id /\ d.body = c.body
      BY <2>2, <3>1, <3>2, <3>3 DEF Call
    <3>5. call'[p] = d
      BY <2>1, <2>3, <3>1, <3>2
    <3> QED
      BY <2>3, <3>1, <3>4, <3>5
  <2>4. CASE ~ Running(p)
    BY <2>1, <2>2, <2>4
  <2> QED
    BY <2>3, <2>4
<1>7. call' \in [Procs -> Call]
  BY <1>6 DEF PowerFails
<1>8. \A p \in Procs : call'[p].pc \in {"idle", "ok", "failed", "dead"}
  BY <1>6 DEF Running, Over
<1>9. PTypeOK'
  <2>1. \A p \in Procs : ~ At(p, "idle")' => call'[p].run_id \in RunIds /\ call'[p].body \in Bodies
    BY <1>6 DEF At, Running, PInv, PTypeOK
  <2>2. \A p \in Procs : call'[p].pc \notin Inside
    BY <1>8 DEF Inside
  <2> QED
    BY <1>1, <1>4, <1>7, <2>1, <2>2 DEF PTypeOK
<1>10. \A p \in Procs : CallInv(p)'
  <2> SUFFICES ASSUME NEW p \in Procs PROVE CallInv(p)'
    OBVIOUS
  <2>1. CASE call'[p].pc = "ok"
    <3>1. call'[p] = call[p] /\ At(p, "ok") /\ RunOf(p)' = RunOf(p)
      BY <1>6, <2>1 DEF At, RunOf
    <3>2. PICK r \in RunIds : r = call[p].run_id
      BY <3>1, BegunFacts DEF At
    <3>3. runs[r] = RunOf(p) /\ disk.runs[r] = RunOf(p)
      BY <3>1, <3>2 DEF PInv, CallInv, At, Done
    <3> QED
      BY <1>2, <1>3, <2>1, <3>1, <3>2, <3>3 DEF CallInv, Leaving, Done
  <2>2. CASE call'[p].pc \in {"idle", "failed", "dead"}
    BY <2>2 DEF CallInv, Leaving, Done
  <2> QED
    BY <1>8, <2>1, <2>2
<1> QED
  BY <1>5, <1>9, <1>10 DEF PInv

\* Every step of a call keeps the invariant.
LEMMA CallStepKeeps ==
  ASSUME PInv, NEW p \in Procs, Step(p) \/ Kill(p)
  PROVE  PInv'
<1>1. CASE \E r \in RunIds, b \in Bodies : Stage(p, r, b)
  BY <1>1, StageKeeps
<1>2. CASE TakeLock(p)
  BY <1>2, TakeLockKeeps
<1>3. CASE CheckRun(p) \/ CheckRecord(p)
  BY <1>3, CheckKeeps
<1>4. CASE WriteRecord(p)
  BY <1>4, WriteRecordKeeps
<1>5. CASE FsyncRecord(p) \/ FsyncRollback(p)
  BY <1>5, SyncRecordsKeeps
<1>6. CASE Rename(p)
  BY <1>6, RenameKeeps
<1>7. CASE Fsync(p) \/ FsyncUnlock(p)
  BY <1>7, SyncRootKeeps
<1>8. CASE Rollback(p)
  BY <1>8, RollbackKeeps
<1>9. CASE Unlock(p)
  BY <1>9, UnlockKeeps
<1>10. CASE LockRefused(p) \/ UnlockFails(p)
  <2>1. Failing(p, "failed") /\ ~ At(p, "idle") /\ UNCHANGED <<locks, runs, records, disk>>
    BY <1>10 DEF LockRefused, UnlockFails, At
  <2> QED
    BY <2>1, FailingKeeps
<1>11. CASE WriteFails(p)
  <2>1. /\ Failing(p, "unlock") /\ ~ At(p, "idle") /\ call[p].pc \in Inside
        /\ UNCHANGED <<locks, runs, records, disk>>
    BY <1>11 DEF WriteFails, At, Inside
  <2> QED
    BY <2>1, FailingKeeps
<1>12. CASE RenameFails(p) \/ FsyncFails(p)
  <2>1. /\ Failing(p, "rollback") /\ ~ At(p, "idle") /\ call[p].pc \in Inside
        /\ UNCHANGED <<locks, runs, records, disk>>
    BY <1>12 DEF RenameFails, FsyncFails, At, Inside
  <2> QED
    BY <2>1, FailingKeeps
<1>13. CASE RollbackFails(p)
  <2>1. /\ GoTo(p, "unlock") /\ ~ At(p, "idle") /\ call[p].pc \in Inside
        /\ UNCHANGED <<locks, runs, records, disk>>
    BY <1>13 DEF RollbackFails, At, Inside
  <2>2. call[p].fine = FALSE
    BY <1>13 DEF RollbackFails, PInv, CallInv
  <2> QED
    BY <2>1, <2>2, FailingKeeps
<1>14. CASE ReadBack(p)
  <2>1. At(p, "readback") /\ ~ At(p, "idle") /\ UNCHANGED <<locks, runs, records, disk>>
    BY <1>14 DEF ReadBack, At
  <2>2. CASE GoTo(p, "ok")
    BY <2>1, <2>2, AnswerKeeps
  <2>3. CASE Failing(p, "failed")
    BY <2>1, <2>3, FailingKeeps
  <2> QED
    BY <1>14, <2>2, <2>3 DEF ReadBack
<1>15. CASE Kill(p)
  <2>1. GoTo(p, "dead") /\ ~ At(p, "idle") /\ UNCHANGED <<locks, runs, records, disk>>
    BY <1>15 DEF Kill, At, Running
  <2> QED
    BY <2>1, FailingKeeps
<1> QED
  BY <1>1, <1>2, <1>3, <1>4, <1>5, <1>6, <1>7, <1>8, <1>9, <1>10, <1>11, <1>12, <1>13, <1>14,
     <1>15 DEF Step

\* The empty store satisfies the invariant.
LEMMA InitPInv == PInit => PInv
<1> SUFFICES ASSUME PInit PROVE PInv
  OBVIOUS
<1>1. \A p \in Procs : call[p] \in Call /\ call[p].pc = "idle"
  BY DEF PInit, Call, PC
<1>2. call \in [Procs -> Call]
  BY <1>1 DEF PInit
<1>3. PTypeOK
  BY <1>1, <1>2 DEF PInit, PTypeOK, Nothing, At, Inside
<1>4. \A r \in RunIds : RunInv(r)
  BY DEF PInit, RunInv, Nothing
<1>5. \A p \in Procs : CallInv(p)
  BY <1>1 DEF CallInv, Leaving, Done
<1> QED
  BY <1>3, <1>4, <1>5 DEF PInv

\* Every step of the system keeps the invariant.
LEMMA StepKeepsPInv ==
  ASSUME PInv, [PNext]_pvars
  PROVE  PInv'
<1>1. CASE \E p \in Procs : Step(p) \/ Kill(p)
  BY <1>1, CallStepKeeps
<1>2. CASE PowerFails
  BY <1>2, PowerFailsKeeps
<1>3. CASE UNCHANGED pvars
  BY <1>3 DEF pvars, PInv, PTypeOK, RunInv, CallInv, RunOf, At
<1> QED
  BY <1>1, <1>2, <1>3 DEF PNext

-----------------------------------------------------------------------------
(* Theorems *)

\* The publisher keeps the invariant.
THEOREM PublisherInvariant == PSpec => []PInv
<1>1. PInit => PInv
  BY InitPInv
<1>2. PInv /\ [PNext]_pvars => PInv'
  BY StepKeepsPInv
<1> QED
  BY <1>1, <1>2, PTL DEF PSpec

\* Calls are well formed, and the lock file of publish() excludes.
THEOREM PublisherTypeCorrect == PSpec => []PTypeOK
<1>1. PInv => PTypeOK
  BY DEF PInv
<1> QED
  BY <1>1, PublisherInvariant, PTL

\* Every run directory has the record of the request it answers, for any number
\* of callers, failing file operations and power failures.
THEOREM RunsHaveRecords == PSpec => []RunHasRecord
<1>1. PInv => RunHasRecord
  BY DEF PInv, RunInv, RunHasRecord
<1> QED
  BY <1>1, PublisherInvariant, PTL

\* What execute() returned is on disk with its record.
THEOREM AnswersAreDurable == PSpec => []OkIsDurable
<1>1. PInv => OkIsDurable
  <2> SUFFICES ASSUME PInv, NEW p \in Procs, At(p, "ok")
               PROVE  /\ runs[call[p].run_id] = RunOf(p)
                      /\ disk.runs[call[p].run_id] = RunOf(p)
                      /\ disk.records[call[p].run_id] = call[p].body
    BY DEF OkIsDurable
  <2>1. /\ call[p].run_id \in RunIds /\ RunOf(p) # NULL /\ RunOf(p).body = call[p].body
    BY BegunFacts DEF At
  <2>2. runs[call[p].run_id] = RunOf(p) /\ disk.runs[call[p].run_id] = RunOf(p)
    BY DEF PInv, CallInv, At, Done
  <2> QED
    BY <2>1, <2>2 DEF PInv, RunInv
<1> QED
  BY <1>1, PublisherInvariant, PTL

\* A step that leaves the runs, and makes no call an answered one, is none of the
\* abstract store.
LEMMA StutterOfStore ==
  ASSUME UNCHANGED runs, \A q \in Procs : At(q, "ok")' <=> At(q, "ok"),
         \A q \in Procs : At(q, "ok") => call'[q].run_id = call[q].run_id
  PROVE  UNCHANGED Store!svars
<1>1. Confirmed' = Confirmed
  BY DEF Confirmed
<1> QED
  BY <1>1 DEF Store!svars

\* A call that moves on without an answer leaves the answered ones.
LEMMA MoveLeavesConfirmed ==
  ASSUME PInv, NEW p \in Procs, NEW pc \in PC \ {"ok"}, GoTo(p, pc) \/ Failing(p, pc),
         ~ At(p, "ok")
  PROVE  /\ \A q \in Procs : At(q, "ok")' <=> At(q, "ok")
         /\ \A q \in Procs : At(q, "ok") => call'[q].run_id = call[q].run_id
         /\ Confirmed' = Confirmed
<1>1. call'[p].pc = pc /\ \A q \in Procs \ {p} : call'[q] = call[q]
  BY GoToFacts, FailingFacts DEF PInv, PTypeOK
<1>2. /\ \A q \in Procs : At(q, "ok")' <=> At(q, "ok")
      /\ \A q \in Procs : At(q, "ok") => call'[q].run_id = call[q].run_id
  BY <1>1 DEF At
<1> QED
  BY <1>2 DEF Confirmed

\* The steps of a call: a rename publishes, an answer confirms, the rest is not
\* seen by users of the store.
LEMMA CallStepImplements ==
  ASSUME PInv, NEW p \in Procs, Step(p) \/ Kill(p)
  PROVE  Store!StoreNext \/ UNCHANGED Store!svars
<1>1. CASE \E r \in RunIds, b \in Bodies : Stage(p, r, b)
  <2>1. PICK r \in RunIds, b \in Bodies : Stage(p, r, b)
    BY <1>1
  <2>2. PICK c \in Call : c = [pc |-> "staged", run_id |-> r, body |-> b, fine |-> TRUE]
    BY DEF Call, PC
  <2>3. c.pc = "staged" /\ call' = [call EXCEPT ![p] = c] /\ At(p, "idle") /\ UNCHANGED runs
    BY <2>1, <2>2 DEF Stage
  <2>4. call'[p] = c /\ \A q \in Procs \ {p} : call'[q] = call[q]
    BY <2>3 DEF PInv, PTypeOK
  <2>5. /\ \A q \in Procs : At(q, "ok")' <=> At(q, "ok")
        /\ \A q \in Procs : At(q, "ok") => call'[q].run_id = call[q].run_id
    BY <2>3, <2>4 DEF At
  <2> QED
    BY <2>3, <2>5, StutterOfStore
<1>2. CASE Rename(p)
  <2>1. PICK pc \in PC \ {"ok"} : GoTo(p, pc)
    BY <1>2 DEF Rename, PC, Inside
  <2>2. ~ At(p, "ok") /\ ~ At(p, "idle")
    BY <1>2 DEF Rename, At
  <2>3. Confirmed' = Confirmed
    BY <2>1, <2>2, MoveLeavesConfirmed
  <2>4. PICK r \in RunIds, run \in Run : r = call[p].run_id /\ run = RunOf(p)
    BY <2>2, BegunFacts
  <2>5. Store!Publish(r, run)
    BY <1>2, <2>3, <2>4 DEF Rename, Store!Publish
  <2> QED
    BY <2>5 DEF Store!StoreNext
<1>3. CASE ReadBack(p) /\ GoTo(p, "ok")
  <2>1. PICK pc \in PC : pc = "ok"
    BY DEF PC, Over
  <2>2. PICK r \in RunIds : r = call[p].run_id /\ runs[r] = RunOf(p) /\ RunOf(p) # NULL
    BY <1>3, BegunFacts DEF ReadBack, At, PInv, CallInv, Done
  <2>3. /\ call'[p].pc = "ok" /\ call'[p].run_id = r
        /\ \A q \in Procs \ {p} : call'[q] = call[q]
    BY <1>3, <2>1, <2>2, GoToFacts DEF PInv, PTypeOK
  <2>4. Confirmed' = Confirmed \cup {r}
    BY <1>3, <2>2, <2>3 DEF Confirmed, At, ReadBack
  <2>5. Store!Confirm(r)
    BY <1>3, <2>2, <2>4 DEF ReadBack, Store!Confirm
  <2> QED
    BY <2>5 DEF Store!StoreNext
<1>4. CASE /\ UNCHANGED runs /\ ~ At(p, "ok")
           /\ \E pc \in PC \ {"ok"} : GoTo(p, pc) \/ Failing(p, pc)
  BY <1>4, MoveLeavesConfirmed, StutterOfStore
<1>5. \/ UNCHANGED runs /\ ~ At(p, "ok")
      \/ \E r \in RunIds, b \in Bodies : Stage(p, r, b)
      \/ Rename(p)
  BY DEF Step, Kill, TakeLock, LockRefused, CheckRun, CheckRecord, WriteRecord, FsyncRecord,
         WriteFails, RenameFails, Fsync, FsyncFails, Rollback, FsyncRollback, RollbackFails,
         Unlock, FsyncUnlock, UnlockFails, ReadBack, Running, Over, At
<1>6. PICK Targets : Targets = PC \ {"ok"}
  OBVIOUS
<1>7. /\ "locked" \in Targets /\ "record" \in Targets /\ "write" \in Targets
      /\ "fsync_record" \in Targets /\ "rename" \in Targets /\ "rollback" \in Targets
      /\ "fsync_rollback" \in Targets /\ "unlock" \in Targets /\ "fsync_unlock" \in Targets
      /\ "readback" \in Targets /\ "failed" \in Targets /\ "dead" \in Targets
  BY <1>6 DEF PC, Inside, Over
<1>8. \/ \E pc \in Targets : GoTo(p, pc) \/ Failing(p, pc)
      \/ ReadBack(p) /\ GoTo(p, "ok")
      \/ \E r \in RunIds, b \in Bodies : Stage(p, r, b)
      \/ Rename(p)
  BY <1>7 DEF Step, Kill, TakeLock, LockRefused, CheckRun, CheckRecord, WriteRecord, FsyncRecord,
         WriteFails, RenameFails, Fsync, FsyncFails, Rollback, FsyncRollback, RollbackFails,
         Unlock, FsyncUnlock, UnlockFails, ReadBack
<1> QED
  BY <1>1, <1>2, <1>3, <1>4, <1>5, <1>6, <1>8

\* A power failure loses runs nobody was told of.
LEMMA PowerFailsImplements ==
  ASSUME PInv, PowerFails
  PROVE  Store!StoreNext
<1> DEFINE rs == {r \in RunIds : runs'[r] = NULL}
<1>1. \A r \in RunIds : runs'[r] = NULL \/ runs'[r] = runs[r]
  BY DEF PowerFails, Survivors, PInv, RunInv
<1>2. \A q \in Procs : IF Running(q) THEN call'[q] = [call[q] EXCEPT !.pc = "dead"]
                                    ELSE call'[q] = call[q]
  BY DEF PowerFails
<1>3. \A q \in Procs : Running(q) => call'[q].pc = "dead"
  <2> SUFFICES ASSUME NEW q \in Procs, Running(q) PROVE call'[q].pc = "dead"
    OBVIOUS
  <2>1. PICK c \in Call : c = call[q]
    BY DEF PInv, PTypeOK
  <2>2. PICK d : d = [c EXCEPT !.pc = "dead"]
    OBVIOUS
  <2>3. d.pc = "dead"
    BY <2>1, <2>2 DEF Call
  <2> QED
    BY <1>2, <2>1, <2>2, <2>3
<1>4. \A q \in Procs : At(q, "ok") => ~ Running(q)
  BY DEF At, Running, Over
<1>5. /\ \A q \in Procs : At(q, "ok")' <=> At(q, "ok")
      /\ \A q \in Procs : At(q, "ok") => call'[q].run_id = call[q].run_id
  BY <1>2, <1>3, <1>4 DEF At
<1>6. Confirmed' = Confirmed
  BY <1>5 DEF Confirmed
<1>7. rs \cap Confirmed = {}
  <2> SUFFICES ASSUME NEW q \in Procs, At(q, "ok") PROVE runs'[call[q].run_id] # NULL
    BY DEF Confirmed
  <2>1. PICK r \in RunIds : r = call[q].run_id /\ RunOf(q) # NULL
    BY BegunFacts DEF At
  <2>2. runs[r] = RunOf(q) /\ disk.runs[r] = RunOf(q)
    BY <2>1 DEF PInv, CallInv, At, Done
  <2> QED
    BY <2>1, <2>2 DEF PowerFails, Survivors
<1>8. runs' = [r \in RunIds |-> IF r \in rs THEN NULL ELSE runs[r]]
  <2>1. runs' \in [RunIds -> Run \cup {NULL}]
    BY DEF PowerFails, Survivors, PInv, PTypeOK
  <2> QED
    BY <1>1, <2>1
<1>9. rs \in SUBSET RunIds
  OBVIOUS
<1>10. Store!Lose(rs)
  BY <1>6, <1>7, <1>8 DEF Store!Lose
<1> QED
  BY <1>9, <1>10 DEF Store!StoreNext

\* Publisher, lock files and disk implement the abstract evidence store: a run id
\* is written once, and what a caller was told of is never lost.
THEOREM PublisherImplementsStore == PSpec => ImplementsStore
<1>1. PInit => Store!StoreInit
  BY DEF PInit, Store!StoreInit, Nothing, Confirmed, At
<1>2. PInv /\ [PNext]_pvars => [Store!StoreNext]_(Store!svars)
  <2> SUFFICES ASSUME PInv, [PNext]_pvars PROVE Store!StoreNext \/ UNCHANGED Store!svars
    OBVIOUS
  <2>1. CASE \E p \in Procs : Step(p) \/ Kill(p)
    BY <2>1, CallStepImplements
  <2>2. CASE PowerFails
    BY <2>2, PowerFailsImplements
  <2>3. CASE UNCHANGED pvars
    BY <2>3 DEF pvars, Store!svars, Confirmed, At
  <2> QED
    BY <2>1, <2>2, <2>3 DEF PNext
<1> QED
  BY <1>1, <1>2, PublisherInvariant, PTL DEF PSpec, ImplementsStore, Store!StoreSpec
=============================================================================
