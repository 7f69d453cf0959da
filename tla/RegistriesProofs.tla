--------------------------- MODULE RegistriesProofs ---------------------------
(* The two registries beside the task path: the policy registry and the      *)
(* knowledge index.                                                          *)
EXTENDS PolicyRegistry, KnowledgeIndex, FiniteSetTheorems, NaturalsInduction, TLAPS

(* Numbers. *)

\* A set of numbers has a least one.
LEMMA Least ==
  ASSUME NEW T, T \subseteq Nat, T # {}
  PROVE  \E x \in T : \A y \in T : x <= y
<1>1. PICK R : R = OpToRel(<, Nat)
  OBVIOUS
<1>2. IsWellFoundedOn(R, Nat)
  BY <1>1, NatLessThanWellFounded
<1>3. PICK x \in T : \A y \in T : ~ (<<y, x>> \in R)
  BY <1>2, WFMin
<1>4. \A y \in T : ~ (y < x)
  BY <1>1, <1>3 DEF OpToRel
<1> QED BY <1>3, <1>4

\* Induction, for a set of numbers.
LEMMA SetInduction ==
  ASSUME NEW K, 0 \in K, \A k \in Nat : k \in K => k + 1 \in K
  PROVE  \A k \in Nat : k \in K
<1> DEFINE T == Nat \ K
<1> SUFFICES ASSUME T # {} PROVE FALSE
  OBVIOUS
<1>1. PICK x \in T : \A y \in T : x <= y
  <2>1. T \subseteq Nat
    OBVIOUS
  <2> HIDE DEF T
  <2> QED BY <2>1, Least
<1>2. x # 0 /\ x - 1 \in Nat /\ x - 1 < x /\ (x - 1) + 1 = x
  BY <1>1
<1>3. x - 1 \notin T
  BY <1>1, <1>2
<1> QED BY <1>1, <1>2, <1>3

-----------------------------------------------------------------------------
(* Evolution: what an accepted candidate has earned.  The totals are folds of *)
(* the library, reasoned about on subsets of growing size.                   *)

\* The element that a fold takes out first.
Pick(s) == CHOOSE x \in s : TRUE

\* g sums the scores of f over every subset of S.
IsSum(S, f, g) ==
  g = [s \in SUBSET S |-> IF s = {} THEN 0 ELSE f[Pick(s)].score + g[s \ {Pick(s)}]]

LEMMA PickIn == ASSUME NEW s, s # {} PROVE Pick(s) \in s
BY DEF Pick

\* A fold goes on with one element less.
LEMMA Smaller ==
  ASSUME NEW S, IsFiniteSet(S), NEW s \in SUBSET S
  PROVE  /\ Cardinality(s) \in Nat
         /\ Cardinality(s) = 0 => s = {}
         /\ s # {} => /\ Pick(s) \in s /\ s \ {Pick(s)} \in SUBSET S
                      /\ Cardinality(s \ {Pick(s)}) = Cardinality(s) - 1
<1>1. IsFiniteSet(s)
  BY FS_Subset
<1>2. Cardinality(s) \in Nat
  BY <1>1, FS_CardinalityType
<1>3. Cardinality(s) = 0 => s = {}
  BY <1>1, FS_EmptySet
<1>4. ASSUME s # {} PROVE Cardinality(s \ {Pick(s)}) = Cardinality(s) - 1
  BY <1>1, <1>4, PickIn, FS_RemoveElement
<1> QED BY <1>2, <1>3, <1>4, PickIn

LEMMA NoneLeft ==
  ASSUME NEW S, IsFiniteSet(S), NEW s \in SUBSET S, Cardinality(s) <= 0
  PROVE  s = {}
<1>1. Cardinality(s) \in Nat /\ (Cardinality(s) = 0 => s = {})
  BY Smaller
<1> QED BY <1>1

\* The recursive function in the fold exists, and is a number everywhere.
LEMMA SumExists ==
  ASSUME NEW S, IsFiniteSet(S), NEW f, \A e \in S : f[e].score \in Nat
  PROVE  \E g \in [SUBSET S -> Nat] : IsSum(S, f, g)
<1> DEFINE Up(k) == {s \in SUBSET S : Cardinality(s) <= k}
           Body(g, s) == IF s = {} THEN 0 ELSE f[Pick(s)].score + g[s \ {Pick(s)}]
           K == {k \in Nat : \E g \in [Up(k) -> Nat] : \A s \in Up(k) : g[s] = Body(g, s)}
<1>1. 0 \in K
  <2>1. PICK g : g = [s \in Up(0) |-> 0]
    OBVIOUS
  <2>2. ASSUME NEW s \in Up(0) PROVE s = {}
    BY <2>2, NoneLeft
  <2>3. g \in [Up(0) -> Nat] /\ \A s \in Up(0) : g[s] = 0
    BY <2>1
  <2>4. \A s \in Up(0) : g[s] = Body(g, s)
    BY <2>2, <2>3
  <2> HIDE DEF Up, Body
  <2> QED BY <2>3, <2>4
<1>2. ASSUME NEW k \in Nat, k \in K PROVE k + 1 \in K
  <2>1. PICK g \in [Up(k) -> Nat] : \A s \in Up(k) : g[s] = Body(g, s)
    BY <1>2
  <2>2. PICK h : h = [s \in Up(k + 1) |-> Body(g, s)]
    OBVIOUS
  <2>3. ASSUME NEW s \in Up(k + 1), s # {} PROVE s \ {Pick(s)} \in Up(k) /\ s \ {Pick(s)} \in Up(k + 1)
    BY <2>3, Smaller
  <2>4. ASSUME NEW s \in Up(k + 1) PROVE Body(g, s) \in Nat
    <3>1. CASE s = {}
      BY <3>1
    <3>2. CASE s # {}
      <4>1. g[s \ {Pick(s)}] \in Nat
        <5> HIDE DEF Up
        <5> QED BY <2>1, <2>3, <3>2
      <4>2. f[Pick(s)].score \in Nat
        BY <3>2, PickIn
      <4> QED BY <3>2, <4>1, <4>2
    <3> QED BY <3>1, <3>2
  <2>5. ASSUME NEW s \in Up(k + 1) PROVE h[s] = Body(h, s)
    <3>1. CASE s = {}
      BY <2>2, <3>1
    <3>2. CASE s # {}
      <4>1. PICK t : t = s \ {Pick(s)}
        OBVIOUS
      <4>2. t \in Up(k) /\ t \in Up(k + 1)
        BY <2>3, <3>2, <4>1
      <4>3. h[t] = Body(g, t) /\ g[t] = Body(g, t)
        <5> HIDE DEF Up, Body
        <5> QED BY <2>1, <2>2, <4>2
      <4>4. h[s] = Body(g, s)
        <5> HIDE DEF Up, Body
        <5> QED BY <2>2
      <4>5. Body(g, s) = f[Pick(s)].score + g[t] /\ Body(h, s) = f[Pick(s)].score + h[t]
        BY <3>2, <4>1
      <4> HIDE DEF Up, Body
      <4> QED BY <4>3, <4>4, <4>5
    <3> QED BY <3>1, <3>2
  <2>6. h \in [Up(k + 1) -> Nat]
    <3> HIDE DEF Up, Body
    <3> QED BY <2>2, <2>4
  <2>7. k + 1 \in Nat
    OBVIOUS
  <2> HIDE DEF Up, Body
  <2> QED BY <2>5, <2>6, <2>7
<1>3. PICK n : n = Cardinality(S)
  OBVIOUS
<1>4. n \in Nat /\ n \in K
  <2>1. n \in Nat
    BY <1>3, FS_CardinalityType
  <2> HIDE DEF K
  <2> QED BY <1>1, <1>2, <2>1, SetInduction
<1>5. PICK g \in [Up(n) -> Nat] : \A s \in Up(n) : g[s] = Body(g, s)
  BY <1>4
<1>6. Up(n) = SUBSET S
  BY <1>3, FS_Subset
<1>7. g = [s \in SUBSET S |-> Body(g, s)]
  <2> HIDE DEF Up, Body
  <2> QED BY <1>5, <1>6
<1>8. g \in [SUBSET S -> Nat]
  <2> HIDE DEF Up, Body
  <2> QED BY <1>5, <1>6
<1> QED BY <1>7, <1>8 DEF IsSum

\* _evaluate_set adds the scores up.
LEMMA SumIs ==
  ASSUME NEW S, IsFiniteSet(S), NEW f, \A e \in S : f[e].score \in Nat
  PROVE  \E g \in [SUBSET S -> Nat] : IsSum(S, f, g) /\ Aggregate(f, S).total = g[S]
<1> DEFINE C == CHOOSE g : IsSum(S, f, g)
<1>1. PICK h \in [SUBSET S -> Nat] : IsSum(S, f, h)
  BY SumExists
<1>2. IsSum(S, f, C)
  BY <1>1, Zenon
<1>3. ASSUME NEW g, NEW h2, IsSum(S, f, g), IsSum(S, f, h2), h2 \in [SUBSET S -> Nat] PROVE g = h2
  <2> DEFINE K == {k \in Nat : \A s \in SUBSET S : Cardinality(s) <= k => g[s] = h2[s]}
  <2>1. ASSUME NEW s \in SUBSET S
        PROVE  /\ g[s] = IF s = {} THEN 0 ELSE f[Pick(s)].score + g[s \ {Pick(s)}]
               /\ h2[s] = IF s = {} THEN 0 ELSE f[Pick(s)].score + h2[s \ {Pick(s)}]
    BY <1>3 DEF IsSum
  <2>2. 0 \in K
    <3>1. ASSUME NEW s \in SUBSET S, Cardinality(s) <= 0 PROVE g[s] = h2[s]
      <4>1. s = {}
        BY <3>1, NoneLeft
      <4> QED BY <2>1, <4>1
    <3> QED BY <3>1
  <2>3. ASSUME NEW k \in Nat, k \in K PROVE k + 1 \in K
    <3>1. ASSUME NEW s \in SUBSET S, Cardinality(s) <= k + 1, s # {} PROVE g[s] = h2[s]
      <4>1. PICK t : t = s \ {Pick(s)}
        OBVIOUS
      <4>2. t \in SUBSET S /\ Cardinality(t) <= k
        BY <3>1, <4>1, Smaller
      <4>3. g[t] = h2[t]
        BY <2>3, <4>2
      <4>4. g[s] = f[Pick(s)].score + g[t] /\ h2[s] = f[Pick(s)].score + h2[t]
        BY <2>1, <3>1, <4>1
      <4> QED BY <4>3, <4>4
    <3>2. \A s \in SUBSET S : s = {} => g[s] = h2[s]
      BY <2>1
    <3> QED BY <3>1, <3>2
  <2>4. \A k \in Nat : k \in K
    <3> HIDE DEF K
    <3> QED BY <2>2, <2>3, SetInduction
  <2>5. ASSUME NEW s \in SUBSET S PROVE g[s] = h2[s]
    <3>1. Cardinality(s) \in Nat
      BY Smaller
    <3>2. Cardinality(s) \in K
      <4> HIDE DEF K
      <4> QED BY <2>4, <3>1
    <3> QED BY <3>1, <3>2
  <2>6. DOMAIN g = SUBSET S /\ DOMAIN h2 = SUBSET S
    BY <1>3 DEF IsSum
  <2>7. g = [s \in SUBSET S |-> g[s]] /\ h2 = [s \in SUBSET S |-> h2[s]]
    BY <1>3 DEF IsSum
  <2> QED BY <2>5, <2>7
<1>4. C = h
  <2> HIDE DEF C
  <2> QED BY <1>1, <1>2, <1>3
<1>5. Aggregate(f, S).total = MapThenSumSet(LAMBDA e : f[e].score, S)
  BY DEF Aggregate
<1>6. MapThenSumSet(LAMBDA e : f[e].score, S) = C[S]
  BY Zenon DEF MapThenSumSet, MapThenFoldSet, IsSum, Pick
<1> HIDE DEF C
<1> QED BY <1>1, <1>4, <1>5, <1>6

\* A larger total has a larger term.
LEMMA LargerTerm ==
  ASSUME NEW S, IsFiniteSet(S), NEW a \in [S -> Observation], NEW b \in [S -> Observation],
         NEW gain \in Nat \ {0}, Aggregate(b, S).total >= Aggregate(a, S).total + gain
  PROVE  \E e \in S : b[e].score > a[e].score
<1> SUFFICES ASSUME \A e \in S : b[e].score <= a[e].score PROVE FALSE
  BY RegistryAssumption DEF Observation
<1>0. \A e \in S : a[e].score \in Nat /\ b[e].score \in Nat
  BY RegistryAssumption DEF Observation
<1>1. PICK g \in [SUBSET S -> Nat] : IsSum(S, a, g) /\ Aggregate(a, S).total = g[S]
  BY <1>0, SumIs
<1>2. PICK h \in [SUBSET S -> Nat] : IsSum(S, b, h) /\ Aggregate(b, S).total = h[S]
  BY <1>0, SumIs
<1> DEFINE K == {k \in Nat : \A s \in SUBSET S : Cardinality(s) <= k => h[s] <= g[s]}
<1>3. ASSUME NEW s \in SUBSET S
      PROVE  /\ g[s] = IF s = {} THEN 0 ELSE a[Pick(s)].score + g[s \ {Pick(s)}]
             /\ h[s] = IF s = {} THEN 0 ELSE b[Pick(s)].score + h[s \ {Pick(s)}]
  BY <1>1, <1>2 DEF IsSum
<1>4. ASSUME NEW s \in SUBSET S, s = {} PROVE h[s] <= g[s]
  <2>1. h[s] = 0 /\ g[s] = 0
    BY <1>3, <1>4
  <2> QED BY <2>1
<1>5. 0 \in K
  <2>1. ASSUME NEW s \in SUBSET S, Cardinality(s) <= 0 PROVE h[s] <= g[s]
    <3>1. s = {}
      BY <2>1, NoneLeft
    <3> QED BY <1>4, <3>1
  <2> QED BY <2>1
<1>6. ASSUME NEW k \in Nat, k \in K PROVE k + 1 \in K
  <2>1. ASSUME NEW s \in SUBSET S, Cardinality(s) <= k + 1, s # {} PROVE h[s] <= g[s]
    <3>1. PICK t : t = s \ {Pick(s)}
      OBVIOUS
    <3>2. t \in SUBSET S /\ Cardinality(t) <= k /\ Pick(s) \in S
      BY <2>1, <3>1, Smaller
    <3>3. h[t] <= g[t] /\ h[t] \in Nat /\ g[t] \in Nat
      BY <1>1, <1>2, <1>6, <3>2
    <3>4. g[s] = a[Pick(s)].score + g[t] /\ h[s] = b[Pick(s)].score + h[t]
      BY <1>3, <2>1, <3>1
    <3>5. b[Pick(s)].score <= a[Pick(s)].score /\ a[Pick(s)].score \in Nat /\ b[Pick(s)].score \in Nat
      BY <1>0, <3>2
    <3> QED BY <3>3, <3>4, <3>5
  <2> QED BY <1>4, <2>1
<1>7. Cardinality(S) \in Nat
  BY FS_CardinalityType
<1>8. Cardinality(S) \in K
  <2> HIDE DEF K
  <2> QED BY <1>5, <1>6, <1>7, SetInduction
<1>9. h[S] <= g[S]
  BY <1>7, <1>8
<1>10. h[S] \in Nat /\ g[S] \in Nat
  BY <1>1, <1>2
<1> QED BY <1>1, <1>2, <1>9, <1>10

\* A candidate that EvolutionRunner.run accepts on its totals beat the baseline on
\* an example of each set, broke no gate and solved the holdout set.
LEMMA AcceptedIsEarned ==
  ASSUME NEW v \in Verdicts
  PROVE  v.accepted \in BOOLEAN /\ v.earned \in BOOLEAN /\ (v.accepted => v.earned)
<1>1. PICK bt \in [Train -> Observation], ct \in [Train -> Observation],
           bh \in [Holdout -> Observation], ch \in [Holdout -> Observation] :
        v = [ accepted |-> Accepted(Aggregate(bt, Train), Aggregate(bh, Holdout),
                                    Aggregate(ct, Train), Aggregate(ch, Holdout)),
              earned   |-> Earned(bt, bh, ct, ch) ]
  BY DEF Verdicts
<1>2. /\ v.accepted = Accepted(Aggregate(bt, Train), Aggregate(bh, Holdout),
                               Aggregate(ct, Train), Aggregate(ch, Holdout))
      /\ v.earned = Earned(bt, bh, ct, ch)
  BY <1>1
<1>3. v.accepted \in BOOLEAN /\ v.earned \in BOOLEAN
  BY <1>2 DEF Accepted, Earned
<1>4. ASSUME v.accepted PROVE v.earned
  <2>1. /\ Aggregate(ct, Train).total >= Aggregate(bt, Train).total + MinTrainGain
        /\ Aggregate(ch, Holdout).total >= Aggregate(bh, Holdout).total + MinHoldoutGain
        /\ RequireAll => Aggregate(ch, Holdout).successes = Cardinality(Holdout)
        /\ Aggregate(ct, Train).gates /\ Aggregate(ch, Holdout).gates
    BY <1>2, <1>4 DEF Accepted
  <2>2. \E e \in Train : ct[e].score > bt[e].score
    BY <2>1, LargerTerm, RegistryAssumption
  <2>3. \E e \in Holdout : ch[e].score > bh[e].score
    BY <2>1, LargerTerm, RegistryAssumption
  <2>4. (\A e \in Train : ct[e].gate) /\ (\A e \in Holdout : ch[e].gate)
    BY <2>1 DEF Aggregate
  <2>5. ASSUME RequireAll PROVE \A e \in Holdout : ch[e].success
    <3>1. PICK good : good = {e \in Holdout : ch[e].success}
      OBVIOUS
    <3>2. Cardinality(good) = Cardinality(Holdout)
      BY <2>1, <2>5, <3>1 DEF Aggregate
    <3>3. good \in SUBSET Holdout
      BY <3>1
    <3>4. Holdout = good
      BY <3>2, <3>3, FS_Subset, RegistryAssumption
    <3> QED BY <3>1, <3>4
  <2>6. Earned(bt, bh, ct, ch)
    BY <2>2, <2>3, <2>4, <2>5 DEF Earned
  <2> QED BY <1>2, <2>6
<1> QED BY <1>3, <1>4

-----------------------------------------------------------------------------
(* The policy registry: the inductive invariant, by parts. *)

\* What a command may have read from the files.
Locals ==
  Payload \cup [evolution : EvolutionIds, candidate : Candidates, approval : Document]
    \cup Document \cup {NULL}

CommandTypes ==
  /\ RTypeOK
  /\ pc \in [Procs -> {"idle", "approve", "write_approval", "verify", "sign", "load"}]
  /\ keystep \in [Procs -> {NULL, "read", "create", "write", "have"}]
  /\ local \in [Procs -> Locals]
  /\ approved \subseteq Pairs

\* What each kind of command has read.
CommandsRead ==
  \A p \in Procs :
    /\ pc[p] \in {"approve", "write_approval", "verify", "sign"} =>
         local[p].evolution \in EvolutionIds /\ local[p].candidate \in Candidates
    /\ pc[p] = "verify" => local[p].approval \in Document
    /\ pc[p] = "load" => local[p] \in Document

\* The key file is created once and written once, by its creator; a command
\* that has a key has that one, or what the file held before it was written.
KeyWrittenOnce ==
  /\ \A p \in Procs : keystep[p] = "write" => key = Empty
  /\ \A p, q \in Procs : keystep[p] = "write" /\ keystep[q] = "write" => p = q
  /\ \A p \in Procs : keystep[p] = "have" => held[p] \in {Empty, key} /\ held[p] # NULL
  /\ \A p \in Procs : pc[p] = "write_approval" => keystep[p] = "have"

\* What a document or a command is about.
PairOf(x) == <<x.evolution, x.candidate>>

\* Nothing is signed but what an operator approved, in the files and in the
\* memory of the commands.
SignedWasApproved ==
  /\ \A x \in Pairs : approvals[x] # NULL => PairOf(approvals[x].signature.over) \in approved
  /\ active # NULL => PairOf(active.signature.over) \in approved
  /\ \A p \in Procs :
       /\ pc[p] = "verify" => PairOf(local[p].approval.signature.over) \in approved
       /\ pc[p] = "load" => PairOf(local[p].signature.over) \in approved
       /\ pc[p] \in {"sign", "write_approval"} => PairOf(local[p]) \in approved
  /\ loaded \subseteq approved

\* The run of x has an accepted result for that candidate, unless it was edited.
Backed(x) ==
  x[1] \notin edited =>
    IsResult(results[x[1]]) /\ results[x[1]].accepted /\ results[x[1]].candidate = x[2]

ApprovedWasAccepted ==
  /\ \A e \in EvolutionIds : IsResult(results[e]) /\ results[e].accepted => results[e].earned
  /\ \A x \in approved : Backed(x)
  /\ \A p \in Procs : pc[p] = "approve" => Backed(PairOf(local[p]))

RegistryInv ==
  /\ CommandTypes
  /\ CommandsRead
  /\ KeyWrittenOnce
  /\ WholeKeyIsForever
  /\ SignedWasApproved
  /\ ApprovedWasAccepted

-----------------------------------------------------------------------------
(* The policy registry: what keeps the invariant. *)

\* A whole signature stays one when the candidate beside it is edited.
LEMMA EditedFacts ==
  ASSUME NEW d \in Document, NEW c \in Candidates
  PROVE  Edited(d, c) \in Document /\ Edited(d, c).signature = d.signature
BY DEF Edited, Document, Payload

\* The parts of the invariant that only speak of files.
SignedFiles ==
  /\ \A x \in Pairs : approvals[x] # NULL => PairOf(approvals[x].signature.over) \in approved
  /\ active # NULL => PairOf(active.signature.over) \in approved

\* A command ends, whether it wrote a file or not.
LEMMA LeaveInv ==
  ASSUME RegistryInv, NEW p \in Procs, Leave(p), UNCHANGED <<results, key, approved, edited>>,
         approvals' \in [Pairs -> Document \cup {NULL}], active' \in Document \cup {NULL},
         WholeKeyIsForever', SignedFiles', loaded' \subseteq approved
  PROVE  RegistryInv'
<1> USE DEF Leave
<1>1. CommandTypes'
  BY DEF RegistryInv, CommandTypes, RTypeOK, Locals
<1>2. /\ pc'[p] = "idle" /\ keystep'[p] = NULL
      /\ \A q \in Procs \ {p} : /\ pc'[q] = pc[q] /\ keystep'[q] = keystep[q]
                                /\ local'[q] = local[q] /\ held'[q] = held[q]
  BY DEF RegistryInv, CommandTypes, RTypeOK
<1>3. CommandsRead'
  BY <1>2 DEF RegistryInv, CommandsRead
<1>4. KeyWrittenOnce'
  BY <1>2, RegistryAssumption DEF RegistryInv, KeyWrittenOnce
<1>5. SignedWasApproved'
  <2>1. ASSUME NEW q \in Procs
        PROVE  /\ pc'[q] = "verify" => PairOf(local'[q].approval.signature.over) \in approved
               /\ pc'[q] = "load" => PairOf(local'[q].signature.over) \in approved
               /\ pc'[q] \in {"sign", "write_approval"} => PairOf(local'[q]) \in approved
    BY <1>2 DEF RegistryInv, SignedWasApproved
  <2> QED BY <2>1 DEF SignedWasApproved, SignedFiles, PairOf
<1>6. ApprovedWasAccepted'
  <2>1. \A x : Backed(x)' = Backed(x)
    BY DEF Backed, IsResult
  <2>2. \A q \in Procs : pc'[q] = "approve" => local'[q] = local[q] /\ pc[q] = "approve"
    BY <1>2
  <2>3. \A q \in Procs : pc'[q] = "approve" => Backed(PairOf(local[q]))
    BY <2>2 DEF RegistryInv, ApprovedWasAccepted
  <2>4. \A q \in Procs : pc'[q] = "approve" => Backed(PairOf(local[q]))'
    BY <2>2, <2>3 DEF Backed, IsResult, PairOf
  <2> QED BY <2>1, <2>4 DEF RegistryInv, ApprovedWasAccepted, IsResult
<1> QED BY <1>1, <1>3, <1>4, <1>5, <1>6 DEF RegistryInv

\* The files are as they were.
LEMMA FilesKept ==
  ASSUME RegistryInv, UNCHANGED <<files, key, approved>>
  PROVE  /\ approvals' \in [Pairs -> Document \cup {NULL}] /\ active' \in Document \cup {NULL}
         /\ WholeKeyIsForever' /\ SignedFiles'
BY DEF RegistryInv, CommandTypes, RTypeOK, WholeKeyIsForever, SignedWasApproved, SignedFiles,
       PairOf, files

\* PolicyError, or a process that is killed.
LEMMA FailInv ==
  ASSUME RegistryInv, NEW p \in Procs, Fail(p) \/ Crash(p)
  PROVE  RegistryInv'
<1>1. Leave(p) /\ UNCHANGED <<files, key, history>>
  BY DEF Fail, Crash
<1>2. UNCHANGED <<results, key, approved, edited, loaded>>
  BY <1>1 DEF files, history
<1> QED BY <1>1, <1>2, FilesKept, LeaveInv DEF RegistryInv, SignedWasApproved

\* A command starts with what it read.
LEMMA EnterInv ==
  ASSUME RegistryInv, NEW p \in Procs, NEW at \in {"approve", "verify", "load"},
         NEW read \in Locals, Enter(p, at, read),
         at \in {"approve", "verify"} =>
           read.evolution \in EvolutionIds /\ read.candidate \in Candidates,
         at = "verify" => /\ read.approval \in Document
                          /\ PairOf(read.approval.signature.over) \in approved,
         at = "load" => read \in Document /\ PairOf(read.signature.over) \in approved,
         at = "approve" => Backed(PairOf(read))
  PROVE  RegistryInv'
<1> USE DEF Enter
<1>0. UNCHANGED <<results, approvals, active, key, held, approved, loaded, edited>>
  BY DEF files, history
<1>1. CommandTypes'
  BY <1>0 DEF RegistryInv, CommandTypes, RTypeOK
<1>2. /\ pc'[p] = at /\ keystep'[p] = "read" /\ local'[p] = read
      /\ \A q \in Procs \ {p} : /\ pc'[q] = pc[q] /\ keystep'[q] = keystep[q] /\ local'[q] = local[q]
  BY DEF RegistryInv, CommandTypes
<1>3. CommandsRead'
  BY <1>2 DEF RegistryInv, CommandsRead
<1>4. KeyWrittenOnce'
  BY <1>0, <1>2 DEF RegistryInv, KeyWrittenOnce
<1>5. SignedWasApproved' /\ WholeKeyIsForever'
  <2>1. ASSUME NEW q \in Procs
        PROVE  /\ pc'[q] = "verify" => PairOf(local'[q].approval.signature.over) \in approved
               /\ pc'[q] = "load" => PairOf(local'[q].signature.over) \in approved
               /\ pc'[q] \in {"sign", "write_approval"} => PairOf(local'[q]) \in approved
    BY <1>2 DEF RegistryInv, SignedWasApproved
  <2> QED BY <1>0, <2>1, FilesKept DEF RegistryInv, SignedWasApproved, SignedFiles, PairOf, files
<1>6. ApprovedWasAccepted'
  <2>1. \A x : Backed(x)' = Backed(x)
    BY <1>0 DEF Backed, IsResult
  <2>3. ASSUME NEW q \in Procs, pc'[q] = "approve" PROVE Backed(PairOf(local'[q]))
    BY <1>2, <2>3 DEF RegistryInv, ApprovedWasAccepted
  <2>4. \A q \in Procs : pc'[q] = "approve" => Backed(PairOf(local[q]))'
    BY <1>0, <2>3 DEF Backed, IsResult, PairOf
  <2> QED BY <1>0, <2>1, <2>4 DEF RegistryInv, ApprovedWasAccepted, IsResult
<1> QED BY <1>1, <1>3, <1>4, <1>5, <1>6 DEF RegistryInv

\* approve, activate and load_active start.
LEMMA StartsInv ==
  ASSUME RegistryInv, NEW p \in Procs,
         \/ \E e \in EvolutionIds : Approve(p, e)
         \/ \E e \in EvolutionIds, x \in Pairs : Activate(p, e, x)
         \/ LoadActive(p)
  PROVE  RegistryInv'
<1>1. ASSUME NEW e \in EvolutionIds, Proposed(e)
      PROVE  /\ results[e] \in Result /\ results[e].candidate \in Candidates
             /\ Backed(<<e, results[e].candidate>>)
  BY <1>1 DEF Proposed, IsResult, Backed, RegistryInv, CommandTypes, RTypeOK, Result
<1>2. ASSUME NEW e \in EvolutionIds, Approve(p, e) PROVE RegistryInv'
  <2>1. PICK r : r = [evolution |-> e, candidate |-> results[e].candidate]
    OBVIOUS
  <2>2. Enter(p, "approve", r) /\ Proposed(e)
    BY <1>2, <2>1 DEF Approve
  <2>3. r \in Locals /\ r.evolution = e /\ r.candidate = results[e].candidate
    BY <1>1, <2>1, <2>2 DEF Locals, Payload
  <2> QED BY <1>1, <2>2, <2>3, EnterInv DEF PairOf
<1>3. ASSUME NEW e \in EvolutionIds, NEW x \in Pairs, Activate(p, e, x) PROVE RegistryInv'
  <2>1. PICK r : r = [evolution |-> e, candidate |-> results[e].candidate, approval |-> approvals[x]]
    OBVIOUS
  <2>2. Enter(p, "verify", r) /\ Proposed(e) /\ approvals[x] # NULL
    BY <1>3, <2>1 DEF Activate
  <2>3. approvals[x] \in Document /\ PairOf(approvals[x].signature.over) \in approved
    BY <2>2 DEF RegistryInv, CommandTypes, RTypeOK, SignedWasApproved
  <2>4. /\ r \in Locals /\ r.evolution = e /\ r.candidate = results[e].candidate
        /\ r.approval = approvals[x]
    BY <1>1, <2>1, <2>2, <2>3 DEF Locals
  <2> QED BY <1>1, <2>2, <2>3, <2>4, EnterInv
<1>4. ASSUME LoadActive(p) PROVE RegistryInv'
  <2>1. Enter(p, "load", active) /\ active # NULL
    BY <1>4 DEF LoadActive
  <2>2. active \in Document /\ PairOf(active.signature.over) \in approved /\ active \in Locals
    BY <2>1 DEF RegistryInv, CommandTypes, RTypeOK, SignedWasApproved, Locals
  <2> QED BY <2>1, <2>2, EnterInv
<1> QED BY <1>2, <1>3, <1>4

\* What a command that leaves its place and its papers alone keeps.
LEMMA PapersKept ==
  ASSUME RegistryInv, UNCHANGED <<pc, local, approved, loaded, edited, results>>, SignedFiles'
  PROVE  CommandsRead' /\ SignedWasApproved' /\ ApprovedWasAccepted'
<1>1. CommandsRead' /\ SignedWasApproved'
  BY DEF RegistryInv, CommandsRead, SignedWasApproved, SignedFiles, PairOf
<1>2. ApprovedWasAccepted'
  BY DEF RegistryInv, ApprovedWasAccepted, Backed, IsResult, PairOf
<1> QED BY <1>1, <1>2

\* _load_or_create_key: the file is read.
LEMMA ReadKeyInv == ASSUME RegistryInv, NEW p \in Procs, ReadKey(p) PROVE RegistryInv'
<1> USE DEF ReadKey
<1>0. UNCHANGED <<results, approvals, active, key, pc, local, approved, loaded, edited, files>>
  BY DEF files, history
<1>1. CommandTypes'
  <2>1. held' \in [Procs -> Procs \cup {Empty, NULL}]
    BY DEF RegistryInv, CommandTypes, RTypeOK
  <2>2. keystep' \in [Procs -> {NULL, "read", "create", "write", "have"}]
    BY DEF RegistryInv, CommandTypes
  <2> QED BY <1>0, <2>1, <2>2 DEF RegistryInv, CommandTypes, RTypeOK
<1>2. KeyWrittenOnce'
  <2>1. \A q \in Procs \ {p} : keystep'[q] = keystep[q] /\ held'[q] = held[q]
    BY DEF RegistryInv, CommandTypes, RTypeOK
  <2>2. /\ keystep'[p] \in {"have", "create"}
        /\ keystep'[p] = "have" => held'[p] = key /\ key # NULL
    BY DEF RegistryInv, CommandTypes, RTypeOK
  <2>3. pc[p] # "write_approval"
    BY DEF RegistryInv, KeyWrittenOnce
  <2> QED BY <1>0, <2>1, <2>2, <2>3 DEF RegistryInv, KeyWrittenOnce
<1> QED BY <1>0, <1>1, <1>2, FilesKept, PapersKept DEF RegistryInv

\* O_CREAT | O_EXCL: only one command ever makes the file.
LEMMA CreateKeyInv == ASSUME RegistryInv, NEW p \in Procs, CreateKey(p) PROVE RegistryInv'
<1>1. CASE Fail(p)
  BY <1>1, FailInv
<1>2. CASE /\ key = NULL /\ key' = Empty
           /\ keystep' = [keystep EXCEPT ![p] = "write"]
           /\ UNCHANGED <<files, pc, local, held, bounds, history>>
  <2>0. UNCHANGED <<results, approvals, active, pc, local, held, approved, loaded, edited, files>>
    BY <1>2 DEF files, history
  <2>1. CommandTypes'
    BY <1>2, <2>0 DEF RegistryInv, CommandTypes, RTypeOK
  <2>2. Empty # NULL
    BY RegistryAssumption
  <2>3. \A q \in Procs : keystep[q] # "write"
    BY <1>2, <2>2 DEF RegistryInv, KeyWrittenOnce
  <2>4. keystep'[p] = "write" /\ \A q \in Procs \ {p} : keystep'[q] = keystep[q]
    BY <1>2 DEF RegistryInv, CommandTypes
  <2>5. pc[p] # "write_approval"
    BY DEF RegistryInv, KeyWrittenOnce, CreateKey
  <2>6. KeyWrittenOnce'
    BY <1>2, <2>0, <2>3, <2>4, <2>5 DEF RegistryInv, KeyWrittenOnce
  <2>7. WholeKeyIsForever'
    <3>1. ASSUME NEW d \in Document PROVE d.signature.key # NULL
      BY RegistryAssumption DEF Document, Signature
    <3>2. \A x \in Pairs : approvals[x] # NULL => approvals[x].signature.key = Empty
      BY <1>2, <3>1 DEF RegistryInv, CommandTypes, RTypeOK, WholeKeyIsForever
    <3>3. active # NULL => active.signature.key = Empty
      BY <1>2, <3>1 DEF RegistryInv, CommandTypes, RTypeOK, WholeKeyIsForever
    <3> QED BY <2>0, <3>2, <3>3 DEF WholeKeyIsForever
  <2>8. SignedFiles'
    BY <2>0 DEF RegistryInv, SignedWasApproved, SignedFiles, PairOf
  <2> QED BY <2>0, <2>1, <2>6, <2>7, <2>8, PapersKept DEF RegistryInv
<1> QED BY <1>1, <1>2 DEF CreateKey

\* The creator writes the key; nobody else does, then or later.
LEMMA WriteKeyInv == ASSUME RegistryInv, NEW p \in Procs, WriteKey(p) PROVE RegistryInv'
<1> USE DEF WriteKey
<1>0. UNCHANGED <<results, approvals, active, pc, local, approved, loaded, edited, files>>
  BY DEF files, history
<1>1. CommandTypes'
  BY <1>0 DEF RegistryInv, CommandTypes, RTypeOK
<1>2. key = Empty /\ \A q \in Procs \ {p} : keystep[q] # "write"
  BY DEF RegistryInv, KeyWrittenOnce
<1>3. /\ keystep'[p] = "have" /\ held'[p] = p
      /\ \A q \in Procs \ {p} : keystep'[q] = keystep[q] /\ held'[q] = held[q]
  BY DEF RegistryInv, CommandTypes, RTypeOK
<1>4. KeyWrittenOnce'
  BY <1>0, <1>2, <1>3, RegistryAssumption DEF RegistryInv, KeyWrittenOnce
<1>5. WholeKeyIsForever'
  BY <1>0, <1>2 DEF RegistryInv, WholeKeyIsForever
<1>6. SignedFiles'
  BY <1>0 DEF RegistryInv, SignedWasApproved, SignedFiles, PairOf
<1> QED BY <1>0, <1>1, <1>4, <1>5, <1>6, PapersKept DEF RegistryInv

\* approve finds no approval and goes on to write one.
LEMMA CheckApprovalInv == ASSUME RegistryInv, NEW p \in Procs, CheckApproval(p) PROVE RegistryInv'
<1> DEFINE x == PairOf(local[p])
<1>1. CASE Fail(p)
  BY <1>1, FailInv
<1>2. CASE ~ Fail(p)
  <2>0. /\ pc' = [pc EXCEPT ![p] = "write_approval"] /\ approved' = approved \cup {x}
        /\ pc[p] = "approve" /\ keystep[p] = "have"
        /\ UNCHANGED <<files, key, keystep, local, held, loaded, edited>>
    BY <1>2 DEF CheckApproval, PairOf
  <2>1. UNCHANGED <<results, approvals, active>>
    BY <2>0 DEF files
  <2>2. local[p].evolution \in EvolutionIds /\ local[p].candidate \in Candidates /\ x \in Pairs
    BY <2>0 DEF RegistryInv, CommandsRead, PairOf, Pairs
  <2>3. CommandTypes'
    BY <2>0, <2>1, <2>2 DEF RegistryInv, CommandTypes, RTypeOK
  <2>4. pc'[p] = "write_approval" /\ \A q \in Procs \ {p} : pc'[q] = pc[q]
    BY <2>0 DEF RegistryInv, CommandTypes
  <2>5. CommandsRead'
    BY <2>0, <2>2, <2>4 DEF RegistryInv, CommandsRead
  <2>6. KeyWrittenOnce'
    BY <2>0, <2>4 DEF RegistryInv, KeyWrittenOnce
  <2>7. WholeKeyIsForever'
    BY <2>0, <2>1 DEF RegistryInv, WholeKeyIsForever
  <2>8. SignedWasApproved'
    BY <2>0, <2>1, <2>4 DEF RegistryInv, SignedWasApproved, PairOf
  <2>9. ApprovedWasAccepted'
    <3>1. \A y : Backed(y)' = Backed(y)
      BY <2>0, <2>1 DEF Backed, IsResult
    <3>2. Backed(x)
      BY <2>0 DEF RegistryInv, ApprovedWasAccepted
    <3>3. \A y \in approved' : Backed(y)
      BY <2>0, <3>2 DEF RegistryInv, ApprovedWasAccepted
    <3>4. ASSUME NEW q \in Procs, pc'[q] = "approve" PROVE Backed(PairOf(local[q]))
      BY <2>4, <3>4 DEF RegistryInv, ApprovedWasAccepted
    <3>5. \A q \in Procs : pc'[q] = "approve" => Backed(PairOf(local[q]))'
      BY <2>0, <2>1, <3>4 DEF Backed, IsResult, PairOf
    <3> QED BY <2>1, <3>1, <3>3, <3>5 DEF RegistryInv, ApprovedWasAccepted, IsResult
  <2> QED BY <2>3, <2>5, <2>6, <2>7, <2>8, <2>9 DEF RegistryInv
<1> QED BY <1>1, <1>2

\* What a command signs: its own papers, with the key it has.
LEMMA SignFacts ==
  ASSUME RegistryInv, NEW p \in Procs, pc[p] \in {"sign", "write_approval"}, keystep[p] = "have",
         NEW d, d = [payload |-> PayloadOf(p), signature |-> Sign(p, PayloadOf(p))]
  PROVE  /\ d \in Document
         /\ d.signature.key # Empty => d.signature.key = key
         /\ PairOf(d.signature.over) \in approved
<1>1. PayloadOf(p) \in Payload
  BY DEF RegistryInv, CommandsRead, PayloadOf, Payload
<1>2. held[p] \in {Empty, key} /\ held[p] \in Procs \cup {Empty}
  BY DEF RegistryInv, KeyWrittenOnce, CommandTypes, RTypeOK
<1>3. /\ Sign(p, PayloadOf(p)) \in Signature
      /\ Sign(p, PayloadOf(p)).key = held[p] /\ Sign(p, PayloadOf(p)).over = PayloadOf(p)
  BY <1>1, <1>2 DEF Sign, Signature
<1>4. d \in Document /\ d.signature = Sign(p, PayloadOf(p))
  BY <1>1, <1>3 DEF Document
<1>5. PairOf(PayloadOf(p)) = PairOf(local[p])
  BY DEF PairOf, PayloadOf
<1>6. PairOf(local[p]) \in approved
  BY DEF RegistryInv, SignedWasApproved
<1> QED BY <1>2, <1>3, <1>4, <1>5, <1>6

LEMMA WriteApprovalInv == ASSUME RegistryInv, NEW p \in Procs, WriteApproval(p) PROVE RegistryInv'
<1> DEFINE x == PairOf(local[p])
<1>1. PICK d : d = [payload |-> PayloadOf(p), signature |-> Sign(p, PayloadOf(p))]
  OBVIOUS
<1>2. /\ pc[p] = "write_approval" /\ approvals' = [approvals EXCEPT ![x] = d] /\ Leave(p)
      /\ UNCHANGED <<results, active, key, approved, loaded, edited>>
  BY <1>1 DEF WriteApproval, PairOf, history
<1>3. keystep[p] = "have"
  BY <1>2 DEF RegistryInv, KeyWrittenOnce
<1>4. /\ d \in Document
      /\ d.signature.key # Empty => d.signature.key = key
      /\ PairOf(d.signature.over) \in approved
  BY <1>1, <1>2, <1>3, SignFacts
<1>5. approvals \in [Pairs -> Document \cup {NULL}] /\ x \in Pairs
  BY <1>2 DEF RegistryInv, CommandTypes, RTypeOK, CommandsRead, PairOf, Pairs
<1>6. approvals' \in [Pairs -> Document \cup {NULL}]
  BY <1>2, <1>4, <1>5
<1>7. approvals'[x] = d /\ \A y \in Pairs \ {x} : approvals'[y] = approvals[y]
  BY <1>2, <1>5
<1>8. WholeKeyIsForever'
  BY <1>2, <1>4, <1>7 DEF RegistryInv, WholeKeyIsForever
<1>9. SignedFiles'
  <2>1. \A y \in Pairs : approvals'[y] # NULL => PairOf(approvals'[y].signature.over) \in approved
    BY <1>4, <1>7 DEF RegistryInv, SignedWasApproved
  <2>2. active # NULL => PairOf(active.signature.over) \in approved
    BY DEF RegistryInv, SignedWasApproved
  <2> QED BY <1>2, <2>1, <2>2 DEF SignedFiles, PairOf
<1>10. active \in Document \cup {NULL} /\ loaded \subseteq approved
  BY DEF RegistryInv, CommandTypes, RTypeOK, SignedWasApproved
<1> QED BY <1>2, <1>6, <1>8, <1>9, <1>10, LeaveInv

\* activate: what it goes on to sign is what the approval was signed over.
LEMMA VerifyApprovalInv == ASSUME RegistryInv, NEW p \in Procs, VerifyApproval(p) PROVE RegistryInv'
<1>1. CASE Fail(p)
  BY <1>1, FailInv
<1>2. CASE ~ Fail(p)
  <2>0. /\ pc[p] = "verify" /\ keystep[p] = "have"
        /\ Verified(p, local[p].approval) /\ Bound(p)
        /\ pc' = [pc EXCEPT ![p] = "sign"]
        /\ keystep' = [keystep EXCEPT ![p] = "read"]
        /\ held' = [held EXCEPT ![p] = NULL]
        /\ UNCHANGED <<files, key, local, approved, loaded, edited>>
    BY <1>2 DEF VerifyApproval, history
  <2>1. UNCHANGED <<results, approvals, active>>
    BY <2>0 DEF files
  <2>2. CommandTypes'
    BY <2>0, <2>1 DEF RegistryInv, CommandTypes, RTypeOK
  <2>3. /\ pc'[p] = "sign" /\ keystep'[p] = "read"
        /\ \A q \in Procs \ {p} : pc'[q] = pc[q] /\ keystep'[q] = keystep[q] /\ held'[q] = held[q]
    BY <2>0 DEF RegistryInv, CommandTypes, RTypeOK
  <2>4. CommandsRead'
    BY <2>0, <2>3 DEF RegistryInv, CommandsRead
  <2>5. KeyWrittenOnce'
    BY <2>0, <2>3 DEF RegistryInv, KeyWrittenOnce
  <2>6. PairOf(local[p]) \in approved
    <3>1. local[p].approval.signature.over = local[p].approval.payload
      BY <2>0 DEF Verified, Sign
    <3>2. local[p].approval.payload = PayloadOf(p)
      BY <2>0 DEF Bound
    <3>3. PairOf(local[p].approval.signature.over) \in approved
      BY <2>0 DEF RegistryInv, SignedWasApproved
    <3>4. PairOf(PayloadOf(p)) = PairOf(local[p])
      BY DEF PairOf, PayloadOf
    <3> QED BY <3>1, <3>2, <3>3, <3>4
  <2>7. WholeKeyIsForever' /\ SignedFiles'
    BY <2>0, FilesKept
  <2>8. SignedWasApproved'
    <3>1. ASSUME NEW q \in Procs
          PROVE  /\ pc'[q] = "verify" => PairOf(local[q].approval.signature.over) \in approved
                 /\ pc'[q] = "load" => PairOf(local[q].signature.over) \in approved
                 /\ pc'[q] \in {"sign", "write_approval"} => PairOf(local[q]) \in approved
      BY <2>3, <2>6 DEF RegistryInv, SignedWasApproved
    <3>2. loaded \subseteq approved
      BY DEF RegistryInv, SignedWasApproved
    <3> QED BY <2>0, <2>7, <3>1, <3>2 DEF SignedWasApproved, SignedFiles, PairOf
  <2>9. ApprovedWasAccepted'
    <3>1. \A y : Backed(y)' = Backed(y)
      BY <2>0, <2>1 DEF Backed, IsResult
    <3>4. ASSUME NEW q \in Procs, pc'[q] = "approve" PROVE Backed(PairOf(local[q]))
      BY <2>3, <3>4 DEF RegistryInv, ApprovedWasAccepted
    <3>5. \A q \in Procs : pc'[q] = "approve" => Backed(PairOf(local[q]))'
      BY <2>0, <2>1, <3>4 DEF Backed, IsResult, PairOf
    <3> QED BY <2>0, <2>1, <3>1, <3>5 DEF RegistryInv, ApprovedWasAccepted, IsResult
  <2> QED BY <2>2, <2>4, <2>5, <2>7, <2>8, <2>9 DEF RegistryInv
<1> QED BY <1>1, <1>2

LEMMA WriteActiveInv == ASSUME RegistryInv, NEW p \in Procs, WriteActive(p) PROVE RegistryInv'
<1>1. PICK d : d = [payload |-> PayloadOf(p), signature |-> Sign(p, PayloadOf(p))]
  OBVIOUS
<1>2. /\ pc[p] = "sign" /\ keystep[p] = "have" /\ active' = d /\ Leave(p)
      /\ UNCHANGED <<results, approvals, key, approved, loaded, edited>>
  BY <1>1 DEF WriteActive, history
<1>4. /\ d \in Document
      /\ d.signature.key # Empty => d.signature.key = key
      /\ PairOf(d.signature.over) \in approved
  BY <1>1, <1>2, SignFacts
<1>8. WholeKeyIsForever'
  BY <1>2, <1>4 DEF RegistryInv, WholeKeyIsForever
<1>9. SignedFiles'
  <2>1. \A y \in Pairs : approvals[y] # NULL => PairOf(approvals[y].signature.over) \in approved
    BY DEF RegistryInv, SignedWasApproved
  <2> QED BY <1>2, <1>4, <2>1 DEF SignedFiles, PairOf
<1>10. approvals \in [Pairs -> Document \cup {NULL}] /\ loaded \subseteq approved
  BY DEF RegistryInv, CommandTypes, RTypeOK, SignedWasApproved
<1> QED BY <1>2, <1>4, <1>8, <1>9, <1>10, LeaveInv

\* load_active: a document that verifies was signed over its own payload.
LEMMA LoadedInv == ASSUME RegistryInv, NEW p \in Procs, Loaded(p) PROVE RegistryInv'
<1>1. CASE Fail(p)
  BY <1>1, FailInv
<1>2. CASE ~ Fail(p)
  <2>0. /\ pc[p] = "load" /\ Verified(p, local[p]) /\ Leave(p)
        /\ loaded' = loaded \cup {PairOf(local[p].payload)}
        /\ UNCHANGED <<files, key, approved, edited>>
    BY <1>2 DEF Loaded, PairOf
  <2>1. UNCHANGED results
    BY <2>0 DEF files
  <2>2. local[p].signature.over = local[p].payload
    BY <2>0 DEF Verified, Sign
  <2>3. PairOf(local[p].signature.over) \in approved
    BY <2>0 DEF RegistryInv, SignedWasApproved
  <2>4. loaded' \subseteq approved
    BY <2>0, <2>2, <2>3 DEF RegistryInv, SignedWasApproved
  <2> QED BY <2>0, <2>1, <2>4, FilesKept, LeaveInv
<1> QED BY <1>1, <1>2

\* EvolutionRunner.run makes its directory, and writes what the gates say.
LEMMA EvolutionInv ==
  ASSUME RegistryInv, NEW e \in EvolutionIds, StartEvolution(e) \/ FinishEvolution(e)
  PROVE  RegistryInv'
<1>0. PICK r : /\ r \in Result \cup {Started}
               /\ r # Started /\ r.accepted => r.earned
               /\ results' = [results EXCEPT ![e] = r]
               /\ ~ IsResult(results[e])
  <2>1. CASE StartEvolution(e)
    BY <2>1 DEF StartEvolution, IsResult
  <2>2. CASE FinishEvolution(e)
    <3>1. PICK v \in Verdicts, c \in Candidates :
            results' = [results EXCEPT ![e] = [accepted |-> v.accepted, earned |-> v.earned,
                                               candidate |-> c]]
      BY <2>2 DEF FinishEvolution
    <3>2. PICK r : r = [accepted |-> v.accepted, earned |-> v.earned, candidate |-> c]
      OBVIOUS
    <3>3. v.accepted \in BOOLEAN /\ v.earned \in BOOLEAN /\ (v.accepted => v.earned)
      BY AcceptedIsEarned
    <3>4. r \in Result /\ (r.accepted => r.earned)
      BY <3>2, <3>3 DEF Result
    <3>5. results[e] = Started
      BY <2>2 DEF FinishEvolution
    <3> QED BY <3>1, <3>2, <3>4, <3>5 DEF IsResult
  <2> QED BY <2>1, <2>2
<1>1. UNCHANGED <<approvals, active, key, pc, keystep, local, held, approved, loaded, edited>>
  BY DEF StartEvolution, FinishEvolution, process, history
<1>2. results \in [EvolutionIds -> Result \cup {NULL, Started}]
  BY DEF RegistryInv, CommandTypes, RTypeOK
<1>3. /\ results' \in [EvolutionIds -> Result \cup {NULL, Started}] /\ results'[e] = r
      /\ \A d \in EvolutionIds \ {e} : results'[d] = results[d]
  BY <1>0, <1>2
<1>4. CommandTypes'
  BY <1>1, <1>3 DEF RegistryInv, CommandTypes, RTypeOK
<1>5. CommandsRead' /\ KeyWrittenOnce' /\ WholeKeyIsForever'
  BY <1>1 DEF RegistryInv, CommandsRead, KeyWrittenOnce, WholeKeyIsForever
<1>6. SignedWasApproved'
  BY <1>1 DEF RegistryInv, SignedWasApproved, PairOf
<1>7. ASSUME NEW x \in Pairs, Backed(x) PROVE Backed(x)'
  <2>1. x[1] \in EvolutionIds
    BY DEF Pairs
  <2> QED BY <1>0, <1>1, <1>3, <1>7, <2>1 DEF Backed, IsResult
<1>8. ApprovedWasAccepted'
  <2>1. \A d \in EvolutionIds :
          (IsResult(results[d]))' /\ results'[d].accepted => results'[d].earned
    BY <1>0, <1>3 DEF RegistryInv, ApprovedWasAccepted, IsResult
  <2>2. \A x \in approved : Backed(x)'
    BY <1>7 DEF RegistryInv, CommandTypes, ApprovedWasAccepted
  <2>3. ASSUME NEW p \in Procs, pc[p] = "approve" PROVE Backed(PairOf(local[p]))'
    <3>1. PairOf(local[p]) \in Pairs /\ Backed(PairOf(local[p]))
      BY <2>3 DEF RegistryInv, CommandsRead, ApprovedWasAccepted, PairOf, Pairs
    <3>2. PICK x : x = PairOf(local[p])
      OBVIOUS
    <3>3. Backed(x)'
      BY <1>7, <3>1, <3>2
    <3> QED BY <1>1, <3>2, <3>3 DEF Backed, IsResult, PairOf
  <2> QED BY <1>1, <2>1, <2>2, <2>3 DEF ApprovedWasAccepted
<1> QED BY <1>4, <1>5, <1>6, <1>8 DEF RegistryInv

\* Somebody edits a file: a result is marked, a signature is not touched.
LEMMA EditInv == ASSUME RegistryInv, NEW c \in Candidates, Edit(c) PROVE RegistryInv'
<1>0. /\ UNCHANGED <<key, pc, keystep, local, held, approved, loaded>>
      /\ edited \subseteq edited'
  BY DEF Edit, process
<1>1. CommandsRead' /\ KeyWrittenOnce'
  BY <1>0 DEF RegistryInv, CommandsRead, KeyWrittenOnce
<1>2. RegistryInv /\ RTypeOK
  BY DEF RegistryInv, CommandTypes
<1>3. ASSUME NEW e \in EvolutionIds, IsResult(results[e]),
             results' = [results EXCEPT ![e].candidate = c], edited' = edited \cup {e},
             UNCHANGED <<approvals, active>>
      PROVE  RegistryInv'
  <2>1. results[e] \in Result
    BY <1>2, <1>3 DEF RTypeOK, IsResult
  <2>2. PICK r : r = [results[e] EXCEPT !.candidate = c]
    OBVIOUS
  <2>3. r \in Result /\ r.accepted = results[e].accepted /\ r.earned = results[e].earned
    BY <2>1, <2>2 DEF Result
  <2>4. /\ results' \in [EvolutionIds -> Result \cup {NULL, Started}] /\ results'[e] = r
        /\ \A d \in EvolutionIds \ {e} : results'[d] = results[d]
    BY <1>2, <1>3, <2>2, <2>3 DEF RTypeOK
  <2>5. CommandTypes'
    BY <1>0, <1>3, <2>4 DEF RegistryInv, CommandTypes, RTypeOK
  <2>6. SignedWasApproved' /\ WholeKeyIsForever'
    BY <1>0, <1>3 DEF RegistryInv, SignedWasApproved, WholeKeyIsForever, PairOf
  <2>7. ASSUME NEW x \in Pairs, Backed(x) PROVE Backed(x)'
    <3>1. x[1] \in EvolutionIds
      BY DEF Pairs
    <3> QED BY <1>3, <2>4, <2>7, <3>1 DEF Backed, IsResult
  <2>8. ApprovedWasAccepted'
    <3>1. \A d \in EvolutionIds :
            (IsResult(results[d]))' /\ results'[d].accepted => results'[d].earned
      BY <1>3, <2>3, <2>4 DEF RegistryInv, ApprovedWasAccepted, IsResult
    <3>2. \A x \in approved : Backed(x)'
      BY <2>7 DEF RegistryInv, CommandTypes, ApprovedWasAccepted
    <3>3. ASSUME NEW p \in Procs, pc[p] = "approve" PROVE Backed(PairOf(local[p]))'
      <4>1. PairOf(local[p]) \in Pairs /\ Backed(PairOf(local[p]))
        BY <3>3 DEF RegistryInv, CommandsRead, ApprovedWasAccepted, PairOf, Pairs
      <4>2. PICK x : x = PairOf(local[p])
        OBVIOUS
      <4>3. Backed(x)'
        BY <2>7, <4>1, <4>2
      <4> QED BY <1>0, <4>2, <4>3 DEF Backed, IsResult, PairOf
    <3> QED BY <1>0, <3>1, <3>2, <3>3 DEF ApprovedWasAccepted
  <2> QED BY <1>1, <2>5, <2>6, <2>8 DEF RegistryInv
<1>4. ASSUME UNCHANGED <<results, edited>>, approvals' \in [Pairs -> Document \cup {NULL}],
             active' \in Document \cup {NULL},
             \A x \in Pairs : approvals'[x] # NULL =>
               approvals[x] # NULL /\ approvals'[x].signature = approvals[x].signature,
             active' # NULL => active # NULL /\ active'.signature = active.signature
      PROVE  RegistryInv'
  <2>1. CommandTypes'
    BY <1>0, <1>4 DEF RegistryInv, CommandTypes, RTypeOK
  <2>2. WholeKeyIsForever'
    BY <1>0, <1>4 DEF RegistryInv, WholeKeyIsForever
  <2>3. SignedWasApproved'
    <3>1. \A x \in Pairs : approvals'[x] # NULL => PairOf(approvals'[x].signature.over) \in approved
      BY <1>4 DEF RegistryInv, SignedWasApproved
    <3>2. active' # NULL => PairOf(active'.signature.over) \in approved
      BY <1>4 DEF RegistryInv, SignedWasApproved
    <3> QED BY <1>0, <3>1, <3>2 DEF RegistryInv, SignedWasApproved, PairOf
  <2>4. ApprovedWasAccepted'
    BY <1>0, <1>4 DEF RegistryInv, ApprovedWasAccepted, Backed, IsResult, PairOf
  <2> QED BY <1>1, <2>1, <2>2, <2>3, <2>4 DEF RegistryInv
<1>5. ASSUME NEW x \in Pairs, approvals[x] # NULL,
             approvals' = [approvals EXCEPT ![x] = Edited(approvals[x], c)],
             UNCHANGED <<results, active, edited>>
      PROVE  RegistryInv'
  <2>1. approvals[x] \in Document
    BY <1>2, <1>5 DEF RTypeOK
  <2>2. PICK d : d = Edited(approvals[x], c)
    OBVIOUS
  <2>3. d \in Document /\ d.signature = approvals[x].signature
    BY <2>1, <2>2, EditedFacts
  <2>4. /\ approvals' \in [Pairs -> Document \cup {NULL}] /\ approvals'[x] = d
        /\ \A y \in Pairs \ {x} : approvals'[y] = approvals[y]
    BY <1>2, <1>5, <2>2, <2>3 DEF RTypeOK
  <2> QED BY <1>2, <1>4, <1>5, <2>3, <2>4 DEF RTypeOK
<1>6. ASSUME active # NULL, active' = Edited(active, c), UNCHANGED <<results, approvals, edited>>
      PROVE  RegistryInv'
  <2>1. active \in Document
    BY <1>2, <1>6 DEF RTypeOK
  <2>2. active' \in Document /\ active'.signature = active.signature
    BY <1>6, <2>1, EditedFacts
  <2> QED BY <1>2, <1>4, <1>6, <2>2 DEF RTypeOK
<1> QED BY <1>3, <1>5, <1>6 DEF Edit

-----------------------------------------------------------------------------
(* The policy registry: theorems. *)

\* Commands that run at once and are killed anywhere, evolution runs and edits keep
\* the parts of the invariant.
THEOREM RegistryInvariant == RSpec => []RegistryInv
<1>1. RInit => RegistryInv
  <2> SUFFICES ASSUME RInit PROVE RegistryInv
    OBVIOUS
  <2> USE DEF RInit
  <2>1. CommandTypes
    BY DEF CommandTypes, RTypeOK, Locals
  <2>2. CommandsRead /\ KeyWrittenOnce /\ WholeKeyIsForever
    BY RegistryAssumption DEF CommandsRead, KeyWrittenOnce, WholeKeyIsForever
  <2>3. SignedWasApproved /\ ApprovedWasAccepted
    BY DEF SignedWasApproved, ApprovedWasAccepted, IsResult
  <2> QED BY <2>1, <2>2, <2>3 DEF RegistryInv
<1>2. RegistryInv /\ [RNext]_rvars => RegistryInv'
  <2> SUFFICES ASSUME RegistryInv, [RNext]_rvars PROVE RegistryInv'
    OBVIOUS
  <2>1. ASSUME NEW p \in Procs, Command(p) PROVE RegistryInv'
    BY <2>1, StartsInv, ReadKeyInv, CreateKeyInv, WriteKeyInv, CheckApprovalInv, WriteApprovalInv,
       VerifyApprovalInv, WriteActiveInv, LoadedInv DEF Command
  <2>2. CASE UNCHANGED rvars
    <3>1. UNCHANGED <<results, approvals, active, key, pc, keystep, local, held, approved, loaded,
                      edited>>
      BY <2>2 DEF rvars, files, process, history
    <3>2. CommandTypes' /\ CommandsRead' /\ KeyWrittenOnce' /\ WholeKeyIsForever'
      BY <3>1 DEF RegistryInv, CommandTypes, RTypeOK, CommandsRead, KeyWrittenOnce, WholeKeyIsForever
    <3>3. SignedWasApproved' /\ ApprovedWasAccepted'
      BY <3>1 DEF RegistryInv, SignedWasApproved, ApprovedWasAccepted, Backed, IsResult, PairOf
    <3> QED BY <3>2, <3>3 DEF RegistryInv
  <2> QED BY <2>1, <2>2, EvolutionInv, FailInv, EditInv DEF RNext
<1> QED BY <1>1, <1>2, PTL DEF RSpec

\* The files and the keys of the commands have their types: nothing is ever signed
\* without a key (_load_or_create_key, _sign).
THEOREM RegistryTypeOK == RSpec => []RTypeOK
<1>1. RegistryInv => RTypeOK
  BY DEF RegistryInv, CommandTypes
<1> QED BY <1>1, RegistryInvariant, PTL

\* A signature made with a whole key verifies for ever, however many commands create
\* the key file together (_load_or_create_key).
THEOREM WholeKeysAreForever == RSpec => []WholeKeyIsForever
<1>1. RegistryInv => WholeKeyIsForever
  BY DEF RegistryInv
<1> QED BY <1>1, RegistryInvariant, PTL

\* What load_active returns was approved with that content and, unless its result
\* was edited, earned it example by example, whatever the examples, the thresholds,
\* the commands and the edits.
THEOREM PoliciesWereEarned == RSpec => []PolicyWasEarned
<1>1. RegistryInv => PolicyWasEarned
  <2> SUFFICES ASSUME RegistryInv, NEW x \in loaded PROVE
        /\ x \in approved
        /\ x[1] \notin edited => results[x[1]].earned /\ results[x[1]].candidate = x[2]
    BY DEF PolicyWasEarned
  <2>1. x \in approved /\ x \in Pairs
    BY DEF RegistryInv, CommandTypes, SignedWasApproved
  <2>2. x[1] \in EvolutionIds /\ Backed(x)
    BY <2>1 DEF Pairs, RegistryInv, ApprovedWasAccepted
  <2>3. \A e \in EvolutionIds : IsResult(results[e]) /\ results[e].accepted => results[e].earned
    BY DEF RegistryInv, ApprovedWasAccepted
  <2> QED BY <2>1, <2>2, <2>3 DEF Backed
<1> QED BY <1>1, RegistryInvariant, PTL

-----------------------------------------------------------------------------
(* The knowledge index: Kahn's algorithm. *)

\* What a round of Kahn's algorithm leaves.
Taken(ds, left) == {n \in left : \E e \in ds : e.source \in left /\ e.target = n}

\* The rounds of the algorithm.
IsKahn(ds, L) ==
  L = [k \in 0..NNodes |-> IF k = 0 THEN NodeIds ELSE Taken(ds, L[k - 1])]

\* The recursive function in ContainsCycle exists.
LEMMA KahnExists ==
  ASSUME NEW ds
  PROVE  \E L : IsKahn(ds, L)
<1> DEFINE Body(g, k) == IF k = 0 THEN NodeIds ELSE Taken(ds, g[k - 1])
           K == {m \in Nat : \E g : g = [k \in 0..m |-> Body(g, k)]}
<1>1. 0 \in K
  <2>1. PICK g : g = [k \in 0..0 |-> NodeIds]
    OBVIOUS
  <2>2. g = [k \in 0..0 |-> Body(g, k)]
    BY <2>1
  <2> QED BY <2>2
<1>2. ASSUME NEW m \in Nat, m \in K PROVE m + 1 \in K
  <2>1. PICK g : g = [k \in 0..m |-> Body(g, k)]
    BY <1>2
  <2>2. PICK h : h = [k \in 0..(m + 1) |-> Body(g, k)]
    OBVIOUS
  <2>3. ASSUME NEW k \in 0..m PROVE h[k] = g[k]
    <3>1. h[k] = Body(g, k)
      <4>1. k \in 0..(m + 1)
        OBVIOUS
      <4> HIDE DEF Body
      <4> QED BY <2>2, <4>1
    <3>2. g[k] = Body(g, k)
      <4> HIDE DEF Body
      <4> QED BY <2>1
    <3> QED BY <3>1, <3>2
  <2>4. ASSUME NEW k \in 0..(m + 1) PROVE Body(g, k) = Body(h, k)
    <3>1. CASE k = 0
      BY <3>1
    <3>2. CASE k # 0
      <4>1. k - 1 \in 0..m
        BY <3>2
      <4>2. h[k - 1] = g[k - 1]
        BY <2>3, <4>1
      <4> QED BY <3>2, <4>2
    <3> QED BY <3>1, <3>2
  <2>5. h = [k \in 0..(m + 1) |-> Body(h, k)]
    <3> HIDE DEF Body
    <3> QED BY <2>2, <2>4
  <2>6. m + 1 \in Nat
    OBVIOUS
  <2> HIDE DEF Body
  <2> QED BY <2>5, <2>6
<1>3. NNodes \in Nat
  BY KnowledgeAssumption
<1>4. NNodes \in K
  <2> HIDE DEF K
  <2> QED BY <1>1, <1>2, <1>3, SetInduction
<1>5. PICK g : g = [k \in 0..NNodes |-> Body(g, k)]
  BY <1>4
<1> QED BY <1>5 DEF IsKahn

LEMMA KahnRuns ==
  ASSUME NEW es
  PROVE  \E L : /\ IsKahn(DependencyEdges(es), L)
                /\ ContainsCycle(es) <=> L[NNodes] # {}
<1> DEFINE C == CHOOSE L : IsKahn(DependencyEdges(es), L)
<1>1. IsKahn(DependencyEdges(es), C)
  <2>1. \E L : IsKahn(DependencyEdges(es), L)
    BY KahnExists
  <2> QED BY <2>1, Zenon
<1>2. ContainsCycle(es) <=> C[NNodes] # {}
  BY Zenon DEF ContainsCycle, IsKahn, Taken
<1> QED BY <1>1, <1>2

\* When nothing is left, the rounds in which nodes go order the dependencies.
LEMMA AcyclicIsOrdered ==
  ASSUME NEW es, es \subseteq Links, ~ ContainsCycle(es)
  PROVE  Ordered(es)
<1>0. NNodes \in Nat
  BY KnowledgeAssumption
<1>1. PICK ds : ds = DependencyEdges(es)
  OBVIOUS
<1>2. PICK L : IsKahn(ds, L) /\ L[NNodes] = {}
  BY <1>1, KahnRuns
<1>3. L[0] = NodeIds /\ \A k \in 1..NNodes : L[k] = Taken(ds, L[k - 1])
  BY <1>0, <1>2 DEF IsKahn
<1> DEFINE Gone(n) == {k \in 0..NNodes : n \notin L[k]}
           IsFirst(n, k) == k \in Gone(n) /\ \A j \in Gone(n) : k <= j
<1>4. ASSUME NEW n \in NodeIds PROVE \E k : IsFirst(n, k)
  <2>1. NNodes \in Gone(n) /\ Gone(n) \subseteq Nat
    BY <1>0, <1>2
  <2> HIDE DEF Gone
  <2> QED BY <2>1, Least
<1>5. PICK d : d = [n \in NodeIds |-> CHOOSE k : IsFirst(n, k)]
  OBVIOUS
<1>6. \A n \in NodeIds : IsFirst(n, d[n])
  <2> HIDE DEF IsFirst
  <2> QED BY <1>4, <1>5
<1>7. ASSUME NEW n \in NodeIds PROVE d[n] \in 1..NNodes
  <2>1. d[n] \in 0..NNodes /\ n \notin L[d[n]]
    BY <1>6
  <2>2. d[n] # 0
    BY <1>3, <2>1
  <2> QED BY <1>0, <2>1, <2>2
<1>8. ASSUME NEW e \in es, e.type \in DependencyTypes PROVE d[e.source] < d[e.target]
  <2>1. e \in ds /\ e.source \in NodeIds /\ e.target \in NodeIds
    BY <1>1, <1>8, KnowledgeAssumption DEF DependencyEdges
  <2>2. PICK k : k = d[e.target]
    OBVIOUS
  <2>3. k \in 1..NNodes /\ d[e.source] \in 1..NNodes /\ k - 1 \in 0..NNodes
    BY <1>0, <1>7, <2>1, <2>2
  <2>4. e.target \notin L[k] /\ e.target \in L[k - 1]
    <3>1. IsFirst(e.target, k)
      <4> HIDE DEF IsFirst
      <4> QED BY <1>6, <2>1, <2>2
    <3>2. k - 1 \notin Gone(e.target)
      BY <2>3, <3>1
    <3> QED BY <2>3, <3>1, <3>2
  <2>5. e.source \notin L[k - 1]
    BY <1>3, <2>1, <2>3, <2>4 DEF Taken
  <2>6. d[e.source] <= k - 1
    <3>1. k - 1 \in Gone(e.source)
      BY <2>3, <2>5
    <3>2. IsFirst(e.source, d[e.source])
      <4> HIDE DEF IsFirst
      <4> QED BY <1>6, <2>1
    <3> QED BY <3>1, <3>2
  <2> QED BY <2>2, <2>3, <2>6
<1>9. PICK rank : rank = [n \in NodeIds |-> NNodes + 1 - d[n]]
  OBVIOUS
<1>10. rank \in [NodeIds -> NodeIds]
  <2>1. ASSUME NEW n \in NodeIds PROVE NNodes + 1 - d[n] \in NodeIds
    BY <1>0, <1>7 DEF NodeIds
  <2> QED BY <1>9, <2>1
<1>11. ASSUME NEW e \in es, e.type \in DependencyTypes PROVE rank[e.source] > rank[e.target]
  <2>1. e.source \in NodeIds /\ e.target \in NodeIds
    BY KnowledgeAssumption
  <2>2. d[e.source] \in 1..NNodes /\ d[e.target] \in 1..NNodes /\ d[e.source] < d[e.target]
    BY <1>7, <1>8, <1>11, <2>1
  <2>3. rank[e.source] = NNodes + 1 - d[e.source] /\ rank[e.target] = NNodes + 1 - d[e.target]
    BY <1>9, <2>1
  <2> QED BY <1>0, <2>2, <2>3
<1> QED BY <1>10, <1>11 DEF Ordered, DependencyTypes

-----------------------------------------------------------------------------
(* The knowledge index: theorems. *)

\* Types of the tables and of the writers.
TablesTyped ==
  /\ meta \in {"none", "ours", "other"} /\ damages \in Nat
  /\ nodes \in [NodeIds -> Submissions \cup {Missing, Broken}]
  /\ terms \in [NodeIds -> Nat \cup {Missing}]
  /\ edges \subseteq Links
  /\ wpc \in [Writers -> {"idle", "target", "put"}]
  /\ wedge \in [Writers -> Links \cup {Missing}]
  /\ \A w \in Writers : wpc[w] # "idle" => wedge[w] \in Links

KnowledgeInv == TablesTyped /\ DependenciesAcyclic

\* A transaction leaves an index whose dependencies are in order.
LEMMA CommitInv ==
  ASSUME KnowledgeInv, NEW ns \in [NodeIds -> Submissions \cup {Missing, Broken}],
         NEW ts \in [NodeIds -> Nat \cup {Missing}], NEW es \in SUBSET Links, Commit(ns, ts, es),
         wpc' \in [Writers -> {"idle", "target", "put"}], wedge' \in [Writers -> Links \cup {Missing}],
         \A w \in Writers : wpc'[w] # "idle" => wedge'[w] \in Links
  PROVE  KnowledgeInv'
<1>1. /\ Integrity(meta, ns, ts, es) /\ nodes' = ns /\ terms' = ts /\ edges' = es
      /\ UNCHANGED <<meta, damages>>
  BY DEF Commit
<1>2. TablesTyped'
  BY <1>1 DEF KnowledgeInv, TablesTyped
<1>3. Ordered(es)
  BY <1>1, AcyclicIsOrdered DEF Integrity
<1>4. ASSUME NEW e \in es, e.type # "relates_to" PROVE IsTask(ns[e.source]) /\ IsTask(ns[e.target])
  <2>1. e \in DependencyEdges(es)
    BY <1>4, KnowledgeAssumption DEF DependencyEdges, DependencyTypes, EdgeTypes
  <2> QED BY <1>1, <2>1 DEF Integrity, EndpointsStored
<1>5. Ordered(edges)'
  BY <1>1, <1>3 DEF Ordered
<1>6. DependenciesAcyclic'
  BY <1>1, <1>4, <1>5 DEF DependenciesAcyclic, IsTask
<1> QED BY <1>2, <1>6 DEF KnowledgeInv

\* Steps that leave the tables alone.
LEMMA TablesKept ==
  ASSUME KnowledgeInv, UNCHANGED <<nodes, terms, edges, damages>>, meta' \in {"none", "ours", "other"},
         wpc' \in [Writers -> {"idle", "target", "put"}], wedge' \in [Writers -> Links \cup {Missing}],
         \A w \in Writers : wpc'[w] # "idle" => wedge'[w] \in Links
  PROVE  KnowledgeInv'
<1>1. TablesTyped'
  BY DEF KnowledgeInv, TablesTyped
<1>2. DependenciesAcyclic'
  BY DEF KnowledgeInv, DependenciesAcyclic, Ordered, IsTask
<1> QED BY <1>1, <1>2 DEF KnowledgeInv

\* A writer that has stopped.
LEMMA StopTyped ==
  ASSUME TablesTyped, NEW w \in Writers, Stop(w)
  PROVE  /\ wpc' \in [Writers -> {"idle", "target", "put"}]
         /\ wedge' \in [Writers -> Links \cup {Missing}]
         /\ \A v \in Writers : wpc'[v] # "idle" => wedge'[v] \in Links
BY DEF TablesTyped, Stop

LEMMA WriteInv == ASSUME KnowledgeInv, Write PROVE KnowledgeInv'
<1> USE DEF KnowledgeInv
<1>1. CASE Initialize
  BY <1>1, TablesKept DEF Initialize, writing, TablesTyped
<1>2. ASSUME NEW s \in Submissions, AddNode(s) PROVE KnowledgeInv'
  <2>1. PICK ns, ts : ns = [nodes EXCEPT ![s.id] = s] /\ ts = [terms EXCEPT ![s.id] = s.weight]
    OBVIOUS
  <2>2. Commit(ns, ts, edges) /\ UNCHANGED <<wpc, wedge>>
    BY <1>2, <2>1 DEF AddNode, writing
  <2>3. s.weight \in Nat
    BY KnowledgeAssumption
  <2>4. ns \in [NodeIds -> Submissions \cup {Missing, Broken}] /\ ts \in [NodeIds -> Nat \cup {Missing}]
    BY <2>1, <2>3 DEF TablesTyped
  <2> QED BY <2>2, <2>4, CommitInv DEF TablesTyped
<1>3. ASSUME NEW w \in Writers, NEW e \in Links, AddEdge(w, e) PROVE KnowledgeInv'
  <2>1. /\ wpc' \in [Writers -> {"idle", "target", "put"}]
        /\ wedge' \in [Writers -> Links \cup {Missing}]
        /\ \A v \in Writers : wpc'[v] # "idle" => wedge'[v] \in Links
    BY <1>3 DEF AddEdge, TablesTyped
  <2> QED BY <1>3, <2>1, TablesKept DEF AddEdge, tables, TablesTyped
<1>4. ASSUME NEW w \in Writers, ReadTarget(w) PROVE KnowledgeInv'
  <2>1. CASE Stop(w)
    BY <1>4, <2>1, StopTyped, TablesKept DEF ReadTarget, tables, TablesTyped
  <2>2. CASE wpc' = [wpc EXCEPT ![w] = "put"] /\ UNCHANGED wedge
    <3>1. wpc[w] = "target"
      BY <1>4 DEF ReadTarget
    <3>2. /\ wpc' \in [Writers -> {"idle", "target", "put"}]
          /\ wedge' \in [Writers -> Links \cup {Missing}]
          /\ \A v \in Writers : wpc'[v] # "idle" => wedge'[v] \in Links
      BY <2>2, <3>1 DEF TablesTyped
    <3> QED BY <1>4, <3>2, TablesKept DEF ReadTarget, tables, TablesTyped
  <2> QED BY <1>4, <2>1, <2>2 DEF ReadTarget
<1>5. ASSUME NEW w \in Writers, PutEdge(w) PROVE KnowledgeInv'
  <2>1. PICK new : new = edges \cup {wedge[w]}
    OBVIOUS
  <2>2. Stop(w) /\ (Commit(nodes, terms, new) \/ UNCHANGED <<tables, damages>>)
    BY <1>5, <2>1 DEF PutEdge
  <2>3. new \in SUBSET Links
    BY <1>5, <2>1 DEF PutEdge, TablesTyped
  <2>4. CASE Commit(nodes, terms, new)
    BY <2>2, <2>3, <2>4, StopTyped, CommitInv DEF TablesTyped
  <2>5. CASE UNCHANGED <<tables, damages>>
    BY <2>2, <2>5, StopTyped, TablesKept DEF tables, TablesTyped
  <2> QED BY <2>2, <2>4, <2>5
<1> QED BY <1>1, <1>2, <1>3, <1>4, <1>5 DEF Write

LEMMA TamperInv ==
  ASSUME KnowledgeInv, NEW m \in {"none", "ours", "other"},
         NEW ns \in [NodeIds -> Submissions \cup {Missing, Broken}],
         NEW ts \in [NodeIds -> Nat \cup {Missing}], NEW es \in SUBSET Links, Tamper(m, ns, ts, es)
  PROVE  KnowledgeInv'
<1>1. TablesTyped' /\ damages' # 0
  BY DEF KnowledgeInv, TablesTyped, Tamper, writing
<1> QED BY <1>1 DEF KnowledgeInv, DependenciesAcyclic

LEMMA DamageInv == ASSUME KnowledgeInv, Damage PROVE KnowledgeInv'
<1> USE DEF KnowledgeInv
<1>1. CASE Tamper("other", nodes, terms, edges)
  BY <1>1, TamperInv DEF TablesTyped
<1>2. ASSUME NEW e \in Links \ edges, Tamper(meta, nodes, terms, edges \cup {e}) PROVE KnowledgeInv'
  <2>1. edges \cup {e} \in SUBSET Links
    BY DEF TablesTyped
  <2> QED BY <1>2, <2>1, TamperInv DEF TablesTyped
<1>3. ASSUME NEW n \in NodeIds, Tamper(meta, [nodes EXCEPT ![n] = Broken], terms, edges) PROVE KnowledgeInv'
  <2>1. [nodes EXCEPT ![n] = Broken] \in [NodeIds -> Submissions \cup {Missing, Broken}]
    BY DEF TablesTyped
  <2> QED BY <1>3, <2>1, TamperInv DEF TablesTyped
<1>4. ASSUME NEW n \in NodeIds, Tamper(meta, nodes, [terms EXCEPT ![n] = Missing], edges) PROVE KnowledgeInv'
  <2>1. [terms EXCEPT ![n] = Missing] \in [NodeIds -> Nat \cup {Missing}]
    BY DEF TablesTyped
  <2> QED BY <1>4, <2>1, TamperInv DEF TablesTyped
<1>5. ASSUME NEW n \in NodeIds, NEW s \in Submissions,
             Tamper(meta, [nodes EXCEPT ![n] = s], [terms EXCEPT ![n] = s.weight], edges)
      PROVE  KnowledgeInv'
  <2>1. s.weight \in Nat
    BY KnowledgeAssumption
  <2>2. /\ [nodes EXCEPT ![n] = s] \in [NodeIds -> Submissions \cup {Missing, Broken}]
        /\ [terms EXCEPT ![n] = s.weight] \in [NodeIds -> Nat \cup {Missing}]
    BY <2>1 DEF TablesTyped
  <2> QED BY <1>5, <2>2, TamperInv DEF TablesTyped
<1> QED BY <1>1, <1>2, <1>3, <1>4, <1>5 DEF Damage

\* Readers write nothing.
LEMMA ReadersWriteNothing ==
  ASSUME NEW r \in Readers, ReadStep(r)
  PROVE  UNCHANGED <<tables, damages, writing>>
<1>1. CASE \E q \in Requests : Ask(r, q)
  BY <1>1 DEF Ask
<1>2. CASE Open(r) \/ Proceed(r) \/ Score(r) \/ Return(r) \/ Render(r) \/ Finished(r)
  BY <1>2 DEF Open, Proceed, Score, Return, Render, Finished
<1>3. CASE \E n \in NodeIds : ReadNode(r, n) \/ ReadEdges(r, n)
  BY <1>3 DEF ReadNode, ReadEdges
<1> QED BY <1>1, <1>2, <1>3 DEF ReadStep

LEMMA KnowledgeStart == ASSUME KInit PROVE KnowledgeInv
<1>1. TablesTyped
  BY DEF KInit, TablesTyped, Blank
<1>2. Ordered({})
  <2>1. [n \in NodeIds |-> n] \in [NodeIds -> NodeIds]
    OBVIOUS
  <2> QED BY <2>1 DEF Ordered
<1>3. DependenciesAcyclic
  BY <1>2 DEF KInit, DependenciesAcyclic
<1> QED BY <1>1, <1>3 DEF KnowledgeInv

LEMMA KnowledgeStep == ASSUME KnowledgeInv, [KNext]_kvars PROVE KnowledgeInv'
<1>1. CASE UNCHANGED <<tables, damages, writing>>
  <2>1. UNCHANGED <<meta, nodes, terms, edges, damages, wpc, wedge>>
    BY <1>1 DEF tables, writing
  <2> QED BY <2>1, TablesKept DEF KnowledgeInv, TablesTyped
<1>2. CASE UNCHANGED kvars
  BY <1>1, <1>2 DEF kvars
<1> QED BY <1>1, <1>2, WriteInv, DamageInv, ReadersWriteNothing DEF KNext

\* Writers, readers and whoever damages the file keep the types of the tables, and
\* the dependencies in order as long as nobody has.
THEOREM KnowledgeInvariant == KSpec => []KnowledgeInv
<1>1. KInit => KnowledgeInv
  BY KnowledgeStart
<1>2. KnowledgeInv /\ [KNext]_kvars => KnowledgeInv'
  BY KnowledgeStep
<1> QED BY <1>1, <1>2, PTL DEF KSpec

\* Writers never close a cycle of dependencies between them, for any number of nodes:
\* Kahn's algorithm, run on the whole index in each transaction, finds every one.
THEOREM NoDependencyCycles == KSpec => []DependenciesAcyclic
<1>1. KnowledgeInv => DependenciesAcyclic
  BY DEF KnowledgeInv
<1> QED BY <1>1, KnowledgeInvariant, PTL

\* Nobody writes to an index that somebody has damaged (put_node, put_edge).
THEOREM CorruptStaysFrozen == KSpec => CorruptIsFrozen
<1> DEFINE Frozen ==
      damages' = damages /\ tables' # tables /\ meta # "none" =>
        /\ meta = "ours" /\ Ordered(edges)
        /\ \A n \in NodeIds : nodes[n] # Broken /\ (nodes[n] = Missing <=> terms[n] = Missing)
<1>1. KnowledgeInv /\ [KNext]_kvars => [Frozen]_kvars
  <2> SUFFICES ASSUME KnowledgeInv, KNext, damages' = damages, tables' # tables, meta # "none"
               PROVE  /\ meta = "ours" /\ Ordered(edges)
                      /\ \A n \in NodeIds : nodes[n] # Broken /\ (nodes[n] = Missing <=> terms[n] = Missing)
    OBVIOUS
  <2>1. Intact
    <3>1. ~ Damage
      <4>1. ASSUME NEW m, NEW ns, NEW ts, NEW es, Tamper(m, ns, ts, es) PROVE FALSE
        BY <4>1 DEF Tamper, KnowledgeInv, TablesTyped
      <4> QED BY <4>1 DEF Damage
    <3>2. \A r \in Readers : ~ ReadStep(r)
      BY ReadersWriteNothing
    <3>3. Write
      BY <3>1, <3>2 DEF KNext
    <3>4. ASSUME NEW ns, NEW ts, NEW es, Commit(ns, ts, es) PROVE Intact
      BY <3>4 DEF Commit
    <3>5. CASE \E s \in Submissions : AddNode(s)
      BY <3>4, <3>5 DEF AddNode
    <3>6. CASE \E w \in Writers : (\E e \in Links : AddEdge(w, e)) \/ ReadTarget(w)
      BY <3>6 DEF AddEdge, ReadTarget
    <3>7. CASE \E w \in Writers : PutEdge(w)
      BY <3>7 DEF PutEdge
    <3> QED BY <3>3, <3>5, <3>6, <3>7 DEF Write, Initialize
  <2>2. meta = "ours" /\ ~ ContainsCycle(edges)
    BY <2>1 DEF Intact, Integrity
  <2>3. Ordered(edges)
    BY <2>2, AcyclicIsOrdered DEF KnowledgeInv, TablesTyped
  <2>4. ASSUME NEW n \in NodeIds PROVE nodes[n] # Broken /\ (nodes[n] = Missing <=> terms[n] = Missing)
    <3>1. nodes[n] # Broken /\ terms[n] = WeightOf(nodes[n])
      BY <2>1 DEF Intact, Integrity, TermsMatch
    <3>2. nodes[n] \in Submissions \cup {Missing, Broken}
      BY DEF KnowledgeInv, TablesTyped
    <3>3. nodes[n] # Missing => WeightOf(nodes[n]) \in Nat
      BY <3>1, <3>2, KnowledgeAssumption DEF WeightOf
    <3> QED BY <3>1, <3>3, KnowledgeAssumption DEF WeightOf
  <2> QED BY <2>2, <2>3, <2>4
<1> QED BY <1>1, KnowledgeInvariant, PTL DEF KSpec, CorruptIsFrozen

-----------------------------------------------------------------------------
(* The readers of the knowledge index: walks. *)

\* One more level.
Spread(next, S) == S \cup UNION {next[n] : n \in S}

\* The levels of a walk.
IsWalk(next, start, d, W) ==
  W = [k \in 0..d |-> IF k = 0 THEN {start} ELSE Spread(next, W[k - 1])]

LEMMA WalkExists ==
  ASSUME NEW next, NEW start, NEW d \in Nat
  PROVE  \E W : IsWalk(next, start, d, W)
<1> DEFINE Body(g, k) == IF k = 0 THEN {start} ELSE Spread(next, g[k - 1])
           K == {m \in Nat : \E g : g = [k \in 0..m |-> Body(g, k)]}
<1>1. 0 \in K
  <2>1. PICK g : g = [k \in 0..0 |-> {start}]
    OBVIOUS
  <2>2. g = [k \in 0..0 |-> Body(g, k)]
    BY <2>1
  <2> QED BY <2>2
<1>2. ASSUME NEW m \in Nat, m \in K PROVE m + 1 \in K
  <2>1. PICK g : g = [k \in 0..m |-> Body(g, k)]
    BY <1>2
  <2>2. PICK h : h = [k \in 0..(m + 1) |-> Body(g, k)]
    OBVIOUS
  <2>3. ASSUME NEW k \in 0..m PROVE h[k] = g[k]
    <3>1. h[k] = Body(g, k)
      <4>1. k \in 0..(m + 1)
        OBVIOUS
      <4> HIDE DEF Body
      <4> QED BY <2>2, <4>1
    <3>2. g[k] = Body(g, k)
      <4> HIDE DEF Body
      <4> QED BY <2>1
    <3> QED BY <3>1, <3>2
  <2>4. ASSUME NEW k \in 0..(m + 1) PROVE Body(g, k) = Body(h, k)
    <3>1. CASE k = 0
      BY <3>1
    <3>2. CASE k # 0
      <4>1. k - 1 \in 0..m
        BY <3>2
      <4>2. h[k - 1] = g[k - 1]
        BY <2>3, <4>1
      <4> QED BY <3>2, <4>2
    <3> QED BY <3>1, <3>2
  <2>5. h = [k \in 0..(m + 1) |-> Body(h, k)]
    <3> HIDE DEF Body
    <3> QED BY <2>2, <2>4
  <2>6. m + 1 \in Nat
    OBVIOUS
  <2> HIDE DEF Body
  <2> QED BY <2>5, <2>6
<1>4. d \in K
  <2> HIDE DEF K
  <2> QED BY <1>1, <1>2, SetInduction
<1>5. PICK g : g = [k \in 0..d |-> Body(g, k)]
  BY <1>4
<1> QED BY <1>5 DEF IsWalk

LEMMA WalkRuns ==
  ASSUME NEW next, NEW start, NEW d \in Nat
  PROVE  \E W : IsWalk(next, start, d, W) /\ Walk(next, start, d) = W[d]
<1> DEFINE C == CHOOSE W : IsWalk(next, start, d, W)
<1>1. IsWalk(next, start, d, C)
  <2>1. \E W : IsWalk(next, start, d, W)
    BY WalkExists
  <2> QED BY <2>1, Zenon
<1>2. Walk(next, start, d) = C[d]
  BY Zenon DEF Walk, IsWalk, Spread
<1> QED BY <1>1, <1>2

LEMMA WalkZero ==
  ASSUME NEW next, NEW start
  PROVE  Walk(next, start, 0) = {start}
<1>1. PICK W : IsWalk(next, start, 0, W) /\ Walk(next, start, 0) = W[0]
  BY WalkRuns
<1> QED BY <1>1 DEF IsWalk

\* A deeper walk goes through the same levels.
LEMMA WalkStep ==
  ASSUME NEW next, NEW start, NEW d \in Nat
  PROVE  Walk(next, start, d + 1) = Spread(next, Walk(next, start, d))
<1>1. PICK V : IsWalk(next, start, d, V) /\ Walk(next, start, d) = V[d]
  BY WalkRuns
<1>2. PICK W : IsWalk(next, start, d + 1, W) /\ Walk(next, start, d + 1) = W[d + 1]
  BY WalkRuns
<1> DEFINE K == {k \in Nat : k <= d => V[k] = W[k]}
<1>3. 0 \in K
  BY <1>1, <1>2 DEF IsWalk
<1>4. ASSUME NEW k \in Nat, k \in K PROVE k + 1 \in K
  <2> SUFFICES ASSUME k + 1 <= d PROVE V[k + 1] = W[k + 1]
    OBVIOUS
  <2>1. V[k] = W[k]
    BY <1>4
  <2>2. k + 1 \in 0..d /\ k + 1 \in 0..(d + 1) /\ k + 1 # 0 /\ (k + 1) - 1 = k
    OBVIOUS
  <2>3. V[k + 1] = Spread(next, V[k])
    BY <1>1, <2>2 DEF IsWalk
  <2>4. W[k + 1] = Spread(next, W[k])
    BY <1>2, <2>2 DEF IsWalk
  <2> QED BY <2>1, <2>3, <2>4
<1>5. d \in K
  <2> HIDE DEF K
  <2> QED BY <1>3, <1>4, SetInduction
<1>6. V[d] = W[d]
  BY <1>5
<1>7. d + 1 \in 0..(d + 1) /\ d + 1 # 0 /\ (d + 1) - 1 = d
  OBVIOUS
<1>8. W[d + 1] = Spread(next, W[d])
  BY <1>2, <1>7 DEF IsWalk
<1> QED BY <1>1, <1>2, <1>6, <1>8

\* What a walk reaches it keeps.
LEMMA WalkGrows ==
  ASSUME NEW next, NEW start, NEW d \in Nat, NEW k \in 0..d
  PROVE  Walk(next, start, k) \subseteq Walk(next, start, d)
<1> DEFINE K == {m \in Nat : \A j \in 0..m : Walk(next, start, j) \subseteq Walk(next, start, m)}
<1>1. 0 \in K
  OBVIOUS
<1>2. ASSUME NEW m \in Nat, m \in K PROVE m + 1 \in K
  <2>1. Walk(next, start, m) \subseteq Walk(next, start, m + 1)
    BY WalkStep DEF Spread
  <2>2. ASSUME NEW j \in 0..(m + 1) PROVE Walk(next, start, j) \subseteq Walk(next, start, m + 1)
    <3>1. CASE j = m + 1
      BY <3>1
    <3>2. CASE j \in 0..m
      BY <1>2, <2>1, <3>2
    <3> QED BY <3>1, <3>2
  <2> QED BY <2>2
<1>3. d \in K
  <2> HIDE DEF K
  <2> QED BY <1>1, <1>2, SetInduction
<1> QED BY <1>3

\* Two walks agree as far as what they follow does.
LEMMA WalkAgrees ==
  ASSUME NEW f, NEW g, NEW start, NEW d \in Nat,
         \A n \in Walk(f, start, d) : f[n] = g[n],
         NEW k \in 0..(d + 1)
  PROVE  Walk(f, start, k) = Walk(g, start, k)
<1> DEFINE K == {m \in Nat : m <= d + 1 => Walk(f, start, m) = Walk(g, start, m)}
<1>1. 0 \in K
  BY WalkZero
<1>2. ASSUME NEW m \in Nat, m \in K PROVE m + 1 \in K
  <2> SUFFICES ASSUME m + 1 <= d + 1 PROVE Walk(f, start, m + 1) = Walk(g, start, m + 1)
    OBVIOUS
  <2>1. Walk(f, start, m) = Walk(g, start, m)
    BY <1>2
  <2>2. \A n \in Walk(f, start, m) : f[n] = g[n]
    BY WalkGrows
  <2>3. PICK S : S = Walk(f, start, m)
    OBVIOUS
  <2>4. Spread(f, S) = Spread(g, S)
    BY <2>2, <2>3 DEF Spread
  <2> QED BY <2>1, <2>3, <2>4, WalkStep
<1>3. k \in K
  <2> HIDE DEF K
  <2> QED BY <1>1, <1>2, SetInduction
<1> QED BY <1>3

\* A walk over nodes stays among them.
LEMMA WalkTyped ==
  ASSUME NEW next, NEW S, NEW start \in S, NEW d \in Nat, \A n \in S : next[n] \subseteq S
  PROVE  Walk(next, start, d) \subseteq S
<1> DEFINE K == {m \in Nat : Walk(next, start, m) \subseteq S}
<1>1. 0 \in K
  BY WalkZero
<1>2. ASSUME NEW m \in Nat, m \in K PROVE m + 1 \in K
  <2>1. Walk(next, start, m + 1) = Spread(next, Walk(next, start, m))
    BY WalkStep
  <2> QED BY <1>2, <2>1 DEF Spread
<1>3. d \in K
  <2> HIDE DEF K
  <2> QED BY <1>1, <1>2, SetInduction
<1> QED BY <1>3

-----------------------------------------------------------------------------
(* Walks and distances. *)

\* next follows the relation R between nodes.
Follow(next, R) == \A n \in NodeIds : next[n] = {m \in NodeIds : <<n, m>> \in R}

LEMMA JoinedZero ==
  ASSUME NEW R, NEW a \in NodeIds, NEW b
  PROVE  Joined(R, a, b, 0) <=> a = b
<1>1. ASSUME a = b PROVE Joined(R, a, b, 0)
  <2>1. PICK path : path = [i \in 0..0 |-> a]
    OBVIOUS
  <2>2. path \in [0..0 -> NodeIds] /\ path[0] = a
    BY <2>1
  <2>3. \A i \in 0..(0 - 1) : FALSE
    OBVIOUS
  <2> QED BY <1>1, <2>2, <2>3 DEF Joined
<1>2. ASSUME Joined(R, a, b, 0) PROVE a = b
  BY <1>2 DEF Joined
<1> QED BY <1>1, <1>2

LEMMA JoinedTyped ==
  ASSUME NEW R, NEW a, NEW b, NEW k \in Nat, Joined(R, a, b, k)
  PROVE  a \in NodeIds /\ b \in NodeIds
BY DEF Joined

\* A path with one more edge.
LEMMA JoinedStep ==
  ASSUME NEW R, NEW a, NEW b \in NodeIds, NEW k \in Nat
  PROVE  Joined(R, a, b, k + 1) <=> \E m \in NodeIds : Joined(R, a, m, k) /\ <<m, b>> \in R
<1>1. ASSUME Joined(R, a, b, k + 1) PROVE \E m \in NodeIds : Joined(R, a, m, k) /\ <<m, b>> \in R
  <2>1. PICK path \in [0..(k + 1) -> NodeIds] :
          /\ path[0] = a /\ path[k + 1] = b
          /\ \A i \in 0..((k + 1) - 1) : <<path[i], path[i + 1]>> \in R
    BY <1>1 DEF Joined
  <2>2. PICK p : p = [i \in 0..k |-> path[i]]
    OBVIOUS
  <2>3. p \in [0..k -> NodeIds] /\ p[0] = a /\ p[k] = path[k]
    BY <2>1, <2>2
  <2>4. ASSUME NEW i \in 0..(k - 1) PROVE <<p[i], p[i + 1]>> \in R
    <3>1. i \in 0..k /\ i + 1 \in 0..k /\ i \in 0..((k + 1) - 1)
      OBVIOUS
    <3> QED BY <2>1, <2>2, <3>1
  <2>5. Joined(R, a, path[k], k)
    BY <2>3, <2>4 DEF Joined
  <2>6. k \in 0..((k + 1) - 1) /\ k \in 0..(k + 1)
    OBVIOUS
  <2> QED BY <2>1, <2>5, <2>6
<1>2. ASSUME NEW m \in NodeIds, Joined(R, a, m, k), <<m, b>> \in R PROVE Joined(R, a, b, k + 1)
  <2>1. PICK path \in [0..k -> NodeIds] :
          /\ path[0] = a /\ path[k] = m
          /\ \A i \in 0..(k - 1) : <<path[i], path[i + 1]>> \in R
    BY <1>2 DEF Joined
  <2>2. PICK p : p = [i \in 0..(k + 1) |-> IF i = k + 1 THEN b ELSE path[i]]
    OBVIOUS
  <2>3. p \in [0..(k + 1) -> NodeIds]
    <3>1. ASSUME NEW i \in 0..(k + 1) PROVE (IF i = k + 1 THEN b ELSE path[i]) \in NodeIds
      <4>1. i = k + 1 \/ i \in 0..k
        OBVIOUS
      <4> QED BY <2>1, <4>1
    <3> QED BY <2>2, <3>1
  <2>4. p[0] = a /\ p[k + 1] = b
    BY <2>1, <2>2
  <2>5. ASSUME NEW i \in 0..((k + 1) - 1) PROVE <<p[i], p[i + 1]>> \in R
    <3>1. i \in 0..(k + 1) /\ i # k + 1 /\ i + 1 \in 0..(k + 1)
      OBVIOUS
    <3>2. p[i] = path[i]
      BY <2>2, <3>1
    <3>3. CASE i = k
      <4>1. p[i + 1] = b
        BY <2>4, <3>3
      <4> QED BY <1>2, <2>1, <3>2, <3>3, <4>1
    <3>4. CASE i # k
      <4>1. i \in 0..(k - 1) /\ i + 1 # k + 1
        BY <3>4
      <4>2. p[i + 1] = path[i + 1]
        BY <2>2, <3>1, <4>1
      <4> QED BY <2>1, <3>2, <4>1, <4>2
    <3> QED BY <3>3, <3>4
  <2> QED BY <2>3, <2>4, <2>5 DEF Joined
<1> QED BY <1>1, <1>2

\* A walk of k levels reaches what paths of at most k edges lead to.
LEMMA WalkIsPaths ==
  ASSUME NEW next, NEW R, Follow(next, R), NEW a \in NodeIds, NEW d \in Nat, NEW n
  PROVE  n \in Walk(next, a, d) <=> \E j \in 0..d : Joined(R, a, n, j)
<1> DEFINE K == {m \in Nat : \A x : x \in Walk(next, a, m) <=> \E j \in 0..m : Joined(R, a, x, j)}
<1>1. 0 \in K
  <2>1. \A x : x \in Walk(next, a, 0) <=> Joined(R, a, x, 0)
    BY WalkZero, JoinedZero
  <2>2. 0..0 = {0}
    OBVIOUS
  <2> QED BY <2>1, <2>2
<1>2. ASSUME NEW m \in Nat, m \in K PROVE m + 1 \in K
  <2>0. Walk(next, a, m + 1) = Spread(next, Walk(next, a, m))
    BY WalkStep
  <2>1. ASSUME NEW x, x \in Walk(next, a, m + 1) PROVE \E j \in 0..(m + 1) : Joined(R, a, x, j)
    <3>1. CASE x \in Walk(next, a, m)
      <4>1. PICK j \in 0..m : Joined(R, a, x, j)
        BY <1>2, <3>1
      <4> QED BY <4>1
    <3>2. CASE x \notin Walk(next, a, m)
      <4>1. PICK y \in Walk(next, a, m) : x \in next[y]
        BY <2>0, <2>1, <3>2 DEF Spread
      <4>2. PICK j \in 0..m : Joined(R, a, y, j)
        BY <1>2, <4>1
      <4>3. y \in NodeIds
        BY <4>2, JoinedTyped
      <4>4. x \in NodeIds /\ <<y, x>> \in R
        BY <4>1, <4>3 DEF Follow
      <4>5. Joined(R, a, x, j + 1)
        BY <4>2, <4>3, <4>4, JoinedStep
      <4>6. j + 1 \in 0..(m + 1)
        OBVIOUS
      <4> QED BY <4>5, <4>6
    <3> QED BY <3>1, <3>2
  <2>2. ASSUME NEW x, NEW j \in 0..(m + 1), Joined(R, a, x, j) PROVE x \in Walk(next, a, m + 1)
    <3>1. CASE j \in 0..m
      BY <1>2, <2>0, <2>2, <3>1 DEF Spread
    <3>2. CASE j = m + 1
      <4>1. x \in NodeIds
        BY <2>2, JoinedTyped
      <4>2. PICK y \in NodeIds : Joined(R, a, y, m) /\ <<y, x>> \in R
        BY <2>2, <3>2, <4>1, JoinedStep
      <4>3. y \in Walk(next, a, m)
        BY <1>2, <4>2
      <4>4. x \in next[y]
        BY <4>1, <4>2 DEF Follow
      <4> QED BY <2>0, <4>3, <4>4 DEF Spread
    <3> QED BY <3>1, <3>2
  <2> QED BY <2>1, <2>2
<1>3. d \in K
  <2> HIDE DEF K
  <2> QED BY <1>1, <1>2, SetInduction
<1> QED BY <1>3

\* The level at which a walk finds a node.
LevelIn(next, a, d, n) == Level([j \in 0..d |-> Walk(next, a, j)], n)

LEMMA LevelFacts ==
  ASSUME NEW next, NEW a, NEW d \in Nat, NEW n \in Walk(next, a, d),
         NEW k, k = LevelIn(next, a, d, n)
  PROVE  k \in 0..d /\ n \in Walk(next, a, k) /\ \A j \in 0..(k - 1) : n \notin Walk(next, a, j)
<1> DEFINE within == [j \in 0..d |-> Walk(next, a, j)]
           T == {j \in 0..d : n \in Walk(next, a, j)}
           First(x) == n \in within[x] /\ \A j \in 0..(x - 1) : n \notin within[j]
<1>1. PICK x \in T : \A y \in T : x <= y
  <2>1. T \subseteq Nat /\ d \in T
    OBVIOUS
  <2> HIDE DEF T
  <2> QED BY <2>1, Least
<1>2. x \in 0..d /\ First(x)
  BY <1>1
<1>3. k = CHOOSE y \in 0..d : First(y)
  BY DEF Level, LevelIn
<1>4. k \in 0..d /\ First(k)
  <2> HIDE DEF First
  <2> QED BY <1>2, <1>3
<1>5. within[k] = Walk(next, a, k) /\ \A j \in 0..(k - 1) : within[j] = Walk(next, a, j)
  BY <1>4
<1>6. n \in within[k] /\ \A j \in 0..(k - 1) : n \notin within[j]
  BY <1>4
<1> HIDE DEF within
<1> QED BY <1>4, <1>5, <1>6

\* The level is the distance.
LEMMA LevelIsDistance ==
  ASSUME NEW next, NEW R, Follow(next, R), NEW a \in NodeIds, NEW d \in Nat, NEW n, NEW k
  PROVE  <<n, k>> \in Distances(R, a, d)
           <=> n \in Walk(next, a, d) \ {a} /\ k = LevelIn(next, a, d, n)
<1>1. ASSUME n \in Walk(next, a, d) \ {a}, k = LevelIn(next, a, d, n)
      PROVE  <<n, k>> \in Distances(R, a, d)
  <2>1. k \in 0..d /\ n \in Walk(next, a, k) /\ \A j \in 0..(k - 1) : n \notin Walk(next, a, j)
    BY <1>1, LevelFacts
  <2>2. k # 0
    BY <1>1, <2>1, WalkZero
  <2>3. PICK i \in 0..k : Joined(R, a, n, i)
    BY <2>1, WalkIsPaths
  <2>4. ASSUME NEW j \in 0..(k - 1), Joined(R, a, n, j) PROVE FALSE
    <3>1. j \in Nat /\ j \in 0..j
      BY <2>1
    <3>2. n \in Walk(next, a, j)
      BY <2>4, <3>1, WalkIsPaths
    <3> QED BY <2>1, <3>2
  <2>5. i = k
    BY <2>1, <2>3, <2>4
  <2>6. n \in NodeIds
    BY <2>1, <2>3, JoinedTyped
  <2>7. k \in 1..d /\ \A j \in 1..(k - 1) : ~ Joined(R, a, n, j)
    BY <2>1, <2>2, <2>4
  <2> QED BY <1>1, <2>3, <2>5, <2>6, <2>7 DEF Distances
<1>2. ASSUME <<n, k>> \in Distances(R, a, d)
      PROVE  n \in Walk(next, a, d) \ {a} /\ k = LevelIn(next, a, d, n)
  <2>1. /\ n \in NodeIds \ {a} /\ k \in 1..d
        /\ Joined(R, a, n, k) /\ \A j \in 1..(k - 1) : ~ Joined(R, a, n, j)
    BY <1>2 DEF Distances
  <2>2. n \in Walk(next, a, d) /\ n \in Walk(next, a, k)
    <3>1. k \in 0..d /\ k \in 0..k /\ k \in Nat
      BY <2>1
    <3> QED BY <2>1, <3>1, WalkIsPaths
  <2>3. PICK l : l = LevelIn(next, a, d, n)
    OBVIOUS
  <2>4. l \in 0..d /\ n \in Walk(next, a, l) /\ \A j \in 0..(l - 1) : n \notin Walk(next, a, j)
    BY <2>2, <2>3, LevelFacts
  <2>5. PICK i \in 0..l : Joined(R, a, n, i)
    BY <2>4, WalkIsPaths
  <2>6. i # 0
    BY <2>1, <2>5, JoinedZero
  <2>7. ~ (i < k)
    BY <2>1, <2>4, <2>5, <2>6
  <2>8. ~ (k < l)
    BY <2>1, <2>2, <2>4
  <2> QED BY <2>1, <2>2, <2>3, <2>4, <2>5, <2>7, <2>8
<1> QED BY <1>1, <1>2

\* A walk that still grows has found as many nodes as it has levels.
LEMMA WalkCounts ==
  ASSUME NEW next, NEW a \in NodeIds, NEW d \in Nat, \A n \in NodeIds : next[n] \subseteq NodeIds,
         Walk(next, a, d + 1) # Walk(next, a, d)
  PROVE  d + 1 < NNodes
<1>0. NNodes \in Nat
  BY KnowledgeAssumption
<1>1. IsFiniteSet(NodeIds) /\ Cardinality(NodeIds) = NNodes
  <2>1. IsFiniteSet(1..NNodes) /\ Cardinality(1..NNodes) = IF 1 > NNodes THEN 0 ELSE NNodes - 1 + 1
    BY <1>0, FS_Interval
  <2>2. Cardinality(1..NNodes) = NNodes
    BY <1>0, <2>1
  <2> QED BY <2>1, <2>2 DEF NodeIds
<1> DEFINE W(k) == Walk(next, a, k)
           K == {k \in Nat : W(k + 1) # W(k) => Cardinality(W(k)) >= k + 1}
<1>2. ASSUME NEW k \in Nat
      PROVE  W(k) \subseteq NodeIds /\ IsFiniteSet(W(k)) /\ Cardinality(W(k)) \in Nat
  <2>1. W(k) \subseteq NodeIds
    BY WalkTyped
  <2> QED BY <1>1, <2>1, FS_Subset, FS_CardinalityType
<1>3. ASSUME NEW k \in Nat, W(k + 1) # W(k) PROVE Cardinality(W(k + 1)) >= Cardinality(W(k)) + 1
  <2>1. W(k) \subseteq W(k + 1)
    BY WalkStep DEF Spread
  <2>2. PICK S, T : S = W(k) /\ T = W(k + 1)
    OBVIOUS
  <2>3. IsFiniteSet(T) /\ S \subseteq T /\ S # T /\ Cardinality(S) \in Nat /\ Cardinality(T) \in Nat
    BY <1>2, <1>3, <2>1, <2>2
  <2>4. Cardinality(S) <= Cardinality(T) /\ Cardinality(S) # Cardinality(T)
    BY <2>3, FS_Subset
  <2>5. Cardinality(T) >= Cardinality(S) + 1
    BY <2>3, <2>4
  <2> QED BY <2>2, <2>5
<1>4. 0 \in K
  <2>1. W(0) = {a}
    BY WalkZero
  <2>2. Cardinality({a}) = 1
    BY FS_Singleton
  <2> QED BY <2>1, <2>2
<1>5. ASSUME NEW k \in Nat, k \in K PROVE k + 1 \in K
  <2> SUFFICES ASSUME W((k + 1) + 1) # W(k + 1) PROVE Cardinality(W(k + 1)) >= (k + 1) + 1
    OBVIOUS
  <2>1. W(k + 1) # W(k)
    <3>1. W((k + 1) + 1) = Spread(next, W(k + 1)) /\ W(k + 1) = Spread(next, W(k))
      BY WalkStep
    <3> HIDE DEF W
    <3> QED BY <3>1
  <2>2. Cardinality(W(k)) >= k + 1 /\ Cardinality(W(k + 1)) >= Cardinality(W(k)) + 1
    <3>1. Cardinality(W(k)) >= k + 1
      BY <1>5, <2>1
    <3> HIDE DEF W
    <3> QED BY <1>3, <2>1, <3>1
  <2>3. Cardinality(W(k)) \in Nat /\ Cardinality(W(k + 1)) \in Nat
    BY <1>2
  <2> HIDE DEF W
  <2> QED BY <2>2, <2>3
<1>6. d \in K
  <2> HIDE DEF K
  <2> QED BY <1>4, <1>5, SetInduction
<1>7. Cardinality(W(d)) >= d + 1 /\ Cardinality(W(d + 1)) >= Cardinality(W(d)) + 1
  <2>1. Cardinality(W(d)) >= d + 1
    BY <1>6
  <2>2. W(d + 1) # W(d)
    OBVIOUS
  <2> HIDE DEF W
  <2> QED BY <1>3, <2>1, <2>2
<1>8. W(d + 1) \subseteq NodeIds /\ Cardinality(W(d)) \in Nat /\ Cardinality(W(d + 1)) \in Nat
  BY <1>2
<1>9. Cardinality(W(d + 1)) <= NNodes
  <2> HIDE DEF W
  <2> QED BY <1>1, <1>8, FS_Subset
<1> HIDE DEF W
<1> QED BY <1>0, <1>7, <1>8, <1>9

-----------------------------------------------------------------------------
(* Dependencies that are completed. *)

\* Whatever is below a task has a smaller rank.
LEMMA RankFalls ==
  ASSUME NEW next, NEW es, es \subseteq Links, NEW rev, rev.edges = es, Follow(next, Depending(rev)),
         NEW rank \in [NodeIds -> NodeIds],
         \A e \in es : e.type \in {"depends_on", "requires"} => rank[e.source] > rank[e.target],
         NEW t \in NodeIds, NEW d \in Nat, NEW n \in Walk(next, t, d)
  PROVE  n \in NodeIds /\ (n = t \/ rank[n] < rank[t])
<1>1. ASSUME NEW x \in NodeIds, NEW y \in NodeIds, <<x, y>> \in Depending(rev)
      PROVE  rank[x] > rank[y]
  <2>1. PICK e \in es : e.type # "relates_to" /\ <<e.source, e.target>> = <<x, y>>
    BY <1>1 DEF Depending
  <2>2. e.type \in {"depends_on", "requires"} /\ e.source = x /\ e.target = y
    BY <2>1, KnowledgeAssumption DEF EdgeTypes
  <2> QED BY <2>2
<1>2. \A x \in NodeIds : rank[x] \in Nat
  BY DEF NodeIds
<1> DEFINE Low == {x \in NodeIds : x = t \/ rank[x] < rank[t]}
           K == {k \in Nat : Walk(next, t, k) \subseteq Low}
<1>3. 0 \in K
  BY WalkZero
<1>4. ASSUME NEW k \in Nat, k \in K PROVE k + 1 \in K
  <2>1. ASSUME NEW x \in Walk(next, t, k), NEW y \in next[x] PROVE y \in Low
    <3>1. x \in NodeIds /\ (x = t \/ rank[x] < rank[t])
      BY <1>4
    <3>2. y \in NodeIds /\ <<x, y>> \in Depending(rev)
      BY <3>1 DEF Follow
    <3>3. rank[x] > rank[y]
      BY <1>1, <3>1, <3>2
    <3> QED BY <1>2, <3>1, <3>2, <3>3
  <2>2. Walk(next, t, k + 1) = Spread(next, Walk(next, t, k))
    BY WalkStep
  <2> HIDE DEF Low
  <2> QED BY <1>4, <2>1, <2>2 DEF Spread
<1>5. d \in K
  <2> HIDE DEF K
  <2> QED BY <1>3, <1>4, SetInduction
<1> QED BY <1>5

IsCompleted(rev, n) == rev.nodes[n] # Missing /\ rev.nodes[n].kind = "completed"

\* A walk that has found all, and finds all of it completed.
LEMMA CompletedIsEnough ==
  ASSUME NEW next, NEW rev, rev.edges \subseteq Links, Ordered(rev.edges), Follow(next, Depending(rev)),
         NEW t \in NodeIds, NEW d \in Nat, Walk(next, t, d + 1) = Walk(next, t, d),
         \A n \in Walk(next, t, d) \ {t} : IsCompleted(rev, n)
  PROVE  AllCompleted(rev, t)
<1>1. PICK rank \in [NodeIds -> NodeIds] :
        \A e \in rev.edges : e.type \in {"depends_on", "requires"} => rank[e.source] > rank[e.target]
  BY DEF Ordered
<1>2. \A x \in NodeIds : rank[x] \in Nat
  BY <1>1 DEF NodeIds
<1>3. PICK es : es = rev.edges
  OBVIOUS
<1>4. ASSUME NEW n \in Walk(next, t, d) PROVE n \in NodeIds /\ (n = t \/ rank[n] < rank[t])
  BY <1>1, <1>3, RankFalls
<1>5. PICK done : done = Walk(next, t, d) \ {t}
  OBVIOUS
<1>6. done \in SUBSET {n \in NodeIds : rev.nodes[n] # Missing /\ rev.nodes[n].kind = "completed"}
  BY <1>4, <1>5 DEF IsCompleted
<1>7. t \in Walk(next, t, d)
  BY WalkZero, WalkGrows
<1>8. ASSUME NEW p \in Depending(rev), p[1] \in done \cup {t} PROVE p[2] \in done
  <2>1. PICK e \in rev.edges : p = <<e.source, e.target>> /\ e.type # "relates_to"
    BY DEF Depending
  <2>2. /\ e.type \in {"depends_on", "requires"} /\ e.source \in NodeIds /\ e.target \in NodeIds
        /\ p[1] = e.source /\ p[2] = e.target
    BY <2>1, KnowledgeAssumption DEF EdgeTypes
  <2>3. p[1] \in Walk(next, t, d)
    BY <1>5, <1>7, <1>8
  <2>4. p[2] \in next[p[1]]
    BY <2>1, <2>2 DEF Follow
  <2>5. p[2] \in Walk(next, t, d)
    BY <2>3, <2>4, WalkStep DEF Spread
  <2>6. rank[p[2]] < rank[p[1]] /\ p[1] \in NodeIds /\ p[2] \in NodeIds
    BY <1>1, <2>2
  <2>7. p[1] = t \/ rank[p[1]] < rank[t]
    BY <1>4, <2>3
  <2>8. p[2] # t
    BY <1>2, <2>6, <2>7
  <2> QED BY <1>5, <2>5, <2>8
<1> QED BY <1>6, <1>8 DEF AllCompleted

\* If all is completed, a walk finds it completed.
LEMMA CompletedIsFound ==
  ASSUME NEW next, NEW rev, Follow(next, Depending(rev)), NEW t \in NodeIds, NEW d \in Nat,
         AllCompleted(rev, t), NEW n \in Walk(next, t, d), n # t
  PROVE  IsCompleted(rev, n)
<1>1. PICK done \in SUBSET {m \in NodeIds : rev.nodes[m] # Missing /\ rev.nodes[m].kind = "completed"} :
        \A p \in Depending(rev) : p[1] \in done \cup {t} => p[2] \in done
  BY DEF AllCompleted
<1> DEFINE K == {k \in Nat : Walk(next, t, k) \subseteq done \cup {t}}
<1>2. 0 \in K
  BY WalkZero
<1>3. ASSUME NEW k \in Nat, k \in K PROVE k + 1 \in K
  <2>1. ASSUME NEW x \in Walk(next, t, k), NEW y \in next[x] PROVE y \in done
    <3>1. x \in done \cup {t} /\ x \in NodeIds
      BY <1>1, <1>3
    <3>2. <<x, y>> \in Depending(rev)
      BY <3>1 DEF Follow
    <3> QED BY <1>1, <3>1, <3>2
  <2>2. Walk(next, t, k + 1) = Spread(next, Walk(next, t, k))
    BY WalkStep
  <2> QED BY <1>3, <2>1, <2>2 DEF Spread
<1>4. d \in K
  <2> HIDE DEF K
  <2> QED BY <1>2, <1>3, SetInduction
<1> QED BY <1>1, <1>4 DEF IsCompleted

-----------------------------------------------------------------------------
(* The ranking. *)

IsRankable(c) == c.id \in Nat /\ c.depth \in Int /\ c.total \in Int /\ c.eligible \in BOOLEAN

\* Candidates of different nodes, any number but finite.
Rankable(cs) ==
  /\ IsFiniteSet(cs)
  /\ \A c \in cs : IsRankable(c)
  /\ \A a, b \in cs : a.id = b.id => a = b

LEMMA BetterIsTotal ==
  ASSUME NEW a, NEW b, IsRankable(a), IsRankable(b), a.id # b.id
  PROVE  Better(a, b) \/ Better(b, a)
BY DEF Better, IsRankable

LEMMA BetterIsStrict ==
  ASSUME NEW a, NEW b, IsRankable(a), IsRankable(b), Better(a, b)
  PROVE  ~ Better(b, a)
BY DEF Better, IsRankable

LEMMA BetterIsTransitive ==
  ASSUME NEW a, NEW b, NEW c, IsRankable(a), IsRankable(b), IsRankable(c), Better(a, b), Better(b, c)
  PROVE  Better(a, c)
BY DEF Better, IsRankable

LEMMA FewerRankable ==
  ASSUME NEW cs, Rankable(cs), NEW S \in SUBSET cs
  PROVE  Rankable(S) /\ Cardinality(S) \in Nat
<1>1. IsFiniteSet(S)
  BY FS_Subset DEF Rankable
<1>2. Cardinality(S) \in Nat
  BY <1>1, FS_CardinalityType
<1> QED BY <1>1, <1>2 DEF Rankable

\* Some candidate comes last.
LEMMA LastExists ==
  ASSUME NEW cs, Rankable(cs), cs # {}
  PROVE  \E w \in cs : \A c \in cs \ {w} : Better(c, w)
<1> DEFINE Last(S) == \E w \in S : \A c \in S \ {w} : Better(c, w)
           K == {k \in Nat : \A S \in SUBSET cs : Cardinality(S) = k /\ S # {} => Last(S)}
<1>1. 0 \in K
  <2>1. ASSUME NEW S \in SUBSET cs, Cardinality(S) = 0 PROVE S = {}
    BY <2>1, FewerRankable, FS_EmptySet DEF Rankable
  <2> HIDE DEF Last
  <2> QED BY <2>1
<1>2. ASSUME NEW k \in Nat, k \in K PROVE k + 1 \in K
  <2> SUFFICES ASSUME NEW S \in SUBSET cs, Cardinality(S) = k + 1 PROVE Last(S)
    <3> HIDE DEF Last
    <3> QED OBVIOUS
  <2>1. IsFiniteSet(S) /\ \A c \in S : IsRankable(c)
    BY FewerRankable DEF Rankable
  <2>2. S # {}
    BY FS_EmptySet
  <2>3. PICK x \in S : TRUE
    BY <2>2
  <2>4. PICK T : T = S \ {x}
    OBVIOUS
  <2>5. Cardinality(T) = k /\ T \in SUBSET cs
    BY <2>1, <2>3, <2>4, FS_RemoveElement
  <2>6. CASE T = {}
    BY <2>3, <2>4, <2>6
  <2>7. CASE T # {}
    <3>1. PICK w \in T : \A c \in T \ {w} : Better(c, w)
      BY <1>2, <2>5, <2>7
    <3>2. x.id # w.id
      BY <2>3, <2>4, <3>1 DEF Rankable
    <3>3. CASE Better(x, w)
      <4>1. \A c \in S \ {w} : Better(c, w)
        BY <2>4, <3>1, <3>3
      <4> QED BY <2>4, <3>1, <4>1
    <3>4. CASE Better(w, x)
      <4>1. ASSUME NEW c \in S \ {x} PROVE Better(c, x)
        <5>1. CASE c = w
          BY <3>4, <5>1
        <5>2. CASE c # w
          <6>1. Better(c, w) /\ IsRankable(c) /\ IsRankable(w) /\ IsRankable(x)
            BY <2>1, <2>4, <3>1, <5>2
          <6> QED BY <3>4, <6>1, BetterIsTransitive
        <5> QED BY <5>1, <5>2
      <4> QED BY <2>3, <4>1
    <3> QED BY <2>1, <2>3, <2>4, <3>1, <3>2, <3>3, <3>4, BetterIsTotal
  <2> QED BY <2>6, <2>7
<1>3. \A k \in Nat : k \in K
  <2> HIDE DEF K
  <2> QED BY <1>1, <1>2, SetInduction
<1>4. Cardinality(cs) \in Nat
  BY FewerRankable
<1> HIDE DEF Last
<1>5. Last(cs)
  BY <1>3, <1>4
<1> QED BY <1>5 DEF Last

\* The list is as long as it can be.
LEMMA RankedCount ==
  ASSUME NEW cs, Rankable(cs), NEW limit \in Nat
  PROVE  Cardinality(Ranked(cs, limit)) = IF Cardinality(cs) < limit THEN Cardinality(cs) ELSE limit
<1> DEFINE Least2(k) == IF k < limit THEN k ELSE limit
           K == {k \in Nat : \A S \in SUBSET cs : Cardinality(S) = k =>
                                Cardinality(Ranked(S, limit)) = Least2(k)}
<1>1. 0 \in K
  <2>1. ASSUME NEW S \in SUBSET cs, Cardinality(S) = 0 PROVE Cardinality(Ranked(S, limit)) = 0
    <3>1. S = {}
      BY <2>1, FewerRankable, FS_EmptySet DEF Rankable
    <3>2. Ranked(S, limit) = {}
      BY <3>1 DEF Ranked
    <3> QED BY <3>2, FS_EmptySet
  <2>2. Least2(0) = 0
    OBVIOUS
  <2> QED BY <2>1, <2>2
<1>2. ASSUME NEW k \in Nat, k \in K PROVE k + 1 \in K
  <2> SUFFICES ASSUME NEW S \in SUBSET cs, Cardinality(S) = k + 1
               PROVE  Cardinality(Ranked(S, limit)) = Least2(k + 1)
    OBVIOUS
  <2>1. Rankable(S) /\ IsFiniteSet(S) /\ \A c \in S : IsRankable(c)
    BY FewerRankable DEF Rankable
  <2>2. PICK w \in S : \A c \in S \ {w} : Better(c, w)
    <3>1. S # {}
      BY FS_EmptySet
    <3> QED BY <2>1, <3>1, LastExists
  <2>3. PICK T : T = S \ {w}
    OBVIOUS
  <2>4. Cardinality(T) = k /\ T \in SUBSET cs
    BY <2>1, <2>2, <2>3, FS_RemoveElement
  <2>5. Cardinality(Ranked(T, limit)) = Least2(k)
    BY <1>2, <2>4
  <2>6. ASSUME NEW c \in T PROVE {b \in S : Better(b, c)} = {b \in T : Better(b, c)}
    <3>1. ~ Better(w, c)
      BY <2>1, <2>2, <2>3, BetterIsStrict
    <3> QED BY <2>3, <3>1
  <2>7. {b \in S : Better(b, w)} = T
    <3>1. ~ Better(w, w)
      BY <2>1, <2>2, BetterIsStrict
    <3> QED BY <2>2, <2>3, <3>1
  <2>8. PICK A, B : A = Ranked(T, limit) /\ B = Ranked(S, limit)
    OBVIOUS
  <2>9. \A c \in T : c \in A <=> c \in B
    BY <2>3, <2>6, <2>8 DEF Ranked
  <2>10. w \in B <=> k < limit
    BY <2>2, <2>4, <2>7, <2>8 DEF Ranked
  <2>11. A \subseteq T /\ B \subseteq S
    BY <2>8 DEF Ranked
  <2>12. IsFiniteSet(A) /\ w \notin A
    BY <2>1, <2>3, <2>11, FS_Subset
  <2>13. CASE k < limit
    <3>1. B = A \cup {w}
      BY <2>2, <2>3, <2>9, <2>10, <2>11, <2>13
    <3>2. Cardinality(B) = Cardinality(A) + 1
      BY <2>12, <3>1, FS_AddElement
    <3> QED BY <2>5, <2>8, <2>13, <3>2
  <2>14. CASE ~ (k < limit)
    <3>1. B = A
      BY <2>2, <2>3, <2>9, <2>10, <2>11, <2>14
    <3> QED BY <2>5, <2>8, <2>14, <3>1
  <2> QED BY <2>13, <2>14
<1>3. \A k \in Nat : k \in K
  <2> HIDE DEF K
  <2> QED BY <1>1, <1>2, SetInduction
<1>4. Cardinality(cs) \in Nat
  BY FewerRankable
<1> QED BY <1>3, <1>4

\* Nothing that cannot be started is listed before something that can.
LEMMA EligibleFirst ==
  ASSUME NEW cs, Rankable(cs), NEW limit \in Nat, NEW c \in cs, c.eligible, c \notin Ranked(cs, limit)
  PROVE  /\ \A x \in Ranked(cs, limit) : x.eligible
         /\ Cardinality(Ranked(cs, limit)) = limit
<1>1. PICK B : B = {b \in cs : Better(b, c)}
  OBVIOUS
<1>2. B \in SUBSET cs /\ IsFiniteSet(cs) /\ IsFiniteSet(B)
  BY <1>1, FS_Subset DEF Rankable
<1>3. Cardinality(B) \in Nat /\ Cardinality(cs) \in Nat /\ Cardinality(B) <= Cardinality(cs)
  BY <1>2, FS_Subset, FS_CardinalityType
<1>4. ~ (Cardinality(B) < limit)
  BY <1>1 DEF Ranked
<1>5. ASSUME NEW x \in Ranked(cs, limit), ~ x.eligible PROVE FALSE
  <2>1. PICK X : X = {b \in cs : Better(b, x)}
    OBVIOUS
  <2>2. x \in cs /\ Cardinality(X) < limit
    BY <2>1 DEF Ranked
  <2>3. Better(c, x)
    BY <1>5 DEF Better
  <2>4. B \subseteq X
    <3>1. ASSUME NEW b \in B PROVE Better(b, x)
      <4>1. Better(b, c) /\ IsRankable(b) /\ IsRankable(c) /\ IsRankable(x)
        BY <1>1, <2>2 DEF Rankable
      <4> QED BY <2>3, <4>1, BetterIsTransitive
    <3> QED BY <1>1, <2>1, <3>1
  <2>5. IsFiniteSet(X)
    BY <1>2, <2>1, FS_Subset
  <2>6. Cardinality(B) <= Cardinality(X) /\ Cardinality(X) \in Nat
    BY <2>4, <2>5, FS_Subset, FS_CardinalityType
  <2> QED BY <1>3, <1>4, <2>2, <2>6
<1>6. Cardinality(Ranked(cs, limit)) = limit
  <2>1. ~ (Cardinality(cs) < limit)
    BY <1>3, <1>4
  <2> QED BY <2>1, RankedCount
<1> QED BY <1>5, <1>6

-----------------------------------------------------------------------------
(* What a reader has cached. *)

\* The rows of the edges at a node.
Touching(es, n) == {e \in es : n \in {e.source, e.target}}

\* What a search sees around its anchor, and what is below a task, in the tables.
Beside(es) == [n \in NodeIds |-> Neighbors(es, n)]
Under(es) == [n \in NodeIds |-> Requirements(es, n)]
Seen(es, q) == Walk(Beside(es), q.anchor, q.depth) \ {q.anchor}

\* The tasks whose dependencies a request is about.
Targets(q, ns, es) ==
  IF q.op = "dependencies" THEN {q.anchor} ELSE {n \in Seen(es, q) : IsTask(ns[n])}

ScoreOf(row) == IF WeightOf(row) = Missing THEN 0 ELSE WeightOf(row)

CachesAgree(ns, es, nc, ec) ==
  \A n \in NodeIds : nc[n] \in {Missing, ns[n]} /\ ec[n] \in {Missing, Touching(es, n)}

\* The caches agree with the tables, and hold what the phases that are over wanted.
Walked(q, ph, es, ec) ==
  q.op # "dependencies" /\ ph \in {"pick", "score", "fetch", "inspect", "stable"} /\ q.depth > 0 =>
    \A n \in Walk(Beside(es), q.anchor, q.depth - 1) : ec[n] # Missing

Picked(q, ph, es, nc) ==
  q.op = "next" /\ ph \in {"score", "inspect", "stable"} => \A n \in Seen(es, q) : nc[n] # Missing

Weighed(q, ph, ns, es, sc) ==
  q.op # "dependencies" /\ ph \in {"fetch", "inspect", "stable"} =>
    \A n \in Seen(es, q) : (q.op = "next" => IsTask(ns[n])) => sc[n] = ScoreOf(ns[n])

Looked(q, ph, ns, es, nc, ec) ==
  q.op # "search" /\ ph = "stable" =>
    \A t \in Targets(q, ns, es) : \A n \in Walk(Under(es), t, q.dependency_depth) :
      nc[n] # Missing /\ ec[n] # Missing

Good(q, ph, ns, es, nc, ec, sc) ==
  /\ CachesAgree(ns, es, nc, ec)
  /\ Walked(q, ph, es, ec)
  /\ Picked(q, ph, es, nc)
  /\ Weighed(q, ph, ns, es, sc)
  /\ Looked(q, ph, ns, es, nc, ec)

LEMMA BesideFollows ==
  ASSUME NEW es, es \subseteq Links, NEW rev, rev.edges = es
  PROVE  Follow(Beside(es), Related(rev))
<1>1. ASSUME NEW n \in NodeIds, NEW m \in NodeIds
      PROVE  m \in Neighbors(es, n) <=> <<n, m>> \in Related(rev)
  <2>1. ASSUME NEW e \in es, {e.source, e.target} = {n, m} PROVE <<n, m>> \in Related(rev)
    <3>1. (e.source = n /\ e.target = m) \/ (e.source = m /\ e.target = n)
      BY <2>1
    <3> QED BY <3>1 DEF Related
  <2>2. ASSUME <<n, m>> \in Related(rev) PROVE \E e \in es : {e.source, e.target} = {n, m}
    <3>1. PICK e \in es : <<n, m>> \in {<<e.source, e.target>>, <<e.target, e.source>>}
      BY <2>2 DEF Related
    <3>2. (e.source = n /\ e.target = m) \/ (e.source = m /\ e.target = n)
      BY <3>1
    <3> QED BY <3>2
  <2> QED BY <2>1, <2>2 DEF Neighbors
<1>2. \A n \in NodeIds : Neighbors(es, n) \subseteq NodeIds
  BY DEF Neighbors
<1> QED BY <1>1, <1>2 DEF Follow, Beside

LEMMA UnderFollows ==
  ASSUME NEW es, es \subseteq Links, NEW rev, rev.edges = es
  PROVE  Follow(Under(es), Depending(rev))
<1>1. ASSUME NEW e \in es
      PROVE  /\ e.type \in DependencyTypes <=> e.type # "relates_to"
             /\ e.source \in NodeIds /\ e.target \in NodeIds
  BY KnowledgeAssumption DEF DependencyTypes, EdgeTypes
<1>2. ASSUME NEW n \in NodeIds, NEW m PROVE m \in Requirements(es, n) <=> m \in NodeIds /\ <<n, m>> \in Depending(rev)
  <2>1. m \in Requirements(es, n) <=> \E e \in es : e.type \in DependencyTypes /\ e.source = n /\ e.target = m
    BY DEF Requirements, DependencyEdges
  <2>2. <<n, m>> \in Depending(rev) <=> \E e \in es : e.type # "relates_to" /\ e.source = n /\ e.target = m
    BY DEF Depending
  <2> QED BY <1>1, <2>1, <2>2
<1> QED BY <1>2 DEF Follow, Under

\* What a walk finds beyond its start is the end of an edge.
LEMMA FoundByEdge ==
  ASSUME NEW next, NEW S, NEW a \in S, \A n \in S : next[n] \subseteq S, NEW d \in Nat,
         NEW n \in Walk(next, a, d), n # a
  PROVE  \E x \in S : n \in next[x]
<1> DEFINE K == {k \in Nat : \A y \in Walk(next, a, k) : y = a \/ \E x \in S : y \in next[x]}
<1>1. 0 \in K
  BY WalkZero
<1>2. ASSUME NEW k \in Nat, k \in K PROVE k + 1 \in K
  <2>1. Walk(next, a, k + 1) = Spread(next, Walk(next, a, k))
    BY WalkStep
  <2>2. Walk(next, a, k) \subseteq S
    BY WalkTyped
  <2>3. ASSUME NEW y \in Walk(next, a, k + 1) PROVE y = a \/ \E x \in S : y \in next[x]
    <3>1. CASE y \in Walk(next, a, k)
      BY <1>2, <3>1
    <3>2. CASE y \notin Walk(next, a, k)
      BY <2>1, <2>2, <3>2 DEF Spread
    <3> QED BY <3>1, <3>2
  <2> QED BY <2>3
<1>3. d \in K
  <2> HIDE DEF K
  <2> QED BY <1>1, <1>2, SetInduction
<1> QED BY <1>3

LEMMA NextIsNodes ==
  ASSUME NEW es, es \subseteq Links
  PROVE  /\ \A n \in NodeIds : Beside(es)[n] \subseteq NodeIds
         /\ \A n \in NodeIds : Under(es)[n] \subseteq NodeIds
<1>1. ASSUME NEW n \in NodeIds PROVE Neighbors(es, n) \subseteq NodeIds
  BY DEF Neighbors
<1>2. ASSUME NEW n \in NodeIds PROVE Requirements(es, n) \subseteq NodeIds
  BY KnowledgeAssumption DEF Requirements, DependencyEdges
<1> QED BY <1>1, <1>2 DEF Beside, Under

\* Every node a read finds has its row.
LEMMA FoundIsStored ==
  ASSUME NEW es, es \subseteq Links, NEW ns, EndpointsStored(ns, es), NEW a \in NodeIds, NEW d \in Nat,
         NEW n, n # a, n \in Walk(Beside(es), a, d) \/ n \in Walk(Under(es), a, d)
  PROVE  n \in NodeIds /\ ns[n] \notin {Missing, Broken}
<1>1. CASE n \in Walk(Beside(es), a, d)
  <2>1. PICK x \in NodeIds : n \in Beside(es)[x]
    BY <1>1, NextIsNodes, FoundByEdge
  <2>2. PICK e \in es : {e.source, e.target} = {x, n}
    BY <2>1 DEF Beside, Neighbors
  <2>3. n \in NodeIds
    BY <2>1, NextIsNodes
  <2>4. n \in {e.source, e.target}
    BY <2>2
  <2> QED BY <2>3, <2>4 DEF EndpointsStored
<1>2. CASE n \in Walk(Under(es), a, d)
  <2>1. PICK x \in NodeIds : n \in Under(es)[x]
    BY <1>2, NextIsNodes, FoundByEdge
  <2>2. PICK e \in es : e.target = n
    BY <2>1 DEF Under, Requirements, DependencyEdges
  <2>3. n \in NodeIds
    BY <2>1, NextIsNodes
  <2> QED BY <2>2, <2>3 DEF EndpointsStored
<1> QED BY <1>1, <1>2

\* Cached edges are followed as the stored ones are.
LEMMA CachedIsStored ==
  ASSUME NEW r, NEW es, NEW n \in NodeIds, edge_cache[r][n] = Touching(es, n), edge_cache[r][n] # Missing
  PROVE  /\ Neighbors(Cached(r, n), n) = Beside(es)[n]
         /\ Requirements(Cached(r, n), n) = Under(es)[n]
<1>1. Cached(r, n) = Touching(es, n)
  BY DEF Cached
<1>2. Neighbors(Touching(es, n), n) = Neighbors(es, n)
  <2>1. \A e \in es, m \in NodeIds : {e.source, e.target} = {n, m} => e \in Touching(es, n)
    BY DEF Touching
  <2>2. Touching(es, n) \subseteq es
    BY DEF Touching
  <2> QED BY <2>1, <2>2 DEF Neighbors
<1>3. Requirements(Touching(es, n), n) = Requirements(es, n)
  <2>1. \A e \in es : e.source = n => e \in Touching(es, n)
    BY DEF Touching
  <2>2. Touching(es, n) \subseteq es
    BY DEF Touching
  <2> QED BY <2>1, <2>2 DEF Requirements, DependencyEdges
<1> QED BY <1>1, <1>2, <1>3 DEF Beside, Under

LEMMA RequestTyped ==
  ASSUME NEW q \in Requests
  PROVE  /\ q.anchor \in NodeIds /\ q.depth \in Nat /\ q.dependency_depth \in Nat
         /\ q.limit \in Nat /\ q.depth <= MaxDepth /\ MaxDepth \in Nat
         /\ q.op \in {"search", "dependencies", "next"}
BY KnowledgeAssumption

\* What is cached, walked from the anchor, is what is stored.
LEMMA AroundIsBeside ==
  ASSUME NEW r, NEW q \in Requests, q = ask[r], edges \subseteq Links,
         CachesAgree(nodes, edges, node_cache[r], edge_cache[r]),
         q.depth > 0 =>
           \/ \A n \in Walk(Beside(edges), q.anchor, q.depth - 1) : edge_cache[r][n] # Missing
           \/ \A n \in Around(r, q.depth - 1) : edge_cache[r][n] # Missing /\ n \in NodeIds,
         NEW k \in 0..q.depth
  PROVE  Around(r, k) = Walk(Beside(edges), q.anchor, k)
<1> DEFINE f == [n \in NodeIds |-> Neighbors(Cached(r, n), n)]
           g == Beside(edges)
<1>0. q.anchor \in NodeIds /\ q.depth \in Nat
  BY RequestTyped
<1>1. \A j : Around(r, j) = Walk(f, q.anchor, j)
  BY DEF Around
<1>2. ASSUME NEW n \in NodeIds, edge_cache[r][n] # Missing PROVE f[n] = g[n]
  <2>1. edge_cache[r][n] = Touching(edges, n)
    BY <1>2 DEF CachesAgree
  <2>2. Neighbors(Cached(r, n), n) = Beside(edges)[n]
    BY <1>2, <2>1, CachedIsStored
  <2> QED BY <2>2
<1>3. CASE q.depth = 0
  <2>1. k = 0
    BY <1>3
  <2>2. Walk(f, q.anchor, 0) = {q.anchor} /\ Walk(g, q.anchor, 0) = {q.anchor}
    <3> HIDE DEF f, g
    <3> QED BY WalkZero
  <2>3. Around(r, k) = Walk(f, q.anchor, 0)
    <3> HIDE DEF f
    <3> QED BY <1>1, <2>1
  <2> HIDE DEF f
  <2> QED BY <2>1, <2>2, <2>3
<1>4. CASE q.depth > 0
  <2>1. PICK d \in Nat : d = q.depth - 1
    BY <1>0, <1>4
  <2>2. k \in 0..(d + 1)
    BY <1>0, <2>1
  <2>3. CASE \A n \in Walk(g, q.anchor, d) : edge_cache[r][n] # Missing
    <3>1. Walk(g, q.anchor, d) \subseteq NodeIds
      BY <1>0, NextIsNodes, WalkTyped
    <3>2. \A n \in Walk(g, q.anchor, d) : g[n] = f[n]
      <4> HIDE DEF f, g
      <4> QED BY <1>2, <2>3, <3>1
    <3>3. Walk(g, q.anchor, k) = Walk(f, q.anchor, k)
      <4> HIDE DEF f, g
      <4> QED BY <2>2, <3>2, WalkAgrees
    <3> QED BY <1>1, <3>3
  <2>4. CASE \A n \in Walk(f, q.anchor, d) : edge_cache[r][n] # Missing /\ n \in NodeIds
    <3>2. \A n \in Walk(f, q.anchor, d) : f[n] = g[n]
      <4> HIDE DEF f, g
      <4> QED BY <1>2, <2>4
    <3>3. Walk(f, q.anchor, k) = Walk(g, q.anchor, k)
      <4> HIDE DEF f, g
      <4> QED BY <2>2, <3>2, WalkAgrees
    <3> QED BY <1>1, <3>3
  <2> HIDE DEF f, g
  <2> QED BY <1>1, <1>4, <2>1, <2>3, <2>4 DEF g
<1> QED BY <1>0, <1>3, <1>4

\* The same for the dependencies of a task.
LEMMA BelowIsUnder ==
  ASSUME NEW r, NEW t \in NodeIds, NEW d \in Nat, edges \subseteq Links,
         CachesAgree(nodes, edges, node_cache[r], edge_cache[r]),
         \/ \A n \in Walk(Under(edges), t, d) : edge_cache[r][n] # Missing
         \/ \A n \in Below(r, t, d) : edge_cache[r][n] # Missing /\ n \in NodeIds,
         NEW k \in 0..(d + 1)
  PROVE  Below(r, t, k) = Walk(Under(edges), t, k)
<1> DEFINE f == [n \in NodeIds |-> Requirements(Cached(r, n), n)]
           g == Under(edges)
<1>1. \A j : Below(r, t, j) = Walk(f, t, j)
  BY DEF Below
<1>2. ASSUME NEW n \in NodeIds, edge_cache[r][n] # Missing PROVE f[n] = g[n]
  <2>1. edge_cache[r][n] = Touching(edges, n)
    BY <1>2 DEF CachesAgree
  <2>2. Requirements(Cached(r, n), n) = Under(edges)[n]
    BY <1>2, <2>1, CachedIsStored
  <2> QED BY <2>2
<1>3. CASE \A n \in Walk(g, t, d) : edge_cache[r][n] # Missing
  <2>1. Walk(g, t, d) \subseteq NodeIds
    BY NextIsNodes, WalkTyped
  <2>2. \A n \in Walk(g, t, d) : g[n] = f[n]
    <3> HIDE DEF f, g
    <3> QED BY <1>2, <1>3, <2>1
  <2>3. Walk(g, t, k) = Walk(f, t, k)
    <3> HIDE DEF f, g
    <3> QED BY <2>2, WalkAgrees
  <2> QED BY <1>1, <2>3
<1>4. CASE \A n \in Walk(f, t, d) : edge_cache[r][n] # Missing /\ n \in NodeIds
  <2>2. \A n \in Walk(f, t, d) : f[n] = g[n]
    <3> HIDE DEF f, g
    <3> QED BY <1>2, <1>4
  <2>3. Walk(f, t, k) = Walk(g, t, k)
    <3> HIDE DEF f, g
    <3> QED BY <2>2, WalkAgrees
  <2> QED BY <1>1, <2>3
<1> HIDE DEF f, g
<1> QED BY <1>1, <1>3, <1>4 DEF g

\* Cardinality of a set written with an injection.
LEMMA ImageCount ==
  ASSUME NEW D, IsFiniteSet(D), NEW f, \A x, y \in D : f[x] = f[y] => x = y,
         NEW T, T = {f[x] : x \in D}
  PROVE  IsFiniteSet(T) /\ Cardinality(T) = Cardinality(D)
<1>1. PICK h : h = [x \in D |-> f[x]]
  OBVIOUS
<1>2. h \in Injection(D, T)
  BY <1>1 DEF Injection, IsInjective
<1>3. h \in Surjection(D, T)
  BY <1>1 DEF Surjection
<1>4. ExistsBijection(D, T)
  BY <1>2, <1>3 DEF ExistsBijection, Bijection
<1> QED BY <1>4, FS_Bijection

-----------------------------------------------------------------------------
(* What a reader that has read everything answers. *)

Settled(r) ==
  /\ TablesTyped /\ Ordered(edges) /\ EndpointsStored(nodes, edges)
  /\ ask[r] \in Requests
  /\ Good(ask[r], "stable", nodes, edges, node_cache[r], edge_cache[r], scores[r])
  /\ revision[r] = Revision

IsTarget(q, t) == t \in Targets(q, nodes, edges)

LEMMA TargetTyped ==
  ASSUME NEW q \in Requests, edges \subseteq Links
  PROVE  Targets(q, nodes, edges) \subseteq NodeIds /\ Seen(edges, q) \subseteq NodeIds
<1>1. Walk(Beside(edges), q.anchor, q.depth) \subseteq NodeIds
  BY RequestTyped, NextIsNodes, WalkTyped
<1> QED BY <1>1, RequestTyped DEF Targets, Seen

\* An inspection says what the tables say.
LEMMA InspectionFacts ==
  ASSUME NEW r, Settled(r), NEW q, q = ask[r], q.op # "search", NEW t, IsTarget(q, t),
         NEW d, d = q.dependency_depth
  PROVE  /\ Truncated(r, t) <=> Walk(Under(edges), t, d + 1) # Walk(Under(edges), t, d)
         /\ DependencyStates(r, t) =
              {[id |-> n, depth |-> LevelIn(Under(edges), t, d, n),
                satisfied |-> nodes[n].kind = "completed"] : n \in Walk(Under(edges), t, d) \ {t}}
<1>1. q \in Requests /\ d \in Nat /\ edges \subseteq Links /\ t \in NodeIds
  BY RequestTyped, TargetTyped DEF Settled, TablesTyped, IsTarget
<1>2. /\ CachesAgree(nodes, edges, node_cache[r], edge_cache[r])
      /\ \A n \in Walk(Under(edges), t, d) : node_cache[r][n] # Missing /\ edge_cache[r][n] # Missing
  BY DEF Settled, Good, Looked, IsTarget
<1>3. ASSUME NEW k \in 0..(d + 1) PROVE Below(r, t, k) = Walk(Under(edges), t, k)
  BY <1>1, <1>2, BelowIsUnder
<1>4. Below(r, t, d) = Walk(Under(edges), t, d) /\ Below(r, t, d + 1) = Walk(Under(edges), t, d + 1)
  BY <1>1, <1>3
<1>5. [k \in 0..d |-> Below(r, t, k)] = [k \in 0..d |-> Walk(Under(edges), t, k)]
  BY <1>1, <1>3
<1>6. PICK within : within = [k \in 0..d |-> Walk(Under(edges), t, k)]
  OBVIOUS
<1>7. within[d] = Walk(Under(edges), t, d)
  BY <1>1, <1>6
<1>8. DependencyStates(r, t) =
        {[id |-> n, depth |-> LevelIn(Under(edges), t, d, n), satisfied |-> node_cache[r][n].kind = "completed"] :
           n \in within[d] \ {t}}
  <2>1. \A n : Level(within, n) = LevelIn(Under(edges), t, d, n)
    BY <1>6 DEF LevelIn
  <2>2. DependencyStates(r, t) =
          {[id |-> n, depth |-> Level(within, n), satisfied |-> node_cache[r][n].kind = "completed"] :
             n \in within[d] \ {t}}
    BY <1>5, <1>6 DEF DependencyStates
  <2> QED BY <2>1, <2>2
<1>9. ASSUME NEW n \in within[d] PROVE node_cache[r][n] = nodes[n]
  <2>1. n \in NodeIds
    BY <1>1, <1>7, NextIsNodes, WalkTyped
  <2> QED BY <1>2, <1>7, <1>9, <2>1 DEF CachesAgree
<1>10. DependencyStates(r, t) =
        {[id |-> n, depth |-> LevelIn(Under(edges), t, d, n), satisfied |-> nodes[n].kind = "completed"] :
           n \in within[d] \ {t}}
  BY <1>8, <1>9
<1> QED BY <1>4, <1>6, <1>7, <1>10 DEF Truncated

LEMMA SatisfiedFacts ==
  ASSUME NEW r, Settled(r), NEW q, q = ask[r], q.op # "search", NEW t, IsTarget(q, t),
         NEW d, d = q.dependency_depth
  PROVE  Inspection(r, t).all_satisfied
           <=> /\ \A n \in Walk(Under(edges), t, d) \ {t} : nodes[n].kind = "completed"
               /\ Walk(Under(edges), t, d + 1) = Walk(Under(edges), t, d)
<1>1. PICK W : W = Walk(Under(edges), t, d) \ {t}
  OBVIOUS
<1>2. PICK lv : lv = [n \in W |-> LevelIn(Under(edges), t, d, n)]
  OBVIOUS
<1>3. PICK S : S = DependencyStates(r, t)
  OBVIOUS
<1>4. S = {[id |-> n, depth |-> lv[n], satisfied |-> nodes[n].kind = "completed"] : n \in W}
  BY <1>1, <1>2, <1>3, InspectionFacts
<1>5. Inspection(r, t).all_satisfied <=> (\A s \in S : s.satisfied) /\ ~ Truncated(r, t)
  BY <1>3 DEF Inspection
<1>6. (\A s \in S : s.satisfied) <=> \A n \in W : nodes[n].kind = "completed"
  <2>1. ASSUME NEW n \in W, \A s \in S : s.satisfied PROVE nodes[n].kind = "completed"
    <3>1. PICK s \in S : s = [id |-> n, depth |-> lv[n], satisfied |-> nodes[n].kind = "completed"]
      BY <1>4
    <3>2. s.satisfied = (nodes[n].kind = "completed")
      BY <3>1
    <3> QED BY <2>1, <3>2
  <2>2. ASSUME NEW s \in S, \A n \in W : nodes[n].kind = "completed" PROVE s.satisfied
    <3>1. PICK n \in W : s = [id |-> n, depth |-> lv[n], satisfied |-> nodes[n].kind = "completed"]
      BY <1>4
    <3>2. s.satisfied = (nodes[n].kind = "completed")
      BY <3>1
    <3> QED BY <2>2, <3>2
  <2> QED BY <2>1, <2>2
<1> QED BY <1>1, <1>5, <1>6, InspectionFacts

\* Dependencies reported as satisfied are.
LEMMA SatisfiedIsCompleted ==
  ASSUME NEW r, Settled(r), NEW q, q = ask[r], q.op # "search", NEW t, IsTarget(q, t),
         Inspection(r, t).all_satisfied
  PROVE  AllCompleted(Revision, t)
<1>1. PICK d : d = q.dependency_depth
  OBVIOUS
<1>2. q \in Requests /\ d \in Nat /\ edges \subseteq Links /\ t \in NodeIds /\ Revision.edges = edges
  BY <1>1, RequestTyped, TargetTyped DEF Settled, TablesTyped, IsTarget, Revision
<1>3. /\ \A n \in Walk(Under(edges), t, d) \ {t} : nodes[n].kind = "completed"
      /\ Walk(Under(edges), t, d + 1) = Walk(Under(edges), t, d)
  BY <1>1, SatisfiedFacts
<1>4. ASSUME NEW n \in Walk(Under(edges), t, d) \ {t} PROVE IsCompleted(Revision, n)
  <2>1. nodes[n] \notin {Missing, Broken}
    BY <1>2, FoundIsStored DEF Settled
  <2> QED BY <1>3, <2>1 DEF IsCompleted, Revision
<1>5. Ordered(Revision.edges) /\ Follow(Under(edges), Depending(Revision)) /\ Revision.edges \subseteq Links
  BY <1>2, UnderFollows DEF Settled
<1> QED BY <1>2, <1>3, <1>4, <1>5, CompletedIsEnough

\* If all is completed and within the depth, it is reported.
LEMMA CompletedIsSatisfied ==
  ASSUME NEW r, Settled(r), NEW q, q = ask[r], q.op # "search", NEW t, IsTarget(q, t),
         AllCompleted(Revision, t),
         Distances(Depending(Revision), t, NNodes) = Distances(Depending(Revision), t, q.dependency_depth)
  PROVE  Inspection(r, t).all_satisfied
<1>1. PICK d : d = q.dependency_depth
  OBVIOUS
<1>2. q \in Requests /\ d \in Nat /\ edges \subseteq Links /\ t \in NodeIds /\ Revision.edges = edges
  BY <1>1, RequestTyped, TargetTyped DEF Settled, TablesTyped, IsTarget, Revision
<1>3. Follow(Under(edges), Depending(Revision))
  BY <1>2, UnderFollows
<1>4. ASSUME NEW n \in Walk(Under(edges), t, d) \ {t} PROVE nodes[n].kind = "completed"
  <2>1. IsCompleted(Revision, n)
    BY <1>2, <1>3, CompletedIsFound
  <2> QED BY <2>1 DEF IsCompleted, Revision
<1>5. ASSUME Walk(Under(edges), t, d + 1) # Walk(Under(edges), t, d) PROVE FALSE
  <2>1. d + 1 < NNodes /\ NNodes \in Nat
    BY <1>2, <1>5, NextIsNodes, WalkCounts, KnowledgeAssumption
  <2>2. Walk(Under(edges), t, d) \subseteq Walk(Under(edges), t, d + 1)
    BY <1>2, WalkGrows
  <2>3. PICK n : n \in Walk(Under(edges), t, d + 1) /\ n \notin Walk(Under(edges), t, d)
    BY <1>5, <2>2
  <2>4. n # t
    <3>1. t \in Walk(Under(edges), t, d)
      BY <1>2, WalkZero, WalkGrows
    <3> QED BY <2>3, <3>1
  <2>5. n \in Walk(Under(edges), t, NNodes)
    <3>1. d + 1 \in 0..NNodes
      BY <1>2, <2>1
    <3> QED BY <2>1, <2>3, <3>1, WalkGrows
  <2>6. PICK k : k = LevelIn(Under(edges), t, NNodes, n)
    OBVIOUS
  <2>7. <<n, k>> \in Distances(Depending(Revision), t, NNodes)
    BY <1>2, <1>3, <2>1, <2>4, <2>5, <2>6, LevelIsDistance
  <2>8. <<n, k>> \in Distances(Depending(Revision), t, d)
    BY <1>1, <2>7
  <2> QED BY <1>2, <1>3, <2>3, <2>8, LevelIsDistance
<1> QED BY <1>1, <1>4, <1>5, SatisfiedFacts

\* The nodes that are ranked.
Pool(q, ns, es) ==
  {n \in Seen(es, q) : IF q.op = "next" THEN IsTask(ns[n]) ELSE ns[n].weight > 0}

LEMMA SettledFacts ==
  ASSUME NEW r, Settled(r), NEW q, q = ask[r], q.op # "dependencies"
  PROVE  /\ q \in Requests /\ edges \subseteq Links
         /\ \A k \in 0..q.depth : Around(r, k) = Walk(Beside(edges), q.anchor, k)
         /\ Others(r) = Seen(edges, q)
         /\ \A n \in Seen(edges, q) : n \in NodeIds /\ nodes[n] \in Submissions /\ nodes[n] \notin {Missing, Broken}
         /\ \A n \in Seen(edges, q) : (q.op = "next" => IsTask(nodes[n])) => scores[r][n] = nodes[n].weight
         /\ q.op = "next" => \A n \in Seen(edges, q) : node_cache[r][n] = nodes[n]
<1>1. q \in Requests /\ edges \subseteq Links
  BY DEF Settled, TablesTyped
<1>2. /\ q.anchor \in NodeIds /\ q.depth \in Nat
  BY <1>1, RequestTyped
<1>3. /\ CachesAgree(nodes, edges, node_cache[r], edge_cache[r])
      /\ q.depth > 0 => \A n \in Walk(Beside(edges), q.anchor, q.depth - 1) : edge_cache[r][n] # Missing
  BY DEF Settled, Good, Walked
<1>4. ASSUME NEW k \in 0..q.depth PROVE Around(r, k) = Walk(Beside(edges), q.anchor, k)
  BY <1>1, <1>3, AroundIsBeside
<1>5. Others(r) = Seen(edges, q)
  BY <1>2, <1>4 DEF Others, Seen
<1>6. ASSUME NEW n \in Seen(edges, q)
      PROVE  n \in NodeIds /\ nodes[n] \in Submissions /\ nodes[n] \notin {Missing, Broken}
  <2>1. n \in NodeIds /\ nodes[n] \notin {Missing, Broken}
    BY <1>1, <1>2, FoundIsStored DEF Seen, Settled
  <2> QED BY <2>1 DEF Settled, TablesTyped
<1>7. ASSUME NEW n \in Seen(edges, q), q.op = "next" => IsTask(nodes[n])
      PROVE  scores[r][n] = nodes[n].weight
  <2>1. scores[r][n] = ScoreOf(nodes[n])
    BY <1>7 DEF Settled, Good, Weighed
  <2>2. nodes[n].weight \in Nat
    BY <1>6, KnowledgeAssumption
  <2>3. WeightOf(nodes[n]) = nodes[n].weight /\ nodes[n].weight # Missing
    BY <1>6, <2>2, KnowledgeAssumption DEF WeightOf
  <2> QED BY <2>1, <2>3 DEF ScoreOf
<1>8. ASSUME q.op = "next", NEW n \in Seen(edges, q) PROVE node_cache[r][n] = nodes[n]
  <2>1. node_cache[r][n] # Missing
    BY <1>8 DEF Settled, Good, Picked
  <2> QED BY <1>3, <1>6, <2>1 DEF CachesAgree
<1> QED BY <1>1, <1>4, <1>5, <1>6, <1>7, <1>8

LEMMA CandidateFacts ==
  ASSUME NEW r, Settled(r), NEW q, q = ask[r], q.op # "dependencies", NEW n \in Pool(q, nodes, edges)
  PROVE  /\ Candidate(r, n).id = n /\ n \in NodeIds
         /\ Candidate(r, n).depth = LevelIn(Beside(edges), q.anchor, q.depth, n)
         /\ Candidate(r, n).total = nodes[n].weight * 100 + (MaxDepth + 1 - Candidate(r, n).depth) * 10
         /\ Candidate(r, n).eligible <=> (/\ q.op = "next" /\ nodes[n].kind = "ready"
                                          /\ Inspection(r, n).all_satisfied)
         /\ IsRankable(Candidate(r, n))
<1>1. PICK l : l = LevelIn(Beside(edges), q.anchor, q.depth, n)
  OBVIOUS
<1>2. [k \in 0..q.depth |-> Around(r, k)] = [k \in 0..q.depth |-> Walk(Beside(edges), q.anchor, k)]
  BY SettledFacts
<1>3. PICK ok : ok = (ask[r].op = "next" /\ node_cache[r][n].kind = "ready" /\ Inspection(r, n).all_satisfied)
  OBVIOUS
<1>4. Candidate(r, n) = [id |-> n, depth |-> l, total |-> scores[r][n] * 100 + GraphScore(l), eligible |-> ok]
  BY <1>1, <1>2, <1>3 DEF Candidate, LevelIn
<1>5. n \in Seen(edges, q) /\ (q.op = "next" => IsTask(nodes[n]))
  BY DEF Pool
<1>6. /\ n \in NodeIds /\ nodes[n] \in Submissions /\ scores[r][n] = nodes[n].weight
      /\ q.op = "next" => node_cache[r][n] = nodes[n]
  BY <1>5, SettledFacts
<1>7. ok = (q.op = "next" /\ nodes[n].kind = "ready" /\ Inspection(r, n).all_satisfied)
  BY <1>3, <1>6
<1>8. ok \in BOOLEAN
  BY <1>7
<1>9. l \in 0..q.depth /\ q.depth \in Nat /\ MaxDepth \in Nat
  <2>1. q \in Requests
    BY SettledFacts
  <2>2. n \in Walk(Beside(edges), q.anchor, q.depth)
    BY <1>5 DEF Seen
  <2> QED BY <1>1, <2>1, <2>2, RequestTyped, LevelFacts
<1>10. nodes[n].weight \in Nat /\ n \in Nat
  BY <1>6, KnowledgeAssumption DEF NodeIds
<1>11. Candidate(r, n).total = nodes[n].weight * 100 + (MaxDepth + 1 - l) * 10
  BY <1>4, <1>6 DEF GraphScore
<1>12. IsRankable(Candidate(r, n))
  <2>1. nodes[n].weight * 100 + (MaxDepth + 1 - l) * 10 \in Int
    BY <1>9, <1>10
  <2> QED BY <1>4, <1>8, <1>9, <1>10, <1>11, <2>1 DEF IsRankable
<1>13. Candidate(r, n).id = n /\ Candidate(r, n).depth = l /\ Candidate(r, n).eligible = ok
  BY <1>4
<1>14. Candidate(r, n).eligible <=> (q.op = "next" /\ nodes[n].kind = "ready" /\ Inspection(r, n).all_satisfied)
  BY <1>7, <1>13
<1> QED BY <1>1, <1>6, <1>11, <1>12, <1>13, <1>14

LEMMA ListedFacts ==
  ASSUME NEW r, Settled(r), NEW q, q = ask[r], q.op # "dependencies",
         NEW D, D = Pool(q, nodes, edges), NEW cs, cs = {Candidate(r, n) : n \in D}
  PROVE  /\ Listed(r) = Ranked(cs, q.limit)
         /\ Rankable(cs) /\ IsFiniteSet(D) /\ Cardinality(cs) = Cardinality(D)
         /\ \A n \in D : Candidate(r, n) \in cs
         /\ \A c \in cs : c.id \in D /\ c = Candidate(r, c.id)
<1>1. PICK cand : cand = [n \in D |-> Candidate(r, n)]
  OBVIOUS
<1>2. cs = {cand[n] : n \in D} /\ \A n \in D : cand[n] = Candidate(r, n)
  BY <1>1
<1>3. ASSUME NEW n \in D PROVE cand[n].id = n /\ n \in NodeIds /\ IsRankable(cand[n])
  BY <1>2, CandidateFacts
<1>4. IsFiniteSet(D)
  <2>1. D \subseteq NodeIds
    BY <1>3
  <2>2. IsFiniteSet(NodeIds)
    BY KnowledgeAssumption, FS_Interval DEF NodeIds
  <2> QED BY <2>1, <2>2, FS_Subset
<1>5. \A x, y \in D : cand[x] = cand[y] => x = y
  BY <1>3
<1>6. IsFiniteSet(cs) /\ Cardinality(cs) = Cardinality(D)
  BY <1>2, <1>4, <1>5, ImageCount
<1>7. ASSUME NEW c \in cs PROVE c.id \in D /\ c = cand[c.id]
  BY <1>2, <1>3
<1>8. Rankable(cs)
  BY <1>3, <1>6, <1>7 DEF Rankable
<1>9. Listed(r) = Ranked(cs, q.limit)
  <2>1. CASE q.op = "next"
    <3>1. Inspected(r) = {n \in Seen(edges, q) : IsTask(nodes[n])}
      <4>1. Inspected(r) = {n \in Seen(edges, q) : IsTask(node_cache[r][n])}
        BY <2>1, SettledFacts DEF Inspected
      <4>2. \A n \in Seen(edges, q) : node_cache[r][n] = nodes[n]
        BY <2>1, SettledFacts
      <4> QED BY <4>1, <4>2
    <3>2. Inspected(r) = D
      BY <2>1, <3>1 DEF Pool
    <3> QED BY <2>1, <3>2 DEF Listed
  <2>2. CASE q.op # "next"
    <3>1. {m \in Others(r) : scores[r][m] > 0} = D
      <4>1. \A n \in Seen(edges, q) : scores[r][n] = nodes[n].weight
        BY <2>2, SettledFacts
      <4>2. Others(r) = Seen(edges, q)
        BY SettledFacts
      <4> QED BY <2>2, <4>1, <4>2 DEF Pool
    <3> QED BY <2>2, <3>1 DEF Listed
  <2> QED BY <2>1, <2>2
<1> QED BY <1>2, <1>4, <1>6, <1>7, <1>8, <1>9

-----------------------------------------------------------------------------
(* The answers, each about its request. *)

FoundIn(q, rev) ==
  {p \in Distances(Related(rev), q.anchor, q.depth) :
     IF q.op = "next" THEN rev.nodes[p[1]].kind # "knowledge" ELSE rev.nodes[p[1]].weight > 0}

Exact(q, a) ==
  LET rev == a.revision
      found == FoundIn(q, rev)
  IN  /\ q.op = "dependencies" =>
           {<<s.id, s.depth>> : s \in a.inspection.dependencies}
             = Distances(Depending(rev), q.anchor, q.dependency_depth)
      /\ q.op # "dependencies" =>
           /\ {<<c.id, c.depth>> : c \in a.listed} \subseteq found
           /\ Cardinality(a.listed) = IF Cardinality(found) < q.limit THEN Cardinality(found) ELSE q.limit
           /\ \A c \in a.listed :
                c.total = rev.nodes[c.id].weight * 100 + (MaxDepth + 1 - c.depth) * 10

ReadyOnly(q, a) ==
  /\ \A c \in a.listed : c.eligible =>
       a.revision.nodes[c.id].kind = "ready" /\ AllCompleted(a.revision, c.id)
  /\ q.op = "dependencies" /\ a.inspection.all_satisfied => AllCompleted(a.revision, q.anchor)

StartableIn(q, rev) ==
  {p[1] : p \in {x \in Distances(Related(rev), q.anchor, q.depth) :
     /\ rev.nodes[x[1]].kind = "ready"
     /\ AllCompleted(rev, x[1])
     /\ Distances(Depending(rev), x[1], NNodes)
          = Distances(Depending(rev), x[1], q.dependency_depth)}}

AllShown(q, a) ==
  q.op = "next" =>
    LET shown == {c.id : c \in {x \in a.listed : x.eligible}}
    IN  StartableIn(q, a.revision) \subseteq shown \/ Cardinality(shown) = q.limit

LEMMA AnsweredFields ==
  ASSUME NEW r, Settled(r), NEW q, q = ask[r], NEW a, a = Answered(r)
  PROVE  /\ a.revision = Revision
         /\ a.revision.nodes = nodes /\ a.revision.edges = edges
         /\ q.op = "dependencies" => a.listed = {} /\ a.inspection = Inspection(r, q.anchor)
         /\ q.op # "dependencies" => a.listed = Listed(r)
BY DEF Answered, Settled, Revision

\* The ranked nodes are those at a distance, one each.
LEMMA FoundIsPool ==
  ASSUME NEW r, Settled(r), NEW q, q = ask[r], q.op # "dependencies", NEW D, D = Pool(q, nodes, edges)
  PROVE  FoundIn(q, Revision) = {<<n, LevelIn(Beside(edges), q.anchor, q.depth, n)>> : n \in D}
<1> DEFINE lv(n) == LevelIn(Beside(edges), q.anchor, q.depth, n)
<1>1. q \in Requests /\ edges \subseteq Links /\ Revision.edges = edges /\ Revision.nodes = nodes
  BY SettledFacts DEF Revision
<1>2. q.anchor \in NodeIds /\ q.depth \in Nat
  BY <1>1, RequestTyped
<1>3. Follow(Beside(edges), Related(Revision))
  BY <1>1, BesideFollows
<1>4. ASSUME NEW n, n \in Seen(edges, q)
      PROVE  n \in D <=> IF q.op = "next" THEN nodes[n].kind # "knowledge" ELSE nodes[n].weight > 0
  <2>1. nodes[n] \notin {Missing, Broken}
    BY <1>4, SettledFacts
  <2> QED BY <1>4, <2>1 DEF Pool, IsTask
<1>5. ASSUME NEW n \in D PROVE <<n, lv(n)>> \in FoundIn(q, Revision)
  <2>1. n \in Seen(edges, q)
    BY DEF Pool
  <2>2. <<n, lv(n)>> \in Distances(Related(Revision), q.anchor, q.depth)
    BY <1>2, <1>3, <2>1, LevelIsDistance DEF Seen
  <2> QED BY <1>1, <1>4, <2>1, <2>2 DEF FoundIn
<1>6. ASSUME NEW p \in FoundIn(q, Revision) PROVE \E n \in D : p = <<n, lv(n)>>
  <2>1. p \in Distances(Related(Revision), q.anchor, q.depth)
    BY DEF FoundIn
  <2>2. PICK n, k : p = <<n, k>>
    BY <2>1 DEF Distances
  <2>3. <<n, k>> \in Distances(Related(Revision), q.anchor, q.depth)
    BY <2>1, <2>2
  <2>5. n \in Walk(Beside(edges), q.anchor, q.depth) \ {q.anchor} /\ k = lv(n)
    BY <1>2, <1>3, <2>3, LevelIsDistance
  <2>6. n \in D
    BY <1>1, <1>4, <2>2, <2>5 DEF FoundIn, Seen
  <2> QED BY <2>2, <2>5, <2>6
<1> QED BY <1>5, <1>6

LEMMA ExactListed ==
  ASSUME NEW r, Settled(r), NEW q, q = ask[r], q.op # "dependencies", NEW a, a = Answered(r)
  PROVE  Exact(q, a)
<1>1. PICK D : D = Pool(q, nodes, edges)
  OBVIOUS
<1>2. PICK cs : cs = {Candidate(r, n) : n \in D}
  OBVIOUS
<1>3. PICK lv : lv = [n \in D |-> LevelIn(Beside(edges), q.anchor, q.depth, n)]
  OBVIOUS
<1>4. PICK F : F = FoundIn(q, Revision)
  OBVIOUS
<1>5. F = {<<n, lv[n]>> : n \in D}
  <2>1. F = {<<n, LevelIn(Beside(edges), q.anchor, q.depth, n)>> : n \in D}
    BY <1>1, <1>4, FoundIsPool
  <2> QED BY <1>3, <2>1
<1>6. /\ Listed(r) = Ranked(cs, q.limit)
      /\ Rankable(cs) /\ IsFiniteSet(D) /\ Cardinality(cs) = Cardinality(D)
      /\ \A c \in cs : c.id \in D /\ c = Candidate(r, c.id)
  BY <1>1, <1>2, ListedFacts
<1>7. Cardinality(F) = Cardinality(D)
  <2>1. PICK f : f = [n \in D |-> <<n, lv[n]>>]
    OBVIOUS
  <2>2. F = {f[n] : n \in D} /\ \A x, y \in D : f[x] = f[y] => x = y
    BY <1>5, <2>1
  <2> QED BY <1>6, <2>2, ImageCount
<1>8. q \in Requests /\ q.limit \in Nat
  BY SettledFacts, RequestTyped
<1>9. Cardinality(Listed(r)) = IF Cardinality(F) < q.limit THEN Cardinality(F) ELSE q.limit
  BY <1>6, <1>7, <1>8, RankedCount
<1>10. ASSUME NEW c \in Listed(r)
       PROVE  <<c.id, c.depth>> \in F /\ c.total = nodes[c.id].weight * 100 + (MaxDepth + 1 - c.depth) * 10
  <2>1. c \in cs
    BY <1>6 DEF Ranked
  <2>2. PICK n : n \in D /\ n = c.id /\ c = Candidate(r, n)
    BY <1>6, <2>1
  <2>3. c.depth = lv[n] /\ c.total = nodes[n].weight * 100 + (MaxDepth + 1 - c.depth) * 10
    BY <1>1, <1>3, <2>2, CandidateFacts
  <2> QED BY <1>5, <2>2, <2>3
<1>11. /\ a.revision = Revision /\ a.revision.nodes = nodes /\ a.listed = Listed(r)
  BY AnsweredFields
<1> QED BY <1>4, <1>9, <1>10, <1>11 DEF Exact

LEMMA ExactInspection ==
  ASSUME NEW r, Settled(r), NEW q, q = ask[r], q.op = "dependencies", NEW a, a = Answered(r)
  PROVE  Exact(q, a)
<1>1. PICK t, d : t = q.anchor /\ d = q.dependency_depth
  OBVIOUS
<1>2. q \in Requests /\ edges \subseteq Links /\ Revision.edges = edges
  BY DEF Settled, TablesTyped, Revision
<1>3. t \in NodeIds /\ d \in Nat /\ IsTarget(q, t)
  BY <1>1, <1>2, RequestTyped DEF IsTarget, Targets
<1>4. PICK W : W = Walk(Under(edges), t, d) \ {t}
  OBVIOUS
<1>5. PICK lv : lv = [n \in W |-> LevelIn(Under(edges), t, d, n)]
  OBVIOUS
<1>6. PICK S : S = a.inspection.dependencies
  OBVIOUS
<1>7. S = {[id |-> n, depth |-> lv[n], satisfied |-> nodes[n].kind = "completed"] : n \in W}
  <2>1. S = DependencyStates(r, t)
    <3>1. a.inspection = Inspection(r, t)
      BY <1>1, AnsweredFields
    <3>2. Inspection(r, t).dependencies = DependencyStates(r, t)
      BY DEF Inspection
    <3> QED BY <1>6, <3>1, <3>2
  <2>2. S = {[id |-> n, depth |-> LevelIn(Under(edges), t, d, n), satisfied |-> nodes[n].kind = "completed"] :
               n \in W}
    BY <1>1, <1>3, <1>4, <2>1, InspectionFacts
  <2> QED BY <1>5, <2>2
<1>8. {<<s.id, s.depth>> : s \in S} = {<<n, lv[n]>> : n \in W}
  <2>1. ASSUME NEW s \in S PROVE \E n \in W : <<s.id, s.depth>> = <<n, lv[n]>>
    BY <1>7
  <2>2. ASSUME NEW n \in W PROVE \E s \in S : <<s.id, s.depth>> = <<n, lv[n]>>
    <3>1. PICK s \in S : s = [id |-> n, depth |-> lv[n], satisfied |-> nodes[n].kind = "completed"]
      BY <1>7
    <3> QED BY <3>1
  <2> QED BY <2>1, <2>2
<1>9. Follow(Under(edges), Depending(Revision))
  BY <1>2, UnderFollows
<1>10. {<<n, lv[n]>> : n \in W} = Distances(Depending(Revision), t, d)
  <2>1. ASSUME NEW n \in W PROVE <<n, lv[n]>> \in Distances(Depending(Revision), t, d)
    BY <1>3, <1>4, <1>5, <1>9, LevelIsDistance
  <2>2. ASSUME NEW p \in Distances(Depending(Revision), t, d) PROVE \E n \in W : p = <<n, lv[n]>>
    <3>1. PICK n, k : p = <<n, k>>
      BY <2>2 DEF Distances
    <3>2. n \in W /\ k = LevelIn(Under(edges), t, d, n)
      BY <1>3, <1>4, <1>9, <2>2, <3>1, LevelIsDistance
    <3> QED BY <1>5, <3>1, <3>2
  <2> QED BY <2>1, <2>2
<1>11. a.revision = Revision
  BY AnsweredFields
<1> QED BY <1>1, <1>6, <1>8, <1>10, <1>11 DEF Exact

LEMMA AnsweredReady ==
  ASSUME NEW r, Settled(r), NEW q, q = ask[r], NEW a, a = Answered(r)
  PROVE  ReadyOnly(q, a)
<1>1. a.revision = Revision /\ a.revision.nodes = nodes
  BY AnsweredFields
<1>2. CASE q.op = "dependencies"
  <2>1. a.listed = {} /\ a.inspection = Inspection(r, q.anchor) /\ IsTarget(q, q.anchor)
    BY <1>2, AnsweredFields DEF IsTarget, Targets
  <2>2. ASSUME a.inspection.all_satisfied PROVE AllCompleted(Revision, q.anchor)
    BY <1>2, <2>1, <2>2, SatisfiedIsCompleted
  <2> QED BY <1>1, <2>1, <2>2 DEF ReadyOnly
<1>3. CASE q.op # "dependencies"
  <2>1. PICK D : D = Pool(q, nodes, edges)
    OBVIOUS
  <2>2. ASSUME NEW c \in a.listed, c.eligible
        PROVE  nodes[c.id].kind = "ready" /\ AllCompleted(Revision, c.id)
    <3>1. PICK n : n \in D /\ n = c.id /\ c = Candidate(r, n)
      <4>1. PICK cs : cs = {Candidate(r, m) : m \in D}
        OBVIOUS
      <4>3. a.listed = Listed(r) /\ Listed(r) = Ranked(cs, q.limit)
        <5>1. a.listed = Listed(r)
          BY <1>3, AnsweredFields
        <5>2. Listed(r) = Ranked(cs, q.limit)
          BY <1>3, <2>1, <4>1, ListedFacts
        <5> QED BY <5>1, <5>2
      <4>2. c \in cs
        BY <2>2, <4>3 DEF Ranked
      <4> QED BY <1>3, <2>1, <4>1, <4>2, ListedFacts
    <3>2. q.op = "next" /\ nodes[n].kind = "ready" /\ Inspection(r, n).all_satisfied
      BY <1>3, <2>1, <2>2, <3>1, CandidateFacts
    <3>3. IsTarget(q, n)
      BY <2>1, <3>1, <3>2 DEF Pool, IsTarget, Targets
    <3> QED BY <3>1, <3>2, <3>3, SatisfiedIsCompleted
  <2> QED BY <1>1, <1>3, <2>2 DEF ReadyOnly
<1> QED BY <1>2, <1>3

LEMMA AnsweredShown ==
  ASSUME NEW r, Settled(r), NEW q, q = ask[r], NEW a, a = Answered(r)
  PROVE  AllShown(q, a)
<1> SUFFICES ASSUME q.op = "next"
             PROVE  \/ StartableIn(q, Revision) \subseteq {c.id : c \in {x \in Listed(r) : x.eligible}}
                    \/ Cardinality({c.id : c \in {x \in Listed(r) : x.eligible}}) = q.limit
  BY AnsweredFields DEF AllShown
<1>1. PICK D : D = Pool(q, nodes, edges)
  OBVIOUS
<1>2. PICK cs : cs = {Candidate(r, n) : n \in D}
  OBVIOUS
<1>3. /\ Listed(r) = Ranked(cs, q.limit) /\ Rankable(cs)
      /\ \A n \in D : Candidate(r, n) \in cs
      /\ \A c \in cs : c.id \in D /\ c = Candidate(r, c.id)
  BY <1>1, <1>2, ListedFacts
<1>4. q \in Requests /\ edges \subseteq Links /\ Revision.edges = edges /\ Revision.nodes = nodes
  BY SettledFacts DEF Revision
<1>5. ASSUME NEW n \in StartableIn(q, Revision) PROVE n \in D /\ Candidate(r, n).eligible
  <2>1. PICK p \in Distances(Related(Revision), q.anchor, q.depth) :
          /\ p[1] = n /\ Revision.nodes[n].kind = "ready" /\ AllCompleted(Revision, n)
          /\ Distances(Depending(Revision), n, NNodes) = Distances(Depending(Revision), n, q.dependency_depth)
    BY <1>5 DEF StartableIn
  <2>2. PICK k : p = <<n, k>>
    BY <2>1 DEF Distances
  <2>3. n \in Seen(edges, q)
    <3>1. Follow(Beside(edges), Related(Revision)) /\ q.anchor \in NodeIds /\ q.depth \in Nat
      BY <1>4, BesideFollows, RequestTyped
    <3>2. <<n, k>> \in Distances(Related(Revision), q.anchor, q.depth)
      BY <2>1, <2>2
    <3>3. n \in Walk(Beside(edges), q.anchor, q.depth) \ {q.anchor}
      BY <3>1, <3>2, LevelIsDistance
    <3> QED BY <3>3 DEF Seen
  <2>4. IsTask(nodes[n])
    BY <1>4, <2>1, <2>3, SettledFacts DEF IsTask
  <2>5. n \in D /\ IsTarget(q, n)
    BY <1>1, <2>3, <2>4 DEF Pool, IsTarget, Targets
  <2>6. Inspection(r, n).all_satisfied
    BY <2>1, <2>5, CompletedIsSatisfied
  <2>7. nodes[n].kind = "ready"
    BY <1>4, <2>1
  <2> QED BY <1>1, <2>5, <2>6, <2>7, CandidateFacts
<1>6. CASE \A n \in StartableIn(q, Revision) : Candidate(r, n) \in Listed(r)
  <2>1. ASSUME NEW n \in StartableIn(q, Revision)
        PROVE  n \in {c.id : c \in {x \in Listed(r) : x.eligible}}
    <3>1. PICK c : c = Candidate(r, n)
      OBVIOUS
    <3>2. c \in Listed(r) /\ c.eligible /\ c.id = n
      BY <1>1, <1>5, <1>6, <3>1, CandidateFacts
    <3> QED BY <3>2
  <2> QED BY <2>1
<1>7. CASE ~ \A n \in StartableIn(q, Revision) : Candidate(r, n) \in Listed(r)
  <2>1. PICK n \in StartableIn(q, Revision) : Candidate(r, n) \notin Listed(r)
    BY <1>7
  <2>2. PICK L : L = Listed(r)
    OBVIOUS
  <2>3. PICK c : c = Candidate(r, n)
    OBVIOUS
  <2>4. c \in cs /\ c.eligible /\ c \notin Ranked(cs, q.limit) /\ q.limit \in Nat
    BY <1>3, <1>4, <1>5, <2>1, <2>3, RequestTyped
  <2>5. (\A x \in L : x.eligible) /\ Cardinality(L) = q.limit
    BY <1>3, <2>2, <2>4, EligibleFirst
  <2>6. {x \in L : x.eligible} = L
    BY <2>5
  <2>7. PICK f : f = [x \in L |-> x.id]
    OBVIOUS
  <2>8. L \subseteq cs /\ IsFiniteSet(L)
    <3>1. L \subseteq cs
      BY <1>3, <2>2 DEF Ranked
    <3> QED BY <1>3, <3>1, FS_Subset DEF Rankable
  <2>9. \A x, y \in L : f[x] = f[y] => x = y
    BY <1>3, <2>7, <2>8 DEF Rankable
  <2>10. {x.id : x \in L} = {f[x] : x \in L}
    BY <2>7
  <2>11. Cardinality({x.id : x \in L}) = q.limit
    <3>1. PICK T : T = {f[x] : x \in L}
      OBVIOUS
    <3>2. Cardinality(T) = Cardinality(L)
      BY <2>8, <2>9, <3>1, ImageCount
    <3> QED BY <2>5, <2>10, <3>1, <3>2
  <2> QED BY <2>2, <2>6, <2>11
<1> QED BY <1>6, <1>7

-----------------------------------------------------------------------------
(* The invariant of the readers. *)

Phases(op) ==
  {"open", "anchor", "stable", "render", "done"} \cup
    (CASE op = "search" -> {"walk", "score", "fetch"}
       [] op = "next" -> {"walk", "pick", "score", "inspect"}
       [] op = "dependencies" -> {"inspect"})

InContext == {"anchor", "walk", "pick", "score", "fetch", "inspect", "stable"}

ReadersTyped ==
  /\ DOMAIN rpc = Readers /\ DOMAIN ask = Readers /\ DOMAIN printed = Readers
  /\ DOMAIN revision = Readers /\ DOMAIN scores = Readers /\ DOMAIN answer = Readers
  /\ DOMAIN node_cache = Readers /\ DOMAIN edge_cache = Readers
  /\ \A r \in Readers : DOMAIN node_cache[r] = NodeIds /\ DOMAIN edge_cache[r] = NodeIds

IsRevision(v) ==
  /\ v = [nodes |-> v.nodes, edges |-> v.edges]
  /\ v.nodes \in [NodeIds -> Submissions \cup {Missing, Broken}] /\ v.edges \subseteq Links

\* The index only grows.
Precedes(v, w) ==
  v.edges \subseteq w.edges /\ \A n \in NodeIds : v.nodes[n] \in {Missing, w.nodes[n]}

Phased(r) ==
  /\ rpc[r] # "idle" => ask[r] \in Requests /\ rpc[r] \in Phases(ask[r].op)
  /\ rpc[r] \in {"idle", "open"} => node_cache[r] = Blank /\ edge_cache[r] = Blank

\* The revisions a reader notes follow one another.
InOrder(r) ==
  /\ rpc[r] # "idle" /\ ask[r].op # "next" => IsRevision(printed[r])
  /\ rpc[r] = "open" /\ ask[r].op # "next" => Precedes(printed[r], Revision)
  /\ rpc[r] \in InContext =>
       /\ IsRevision(revision[r]) /\ Precedes(revision[r], Revision)
       /\ ask[r].op # "next" => Precedes(printed[r], revision[r])
  /\ rpc[r] \in {"render", "done"} =>
       /\ IsRevision(answer[r].revision) /\ Precedes(answer[r].revision, Revision)
       /\ ask[r].op # "next" => Precedes(printed[r], answer[r].revision)
  /\ rpc[r] = "done" /\ ask[r].op # "next" => printed[r] = answer[r].revision

\* As long as the revision is the one of the start, so is everything in the caches.
WellRead(r) ==
  rpc[r] \in InContext /\ revision[r] = Revision =>
    Good(ask[r], rpc[r], nodes, edges, node_cache[r], edge_cache[r], scores[r])

\* An answer is one of the revision it names.
Truthful(r) ==
  rpc[r] \in {"render", "done"} =>
    Exact(ask[r], answer[r]) /\ ReadyOnly(ask[r], answer[r]) /\ AllShown(ask[r], answer[r])

ReaderInv(r) == Phased(r) /\ InOrder(r) /\ WellRead(r) /\ Truthful(r)

ReadersInv == KnowledgeInv /\ ReadersTyped /\ (damages = 0 => \A r \in Readers : ReaderInv(r))

LEMMA PrecedesItself == ASSUME NEW v PROVE Precedes(v, v)
BY DEF Precedes

LEMMA PrecedesTransitive ==
  ASSUME NEW u, NEW v, NEW w, Precedes(u, v), Precedes(v, w)
  PROVE  Precedes(u, w)
BY DEF Precedes

LEMMA PrecedesBack ==
  ASSUME NEW v, NEW w, IsRevision(v), IsRevision(w), Precedes(v, w), Precedes(w, v)
  PROVE  v = w
<1>1. v.edges = w.edges
  BY DEF Precedes
<1>2. \A n \in NodeIds : v.nodes[n] = w.nodes[n]
  BY DEF Precedes
<1>3. v.nodes = w.nodes
  BY <1>2 DEF IsRevision
<1>4. v = [nodes |-> v.nodes, edges |-> v.edges] /\ w = [nodes |-> w.nodes, edges |-> w.edges]
  BY DEF IsRevision
<1> QED BY <1>1, <1>3, <1>4

LEMMA RevisionTyped ==
  ASSUME TablesTyped
  PROVE  IsRevision(Revision) /\ Revision.nodes = nodes /\ Revision.edges = edges
BY DEF TablesTyped, IsRevision, Revision

Same(r) ==
  /\ rpc'[r] = rpc[r] /\ ask'[r] = ask[r] /\ printed'[r] = printed[r] /\ revision'[r] = revision[r]
  /\ node_cache'[r] = node_cache[r] /\ edge_cache'[r] = edge_cache[r] /\ scores'[r] = scores[r]
  /\ answer'[r] = answer[r]

\* A reader that does nothing, while the index grows.
LEMMA ReaderWaits ==
  ASSUME TablesTyped, TablesTyped', Precedes(Revision, Revision'), NEW r, ReaderInv(r), Same(r)
  PROVE  ReaderInv(r)'
<1>1. PICK v, w : v = Revision /\ w = Revision'
  OBVIOUS
<1>2. IsRevision(v) /\ IsRevision(w) /\ Precedes(v, w)
  <2>1. IsRevision(w)
    BY <1>1 DEF TablesTyped, IsRevision, Revision
  <2> QED BY <1>1, <2>1, RevisionTyped
<1>3. Phased(r)'
  BY DEF Same, ReaderInv, Phased, Blank, Phases
<1>4. InOrder(r)'
  <2>1. ASSUME NEW u, Precedes(u, Revision) PROVE Precedes(u, Revision')
    BY <1>1, <1>2, <2>1, PrecedesTransitive
  <2>2. InOrder(r)
    BY DEF ReaderInv
  <2> QED BY <2>1, <2>2 DEF Same, InOrder, IsRevision, Precedes, InContext
<1>5. WellRead(r)'
  <2> SUFFICES ASSUME rpc[r] \in InContext, revision[r] = Revision'
               PROVE  Good(ask[r], rpc[r], nodes', edges', node_cache[r], edge_cache[r], scores[r])
    BY DEF Same, WellRead, InContext
  <2>1. Precedes(revision[r], v)
    BY <1>1 DEF ReaderInv, InOrder
  <2>2. v = w
    BY <1>1, <1>2, <2>1, PrecedesBack
  <2>3. nodes' = nodes /\ edges' = edges
    BY <1>1, <2>2 DEF Revision
  <2>4. Good(ask[r], rpc[r], nodes, edges, node_cache[r], edge_cache[r], scores[r])
    BY <1>1, <2>2 DEF ReaderInv, WellRead
  <2> QED BY <2>3, <2>4
<1>6. Truthful(r)'
  BY DEF Same, ReaderInv, Truthful
<1> QED BY <1>3, <1>4, <1>5, <1>6 DEF ReaderInv

\* A write leaves what was there.
LEMMA WritesGrow ==
  ASSUME TablesTyped, Write
  PROVE  Precedes(Revision, Revision') /\ UNCHANGED <<damages, reading>>
<1>1. ASSUME UNCHANGED <<nodes, edges>> PROVE Precedes(Revision, Revision')
  BY <1>1 DEF Precedes, Revision
<1>2. CASE Initialize
  BY <1>1, <1>2 DEF Initialize
<1>3. ASSUME NEW s \in Submissions, AddNode(s) PROVE Precedes(Revision, Revision') /\ UNCHANGED <<damages, reading>>
  <2>1. nodes[s.id] = Missing /\ nodes' = [nodes EXCEPT ![s.id] = s] /\ edges' = edges
    BY <1>3 DEF AddNode, Commit
  <2>2. \A n \in NodeIds : nodes[n] \in {Missing, nodes'[n]}
    BY <2>1 DEF TablesTyped
  <2> QED BY <1>3, <2>1, <2>2 DEF Precedes, Revision, AddNode, Commit
<1>4. ASSUME NEW w \in Writers, NEW e \in Links, AddEdge(w, e)
      PROVE  Precedes(Revision, Revision') /\ UNCHANGED <<damages, reading>>
  BY <1>1, <1>4 DEF AddEdge, tables
<1>5. ASSUME NEW w \in Writers, ReadTarget(w)
      PROVE  Precedes(Revision, Revision') /\ UNCHANGED <<damages, reading>>
  BY <1>1, <1>5 DEF ReadTarget, tables
<1>6. ASSUME NEW w \in Writers, PutEdge(w)
      PROVE  Precedes(Revision, Revision') /\ UNCHANGED <<damages, reading>>
  <2>1. PICK new : new = edges \cup {wedge[w]}
    OBVIOUS
  <2>2. Commit(nodes, terms, new) \/ UNCHANGED <<tables, damages>>
    BY <1>6, <2>1 DEF PutEdge
  <2>3. UNCHANGED reading
    BY <1>6 DEF PutEdge
  <2>4. CASE Commit(nodes, terms, new)
    <3>1. nodes' = nodes /\ edges' = new /\ damages' = damages
      BY <2>4 DEF Commit
    <3> QED BY <2>1, <2>3, <3>1 DEF Precedes, Revision
  <2>5. CASE UNCHANGED <<tables, damages>>
    BY <1>1, <2>3, <2>5 DEF tables
  <2> QED BY <2>2, <2>4, <2>5
<1> QED BY <1>2, <1>3, <1>4, <1>5, <1>6 DEF Write

\* More in the caches does no harm.
LEMMA GoodGrows ==
  ASSUME NEW q \in Requests, NEW ph, NEW ns, NEW es, es \subseteq Links, NEW nc, NEW ec, NEW sc,
         Good(q, ph, ns, es, nc, ec, sc), NEW nd, NEW ed, CachesAgree(ns, es, nd, ed),
         \A n \in NodeIds : (nc[n] # Missing => nd[n] # Missing) /\ (ec[n] # Missing => ed[n] # Missing)
  PROVE  Good(q, ph, ns, es, nd, ed, sc)
<1>1. q.anchor \in NodeIds /\ q.depth \in Nat /\ q.dependency_depth \in Nat
  BY RequestTyped
<1>2. Walked(q, ph, es, ed)
  <2>1. q.depth > 0 => Walk(Beside(es), q.anchor, q.depth - 1) \subseteq NodeIds
    <3>1. q.depth > 0 => q.depth - 1 \in Nat
      BY <1>1
    <3> QED BY <1>1, <3>1, NextIsNodes, WalkTyped
  <2> QED BY <2>1 DEF Good, Walked
<1>3. Seen(es, q) \subseteq NodeIds
  BY <1>1, NextIsNodes, WalkTyped DEF Seen
<1>4. Picked(q, ph, es, nd)
  BY <1>3 DEF Good, Picked
<1>5. Looked(q, ph, ns, es, nd, ed)
  <2>1. Targets(q, ns, es) \subseteq NodeIds
    BY <1>1, <1>3 DEF Targets
  <2>2. \A t \in Targets(q, ns, es) : Walk(Under(es), t, q.dependency_depth) \subseteq NodeIds
    BY <1>1, <2>1, NextIsNodes, WalkTyped
  <2> QED BY <2>2 DEF Good, Looked
<1> QED BY <1>2, <1>4, <1>5 DEF Good

\* What the reads of a phase are about, once the walk is over.
LEMMA OthersIsSeen ==
  ASSUME NEW r, NEW q \in Requests, q = ask[r], edges \subseteq Links,
         Good(q, rpc[r], nodes, edges, node_cache[r], edge_cache[r], scores[r]),
         q.op # "dependencies", rpc[r] \in {"pick", "score", "fetch", "inspect", "stable"}
  PROVE  Others(r) = Seen(edges, q)
<1>1. /\ CachesAgree(nodes, edges, node_cache[r], edge_cache[r])
      /\ q.depth > 0 => \A n \in Walk(Beside(edges), q.anchor, q.depth - 1) : edge_cache[r][n] # Missing
  BY DEF Good, Walked
<1>2. q.depth \in Nat
  BY RequestTyped
<1>3. Around(r, q.depth) = Walk(Beside(edges), q.anchor, q.depth)
  BY <1>1, <1>2, AroundIsBeside
<1> QED BY <1>3 DEF Others, Seen

LEMMA InspectedIsTargets ==
  ASSUME NEW r, NEW q \in Requests, q = ask[r], edges \subseteq Links,
         Good(q, rpc[r], nodes, edges, node_cache[r], edge_cache[r], scores[r]),
         q.op # "search", rpc[r] \in {"score", "inspect", "stable"}
  PROVE  Inspected(r) = Targets(q, nodes, edges)
<1>1. CASE q.op = "dependencies"
  BY <1>1 DEF Inspected, Targets
<1>2. CASE q.op = "next"
  <2>1. Others(r) = Seen(edges, q)
    BY <1>2, OthersIsSeen
  <2>2. ASSUME NEW n \in Seen(edges, q) PROVE node_cache[r][n] = nodes[n]
    <3>1. n \in NodeIds
      BY TargetTyped
    <3> QED BY <1>2, <3>1 DEF Good, CachesAgree, Picked
  <2> QED BY <1>2, <2>1, <2>2 DEF Inspected, Targets
<1> QED BY <1>1, <1>2, RequestTyped

-----------------------------------------------------------------------------
(* The steps of a reader. *)

Reads(r) == KnowledgeInv /\ damages = 0 /\ ReadersTyped /\ r \in Readers /\ ReaderInv(r)

\* A step within the read context.
LEMMA InContextStep ==
  ASSUME NEW r, Reads(r), rpc[r] \in InContext, rpc'[r] \in InContext \cap Phases(ask[r].op),
         ask'[r] = ask[r], printed'[r] = printed[r], revision'[r] = revision[r],
         nodes' = nodes, edges' = edges,
         revision[r] = Revision =>
           Good(ask[r], rpc'[r], nodes, edges, node_cache'[r], edge_cache'[r], scores'[r])
  PROVE  ReaderInv(r)'
<1>1. Revision' = Revision
  BY DEF Revision
<1>2. rpc'[r] \notin {"idle", "open", "render", "done"} /\ rpc[r] # "idle"
  BY DEF InContext
<1>3. ask[r] \in Requests /\ InOrder(r)
  BY <1>2 DEF Reads, ReaderInv, Phased
<1>4. Phased(r)'
  BY <1>2, <1>3 DEF Phased, Phases
<1>5. InOrder(r)'
  BY <1>1, <1>2, <1>3 DEF InOrder, IsRevision, Precedes, InContext
<1>6. WellRead(r)'
  BY <1>1 DEF WellRead
<1>7. Truthful(r)'
  BY <1>2 DEF Truthful
<1> QED BY <1>4, <1>5, <1>6, <1>7 DEF ReaderInv

LEMMA ContextFacts ==
  ASSUME NEW r, Reads(r), rpc[r] # "idle"
  PROVE  /\ ask[r] \in Requests /\ rpc[r] \in Phases(ask[r].op) /\ edges \subseteq Links
         /\ ask[r].op \in {"search", "dependencies", "next"}
         /\ DOMAIN node_cache[r] = NodeIds /\ DOMAIN edge_cache[r] = NodeIds /\ r \in Readers
         /\ r \in DOMAIN node_cache /\ r \in DOMAIN edge_cache /\ r \in DOMAIN rpc /\ r \in DOMAIN scores
BY RequestTyped DEF Reads, ReaderInv, Phased, KnowledgeInv, TablesTyped, ReadersTyped

\* Nothing is wanted outside of the context.
LEMMA WantedInContext ==
  ASSUME NEW r, NodesUnread(r) # {} \/ EdgesUnread(r) # {}
  PROVE  rpc[r] \in {"anchor", "walk", "pick", "fetch", "inspect"}
BY DEF NodesUnread, EdgesUnread, NodesWanted, EdgesWanted

LEMMA ReadNodeInv ==
  ASSUME NEW r, Reads(r), NEW n \in NodeIds, ReadNode(r, n)
  PROVE  ReaderInv(r)'
<1>1. n \in NodesUnread(r) /\ node_cache[r][n] = Missing
  BY DEF ReadNode, IsNext, NodesUnread
<1>2. rpc[r] \in InContext
  BY <1>1, WantedInContext DEF InContext
<1>3. /\ nodes[n] # Missing /\ node_cache' = [node_cache EXCEPT ![r][n] = nodes[n]]
      /\ UNCHANGED <<nodes, edges, rpc, ask, printed, revision, edge_cache, scores>>
  BY DEF ReadNode, tables
<1>4. /\ ask[r] \in Requests /\ rpc[r] \in Phases(ask[r].op) /\ edges \subseteq Links
      /\ DOMAIN node_cache[r] = NodeIds /\ r \in DOMAIN node_cache
  BY <1>2, ContextFacts DEF InContext
<1>5. \A m \in NodeIds : node_cache'[r][m] = IF m = n THEN nodes[n] ELSE node_cache[r][m]
  BY <1>3, <1>4
<1>6. ASSUME revision[r] = Revision
      PROVE  Good(ask[r], rpc[r], nodes, edges, node_cache'[r], edge_cache[r], scores[r])
  <2>1. Good(ask[r], rpc[r], nodes, edges, node_cache[r], edge_cache[r], scores[r])
    BY <1>2, <1>6 DEF Reads, ReaderInv, WellRead
  <2>2. CachesAgree(nodes, edges, node_cache'[r], edge_cache[r])
    BY <1>5, <2>1 DEF Good, CachesAgree
  <2>3. PICK nd : nd = node_cache'[r]
    OBVIOUS
  <2>4. \A m \in NodeIds : node_cache[r][m] # Missing => nd[m] # Missing
    BY <1>3, <1>5, <2>3
  <2> QED BY <1>4, <2>1, <2>2, <2>3, <2>4, GoodGrows
<1> QED BY <1>2, <1>3, <1>4, <1>6, InContextStep

LEMMA ReadEdgesInv ==
  ASSUME NEW r, Reads(r), NEW n \in NodeIds, ReadEdges(r, n)
  PROVE  ReaderInv(r)'
<1>1. n \in EdgesUnread(r) /\ edge_cache[r][n] = Missing
  BY DEF ReadEdges, IsNext, EdgesUnread
<1>2. rpc[r] \in InContext
  BY <1>1, WantedInContext DEF InContext
<1>3. /\ edge_cache' = [edge_cache EXCEPT ![r][n] = Touching(edges, n)]
      /\ UNCHANGED <<nodes, edges, rpc, ask, printed, revision, node_cache, scores>>
  BY DEF ReadEdges, tables, Touching
<1>4. /\ ask[r] \in Requests /\ rpc[r] \in Phases(ask[r].op) /\ edges \subseteq Links
      /\ DOMAIN edge_cache[r] = NodeIds /\ r \in DOMAIN edge_cache
  BY <1>2, ContextFacts DEF InContext
<1>5. \A m \in NodeIds : edge_cache'[r][m] = IF m = n THEN Touching(edges, n) ELSE edge_cache[r][m]
  BY <1>3, <1>4
<1>6. ASSUME revision[r] = Revision
      PROVE  Good(ask[r], rpc[r], nodes, edges, node_cache[r], edge_cache'[r], scores[r])
  <2>1. Good(ask[r], rpc[r], nodes, edges, node_cache[r], edge_cache[r], scores[r])
    BY <1>2, <1>6 DEF Reads, ReaderInv, WellRead
  <2>2. CachesAgree(nodes, edges, node_cache[r], edge_cache'[r])
    BY <1>5, <2>1 DEF Good, CachesAgree
  <2>3. PICK ed : ed = edge_cache'[r]
    OBVIOUS
  <2>4. \A m \in NodeIds : edge_cache[r][m] # Missing => ed[m] # Missing
    BY <1>1, <1>5, <2>3
  <2> QED BY <1>4, <2>1, <2>2, <2>3, <2>4, GoodGrows
<1> QED BY <1>2, <1>3, <1>4, <1>6, InContextStep

\* A phase is over when all it wanted is cached.
LEMMA ProceedGood ==
  ASSUME NEW r, Reads(r), Proceed(r), NEW q, q = ask[r], NEW ph, ph = After(q.op, rpc[r]),
         Good(q, rpc[r], nodes, edges, node_cache[r], edge_cache[r], scores[r])
  PROVE  Good(q, ph, nodes, edges, node_cache[r], edge_cache[r], scores[r])
<1>1. rpc[r] \in {"anchor", "walk", "pick", "fetch", "inspect"} /\ NodesUnread(r) = {} /\ EdgesUnread(r) = {}
  BY DEF Proceed
<1>2. q \in Requests /\ rpc[r] \in Phases(q.op) /\ edges \subseteq Links
  BY <1>1, ContextFacts
<1>3. q.op \in {"search", "dependencies", "next"} /\ q.anchor \in NodeIds /\ q.depth \in Nat
      /\ q.dependency_depth \in Nat
  BY <1>2, RequestTyped
<1>4. /\ \A n \in NodesWanted(r) : node_cache[r][n] # Missing
      /\ \A n \in EdgesWanted(r) : edge_cache[r][n] # Missing
  BY <1>1 DEF NodesUnread, EdgesUnread
<1>5. CachesAgree(nodes, edges, node_cache[r], edge_cache[r])
  BY DEF Good
<1>6. CASE rpc[r] = "anchor"
  <2>1. ph = IF q.op = "dependencies" THEN "inspect" ELSE "walk"
    BY <1>6 DEF After
  <2> QED BY <1>5, <2>1 DEF Good, Walked, Picked, Weighed, Looked
<1>7. CASE rpc[r] = "walk"
  <2>1. q.op # "dependencies" /\ ph = IF q.op = "next" THEN "pick" ELSE "score"
    BY <1>2, <1>3, <1>7 DEF After, Phases
  <2>2. ASSUME q.depth > 0, NEW n \in Walk(Beside(edges), q.anchor, q.depth - 1)
        PROVE  edge_cache[r][n] # Missing
    <3>1. \A m \in Around(r, q.depth - 1) : edge_cache[r][m] # Missing
      BY <1>4, <1>7, <2>2 DEF EdgesWanted
    <3>2. Around(r, q.depth - 1) \subseteq NodeIds
      <4> DEFINE f == [m \in NodeIds |-> Neighbors(Cached(r, m), m)]
      <4>1. \A m \in NodeIds : f[m] \subseteq NodeIds
        BY DEF Neighbors
      <4>2. q.depth - 1 \in Nat
        BY <1>3, <2>2
      <4>3. Around(r, q.depth - 1) = Walk(f, q.anchor, q.depth - 1)
        BY DEF Around
      <4> HIDE DEF f
      <4> QED BY <1>3, <4>1, <4>2, <4>3, WalkTyped
    <3>3. q.depth - 1 \in 0..q.depth
      BY <1>3, <2>2
    <3>4. Around(r, q.depth - 1) = Walk(Beside(edges), q.anchor, q.depth - 1)
      BY <1>2, <1>5, <3>1, <3>2, <3>3, AroundIsBeside
    <3> QED BY <2>2, <3>1, <3>4
  <2>3. Walked(q, ph, edges, edge_cache[r])
    BY <2>2 DEF Walked
  <2> QED BY <1>3, <1>5, <2>1, <2>3 DEF Good, Picked, Weighed, Looked
<1>8. CASE rpc[r] = "pick"
  <2>1. q.op = "next" /\ ph = "score"
    BY <1>2, <1>3, <1>8 DEF After, Phases
  <2>2. Others(r) = Seen(edges, q)
    BY <1>2, <1>8, <2>1, OthersIsSeen
  <2>3. \A n \in Seen(edges, q) : node_cache[r][n] # Missing
    BY <1>4, <1>8, <2>2 DEF NodesWanted
  <2> QED BY <1>5, <1>8, <2>1, <2>3 DEF Good, Walked, Picked, Weighed, Looked
<1>9. CASE rpc[r] = "fetch"
  <2>1. q.op = "search" /\ ph = "stable"
    BY <1>2, <1>3, <1>9 DEF After, Phases
  <2> QED BY <1>5, <1>9, <2>1 DEF Good, Walked, Picked, Weighed, Looked
<1>10. CASE rpc[r] = "inspect"
  <2>1. q.op # "search" /\ ph = "stable"
    BY <1>2, <1>3, <1>10 DEF After, Phases
  <2>2. Inspected(r) = Targets(q, nodes, edges)
    BY <1>2, <1>10, <2>1, InspectedIsTargets
  <2>3. PICK d : d = q.dependency_depth
    OBVIOUS
  <2>4. ASSUME NEW t \in Targets(q, nodes, edges), NEW n \in Walk(Under(edges), t, d)
        PROVE  node_cache[r][n] # Missing /\ edge_cache[r][n] # Missing
    <3>1. t \in NodeIds
      BY <1>2, TargetTyped
    <3>2. \A m \in Below(r, t, d) : node_cache[r][m] # Missing /\ edge_cache[r][m] # Missing
      <4>1. \A m \in Below(r, t, d) : m \in UNION {Below(r, u, q.dependency_depth) : u \in Inspected(r)}
        BY <2>2, <2>3
      <4>2. /\ NodesWanted(r) = UNION {Below(r, u, q.dependency_depth) : u \in Inspected(r)}
            /\ EdgesWanted(r) = UNION {Below(r, u, q.dependency_depth) : u \in Inspected(r)}
        BY <1>10 DEF NodesWanted, EdgesWanted
      <4> QED BY <1>4, <4>1, <4>2
    <3>3. Below(r, t, d) \subseteq NodeIds
      <4> DEFINE f == [m \in NodeIds |-> Requirements(Cached(r, m), m)]
      <4>1. ASSUME NEW m \in NodeIds PROVE f[m] \subseteq NodeIds
        <5>1. Cached(r, m) \subseteq Links
          BY <1>2, <1>5 DEF Cached, CachesAgree, Touching
        <5> QED BY <5>1, KnowledgeAssumption DEF Requirements, DependencyEdges
      <4>2. d \in Nat
        BY <1>3, <2>3
      <4>3. Below(r, t, d) = Walk(f, t, d)
        BY DEF Below
      <4> HIDE DEF f
      <4> QED BY <3>1, <4>1, <4>2, <4>3, WalkTyped
    <3>4. d \in Nat /\ d \in 0..(d + 1)
      BY <1>3, <2>3
    <3>5. Below(r, t, d) = Walk(Under(edges), t, d)
      BY <1>2, <1>5, <3>1, <3>2, <3>3, <3>4, BelowIsUnder
    <3> QED BY <3>2, <3>5
  <2>5. Looked(q, ph, nodes, edges, node_cache[r], edge_cache[r])
    BY <2>3, <2>4 DEF Looked
  <2> QED BY <1>5, <1>10, <2>1, <2>5 DEF Good, Walked, Picked, Weighed
<1> QED BY <1>1, <1>6, <1>7, <1>8, <1>9, <1>10

LEMMA ProceedInv ==
  ASSUME NEW r, Reads(r), Proceed(r)
  PROVE  ReaderInv(r)'
<1>1. rpc[r] \in {"anchor", "walk", "pick", "fetch", "inspect"}
  BY DEF Proceed
<1>2. rpc[r] \in InContext
  BY <1>1 DEF InContext
<1>3. /\ ask[r] \in Requests /\ rpc[r] \in Phases(ask[r].op) /\ r \in DOMAIN rpc
      /\ ask[r].op \in {"search", "dependencies", "next"}
  BY <1>1, ContextFacts
<1>4. /\ rpc'[r] = After(ask[r].op, rpc[r])
      /\ UNCHANGED <<nodes, edges, ask, printed, revision, node_cache, edge_cache, scores>>
  BY <1>3 DEF Proceed, Phase, tables, caches
<1>5. After(ask[r].op, rpc[r]) \in InContext \cap Phases(ask[r].op)
  BY <1>1, <1>3 DEF After, Phases, InContext
<1>6. ASSUME revision[r] = Revision
      PROVE  Good(ask[r], rpc'[r], nodes, edges, node_cache[r], edge_cache[r], scores[r])
  <2>1. Good(ask[r], rpc[r], nodes, edges, node_cache[r], edge_cache[r], scores[r])
    BY <1>2, <1>6 DEF Reads, ReaderInv, WellRead
  <2> QED BY <1>4, <2>1, ProceedGood
<1> QED BY <1>2, <1>4, <1>5, <1>6, InContextStep

\* A reader whose call is over.
LEMMA OverInv ==
  ASSUME NEW r, Reads(r), Over(r), UNCHANGED <<nodes, edges>>
  PROVE  ReaderInv(r)'
<1>1. r \in DOMAIN rpc /\ r \in DOMAIN node_cache /\ r \in DOMAIN edge_cache
  BY DEF Reads, ReadersTyped
<1>2. rpc'[r] = "idle" /\ node_cache'[r] = Blank /\ edge_cache'[r] = Blank
  BY <1>1 DEF Over, Phase
<1> QED BY <1>2 DEF ReaderInv, Phased, InOrder, WellRead, Truthful, InContext, Blank

LEMMA AskInv ==
  ASSUME NEW r, Reads(r), NEW q \in Requests, Ask(r, q)
  PROVE  ReaderInv(r)'
<1>1. r \in DOMAIN rpc /\ r \in DOMAIN ask /\ r \in DOMAIN printed /\ TablesTyped /\ rpc[r] = "idle"
  BY DEF Reads, ReadersTyped, KnowledgeInv, Ask
<1>2. /\ rpc'[r] = "open" /\ ask'[r] = q /\ printed'[r] = (IF q.op = "next" THEN Missing ELSE Revision)
      /\ UNCHANGED <<nodes, edges, node_cache, edge_cache>>
  BY <1>1 DEF Ask, Phase, tables, caches
<1>3. Revision' = Revision
  BY <1>2 DEF Revision
<1>4. Phased(r)'
  <2>1. node_cache[r] = Blank /\ edge_cache[r] = Blank
    BY <1>1 DEF Reads, ReaderInv, Phased
  <2> QED BY <1>2, <2>1 DEF Phased, Phases, Blank
<1>5. InOrder(r)'
  <2>1. IsRevision(Revision) /\ Precedes(Revision, Revision)
    BY <1>1, RevisionTyped, PrecedesItself
  <2> QED BY <1>2, <1>3, <2>1 DEF InOrder, InContext, IsRevision, Precedes
<1> QED BY <1>2, <1>4, <1>5 DEF ReaderInv, WellRead, Truthful, InContext

LEMMA OpenInv ==
  ASSUME NEW r, Reads(r), Open(r)
  PROVE  ReaderInv(r)'
<1>1. r \in DOMAIN rpc /\ r \in DOMAIN revision /\ TablesTyped /\ rpc[r] = "open"
  BY DEF Reads, ReadersTyped, KnowledgeInv, Open
<1>2. /\ rpc'[r] = "anchor" /\ revision'[r] = Revision
      /\ UNCHANGED <<nodes, edges, node_cache, edge_cache, scores, ask, printed>>
  BY <1>1 DEF Open, Phase, tables, caches
<1>3. Revision' = Revision
  BY <1>2 DEF Revision
<1>4. ask[r] \in Requests /\ node_cache[r] = Blank /\ edge_cache[r] = Blank
  BY <1>1 DEF Reads, ReaderInv, Phased
<1>5. Phased(r)'
  BY <1>2, <1>4 DEF Phased, Phases
<1>6. InOrder(r)'
  <2>1. IsRevision(Revision) /\ Precedes(Revision, Revision)
    BY <1>1, RevisionTyped, PrecedesItself
  <2>2. ask[r].op # "next" => IsRevision(printed[r]) /\ Precedes(printed[r], Revision)
    BY <1>1 DEF Reads, ReaderInv, InOrder
  <2> QED BY <1>2, <1>3, <2>1, <2>2 DEF InOrder, InContext, IsRevision, Precedes
<1>7. WellRead(r)'
  <2>1. Good(ask[r], "anchor", nodes, edges, node_cache[r], edge_cache[r], scores[r])
    BY <1>4 DEF Good, CachesAgree, Walked, Picked, Weighed, Looked, Blank
  <2> QED BY <1>2, <2>1 DEF WellRead
<1> QED BY <1>2, <1>5, <1>6, <1>7 DEF ReaderInv, Truthful

LEMMA ScoreInv ==
  ASSUME NEW r, Reads(r), Score(r)
  PROVE  ReaderInv(r)'
<1>1. rpc[r] = "score" /\ rpc[r] \in InContext
  BY DEF Score, InContext
<1>2. /\ ask[r] \in Requests /\ rpc[r] \in Phases(ask[r].op) /\ edges \subseteq Links
      /\ r \in DOMAIN rpc /\ r \in DOMAIN scores /\ ask[r].op \in {"search", "dependencies", "next"}
  BY <1>1, ContextFacts
<1>3. ask[r].op \in {"search", "next"}
  BY <1>1, <1>2 DEF Phases
<1>4. PICK q, ph : q = ask[r] /\ ph = IF q.op = "next" THEN "inspect" ELSE "fetch"
  OBVIOUS
<1>5. /\ rpc'[r] = ph
      /\ \A n \in NodeIds : scores'[r][n] = IF n \in Scored(r) /\ terms[n] # Missing THEN terms[n] ELSE 0
      /\ UNCHANGED <<nodes, edges, ask, printed, revision, node_cache, edge_cache>>
  BY <1>2, <1>4 DEF Score, Phase, tables
<1>6. ph \in InContext \cap Phases(q.op)
  BY <1>2, <1>3, <1>4 DEF InContext, Phases
<1>7. ASSUME revision[r] = Revision
      PROVE  Good(q, ph, nodes, edges, node_cache[r], edge_cache[r], scores'[r])
  <2>1. Good(q, "score", nodes, edges, node_cache[r], edge_cache[r], scores[r])
    BY <1>1, <1>4, <1>7 DEF Reads, ReaderInv, WellRead
  <2>2. Scored(r) = {n \in Seen(edges, q) : q.op = "next" => IsTask(nodes[n])}
    <3>1. CASE q.op = "next"
      <4>1. Inspected(r) = Targets(q, nodes, edges)
        BY <1>1, <1>2, <1>4, <2>1, <3>1, InspectedIsTargets
      <4> QED BY <1>4, <3>1, <4>1 DEF Scored, Targets
    <3>2. CASE q.op = "search"
      <4>1. Others(r) = Seen(edges, q)
        BY <1>1, <1>2, <1>4, <2>1, <3>2, OthersIsSeen
      <4> QED BY <1>4, <3>2, <4>1 DEF Scored
    <3> QED BY <1>3, <1>4, <3>1, <3>2
  <2>3. ASSUME NEW n \in Scored(r) PROVE scores'[r][n] = ScoreOf(nodes[n])
    <3>1. n \in NodeIds
      BY <1>2, <1>4, <2>2, TargetTyped
    <3>2. terms[n] = WeightOf(nodes[n])
      BY DEF Score, WellScored
    <3> QED BY <1>5, <3>1, <3>2 DEF ScoreOf
  <2>4. Weighed(q, ph, nodes, edges, scores'[r])
    BY <2>2, <2>3 DEF Weighed
  <2> QED BY <1>3, <1>4, <2>1, <2>4 DEF Good, Walked, Picked, Looked
<1> QED BY <1>1, <1>4, <1>5, <1>6, <1>7, InContextStep

LEMMA ReturnInv ==
  ASSUME NEW r, Reads(r), Return(r)
  PROVE  ReaderInv(r)'
<1>1. rpc[r] = "stable" /\ Intact /\ Revision = revision[r]
  BY DEF Return, RequireStableRevision
<1>2. ask[r] \in Requests
  BY <1>1 DEF Reads, ReaderInv, Phased
<1>3. r \in DOMAIN rpc /\ r \in DOMAIN answer /\ TablesTyped
  BY DEF Reads, ReadersTyped, KnowledgeInv
<1>4. /\ rpc'[r] = "render" /\ answer'[r] = Answered(r)
      /\ UNCHANGED <<nodes, edges, ask, printed>>
  BY <1>3 DEF Return, Phase, tables
<1>5. Settled(r)
  <2>1. EndpointsStored(nodes, edges)
    BY <1>1 DEF Intact, Integrity
  <2>2. Ordered(edges)
    BY DEF Reads, KnowledgeInv, DependenciesAcyclic
  <2>3. Good(ask[r], "stable", nodes, edges, node_cache[r], edge_cache[r], scores[r])
    BY <1>1 DEF Reads, ReaderInv, WellRead, InContext
  <2> QED BY <1>1, <1>2, <1>3, <2>1, <2>2, <2>3 DEF Settled
<1>6. PICK q, a : q = ask[r] /\ a = Answered(r)
  OBVIOUS
<1>7. Exact(q, a) /\ ReadyOnly(q, a) /\ AllShown(q, a)
  BY <1>5, <1>6, ExactListed, ExactInspection, AnsweredReady, AnsweredShown
<1>8. a.revision = Revision
  BY <1>1, <1>6 DEF Answered
<1>9. Revision' = Revision
  BY <1>4 DEF Revision
<1>10. Phased(r)'
  BY <1>2, <1>4 DEF Phased, Phases
<1>11. InOrder(r)'
  <2>1. IsRevision(Revision) /\ Precedes(Revision, Revision)
    BY <1>3, RevisionTyped, PrecedesItself
  <2>2. ask[r].op # "next" => IsRevision(printed[r]) /\ Precedes(printed[r], Revision)
    BY <1>1 DEF Reads, ReaderInv, InOrder, InContext
  <2>3. /\ ask'[r] = q /\ answer'[r] = a /\ printed'[r] = printed[r] /\ a.revision = Revision
    BY <1>4, <1>6, <1>8
  <2> QED BY <1>4, <1>6, <1>9, <2>1, <2>2, <2>3 DEF InOrder, InContext, IsRevision, Precedes
<1>12. Truthful(r)'
  <2>1. ask'[r] = q /\ answer'[r] = a
    BY <1>4, <1>6
  <2> QED BY <1>7, <2>1 DEF Truthful
<1>13. WellRead(r)'
  BY <1>4 DEF WellRead, InContext
<1> QED BY <1>10, <1>11, <1>12, <1>13 DEF ReaderInv

LEMMA RenderInv ==
  ASSUME NEW r, Reads(r), Render(r)
  PROVE  ReaderInv(r)'
<1>1. rpc[r] = "render" /\ Printable(r)
  BY DEF Render
<1>2. ask[r] \in Requests /\ InOrder(r) /\ Truthful(r)
  BY <1>1 DEF Reads, ReaderInv, Phased
<1>3. r \in DOMAIN rpc /\ TablesTyped
  BY DEF Reads, ReadersTyped, KnowledgeInv
<1>4. rpc'[r] = "done" /\ UNCHANGED <<nodes, edges, ask, printed, answer>>
  BY <1>3 DEF Render, Phase, tables
<1>5. Revision' = Revision
  BY <1>4 DEF Revision
<1>6. PICK v : v = answer[r].revision
  OBVIOUS
<1>7. IsRevision(v) /\ Precedes(v, Revision) /\ (ask[r].op # "next" => Precedes(printed[r], v) /\ IsRevision(printed[r]))
  BY <1>1, <1>2, <1>6 DEF InOrder
<1>8. ask[r].op # "next" => printed[r] = v
  <2>1. ask[r].op # "next" => Revision = printed[r]
    BY <1>1 DEF Printable
  <2> QED BY <1>7, <2>1, PrecedesBack
<1>9. Phased(r)'
  BY <1>2, <1>4 DEF Phased, Phases
<1>10. InOrder(r)'
  <2>1. answer'[r].revision = v /\ ask'[r] = ask[r] /\ printed'[r] = printed[r]
    BY <1>4, <1>6
  <2> QED BY <1>4, <1>5, <1>7, <1>8, <2>1 DEF InOrder, InContext, IsRevision, Precedes
<1>11. Truthful(r)'
  BY <1>1, <1>2, <1>4 DEF Truthful
<1>12. WellRead(r)'
  BY <1>4 DEF WellRead, InContext
<1> QED BY <1>9, <1>10, <1>11, <1>12 DEF ReaderInv

\* A step of one reader leaves the others where they are.
LEMMA ReadStepFacts ==
  ASSUME ReadersTyped, NEW r \in Readers, ReadStep(r)
  PROVE  ReadersTyped' /\ \A o \in Readers : o # r => Same(o)
<1> USE DEF Same, ReadersTyped, Phase, caches, Blank
<1>1. ASSUME NEW q \in Requests, Ask(r, q) PROVE ReadersTyped' /\ \A o \in Readers : o # r => Same(o)
  BY <1>1 DEF Ask
<1>2. CASE Open(r)
  BY <1>2 DEF Open
<1>3. CASE Proceed(r)
  BY <1>3 DEF Proceed
<1>4. CASE Score(r)
  BY <1>4 DEF Score
<1>5. CASE Return(r)
  BY <1>5 DEF Return
<1>6. CASE Render(r)
  BY <1>6 DEF Render
<1>7. CASE Finished(r)
  BY <1>7 DEF Finished, Over
<1>8. ASSUME NEW n \in NodeIds, ReadNode(r, n) PROVE ReadersTyped' /\ \A o \in Readers : o # r => Same(o)
  BY <1>8 DEF ReadNode
<1>9. ASSUME NEW n \in NodeIds, ReadEdges(r, n) PROVE ReadersTyped' /\ \A o \in Readers : o # r => Same(o)
  BY <1>9 DEF ReadEdges
<1> QED BY <1>1, <1>2, <1>3, <1>4, <1>5, <1>6, <1>7, <1>8, <1>9 DEF ReadStep

LEMMA ReadStepInv ==
  ASSUME NEW r \in Readers, Reads(r), ReadStep(r)
  PROVE  ReaderInv(r)'
<1>1. CASE Finished(r)
  BY <1>1, OverInv DEF Finished, tables
<1> QED BY <1>1, AskInv, OpenInv, ProceedInv, ScoreInv, ReturnInv, RenderInv, ReadNodeInv, ReadEdgesInv
        DEF ReadStep

LEMMA ReadersStep == ASSUME ReadersInv, [KNext]_kvars PROVE ReadersInv'
<1>1. KnowledgeInv /\ KnowledgeInv' /\ TablesTyped /\ TablesTyped' /\ ReadersTyped
  BY KnowledgeStep DEF ReadersInv, KnowledgeInv
<1>2. ASSUME UNCHANGED reading PROVE ReadersTyped' /\ \A r \in Readers : Same(r)
  BY <1>1, <1>2 DEF reading, caches, ReadersTyped, Same
<1>3. ASSUME UNCHANGED tables PROVE Precedes(Revision, Revision')
  BY <1>3 DEF tables, Precedes, Revision
<1>4. ASSUME UNCHANGED <<damages, reading>>, Precedes(Revision, Revision') PROVE ReadersInv'
  <2>1. ASSUME damages = 0, NEW r \in Readers PROVE ReaderInv(r)'
    BY <1>1, <1>2, <1>4, <2>1, ReaderWaits DEF ReadersInv
  <2> QED BY <1>1, <1>2, <1>4, <2>1 DEF ReadersInv
<1>5. CASE Write
  BY <1>1, <1>4, <1>5, WritesGrow
<1>6. CASE Damage
  <2>1. damages' # 0 /\ UNCHANGED reading
    <3>1. ASSUME NEW m, NEW ns, NEW ts, NEW es, Tamper(m, ns, ts, es) PROVE damages' # 0 /\ UNCHANGED reading
      BY <1>1, <3>1 DEF Tamper, TablesTyped
    <3> QED BY <1>6, <3>1 DEF Damage
  <2> QED BY <1>1, <1>2, <2>1 DEF ReadersInv
<1>7. ASSUME NEW r \in Readers, ReadStep(r) PROVE ReadersInv'
  <2>1. UNCHANGED <<tables, damages, writing>>
    BY <1>7, ReadersWriteNothing
  <2>2. ReadersTyped' /\ \A o \in Readers : o # r => Same(o)
    BY <1>1, <1>7, ReadStepFacts
  <2>3. ASSUME damages = 0, NEW o \in Readers PROVE ReaderInv(o)'
    <3>1. ReaderInv(o)
      BY <2>3 DEF ReadersInv
    <3>2. CASE o = r
      BY <1>1, <1>7, <2>3, <3>1, <3>2, ReadStepInv DEF Reads
    <3>3. CASE o # r
      <4>1. Precedes(Revision, Revision') /\ Same(o)
        BY <1>3, <2>1, <2>2, <3>3
      <4> QED BY <1>1, <3>1, <4>1, ReaderWaits
    <3> QED BY <3>2, <3>3
  <2> QED BY <1>1, <2>1, <2>2, <2>3 DEF ReadersInv
<1>8. CASE UNCHANGED kvars
  BY <1>3, <1>4, <1>8 DEF kvars
<1> QED BY <1>5, <1>6, <1>7, <1>8 DEF KNext

\* As long as nobody else writes the database file, every reader whose revision is
\* still the one of the start holds in its caches what the tables hold, and every
\* answer is exact for the revision it names (KnowledgeReadContext).
THEOREM ReadersInvariant == KSpec => []ReadersInv
<1>1. KInit => ReadersInv
  <2> SUFFICES ASSUME KInit PROVE ReadersInv
    OBVIOUS
  <2>1. KnowledgeInv
    BY KnowledgeStart
  <2>2. ReadersTyped
    BY DEF KInit, ReadersTyped, Blank
  <2>3. ASSUME NEW r \in Readers PROVE ReaderInv(r)
    BY DEF KInit, ReaderInv, Phased, InOrder, WellRead, Truthful, InContext
  <2> QED BY <2>1, <2>2, <2>3 DEF ReadersInv
<1>2. ReadersInv /\ [KNext]_kvars => ReadersInv'
  BY ReadersStep
<1> QED BY <1>1, <1>2, PTL DEF KSpec

\* A search, an inspection or a plan that is printed is the one of the revision it
\* names, with every node at its distance there, however writers changed the index
\* between the queries of the read (require_stable_revision, _require_cli_revision).
THEOREM ReadsAreOneRevision == KSpec => [](damages = 0 => ReadIsOneRevision)
<1>1. ReadersInv => (damages = 0 => ReadIsOneRevision)
  <2> SUFFICES ASSUME ReadersInv, damages = 0, NEW r \in Readers, rpc[r] = "done"
               PROVE  /\ ask[r].op # "next" => printed[r] = answer[r].revision
                      /\ Exact(ask[r], answer[r])
    BY DEF ReadIsOneRevision, Exact, FoundIn
  <2>1. ReaderInv(r)
    BY DEF ReadersInv
  <2> QED BY <2>1 DEF ReaderInv, InOrder, Truthful
<1> QED BY <1>1, ReadersInvariant, PTL

\* A task shown as eligible is ready and has no open dependency at any distance, and
\* dependencies reported as satisfied are (inspect_in_context).
THEOREM EligibleAreReady == KSpec => [](damages = 0 => EligibleIsReady)
<1>1. ReadersInv => (damages = 0 => EligibleIsReady)
  <2> SUFFICES ASSUME ReadersInv, damages = 0, NEW r \in Readers, rpc[r] = "done"
               PROVE  ReadyOnly(ask[r], answer[r])
    BY DEF EligibleIsReady, ReadyOnly
  <2>1. ReaderInv(r)
    BY DEF ReadersInv
  <2> QED BY <2>1 DEF ReaderInv, Truthful
<1> QED BY <1>1, ReadersInvariant, PTL

\* A limit never hides a task that can be started behind one that cannot
\* (next_step_context).
THEOREM EligibleAreShown == KSpec => [](damages = 0 => EligibleShown)
<1>1. ReadersInv => (damages = 0 => EligibleShown)
  <2> SUFFICES ASSUME ReadersInv, damages = 0, NEW r \in Readers, rpc[r] = "done", ask[r].op = "next"
               PROVE  AllShown(ask[r], answer[r])
    BY DEF EligibleShown, AllShown, StartableIn
  <2>1. ReaderInv(r)
    BY DEF ReadersInv
  <2> QED BY <2>1 DEF ReaderInv, Truthful
<1> QED BY <1>1, ReadersInvariant, PTL
=============================================================================
