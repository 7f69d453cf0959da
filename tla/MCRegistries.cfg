SPECIFICATION MCSpec
CONSTANTS
  NULL = NULL Started = Started Empty = Empty p1 = p1 p2 = p2
  Procs = {p1, p2}
  EvolutionIds = {e1, e2}
  Candidates = {c1, c2}
  Train = {x1}
  Holdout = {x2, x3}
  MaxScore = 1
  MinTrainGain = 1
  MinHoldoutGain = 1
  RequireAll = TRUE
  MaxCalls = 4
  MaxCrashes = 1
  MaxEdits = 1
  Missing = Missing Broken = Broken w1 = w1 w2 = w2
  NNodes = 3
  Submissions <- MCSubmissions
  Links <- MCLinks
  Requests <- MCRequests
  Readers = {r1}
  Writers = {w1, w2}
  MaxDepth = 2
  MaxExpansion = 3
  MaxCandidates = 2
  MaxDependencies = 1
  MaxDamages = 1
SYMMETRY Symmetry
CHECK_DEADLOCK FALSE
INVARIANTS
  PolicyWasEarned
  WholeKeyIsForever
  DependenciesAcyclic
  ReadIsOneRevision
  EligibleIsReady
  EligibleShown
PROPERTIES
  CorruptIsFrozen
