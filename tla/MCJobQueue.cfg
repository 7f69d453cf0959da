SPECIFICATION Spec
CONSTANTS
  k1 = k1 k2 = k2 p1 = p1 p2 = p2 w1 = w1 w2 = w2 b1 = b1 b2 = b2 r1 = r1
  NULL = NULL
  JobIds = {1, 2}
  Keys <- MCKeys
  Kinds = {"coding-agent", "shell"}
  Payloads <- MCPayloads
  WorkerIds <- MCWorkerIds
  Bundles <- MCBundles
  Reports <- MCReports
  Times = {0, 1, 2}
  Stamps = {0, 1}
  Leases = {1, 2}
  MaxAttempts = 2
SYMMETRY Symmetry
INVARIANTS
  IdempotentEnqueue
  LineageIsResult
  AttemptNumbersUnique
