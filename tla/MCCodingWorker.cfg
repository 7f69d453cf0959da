SPECIFICATION WFairSpec
CONSTANTS
  NULL = NULL p1 = p1 p2 = p2 w1 = w1 w2 = w2 y1 = y1 same = same k1 = k1 k2 = k2
  JobIds = {1}
  Keys = {k1}
  Kinds = {"coding-agent"}
  Payloads = {y1}
  WorkerIds = {w1, w2}
  Bundles = {b1}
  Reports = {rep1}
  Times = {0, 1, 2, 3, 4}
  Stamps = {0}
  Leases = {1, 2}
  MaxAttempts = 4
  Procs = {p1, p2}
  WorkerIdOf <- OwnIds
  Lease = 2
  Report = rep1
  RunPrefix <- SamePrefix
  MaxClock = 3
  MaxCrashes = 1
INVARIANTS
  AttemptsNotShared
  RetryNotBlocked
PROPERTIES
  StaleHarmsNothing
  ClaimableIsTaken
