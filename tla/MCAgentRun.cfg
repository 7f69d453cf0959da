SPECIFICATION AFairSpec
CONSTANTS
  NULL = NULL h1 = h1 h2 = h2 h3 = h3 t1 = t1 t2 = t2
  Hashes = {h1, h2, h3}
  Criteria = {"c1", "c2"}
  Covers <- OneEach
  Calls = {t1, t2}
  MaxSteps = 5
  MaxProtocolErrors = 1
  MaxCompactions = 2
  KeepRecent = 1
  CompactInterval = 3
  VerifyInterval = 2
  StagnationLimit = 2
INVARIANTS
  SuccessIsVerified
  ContextComplete
PROPERTIES
  FailureNotRepeated
  RunEnds
