SPECIFICATION HLiveSpec
CONSTANTS
  NULL = NULL
  NCommands = 2
  Trees = {t0, t1, link}
  Unhashable = {link}
  Requested = t0
  HasAssets = TRUE
CHECK_DEADLOCK FALSE
INVARIANTS
  PassedIsClean
  FactsAreTrue
PROPERTIES
  VerificationEnds
