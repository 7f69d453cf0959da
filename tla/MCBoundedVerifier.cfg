SPECIFICATION BFairSpec
CONSTANTS
  NULL = NULL
  NCommands = 2
  Trees = {t0, t1}
  MaxOutput = 1
  MaxProduced = 2
  MaxForks = 1
  MaxFaults = 1
CHECK_DEADLOCK FALSE
INVARIANTS
  PassedIsComplete
  PassedIsOneTree
PROPERTIES
  CaptureEnds
