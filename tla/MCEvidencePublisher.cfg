SPECIFICATION PSpec
CONSTANTS
  NULL = NULL p1 = p1 p2 = p2 p3 = p3
  Procs = {p1, p2, p3}
  RunIds = {r1}
  Bodies = {b1, b2}
  MaxFaults = 2
  MaxLosses = 2
SYMMETRY Symmetry
CHECK_DEADLOCK FALSE
INVARIANTS
  RunHasRecord
PROPERTIES
  ImplementsStore
