SPECIFICATION MCSpec
CONSTANTS
  NULL = NULL
  Garbage = Garbage
  Clients = {c1, c2}
  NPaths = 2
  Contents = {a, b}
  MaxEdits = 2
  MaxCalls = 3
  MaxFaults = 1
SYMMETRY Symmetry
CHECK_DEADLOCK FALSE
INVARIANTS
  BundleIsSource
  ReturnedIsDurable
  AcceptedOnBundle
PROPERTIES
  MaterializedIsBundle
