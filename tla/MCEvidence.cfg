SPECIFICATION ESpec
CONSTANTS
  None = None
  Limits <- MCLimits
  HardLimits <- MCHard
  Proposals <- MCProposals
  Receipts <- MCReceipts
  Producer = "control"
  Candidates <- MCCandidates
  Reported <- MCReported
  MaxDeviations = 2
  MaxReports = 3
CHECK_DEADLOCK FALSE
INVARIANTS
  VerdictIsForced
  EveryClauseCounts
  AdapterCannotDecide
PROPERTIES
  EvidenceOnlyRefines
