SPECIFICATION CSpec
CONSTANTS
  NULL = NULL p1 = p1 p2 = p2
  JobIds = {1}
  Keys = {k1}
  Kinds = {"coding-agent", "shell"}
  Payloads = {y1}
  WorkerIds = {w1}
  Bundles = {b1, b2}
  Reports = {rep1}
  Times = {0, 1}
  Stamps = {0}
  Leases = {1}
  MaxAttempts = 2
  Controls = {p1, p2}
  RunIds = {run1, run2}
  Contracts = {"exact", "open"}
  Profiles = {prof1}
  Facts = {"ok", "bad"}
  Evaluate <- MCEvaluate
SYMMETRY Symmetry
INVARIANTS
  OutcomeHasEvidence
  ReturnedIsStored
PROPERTIES
  ImplementsTaskLifecycle
