\* Failures and Stop() at every stage of Up; three processes, one after another.
SPECIFICATION Spec
CONSTANTS
  Faults = {"apiError", "stop"}
  ALBEnabled = FALSE
  MaxRuns = 3
INVARIANTS
  RollsBackEverything
  DownSuccessMeansGone
  NoDependencyViolation
