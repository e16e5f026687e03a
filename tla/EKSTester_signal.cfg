\* A signal during Up.
SPECIFICATION Spec
CONSTANTS
  Faults = {"signal"}
  ALBEnabled = FALSE
  MaxRuns = 1
INVARIANTS
  RollsBackEverything
