\* A deletion outlives the loop that waits for it.
SPECIFICATION Spec
CONSTANTS
  Faults = {"deleteTimeout"}
  ALBEnabled = FALSE
  MaxRuns = 2
INVARIANTS
  DownSuccessMeansGone
