\* Every fault, with the ALB controller; one process.
SPECIFICATION FairSpec
CONSTANTS
  Faults = {"apiError", "clusterFailed", "deleteError", "deleteTimeout", "stop", "signal", "crash"}
  ALBEnabled = TRUE
  MaxRuns = 1
PROPERTIES
  CallsReturn
