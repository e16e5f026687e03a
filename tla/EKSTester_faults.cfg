\* Every fault, with the ALB controller; a process and the one started after it.
SPECIFICATION Spec
CONSTANTS
  Faults = {"apiError", "clusterFailed", "deleteError", "deleteTimeout", "stop", "signal", "crash"}
  ALBEnabled = TRUE
  MaxRuns = 2
INVARIANTS
  TypeOK
  NothingUntracked
  FlagsOnDisk
  TeardownComplete
