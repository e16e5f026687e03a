\* Stop() during Create.
SPECIFICATION Spec
CONSTANTS
  Faults = {"stop"}
  Size = 1
  RunInstancesBatch = 2
  Wait = FALSE
  MaxInstances = 1
  MaxOps = 2
INVARIANTS
  VPCCreatedIsTrue
