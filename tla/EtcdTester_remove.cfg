\* Only the operations themselves: members may be stopped before one is removed.
SPECIFICATION Spec
CONSTANTS
  Faults = {}
  Size = 3
  Limit = 5
  MaxInstances = 3
  MaxOps = 6
INVARIANTS
  RemovedMeansRemoved
