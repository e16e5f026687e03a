\* Every fault; a cluster of two that may grow by one beyond the limit.
SPECIFICATION Spec
CONSTANTS
  Faults = {"ec2Error", "deleteError", "slow", "sshError", "commandError", "crash"}
  Size = 2
  Limit = 3
  MaxInstances = 4
  MaxOps = 7
INVARIANTS
  TypeOK
  MembersKnown
  InstancesRecorded
  TerminateMeansGone
  CreateMeansReady
