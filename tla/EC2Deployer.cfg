\* Every fault; a VPC of the deployer's own or one that was there before.
SPECIFICATION FairSpec
CONSTANTS
  Faults = {"apiError", "deleteError", "slow", "stop", "crash"}
  Size = 3
  RunInstancesBatch = 2
  Wait = TRUE
  MaxInstances = 4
  MaxOps = 5
INVARIANTS
  TypeOK
  TerminatedMeansGone
  ExistingVPCKept
  LaunchesClusterSize
  CreatedKnowsInstances
PROPERTIES
  OperationsReturn
  ContractKept
