\* Every fault, two masters and a worker, up to three processes.
SPECIFICATION FairSpec
CONSTANTS
  Faults = {"createError", "deleteError", "slow", "commandError", "race", "crash"}
  Masters = {m1, m2}
  Workers = {w1}
  MaxOps = 5
INVARIANTS
  TypeOK
  TerminateMeansGone
  RollsBackEverything
  CreateMeansComplete
  ServicesFindTheirFiles

  
CHECK_DEADLOCK FALSE
