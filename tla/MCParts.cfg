\* Each part with every fault; three calls of two commands, two resources,
\* two masters and two workers through three operations, a batch of two of up
\* to three instances with a replacement, two deployers with two tries, two requests.
SPECIFICATION Spec
CONSTANTS
  Key = {k1, k2}
  MaxRetries = 2
  MaxCalls = 3
  Faults = {"createError", "deleteError", "signal", "timeout", "crash"}
  Resources = 2
  Masters = {m1, m2}
  Workers = {w1, w2}
  MaxOps = 3
  Batch = 2
  MaxSize = 3
  MaxMade = 4
  Deployer = {d1, d2}
  MaxTries = 2
  Client = {c1, c2}
INVARIANTS
  TypeOK
  TriesAsBudgeted
  NothingLeft
  DownMeansGone
  FileKnows
  KubeadmTerminates
  KubeadmRollsBack
  CreateMeansJoined
  SecondRound
  WorkersRecorded
  BucketReady
  PageTellsUpstream
CHECK_DEADLOCK FALSE
