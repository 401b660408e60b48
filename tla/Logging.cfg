SPECIFICATION FairSpec
CONSTANTS
  t1 = t1
  t2 = t2
  main = t1
  NULL = NULL
  Threads <- MCThreads
  Messages <- MCMessages
  Configs <- MCConfigs
  Disks <- MCDisks
  MaxLogs = 2
  Late = TRUE
INVARIANTS
  OneWriter
  RightPlace
  SetupVouches
PROPERTIES
  CallsReturn
CHECK_DEADLOCK FALSE
