\* Liveness, under the fairness of the simulator.
CONSTANTS
  UintMod = 1048576
  N = 3
  MSS = 2
  DupThresh = 2
  Rates = {0, 3}
  InitRate = 3
  Window <- MCWindow
  DataRetries = 1
  EcnEnabled = TRUE
  SackBlocks = 3
  SackListSize = 4
  MaxDrops = 1
SPECIFICATION FairSpec
INVARIANTS
  CwrOpen
PROPERTIES
  AllAcked
  QueueDrains
\* The connection ends: everything is acknowledged, or it gave up.
CHECK_DEADLOCK FALSE
