\* Does wait mode end with CA_LOSS when ECN is in use?
CONSTANTS
  UintMod = 1048576
  N = 4
  MSS = 1448
  DupThresh = 2
  Rates = {3}
  InitRate = 3
  Window <- MCWindow
  DataRetries = 1
  EcnEnabled = TRUE
  SackBlocks = 3
  SackListSize = 4
  MaxDrops = 1
SPECIFICATION Spec
INVARIANTS
  WaitEndsWithLoss
\* The connection ends: everything is acknowledged, or it gave up.
CHECK_DEADLOCK FALSE
