\* Is an interval credited with its own packets only?
CONSTANTS
  UintMod = 1048576
  N = 4
  MSS = 1448
  DupThresh = 2
  Rates = {2, 3}
  InitRate = 2
  Window <- MCWindow
  DataRetries = 1
  EcnEnabled = FALSE
  SackBlocks = 3
  SackListSize = 4
  MaxDrops = 1
SPECIFICATION Spec
INVARIANTS
  CreditWithinSent
\* The connection ends: everything is acknowledged, or it gave up.
CHECK_DEADLOCK FALSE
