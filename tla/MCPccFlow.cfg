CONSTANTS
  UintMod = 1048576
  N = 4
  MSS = 2
  DupThresh = 2
  Rates = {1, 2, 4}
  InitRate = 2
  Window <- MCWindow
  DataRetries = 1
  EcnEnabled = FALSE
  SackBlocks = 3
  SackListSize = 4
  MaxDrops = 1
  History = 2
  MaxSteps = 4
  MinRate = 1
  MaxRate = 4
  Actions <- MCActions
SPECIFICATION FlowSpec
INVARIANTS
  FlowTypeOK
  DecisionsHaveIntervals
  CreditedOnce
PROPERTIES
  ThroughputSound
CHECK_DEADLOCK FALSE
