\* Two losses, two rates, a small window.
CONSTANTS
  UintMod = 1048576
  N = 4
  MSS = 2
  DupThresh = 2
  Rates = {2, 3}
  InitRate = 2
  Window <- MCWindow
  DataRetries = 1
  EcnEnabled = FALSE
  SackBlocks = 1
  SackListSize = 2
  MaxDrops = 2
SPECIFICATION Spec
INVARIANTS
  TypeOK
  ScoreboardConsistent
  TimerArmed
  KnowledgeGrows
  RecoveryOpen
  DupAckCounted
  IntervalsSent
  AccountedBounded
  PassedIsAccounted
  WaitModeIsLoss
PROPERTIES
  TimeoutLeavesOne
  RateSteady
\* The connection ends: everything is acknowledged, or it gave up.
CHECK_DEADLOCK FALSE
