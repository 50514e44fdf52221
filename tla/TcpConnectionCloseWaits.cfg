\* Does a deferred Close wait for data?
CONSTANTS
  N = 2
  DupThresh = 3
  SynRetries = 2
  DataRetries = 2
  DelAckMax = 2
  SinkStops = FALSE
  MaxCloses = 1
  MaxDrops = 1
  Spurious = 0
SPECIFICATION Spec
INVARIANTS
  CloseWaitsForData
\* The connection ends: both sockets are closed.
CHECK_DEADLOCK FALSE
