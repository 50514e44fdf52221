\* Liveness: one loss, of any packet; both ends closed at any time.
CONSTANTS
  N = 2
  DupThresh = 3
  SynRetries = 2
  DataRetries = 2
  DelAckMax = 2
  SinkStops = TRUE
  MaxCloses = 2
  MaxDrops = 1
  Spurious = 0
SPECIFICATION FairSpec
PROPERTIES
  Delivered
  BothEnd
\* The connection ends: both sockets are closed.
CHECK_DEADLOCK FALSE
