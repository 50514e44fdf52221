\* One loss: do the FINs end?
CONSTANTS
  N = 2
  DupThresh = 3
  SynRetries = 2
  DataRetries = 2
  DelAckMax = 2
  SinkStops = FALSE
  MaxCloses = 1
  MaxDrops = 1
  Spurious = 0
SPECIFICATION FairSpec
PROPERTIES
  FinsEnd
\* The connection ends: both sockets are closed.
CHECK_DEADLOCK FALSE
