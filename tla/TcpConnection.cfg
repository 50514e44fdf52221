\* Two losses, both ends closed at any time, one timer too early.
CONSTANTS
  N = 2
  DupThresh = 3
  SynRetries = 2
  DataRetries = 2
  DelAckMax = 2
  SinkStops = TRUE
  MaxCloses = 2
  MaxDrops = 2
  Spurious = 1
SPECIFICATION Spec
INVARIANTS
  TypeOK
  EofComplete
  HalfClosed
  WaitTimed
  ClosedIsQuiet
PROPERTIES
  IsStream
\* The connection ends: both sockets are closed.
CHECK_DEADLOCK FALSE
