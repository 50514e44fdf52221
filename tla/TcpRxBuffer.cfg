CONSTANTS
  N = 7
  MaxBuffer = 6
  MaxSackBlocks = 2
  MaxSeg = 3
SPECIFICATION FairSpec
INVARIANTS
  BufferExact
  PromiseKept
  SackTruth
PROPERTIES
  NewestFirst
  ImplementsWindow
  AllRead
