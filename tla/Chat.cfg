CONSTANTS
  MaxRequests = 2
  MaxTokens = 2
  HighWater = 1
SPECIFICATION LiveSpec
INVARIANTS
  TypeOK
  FramesWellFormed
  TimersStop
  BufferBounded
  TranscriptPairs
  GroundedIsWhole
PROPERTIES
  HandlerReturns
  ClientSettles
\* Conversations end.
CHECK_DEADLOCK FALSE
