CONSTANTS
  MaxRequests = 2
  MaxTokens = 2
  HighWater = 1
SPECIFICATION Spec
INVARIANT DisconnectAborts
CHECK_DEADLOCK FALSE
