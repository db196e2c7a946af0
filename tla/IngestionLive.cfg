CONSTANTS
  d1 = d1
  d2 = d2
  h1 = h1
  h2 = h2
  w1 = w1
  w2 = w2
  m1 = m1
  m2 = m2
  None = None
  Docs = {d1, d2}
  Unparsable = {}
  BatchSize = 1
  Hashes = {h1, h2}
  ContentOf <- MCOverlapping
  Workers = {w1}
  Models = {m1, m2}
  ModelOf <- MCOneSlot
  MaxAttempts = 2
  MaxStalls = 1
  LongRunning = {}
SPECIFICATION LiveSpec
INVARIANT ReadyIsEmbedded
PROPERTIES
  RowsFollowLifecycle
  EveryRowSettles
  EveryJobEnds
CHECK_DEADLOCK FALSE
