CONSTANTS
  d1 = d1
  d2 = d2
  h1 = h1
  h2 = h2
  w1 = w1
  w2 = w2
  m1 = m1
  m2 = m2
  None = None
  Docs = {d1, d2}
  Unparsable = {}
  BatchSize = 1
  Hashes = {h1}
  ContentOf <- MCSameContent
  Workers = {w1, w2}
  Models = {m1, m2}
  ModelOf <- MCModelOf
  MaxAttempts = 1
  MaxStalls = 1
  LongRunning = {}
SPECIFICATION Spec
PROPERTY NeverReachesReadyEmpty
CHECK_DEADLOCK FALSE
