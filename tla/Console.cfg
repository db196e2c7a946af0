CONSTANTS
  None = None
  k1 = k1
  k2 = k2
  f1 = f1
  q1 = q1
  q2 = q2
  MaxLists = 2
  MaxCalls = 2
  Keys = {k1, k2}
  Questions = {q1, q2}
  Bars = {1, 2}
  Scores = {1}
  Files = {f1}
  PageLimit = 2
  LastDoc = 3
SPECIFICATION Spec
SYMMETRY Symmetry
INVARIANTS
  SettingsAreCurrent
  ThresholdIsPersisted
  VerdictMatchesAnswer
  DocumentsAreShown
