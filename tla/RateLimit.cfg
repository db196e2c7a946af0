CONSTANTS
  c1 = c1
  c2 = c2
  c3 = c3
  c4 = c4
  Calls = {c1, c2, c3, c4}
  Cost = 2
  Capacity = 4
  Slack = 1
  MaxLag = 6
  MaxAhead = 0
  MaxTime = 13
SYMMETRY CallSymmetry
SPECIFICATION Spec
INVARIANTS
  RateHolds
  RetryAfterIsEnough
\* Requests and time are bounded.
CHECK_DEADLOCK FALSE
