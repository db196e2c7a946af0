CONSTANTS
  MaxUploads = 2
  MaxWrites = 3
SPECIFICATION LiveSpec
INVARIANTS
  StreamTellsHistory
  ProgressIsDriven
PROPERTIES
  RowSettles
  StreamEnds
\* Uploads end.
CHECK_DEADLOCK FALSE
