CONSTANTS
  MaxUploads = 2
  MaxWrites = 3
SPECIFICATION Spec
PROPERTY FailedRowOffersRetry
CHECK_DEADLOCK FALSE
