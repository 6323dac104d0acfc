\* One run with failures of every kind.
SPECIFICATION Spec
CONSTANTS
  Pdfs = {f1, f2}
  BatchSize = 1
  MaxAttempts = 3
  MaxRuns = 1
PROPERTY SuccessMeansAllStored
\* The last run ends.
CHECK_DEADLOCK FALSE
