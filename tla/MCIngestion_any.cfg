\* Two runs with failures of every kind.
SPECIFICATION Spec
CONSTANTS
  Pdfs = {f1, f2, f3}
  BatchSize = 2
  MaxAttempts = 3
  MaxRuns = 2
INVARIANTS
  DuplicatesAreBounded
PROPERTIES
  SuccessMeansStored
  RunEnds
\* The last run ends.
CHECK_DEADLOCK FALSE
