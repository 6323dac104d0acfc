\* Everything may happen, anywhere.
SPECIFICATION Spec
CONSTANTS
  Processes = {server, script}
  Threads = {t1, t2}
  Ingesters = {i1}
  Chunks = {c1, c2}
  Initial = {c1}
  None = None
  Torn = Torn
  Overlapping = TRUE
  Replacing = TRUE
  Failing = TRUE
INVARIANTS
  OneBuilder
  ColdStartIsFresh
PROPERTIES
  BuiltOnce
  QuietLoadIsValid
SYMMETRY NameSymmetry
