\* Four requests: two to a window, over three windows; a log of two, pages of one.
SPECIFICATION MCSpec
CONSTANTS
  Requests = {r1, r2, r3, r4}
  Failing = TRUE
  Limit = 2
  Window = 2
  Slack = 1
  Draws = {d1, d2}
  MaxTime = 5
  MaxInFlight = 3
  MaxLog = 2
  PageSize = 1
  Overscan = 2
INVARIANTS
  WindowBound
  RefusedForCause
  LogIsMostRecent
  PagesMissNothing
SYMMETRY NameSymmetry
\* Every request is answered in the end, and the clock is bounded.
CHECK_DEADLOCK FALSE
