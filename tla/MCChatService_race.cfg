\* Three requests at once on one session, with failures; one user has settings.
SPECIFICATION Spec
CONSTANTS
  Requests = {r1, r2, r3}
  Users = {u1, u2}
  Configured = {u2}
  Nobody = Nobody
  Sessions = {s1}
  Malformed = Malformed
  Original = Original
  NoLimit = NoLimit
  Limits <- SmallLimits
  MaxInFlight = 3
  Failing = TRUE
INVARIANTS
  CountNeverOverstates
  OwnerIsolation
  AnswerHasItsQuestion
  CountIsExact
  LastWriteStands
SYMMETRY NameSymmetry
\* Every request is answered in the end.
CHECK_DEADLOCK FALSE
