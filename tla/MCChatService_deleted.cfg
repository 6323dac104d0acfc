\* A deletion while the session is being updated, by users with settings.
SPECIFICATION Spec
CONSTANTS
  Requests = {r1, r2}
  Users = {u1, u2}
  Configured = {u1, u2}
  Nobody = Nobody
  Sessions = {s1}
  Malformed = Malformed
  Original = Original
  NoLimit = NoLimit
  Limits <- SmallLimits
  MaxInFlight = 2
  Failing = FALSE
INVARIANT DeletedMeansGone
SYMMETRY NameSymmetry
\* Every request is answered in the end.
CHECK_DEADLOCK FALSE
