\* Three requests, with failures, until after the end of the first tokens.
SPECIFICATION Spec
CONSTANTS
  Users = {u1, u2}
  Tokens = {t1, t2, t3}
  Sessions = {s1, s2}
  None = None
  Jti = Jti
  Requests = {r1, r2, r3}
  RefreshLife = 2
  AccessLife = 1
  SessionLife = 2
  Forever = 9
  MaxTime = 3
  MaxInFlight = 2
  Failing = TRUE
INVARIANTS
  OneUsableToken
  IndexCovers
  SessionsEnd
PROPERTIES
  SpentStaysSpent
SYMMETRY NameSymmetry
\* Every request is answered in the end, and the clock is bounded.
CHECK_DEADLOCK FALSE
