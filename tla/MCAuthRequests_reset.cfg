\* A login, and later a reset of the password; nothing fails or overlaps.
SPECIFICATION Spec
CONSTANTS
  Users = {u1}
  Tokens = {t1}
  Sessions = {s1}
  None = None
  Jti = Jti
  Requests = {r1, r2}
  RefreshLife = 3
  AccessLife = 1
  SessionLife = 3
  Forever = 9
  MaxTime = 1
  MaxInFlight = 1
  Failing = FALSE
INVARIANTS
  ResetEndsSessions
\* Every request is answered in the end, and the clock is bounded.
CHECK_DEADLOCK FALSE
