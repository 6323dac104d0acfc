\* Three requests at once, with failures.
SPECIFICATION Spec
CONSTANTS
  Requests = {r1, r2, r3}
  Accounts = {a1, a2}
  Emails = {e1, e2}
  Original = Original
  None = None
  MaxInFlight = 3
  Failing = TRUE
INVARIANTS
  PasswordIsLatest
  EmailsStayUnique
  NoOrphans
SYMMETRY NameSymmetry
\* Every request is answered in the end.
CHECK_DEADLOCK FALSE
