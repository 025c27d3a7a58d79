CONSTANTS
  Requests = {r1, r2}
  Users = {u1, u2}
  Emails = {e1, e2}
  NoEmail = NoEmail
  MaxTokens = 3
  Failures = TRUE
SPECIFICATION Spec
SYMMETRY AnySymmetry
CHECK_DEADLOCK FALSE
INVARIANTS TypeOK RotationSpends LogoutCloses
