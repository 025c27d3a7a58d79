CONSTANTS
  Requests = {r1, r2}
  Users = {u1, u2}
  PlainRoles = {}
  FirstAdmins = {u1}
  MaxRows = 2
  Marks = {"archived"}
  Failures = TRUE
SPECIFICATION Spec
SYMMETRY RequestSymmetry
CHECK_DEADLOCK FALSE
INVARIANTS TypeOK DecidedOnce PendingBounded AdminsRemain
