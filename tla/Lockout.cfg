CONSTANTS
  Requests = {r1, r2, r3}
  MaxAttempts = 2
  MaxOutages = 2
SPECIFICATION Spec
CHECK_DEADLOCK FALSE
INVARIANTS TypeOK FailuresBounded
PROPERTIES LockoutEnds
