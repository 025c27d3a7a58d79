CONSTANTS
  Requests = {r1, r2}
  a = a
  b = b
  c = c
  Filled <- InstanceFilled
  Texts = {a, b, c}
  Signatures = {s, z}
  MaxVersion = 2
  MaxCalls = 4
  Failures = TRUE
SPECIFICATION Spec
SYMMETRY InstanceSymmetry
CHECK_DEADLOCK FALSE
INVARIANTS TypeOK NumbersInOrder NewestIsCurrent FilesExist DocumentsMatch PreviewComes
