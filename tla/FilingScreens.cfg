CONSTANTS
  Requests = {r1, r2}
  MaxLog = 4
  Crashes = FALSE
  Announcing = FALSE
  Forms <- OneForm
  DirectMoves <- ScreenMoves
SPECIFICATION FSpec
SYMMETRY RequestSymmetry
CHECK_DEADLOCK FALSE
INVARIANTS FTypeOK FiledIsSigned ApprovalsAreDecisions HandoverIsRecorded ReviewedIsNew
