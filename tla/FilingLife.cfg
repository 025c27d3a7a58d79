CONSTANTS
  Requests = {r1}
  MaxLog = 8
  Crashes = TRUE
  Announcing = FALSE
  Forms <- OneForm
  DirectMoves <- ScreenMoves
SPECIFICATION FSpec
CHECK_DEADLOCK FALSE
INVARIANTS ApprovedStaysAudited
PROPERTIES WorkflowSpec
