CONSTANTS
  Requests = {r1}
  MaxLog = 6
  Crashes = TRUE
  Announcing = FALSE
  Forms <- OneForm
  DirectMoves <- ScreenMoves
SPECIFICATION FSpec
CHECK_DEADLOCK FALSE
PROPERTIES HandedOverIsSigned
