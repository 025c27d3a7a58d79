CONSTANTS
  Requests = {r1, r2}
  MaxLog = 6
  Crashes = TRUE
  Announcing = TRUE
SPECIFICATION Spec
SYMMETRY RequestSymmetry
CHECK_DEADLOCK FALSE
INVARIANTS TypeOK LogExplainsStatus TransitionsChain ArchivedIsOver
PROPERTIES TerminalIsFinal Lifecycle
