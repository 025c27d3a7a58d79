CONSTANTS
  Requests = {r1, r2}
  MaxLog = 5
  Crashes = FALSE
  Announcing = TRUE
SPECIFICATION FairSpec
CHECK_DEADLOCK FALSE
PROPERTIES RequestsReturn ChangesAnnounced DueActivityLeavesApproved
