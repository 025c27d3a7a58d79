CONSTANTS
  Requests = {r1, r2}
  Uploads = {f}
  Generated = {}
  MaxMinute = 2
  Failures = TRUE
SPECIFICATION Spec
INVARIANTS TypeOK DocumentsHaveFiles PackIsThere
PROPERTIES ListCatchesUp
