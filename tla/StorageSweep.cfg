CONSTANTS
  Requests = {r1, r2}
  Uploads = {f}
  Generated = {g}
  MaxMinute = 2
  Failures = FALSE
SPECIFICATION Spec
PROPERTIES OnlyOrphansSwept
