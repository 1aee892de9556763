\* A check of the first run, then the rerun; no failures.
CONSTANTS
  Deliveries = {1, 2, 3}
  Histories <- RerunBegins
  MaxAttempts = 1
  DisturbanceBound = 0

\* Nothing is left to do once every delivery is settled.
CHECK_DEADLOCK FALSE

SPECIFICATION Spec

INVARIANTS
  ChecksOfAttempt
