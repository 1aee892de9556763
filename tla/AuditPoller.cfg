\* Three records, pages of one, an overlap that just covers the lag, one
\* record that cannot be admitted, one failure or crash.
CONSTANTS
  RecordBound = 3
  Horizon = 3
  Overlap = 1
  VisibilityLag = 1
  PageSize = 1
  OddityBound = 1
  FaultBound = 1

SPECIFICATION LiveSpec

INVARIANTS
  NoReplay
  NothingMissed

PROPERTIES
  EventuallyAdmitted
