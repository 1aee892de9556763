\* A worker and two deliveries of one subscription command, one fault.
CONSTANTS
  Worker = worker
  Requests = {q1, q2}
  Second = 1
  PerSecond = 1
  Minute = 3
  PerMinute = 2
  LagBound = 1
  Tokens = {1, 2, 3, 4}
  Expire = 2
  Margin = 1
  Latency = 1
  RetryAfters = {1, 2}
  FaultBound = 1

SPECIFICATION Spec
SYMMETRY MCSymmetry

INVARIANTS
  WithinLimits
  RepliesOnce

PROPERTIES
  RestsDuringCooldown
  CachedTokenIsGood
  GoodTokenIsKept
