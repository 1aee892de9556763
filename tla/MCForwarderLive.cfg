\* The same with one payload, one disturbance and one item per round, under
\* fairness.
CONSTANTS
  d1 = d1
  d2 = d2
  p1 = p1
  p2 = p2
  Deliveries = {d1, d2}
  Payloads = {p1}
  Chats = {1, 2}
  NoChat = 0
  MaxItems = 2
  MaxBytes = 9
  DeadMaxItems = 1
  DeadMaxBytes = 9
  MaxAttempts = 2
  PayloadBytes <- MCBytes
  ChatBytes = 1
  SequenceBound = 2
  AttemptBound = 3
  BatchMaxEvents = 1
  LineBytes <- MCLines
  MaxMessageBytes = 2
  DisturbanceBound = 1

\* Nothing is left to do once every delivery is settled.
CHECK_DEADLOCK FALSE

SPECIFICATION LiveSpec
PROPERTIES
  EventuallySettled
