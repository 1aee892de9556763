\* Two deliveries and two chats, messages of at most two lines, room for one
\* dead letter, two disturbances.
CONSTANTS
  d1 = d1
  d2 = d2
  p1 = p1
  p2 = p2
  Deliveries = {d1, d2}
  Payloads = {p1, p2}
  Chats = {1, 2}
  NoChat = 0
  MaxItems = 2
  MaxBytes = 9
  DeadMaxItems = 1
  DeadMaxBytes = 9
  MaxAttempts = 2
  PayloadBytes <- MCBytes
  ChatBytes = 1
  SequenceBound = 2
  AttemptBound = 3
  BatchMaxEvents = 2
  LineBytes <- MCLines
  MaxMessageBytes = 2
  DisturbanceBound = 2

\* Nothing is left to do once every delivery is settled.
CHECK_DEADLOCK FALSE

SPECIFICATION Spec
SYMMETRY MCSymmetry

INVARIANTS
  TypeOK
  NothingSkipped
  DuplicatesExplained
  RoundIsOwed

PROPERTIES
  StoreSpec
