\* Three deliveries, two payloads of different size, two chats; room for two
\* queued items (or one large one with two chats) and a single dead letter.
CONSTANTS
  d1 = d1
  d2 = d2
  d3 = d3
  p1 = p1
  p2 = p2
  c1 = c1
  c2 = c2
  NoChat = NoChat
  Deliveries = {d1, d2, d3}
  Payloads = {p1, p2}
  Chats = {c1, c2}
  MaxItems = 2
  MaxBytes = 6
  DeadMaxItems = 1
  DeadMaxBytes = 4
  MaxAttempts = 2
  PayloadBytes <- MCPayloadBytes
  ChatBytes = 1
  SequenceBound = 3
  AttemptBound = 2

SPECIFICATION Spec
SYMMETRY MCSymmetry

INVARIANTS
  TypeOK
  RecordsAgree
  RawUntilArchived
  ItemAccounting
  ByteAccounting

PROPERTIES
  LifecycleSpec

