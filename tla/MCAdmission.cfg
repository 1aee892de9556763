\* Two requests in flight, a webhook delivery and an audit record, a queue with
\* room for one item, three faults, under fairness.
CONSTANTS
  p1 = p1
  p2 = p2
  w1 = w1
  w2 = w2
  NoChat = NoChat
  Nobody = Nobody
  Recovery = Recovery
  Deliveries = {1, 2}
  Payloads = {p1, p2}
  ArchiveOnly = {p2}
  Source <- GithubAndAudit
  Chats = {chat}
  Workers = {w1, w2}
  MaxItems = 1
  MaxBytes = 9
  DeadMaxItems = 1
  DeadMaxBytes = 9
  MaxAttempts = 1
  PayloadBytes <- MCPayloadBytes
  ChatBytes = 1
  SequenceBound = 2
  AttemptBound = 1
  RecoveryBatch = 1
  FaultBound = 3

SPECIFICATION LiveSpec

INVARIANTS
  TypeOK
  AckedIsDurable
  ArchivedIsDurable
  FilesAreRecorded

PROPERTIES
  InboxSpec
  EventuallyArchived
  EventuallyServing
