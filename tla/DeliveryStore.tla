---------------------------- MODULE DeliveryStore ----------------------------
(***************************************************************************)
(* The delivery part of internal/store: the delivery_states, queue,        *)
(* dead_letter and meta buckets of the bbolt database.  Every method is    *)
(* one bbolt transaction, so every action is one atomic step.              *)
(*                                                                         *)
(* Abstracted: an event and its body are one payload (the code compares    *)
(* event and SHA-256 digest), encoded sizes are PayloadBytes and           *)
(* ChatBytes, NextAttempt <= now is the flag "due", the stored cooldown    *)
(* instant is the flag "cooldown".  The dedupe index and the chat          *)
(* subscriptions are other components.                                     *)
(***************************************************************************)
EXTENDS Integers, FiniteSets, Functions

CONSTANTS
  Deliveries,      (* delivery identities                                    *)
  Payloads,        (* event + body                                           *)
  Chats,           (* chat identities a delivery may be addressed to         *)
  NoChat,          (* "" : the legacy / configured chat of an item without   *)
                   (* ChatIDs                                                *)
  MaxItems,        (* QUEUE_MAX_ITEMS                                        *)
  MaxBytes,        (* QUEUE_MAX_BYTES                                        *)
  DeadMaxItems,    (* DEAD_LETTER_MAX_ITEMS                                  *)
  DeadMaxBytes,    (* DEAD_LETTER_MAX_BYTES                                  *)
  MaxAttempts,     (* MAX_ATTEMPTS                                           *)
  PayloadBytes,    (* PayloadBytes[p]: size of an item without its chats     *)
  ChatBytes,       (* size of one entry of ChatIDs                           *)
  SequenceBound,   (* bound of the model: sequence numbers handed out        *)
  AttemptBound     (* bound of the model: attempts counted on one item       *)

ASSUME ChatAssumption == NoChat \notin Chats /\ IsFiniteSet(Chats)

ASSUME LimitsAssumption ==
  /\ MaxItems \in Nat /\ DeadMaxItems \in Nat
  /\ MaxAttempts \in Nat \ {0}
  /\ SequenceBound \in Nat /\ AttemptBound \in Nat

ASSUME SizeAssumption ==
  /\ PayloadBytes \in [Payloads -> Nat] /\ ChatBytes \in Nat
  /\ MaxBytes \in Nat /\ DeadMaxBytes \in Nat

VARIABLES
  states,          (* delivery_states bucket: a record per known delivery    *)
  queue,           (* queue bucket: an item per sequence number              *)
  dead,            (* dead_letter bucket: an item per sequence number        *)
  next,            (* meta "next": last sequence number handed out           *)
  count, bytes,            (* meta "count", "bytes"                          *)
  deadCount, deadBytes,    (* meta "dead_count", "dead_bytes"                *)
  cooldown         (* meta "cooldown" lies in the future                     *)

counters == <<count, bytes, deadCount, deadBytes>>
storeVars == <<states, queue, dead, next, count, bytes, deadCount, deadBytes, cooldown>>

Statuses == {"queued", "archive_only", "delivered", "dead"}

Item == [id : Deliveries, payload : Payloads, chats : SUBSET Chats,
         attempts : Nat, archived : BOOLEAN, due : BOOLEAN]

DeliveryState == [payload : Payloads, seq : Nat, status : Statuses,
                  archived : BOOLEAN, raw : BOOLEAN]

(***************************************************************************)
(* Buckets and sizes.                                                      *)
(***************************************************************************)
Put(bucket, key, value) ==
  [k \in DOMAIN bucket \cup {key} |-> IF k = key THEN value ELSE bucket[k]]

Without(bucket, keys) == [k \in DOMAIN bucket \ keys |-> bucket[k]]

(* activeItemBytes: attempts, times, error text and the archived flag do   *)
(* not count, ChatIDs do.                                                  *)
ItemBytes(item) == PayloadBytes[item.payload] + ChatBytes * Cardinality(item.chats)

BucketBytes(bucket) == SumFunction([s \in DOMAIN bucket |-> ItemBytes(bucket[s])])

(* Mutant: the room is tested before the new item is counted. *)
FitsQueueBefore(item) == count < MaxItems /\ bytes < MaxBytes

FitsQueue(item) == count < MaxItems /\ bytes + ItemBytes(item) <= MaxBytes

(* states' when the deliveries of the items in keys reach a status. *)
WithStatus(keys, status) ==
  LET ids == {queue[s].id : s \in keys}
  IN  [d \in DOMAIN states |->
         IF d \in ids THEN [states[d] EXCEPT !.status = status] ELSE states[d]]

NewItem(d, p, C) ==
  [id |-> d, payload |-> p, chats |-> C, attempts |-> 0, archived |-> FALSE, due |-> TRUE]

NewState(p, s, status) ==
  [payload |-> p, seq |-> s, status |-> status, archived |-> FALSE, raw |-> TRUE]

(***************************************************************************)
(* Results a caller can get without anything being written.                *)
(***************************************************************************)
Known(d) == d \in DOMAIN states
Conflicts(d, p) == Known(d) /\ states[d].payload # p
QueueFull(d, p, C) == ~Known(d) /\ ~FitsQueue(NewItem(d, p, C))

(***************************************************************************)
(* Transactions.                                                           *)
(***************************************************************************)
Init ==
  /\ states = [d \in {} |-> {}]
  /\ queue = [s \in {} |-> {}]
  /\ dead = [s \in {} |-> {}]
  /\ next = 0
  /\ count = 0 /\ bytes = 0 /\ deadCount = 0 /\ deadBytes = 0
  /\ cooldown = FALSE

(* Admit and AdmitToChats for an unknown delivery; C = {} is Admit. *)
Admit(d, p, C) ==
  LET item == NewItem(d, p, C) IN
  /\ ~Known(d)
  /\ FitsQueue(item)
  /\ next < SequenceBound
  /\ next' = next + 1
  /\ queue' = Put(queue, next + 1, item)
  /\ states' = Put(states, d, NewState(p, next + 1, "queued"))
  /\ count' = count + 1
  /\ bytes' = bytes + ItemBytes(item)
  /\ UNCHANGED <<dead, deadCount, deadBytes, cooldown>>

AdmitArchiveOnly(d, p) ==
  /\ ~Known(d)
  /\ states' = Put(states, d, NewState(p, 0, "archive_only"))
  /\ UNCHANGED <<queue, dead, next, counters, cooldown>>

(* Mutant: the raw copy is kept after the payload is archived. *)
FinalizeArchiveKeepsRaw(d) ==
  /\ Known(d)
  /\ ~states[d].archived
  /\ states' = [states EXCEPT ![d].archived = TRUE]
  /\ queue' = [s \in DOMAIN queue |->
                 IF s = states[d].seq THEN [queue[s] EXCEPT !.archived = TRUE]
                                      ELSE queue[s]]
  /\ UNCHANGED <<dead, next, counters, cooldown>>

(* The payload is durable: the raw copy goes, a queued item may be sent. *)
FinalizeArchive(d) ==
  /\ Known(d)
  /\ ~states[d].archived
  /\ states' = [states EXCEPT ![d].archived = TRUE, ![d].raw = FALSE]
  /\ queue' = [s \in DOMAIN queue |->
                 IF s = states[d].seq THEN [queue[s] EXCEPT !.archived = TRUE]
                                      ELSE queue[s]]
  /\ UNCHANGED <<dead, next, counters, cooldown>>

(* Mutant: Due ignores the archived flag. *)
SendableUnarchived == DOMAIN queue

(* Items Due has handed out: only archived ones, and the flag never goes    *)
(* back, so a worker's snapshot holds these or sequences that have gone.    *)
Sendable == {s \in DOMAIN queue : queue[s].archived}

(* ChatIDs that are left when a send to target t has been recorded; an      *)
(* empty ChatIDs field is the single target NoChat.                         *)
HasTarget(item, t) == IF item.chats = {} THEN t = NoChat ELSE t \in item.chats

(* Mutant: a success on one chat completes the whole delivery. *)
CompleteChatDeliveryAll(S, t) ==
  LET gone == {s \in S \cap DOMAIN queue : HasTarget(queue[s], t)}
  IN  /\ queue' = Without(queue, gone)
      /\ states' = WithStatus(gone, "delivered")
      /\ count' = Cardinality(DOMAIN queue')
      /\ bytes' = BucketBytes(queue')
      /\ UNCHANGED <<dead, next, deadCount, deadBytes, cooldown>>

(* Mutant: only the first item of the batch is recorded. *)
CompleteChatDeliveryFirst(S, t) ==
  LET hit  == {s \in S \cap DOMAIN queue : HasTarget(queue[s], t) /\ \A r \in S : s <= r}
      gone == {s \in hit : queue[s].chats \subseteq {t}}
  IN  /\ queue' = [s \in DOMAIN queue \ gone |->
                     IF s \in hit THEN [queue[s] EXCEPT !.chats = @ \ {t}] ELSE queue[s]]
      /\ states' = WithStatus(gone, "delivered")
      /\ count' = Cardinality(DOMAIN queue')
      /\ bytes' = BucketBytes(queue')
      /\ UNCHANGED <<dead, next, deadCount, deadBytes, cooldown>>

CompleteChatDelivery(S, t) ==
  LET hit  == {s \in S \cap DOMAIN queue : HasTarget(queue[s], t)}
      gone == {s \in hit : queue[s].chats \subseteq {t}}
  IN  /\ queue' = [s \in DOMAIN queue \ gone |->
                     IF s \in hit THEN [queue[s] EXCEPT !.chats = @ \ {t}] ELSE queue[s]]
      /\ states' = WithStatus(gone, "delivered")
      /\ count' = Cardinality(DOMAIN queue')
      /\ bytes' = BucketBytes(queue')
      /\ UNCHANGED <<dead, next, deadCount, deadBytes, cooldown>>

(* Only deleteOnboarding calls it, with an item admitted without ChatIDs. *)
Delete(s) ==
  /\ s \in DOMAIN queue
  /\ queue' = Without(queue, {s})
  /\ states' = WithStatus({s}, "delivered")
  /\ count' = count - 1
  /\ bytes' = bytes - ItemBytes(queue[s])
  /\ UNCHANGED <<dead, next, deadCount, deadBytes, cooldown>>

Spent(s, permanent) == permanent \/ queue[s].attempts + 1 >= MaxAttempts

(* Mutant: the room is tested for one item of the batch only. *)
DeadRoomForOne(keys) ==
  deadCount < DeadMaxItems /\ deadBytes + BucketBytes(Restrict(queue, keys)) <= DeadMaxBytes

(* The dead letters must have room for all exhausted items of a batch;     *)
(* otherwise none of them moves.                                            *)
DeadRoom(keys) ==
  /\ deadCount + Cardinality(keys) <= DeadMaxItems
  /\ deadBytes + BucketBytes(Restrict(queue, keys)) <= DeadMaxBytes

(* A failed send of the items S; limited: Lark answered with Retry-After. *)
HandleFailure(S, permanent, limited) ==
  LET hit   == S \cap DOMAIN queue
      spent == {s \in hit : Spent(s, permanent)}
      gone  == IF DeadRoom(spent) THEN spent ELSE {}
      Failed(s) == [queue[s] EXCEPT !.attempts = @ + 1]
  IN  /\ \A s \in hit : queue[s].attempts < AttemptBound
      /\ queue' = [s \in DOMAIN queue \ gone |->
                     IF s \in hit THEN [Failed(s) EXCEPT !.due = FALSE] ELSE queue[s]]
      /\ dead' = [s \in DOMAIN dead \cup gone |-> IF s \in gone THEN Failed(s) ELSE dead[s]]
      /\ states' = WithStatus(gone, "dead")
      /\ cooldown' = (cooldown \/ limited)
      /\ count' = Cardinality(DOMAIN queue')
      /\ bytes' = BucketBytes(queue')
      /\ deadCount' = Cardinality(DOMAIN dead')
      /\ deadBytes' = BucketBytes(dead')
      /\ UNCHANGED next

(* Mutant: the item gets a new sequence number that is never persisted. *)
RequeueUnderNewSequence(s) ==
  /\ s \in DOMAIN dead
  /\ FitsQueue(dead[s])
  /\ queue' = Put(queue, next + 1, [dead[s] EXCEPT !.attempts = 0, !.due = TRUE])
  /\ dead' = Without(dead, {s})
  /\ states' = [states EXCEPT ![dead[s].id].seq = next + 1, ![dead[s].id].status = "queued"]
  /\ count' = count + 1 /\ bytes' = bytes + ItemBytes(dead[s])
  /\ deadCount' = deadCount - 1 /\ deadBytes' = deadBytes - ItemBytes(dead[s])
  /\ UNCHANGED <<next, cooldown>>

(* Mutant: the delivery's status is not taken back from "dead". *)
RequeueKeepsStatus(s) ==
  /\ s \in DOMAIN dead
  /\ FitsQueue(dead[s])
  /\ queue' = Put(queue, s, [dead[s] EXCEPT !.attempts = 0, !.due = TRUE])
  /\ dead' = Without(dead, {s})
  /\ count' = count + 1 /\ bytes' = bytes + ItemBytes(dead[s])
  /\ deadCount' = deadCount - 1 /\ deadBytes' = deadBytes - ItemBytes(dead[s])
  /\ UNCHANGED <<states, next, cooldown>>

(* The requeue-dead command. *)
RequeueDeadLetter(s) ==
  /\ s \in DOMAIN dead
  /\ FitsQueue(dead[s])
  /\ queue' = Put(queue, s, [dead[s] EXCEPT !.attempts = 0, !.due = TRUE])
  /\ dead' = Without(dead, {s})
  /\ states' = [d \in DOMAIN states |->
                  IF d = dead[s].id
                  THEN [states[d] EXCEPT !.seq = s, !.status = "queued",
                                         !.archived = TRUE, !.raw = FALSE]
                  ELSE states[d]]
  /\ count' = Cardinality(DOMAIN queue')
  /\ bytes' = BucketBytes(queue')
  /\ deadCount' = Cardinality(DOMAIN dead')
  /\ deadBytes' = BucketBytes(dead')
  /\ UNCHANGED <<next, cooldown>>

(* The states Open adds for items of a bucket whose delivery has none. *)
Rebuilt(bucket, status, known) ==
  [d \in {bucket[s].id : s \in DOMAIN bucket} \ known |->
     LET s == CHOOSE k \in DOMAIN bucket : bucket[k].id = d
     IN  [payload |-> bucket[s].payload, seq |-> s, status |-> status, raw |-> TRUE,
          archived |-> status = "queued" /\ bucket[s].archived]]

Merge(f, g) == [x \in DOMAIN f \cup DOMAIN g |-> IF x \in DOMAIN f THEN f[x] ELSE g[x]]

(* Process start: counters are recomputed, missing states are added. *)
Open ==
  LET withQueue == Merge(states, Rebuilt(queue, "queued", DOMAIN states))
  IN  /\ states' = Merge(withQueue, Rebuilt(dead, "dead", DOMAIN withQueue))
      /\ count' = Cardinality(DOMAIN queue)
      /\ bytes' = BucketBytes(queue)
      /\ deadCount' = Cardinality(DOMAIN dead)
      /\ deadBytes' = BucketBytes(dead)
      /\ UNCHANGED <<queue, dead, next, cooldown>>

(* Time reaches an item's NextAttempt, or the end of the cooldown. *)
BecomeDue(s) ==
  /\ s \in DOMAIN queue /\ ~queue[s].due
  /\ queue' = [queue EXCEPT ![s].due = TRUE]
  /\ UNCHANGED <<states, dead, next, counters, cooldown>>

CooldownEnds ==
  /\ cooldown
  /\ cooldown' = FALSE
  /\ UNCHANGED <<states, queue, dead, next, counters>>

Next ==
  \/ \E d \in Deliveries, p \in Payloads, C \in SUBSET Chats : Admit(d, p, C)
  \/ \E d \in Deliveries, p \in Payloads : AdmitArchiveOnly(d, p)
  \/ \E d \in Deliveries : FinalizeArchive(d)
  \/ \E S \in SUBSET Sendable, t \in Chats \cup {NoChat} : CompleteChatDelivery(S, t)
  \/ \E s \in Sendable : queue[s].chats = {} /\ Delete(s)
  \/ \E S \in SUBSET Sendable, permanent, limited \in BOOLEAN :
       HandleFailure(S, permanent, limited)
  \/ \E s \in DOMAIN dead : RequeueDeadLetter(s)
  \/ Open
  \/ \E s \in DOMAIN queue : BecomeDue(s)
  \/ CooldownEnds

Spec == Init /\ [][Next]_storeVars
------------------------------------------------------------------------------
(***************************************************************************)
(* Properties.                                                             *)
(***************************************************************************)
(* Every bucket holds records of its own shape, keyed by sequence numbers   *)
(* that were handed out.  (ByteAccounting covers bytes and deadBytes.)      *)
TypeOK ==
  /\ DOMAIN states \subseteq Deliveries
  /\ states \in [DOMAIN states -> DeliveryState]
  /\ DOMAIN queue \subseteq 1..next
  /\ \A s \in DOMAIN queue : queue[s] \in Item
  /\ DOMAIN dead \subseteq 1..next
  /\ \A s \in DOMAIN dead : dead[s] \in Item
  /\ next \in Nat /\ count \in Nat /\ deadCount \in Nat
  /\ cooldown \in BOOLEAN

(* A bucket entry belongs to a known delivery that points back at it with   *)
(* the right status and payload: no delivery is in two places, none is sent *)
(* after it was delivered, no dead letter is lost behind another status.    *)
EntryOwned(bucket, s, status) ==
  LET item == bucket[s] IN
  /\ item.id \in DOMAIN states
  /\ states[item.id].seq = s
  /\ states[item.id].status = status
  /\ states[item.id].payload = item.payload
  /\ states[item.id].archived = item.archived

QueueOwned == \A s \in DOMAIN queue : EntryOwned(queue, s, "queued")

DeadOwned == \A s \in DOMAIN dead : EntryOwned(dead, s, "dead") /\ dead[s].archived

(* ... and a delivery with such a status has its entry. *)
EntryPresent(bucket, status) ==
  \A d \in DOMAIN states :
    states[d].status = status =>
      states[d].seq \in DOMAIN bucket /\ bucket[states[d].seq].id = d

(* A sequence number is not waiting and dead at once. *)
OnePlace == DOMAIN queue \cap DOMAIN dead = {}

(* FinalizeArchive marks the queue item under the delivery's sequence       *)
(* number, which an archive-only delivery must therefore not have.          *)
NeverQueued == \A d \in DOMAIN states : states[d].status = "archive_only" => states[d].seq = 0

(* admit, CompleteChatDelivery, Delete, HandleFailure and RequeueDeadLetter *)
(* each write two or three buckets; the buckets always tell one story.      *)
RecordsAgree ==
  /\ QueueOwned
  /\ DeadOwned
  /\ EntryPresent(queue, "queued")
  /\ EntryPresent(dead, "dead")
  /\ OnePlace
  /\ NeverQueued

(* PendingArchives hands the retained raw body of an unarchived delivery to *)
(* the archive: it is there exactly as long as recovery can still need it,  *)
(* and nothing leaves the queue before its payload is archived.             *)
RawUntilArchived ==
  \A d \in DOMAIN states :
    /\ states[d].raw <=> ~states[d].archived
    /\ states[d].status \in {"delivered", "dead"} => states[d].archived

(* The persisted item counters that admission control and /readyz rely on   *)
(* are the sizes of the buckets, although some methods adjust them and      *)
(* others recompute them; and no mixture of failing batches and requeues    *)
(* pushes a bucket over its configured limit.                               *)
ItemAccounting ==
  /\ count = Cardinality(DOMAIN queue) /\ count <= MaxItems
  /\ deadCount = Cardinality(DOMAIN dead) /\ deadCount <= DeadMaxItems

(* The same for the byte counters, which partial multi-chat success (fewer  *)
(* ChatIDs) and dead-lettering of part of a batch have to keep right.       *)
ByteAccounting ==
  /\ bytes = BucketBytes(queue) /\ bytes <= MaxBytes
  /\ deadBytes = BucketBytes(dead) /\ deadBytes <= DeadMaxBytes

(* The abstract view: the phase, the content and the open targets of every *)
(* delivery, read from whichever bucket holds it.                           *)
Phase(d) == IF Known(d) THEN states[d].status ELSE "new"

OpenTargets(item) == IF item.chats = {} THEN {NoChat} ELSE item.chats

Todo(d) ==
  CASE Phase(d) = "queued" -> OpenTargets(queue[states[d].seq])
    [] Phase(d) = "dead"   -> OpenTargets(dead[states[d].seq])
    [] OTHER               -> {}

Lifecycle == INSTANCE DeliveryLifecycle WITH
  Targets <- Chats \cup {NoChat},
  phase   <- [d \in Deliveries |-> Phase(d)],
  content <- {<<d, states[d].payload>> : d \in DOMAIN states},
  todo    <- [d \in Deliveries |-> Todo(d)]

(* Across retries, dead-lettering, requeueing, partial multi-chat success   *)
(* and restarts a delivery keeps its content, loses a target only when a    *)
(* send to it was recorded, is delivered only when no target is left, and   *)
(* is never taken back from delivered.                                      *)
LifecycleSpec == Lifecycle!Spec
==============================================================================
