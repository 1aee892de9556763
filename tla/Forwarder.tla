------------------------------ MODULE Forwarder ------------------------------
(***************************************************************************)
(* The forwarding worker (internal/forwarder/worker.go) on the delivery    *)
(* store: rounds over the due items, one message per chat and batch, the   *)
(* record of each answer, retries and dead letters, with crashes between   *)
(* a send and its record, answers lost on the way, failing transactions,   *)
(* and the requeue-dead command between two runs of the service.           *)
(*                                                                         *)
(* Items are the ordinary ones, sent as text; cards are another component. *)
(* The size of a message is MessageBytes per line, the rate limit is the   *)
(* cooldown only, retry delays are the due flag of the store.              *)
(***************************************************************************)
EXTENDS Integers, FiniteSets, Functions

CONSTANTS
  Deliveries, Payloads, Chats, NoChat, MaxItems, MaxBytes, DeadMaxItems, DeadMaxBytes,
  MaxAttempts, PayloadBytes, ChatBytes, SequenceBound, AttemptBound,   (* DeliveryStore *)
  BatchMaxEvents,  (* BATCH_MAX_EVENTS: items read by one Due                *)
  LineBytes,       (* LineBytes[p]: the line an item takes in a message      *)
  MaxMessageBytes, (* LARK_MAX_MESSAGE_BYTES, less the fixed 300             *)
  DisturbanceBound (* bound of the model: crashes, lost answers, failing     *)
                   (* transactions and requeues                              *)

(* Chats are numbered in the order of their identities, "" comes first. *)
ASSUME ChatOrderAssumption == Chats \subseteq Nat \ {0} /\ NoChat = 0 /\ IsFiniteSet(Chats)

ASSUME StoreAssumption ==
  /\ {MaxItems, MaxBytes, DeadMaxItems, DeadMaxBytes} \subseteq Nat
  /\ MaxAttempts \in Nat \ {0} /\ SequenceBound \in Nat /\ AttemptBound \in Nat
  /\ PayloadBytes \in [Payloads -> Nat] /\ ChatBytes \in Nat

ASSUME DisturbanceAssumption == DisturbanceBound \in Nat

VARIABLES
  states, queue, dead, next, count, bytes, deadCount, deadBytes, cooldown,
  worker,          (* what Run does next; "stopped" when it has returned,    *)
                   (* "down" when the process is not running                 *)
  round,           (* round[c]: items read by Due and not yet tried on c     *)
  answer,          (* what Lark answered to the message just sent            *)
  wanted,          (* history: the targets each delivery was admitted to     *)
  sent,            (* history: sent[d][t]: messages with d that t received   *)
  disturbances     (* history: disturbances so far                           *)

Store == INSTANCE DeliveryStore

storeVars == <<states, queue, dead, next, count, bytes, deadCount, deadBytes, cooldown>>
workerVars == <<worker, round, answer>>
historyVars == <<wanted, sent, disturbances>>
vars == <<storeVars, workerVars, historyVars>>

Targets == Chats \cup {NoChat}
Answers == {"ok", "retry", "permanent", "limited"}
NoRound == [c \in Targets |-> {}]

Init ==
  /\ Store!Init
  /\ worker = "down"
  /\ round = NoRound
  /\ answer = "none"
  /\ wanted = [d \in Deliveries |-> {}]
  /\ sent = [d \in Deliveries |-> [t \in Targets |-> 0]]
  /\ disturbances = 0

(***************************************************************************)
(* A round.                                                                *)
(***************************************************************************)
(* Mutant: items whose payload is not archived yet are read as well. *)
DueUnarchived ==
  LET ready == {s \in DOMAIN queue : queue[s].due}
  IN  {s \in ready : Cardinality({r \in ready : r < s}) < BatchMaxEvents}

(* Mutant: the limit counts items that are not ready. *)
DueLimitFirst ==
  {s \in Store!Sendable : queue[s].due /\ Cardinality({r \in DOMAIN queue : r < s}) < BatchMaxEvents}

(* Store.Due: the first BatchMaxEvents items that are archived and due. *)
Due ==
  LET ready == {s \in Store!Sendable : queue[s].due}
  IN  {s \in ready : Cardinality({r \in ready : r < s}) < BatchMaxEvents}

Collect ==
  /\ worker = "idle"
  /\ Due # {}
  /\ round' = [c \in Targets |-> {s \in Due : Store!HasTarget(queue[s], c)}]
  /\ worker' = "reserve"
  /\ UNCHANGED <<storeVars, answer, historyVars>>

(* sendOrdinary takes the chats in order ... *)
FirstChat(items) ==
  CHOOSE c \in Targets : items[c] # {} /\ \A b \in Targets : items[b] # {} => c <= b

Chat == FirstChat(round)

(* The item of a sequence number that Due has read: it may have moved to    *)
(* the dead letters since, and the worker goes on with its copy.            *)
ItemOf(s) == IF s \in DOMAIN queue THEN queue[s] ELSE dead[s]

(* ... and splitWithLookup cuts the items of a chat into messages: each the  *)
(* longest prefix that fits, and one item at least.                         *)
Fits(S) ==
  \/ Cardinality(S) = 1
  \/ SumFunction([s \in S |-> LineBytes[ItemOf(s).payload]]) <= MaxMessageBytes

Batch ==
  LET UpTo(s) == {r \in round[Chat] : r <= s}
  IN  UNION {UpTo(s) : s \in {s \in round[Chat] : Fits(UpTo(s))}}

(* Mutant: the round does not end with its last batch. *)
NextBatchForEver(rest) == round' = rest /\ worker' = "reserve"

(* The round without the batch that has been dealt with; over when empty.    *)
NextBatch(rest) ==
  /\ round' = rest
  /\ worker' = IF rest = NoRound THEN "idle" ELSE "reserve"

(* Mutant: only the first item of the batch is ticked off. *)
RestWithoutFirst == [round EXCEPT ![Chat] = {s \in @ : \E r \in @ : r < s}]

Rest == [round EXCEPT ![Chat] = @ \ Batch]

(* ReserveRequest waits for the end of a cooldown. *)
Reserve ==
  /\ worker = "reserve"
  /\ ~cooldown
  /\ worker' = "send"
  /\ UNCHANGED <<storeVars, round, answer, historyVars>>

Disturbed == disturbances < DisturbanceBound /\ disturbances' = disturbances + 1

(* The transaction of ReserveRequest fails: the batch is left for a later   *)
(* round, this one goes on.                                                 *)
ReserveFails ==
  /\ worker = "reserve"
  /\ Disturbed
  /\ NextBatch(Rest)
  /\ UNCHANGED <<storeVars, answer, wanted, sent>>

Received == [d \in Deliveries |->
  IF \E s \in Batch : ItemOf(s).id = d THEN [sent[d] EXCEPT ![Chat] = @ + 1] ELSE sent[d]]

(* The message is sent and answered. *)
Send ==
  /\ worker = "send"
  /\ answer' \in Answers
  /\ sent' = IF answer' = "ok" THEN Received ELSE sent
  /\ worker' = "record"
  /\ UNCHANGED <<storeVars, round, wanted, disturbances>>

(* Lark takes the message, the worker sees a failed request. *)
AnswerLost ==
  /\ worker = "send"
  /\ Disturbed
  /\ answer' = "retry"
  /\ sent' = Received
  /\ worker' = "record"
  /\ UNCHANGED <<storeVars, round, wanted>>

(* The record of the answer; Retry-After ends the round. *)
Record ==
  /\ worker = "record"
  /\ answer' = "none"
  /\ IF answer = "ok"
     THEN Store!CompleteChatDelivery(Batch, Chat)
     ELSE Store!HandleFailure(Batch, answer = "permanent", answer = "limited")
  /\ NextBatch(IF answer = "limited" THEN NoRound ELSE Rest)
  /\ UNCHANGED historyVars

(* A record that cannot be written ends the worker; the process stays. *)
RecordFails ==
  /\ worker = "record"
  /\ Disturbed
  /\ worker' = "stopped"
  /\ round' = NoRound
  /\ answer' = "none"
  /\ UNCHANGED <<storeVars, wanted, sent>>

(***************************************************************************)
(* The surroundings.                                                       *)
(***************************************************************************)
(* A delivery is admitted, and some time later its payload is archived. *)
Arrive(d, p, C) ==
  /\ worker # "down"
  /\ Store!Admit(d, p, C)
  /\ wanted' = [wanted EXCEPT ![d] = IF C = {} THEN {NoChat} ELSE C]
  /\ UNCHANGED <<workerVars, sent, disturbances>>

Archived(d) ==
  /\ worker # "down"
  /\ Store!FinalizeArchive(d)
  /\ UNCHANGED <<workerVars, historyVars>>

Elapse ==
  /\ Store!CooldownEnds \/ \E s \in DOMAIN queue : Store!BecomeDue(s)
  /\ UNCHANGED <<workerVars, historyVars>>

Stop ==
  /\ worker' = "down"
  /\ round' = NoRound
  /\ answer' = "none"

Crash ==
  /\ worker # "down"
  /\ Disturbed
  /\ Stop
  /\ UNCHANGED <<storeVars, wanted, sent>>

Start ==
  /\ worker = "down"
  /\ Store!Open
  /\ worker' = "idle"
  /\ UNCHANGED <<round, answer, historyVars>>

(* requeue-dead opens the database itself, so the service has stopped. *)
Requeue(s) ==
  /\ worker = "down"
  /\ Disturbed
  /\ Store!RequeueDeadLetter(s)
  /\ UNCHANGED <<workerVars, wanted, sent>>

Round == Collect \/ Reserve \/ Send \/ Record

Next ==
  \/ Round
  \/ ReserveFails \/ AnswerLost \/ RecordFails
  \/ \E d \in Deliveries, p \in Payloads, C \in SUBSET Chats : Arrive(d, p, C)
  \/ \E d \in Deliveries : Archived(d)
  \/ Elapse
  \/ Crash
  \/ Start
  \/ \E s \in DOMAIN dead : Requeue(s)

(* The worker's loop goes on, time passes, the supervisor restarts a dead   *)
(* process.  Nothing restarts a worker that has stopped inside a living one.*)
Fairness ==
  /\ WF_vars(Round)
  /\ WF_vars(Start)
  /\ WF_vars(Store!CooldownEnds /\ UNCHANGED <<workerVars, historyVars>>)
  /\ \A s \in 1..SequenceBound :
       WF_vars(Store!BecomeDue(s) /\ UNCHANGED <<workerVars, historyVars>>)

Spec == Init /\ [][Next]_vars
LiveSpec == Spec /\ Fairness
------------------------------------------------------------------------------
(***************************************************************************)
(* Properties.                                                             *)
(***************************************************************************)
(* The worker's own state has its type; it owes something exactly while a   *)
(* round is under way.                                                      *)
TypeOK ==
  /\ Store!TypeOK
  /\ worker \in {"idle", "reserve", "send", "record", "stopped", "down"}
  /\ round \in [Targets -> SUBSET (1..next)]
  /\ round = NoRound <=> worker \in {"idle", "stopped", "down"}
  /\ answer \in Answers \cup {"none"}
  /\ answer = "none" <=> worker # "record"
  /\ wanted \in [Deliveries -> SUBSET Targets]
  /\ sent \in [Deliveries -> [Targets -> Nat]]
  /\ disturbances \in 0..DisturbanceBound

(* At least once: a target that a delivery does not owe any more, because   *)
(* the send was recorded, did receive it, through every retry, dead letter, *)
(* requeue, crash and restart.                                              *)
NothingSkipped ==
  \A d \in DOMAIN states : \A t \in wanted[d] \ Store!Todo(d) : sent[d][t] >= 1

(* A target receives a delivery again only after something went wrong: one  *)
(* more message for each crash, lost answer, failed record or requeue.      *)
DuplicatesExplained ==
  \A d \in Deliveries : \A t \in Targets : sent[d][t] <= 1 + disturbances

(* The copies the worker holds go stale while it sends: what it has yet to  *)
(* try on a chat is still owed to that chat, unless another chat's failure  *)
(* made it a dead letter in the meantime.                                   *)
RoundIsOwed ==
  \A c \in Targets : \A s \in round[c] :
    s \in DOMAIN queue \cup DOMAIN dead /\ Store!HasTarget(ItemOf(s), c)

(* The worker drives the store only the way DeliveryStore allows for: with  *)
(* batches of archived items.                                               *)
StoreSpec == Store!Spec

(* Every archived item is sent or given up in the end.  Two ways out are    *)
(* the code's: a failed record stops the worker until the process is        *)
(* restarted, and full dead letters keep an exhausted item in the queue.    *)
Settled(d) ==
  /\ d \in DOMAIN states
  /\ \/ states[d].status \in {"delivered", "dead"}
     \/ queue[states[d].seq].attempts >= MaxAttempts

EventuallySettled ==
  \A d \in Deliveries :
    (d \in DOMAIN states /\ states[d].archived)
      ~> (worker = "stopped" \/ Settled(d))
==============================================================================
