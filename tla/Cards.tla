-------------------------------- MODULE Cards --------------------------------
(***************************************************************************)
(* Status cards (internal/forwarder/workflow.go and gitlab_pipeline.go):   *)
(* the worker takes the events of one workflow or pipeline, in any order   *)
(* retries put them, folds each into the durable card state, then brings   *)
(* the Lark message and its reaction in line, one request and one record   *)
(* at a time, with rejected requests, lost answers and crashes in between. *)
(*                                                                         *)
(* An event goes to several chats in one go, each with a card and a state  *)
(* of its own, from the copy of the item the round began with.  The        *)
(* delivery store is the abstract one it is shown to implement             *)
(* (DeliveryLifecycle).  A retry may come at any time, and an operator may *)
(* put a dead letter back.                                                 *)
(***************************************************************************)
EXTENDS Workflows, FiniteSets

CONSTANTS
  Deliveries,      (* the deliveries of the card's events                    *)
  Histories,       (* what may happen to a card: pipeline events, or         *)
                   (* workflow and check runs, one event for each delivery,  *)
                   (* and the chats they go to, numbered in their order      *)
  MaxAttempts,     (* MAX_ATTEMPTS                                           *)
  DisturbanceBound (* bound of the model: lost answers and crashes           *)

(* What an event carries: pipelines and runs have a status and a time, runs *)
(* an attempt; checks have neither status nor attempt of the run, and no    *)
(* time before they start.                                                  *)
IsPipelineEvent(u) ==
  u.status \in DOMAIN StatusRank /\ u.at \in Nat \ {0} /\ u = PipelineEvent(u.status, u.at)

IsRunEvent(u) ==
  /\ u.status # "" /\ u.attempt \in Nat \ {0} /\ u.at \in Nat \ {0}
  /\ u = RunEvent(u.attempt, u.status, u.conclusion, u.at, u.started)

IsCheckEvent(u) ==
  u.at \in Nat /\ u = CheckEvent(u.check.id, u.check.status, u.check.conclusion, u.at)

ASSUME HistoriesAssumption ==
  \A h \in Histories :
    /\ h.gitlab \in BOOLEAN
    /\ DOMAIN h.events \subseteq Deliveries
    /\ h.chats \subseteq Nat /\ h.chats # {}
    /\ \A d \in DOMAIN h.events :
         IF h.gitlab THEN IsPipelineEvent(h.events[d])
         ELSE IsRunEvent(h.events[d]) \/ IsCheckEvent(h.events[d])

ASSUME AttemptsAssumption == MaxAttempts \in Nat \ {0} /\ DisturbanceBound \in Nat

(* What GitHub's times say: a rerun is later than the attempt before it, and *)
(* no event of an attempt is later than the one that concludes it.          *)
WellTimed(run) ==
  \A u, v \in {run[d] : d \in {e \in DOMAIN run : run[e].status # ""}} :
    /\ u.attempt > v.attempt => u.at > v.at
    /\ u.attempt = v.attempt /\ v.conclusion # "" /\ u.conclusion = "" => u.at <= v.at

ASSUME TimesAssumption == \A h \in Histories : h.gitlab \/ WellTimed(h.events)

VARIABLES
  card,            (* the history of this card; it never changes             *)
  phase, content, todo,    (* DeliveryLifecycle                             *)
  attempts,        (* attempts[d]: failures counted on d                     *)
  state,           (* state[c]: the WorkflowState of chat c's card           *)
  item,            (* the delivery the worker is sending                     *)
  current,         (* its copy's sequence number still is the delivery's     *)
  rest,            (* the chats of the copy, from the one it is at           *)
  step,            (* what it does next for the first of them, or "idle"     *)
  seen,            (* the state its transaction returned                     *)
  slotless,        (* its next request goes out without a reserved slot      *)
  message,         (* message[c]: the Lark message, {} before it exists      *)
  reactions,       (* reactions[c]: the app's reactions on the message       *)
  unrecorded,      (* history: chats and kinds of requests that Lark carried *)
                   (* out and the store does not know of                     *)
  disturbances     (* lost answers and crashes so far                        *)

AllChats == UNION {h.chats : h \in Histories}

Items == INSTANCE DeliveryLifecycle WITH Payloads <- {"event"}, Targets <- AllChats

itemVars == <<phase, content, todo, attempts>>
workerVars == <<item, current, rest, step, seen, slotless>>
larkVars == <<message, reactions>>
historyVars == <<unrecorded, disturbances>>
vars == <<card, itemVars, state, workerVars, larkVars, historyVars>>

(* The update that delivery d carries. *)
Event == card.events

Gitlab == card.gitlab

Init ==
  /\ card \in Histories
  /\ Items!Init
  /\ attempts = [d \in Deliveries |-> 0]
  /\ state = [c \in AllChats |-> NoState]
  /\ item = {} /\ current = FALSE /\ rest = {}
  /\ step = "idle" /\ seen = NoState /\ slotless = FALSE
  /\ message = [c \in AllChats |-> {}] /\ reactions = [c \in AllChats |-> {}]
  /\ unrecorded = {} /\ disturbances = 0

Accept(d) ==
  /\ d \in DOMAIN Event
  /\ Items!Accept(d, "event", card.chats)
  /\ UNCHANGED <<attempts, state, workerVars, larkVars, historyVars>>

(* itemChatIDs sorts the chats. *)
FirstOf(chats) == CHOOSE c \in chats : \A o \in chats : c <= o

Chat == FirstOf(rest)

(* The item is done with, or left for a later round. *)
Idle ==
  /\ item' = {} /\ current' = FALSE /\ rest' = {}
  /\ step' = "idle" /\ seen' = NoState /\ slotless' = FALSE

(* continueRound: the next chat of the copy, whatever became of the item.   *)
NextChat ==
  IF rest = {Chat} THEN Idle
  ELSE /\ rest' = rest \ {Chat}
       /\ step' = "take" /\ seen' = NoState /\ slotless' = FALSE
       /\ UNCHANGED <<item, current>>

(* The store acts on the item if it still is in the queue. *)
Queued == {d \in item : current /\ phase[d] = "queued"}

(***************************************************************************)
(* The state transaction, then the requests of sendCardToChat.             *)
(***************************************************************************)
(* The worker gets the item from the queue. *)
Begin(d) ==
  /\ step = "idle" /\ phase[d] = "queued"
  /\ item' = {d} /\ current' = TRUE /\ rest' = todo[d]
  /\ step' = "take"
  /\ UNCHANGED <<itemVars, state, seen, slotless, larkVars, historyVars>>

(* Mutant: a workflow event that is not newer is drained. *)
DrainsNotNewer(d) == state[Chat].known /\ Event[d].at <= state[Chat].at

(* A pipeline event that is not ahead of the stored state is completed      *)
(* without touching Lark.                                                   *)
Drains(d) == Gitlab /\ state[Chat].known /\ ~PipelineAdvances(state[Chat], Event[d])

Drain ==
  /\ step = "take"
  /\ \E d \in item : Drains(d)
  /\ Items!Serve(Queued, Chat)
  /\ NextChat
  /\ UNCHANGED <<attempts, state, larkVars, historyVars>>

Take ==
  /\ step = "take"
  /\ \E d \in item :
       /\ ~Drains(d)
       /\ state' = [state EXCEPT ![Chat] = UpsertWorkflow(@, Event[d])]
  /\ step' = "card" /\ seen' = state'[Chat]
  /\ UNCHANGED <<itemVars, item, current, rest, slotless, larkVars, historyVars>>

Wanted == Reaction(seen.conclusion)

Recorded == IF seen.reaction = "" THEN {} ELSE {seen.reaction}

(* Mutant: the old reaction stays. *)
AfterCardAdds == IF Wanted # {} /\ Wanted # Recorded THEN "react" ELSE "complete"

(* What comes after the card: the old reaction goes, the new one is added.  *)
AfterCard ==
  IF Recorded # {} /\ Recorded # Wanted THEN "unreact"
  ELSE IF Wanted # {} /\ Wanted # Recorded THEN "react" ELSE "complete"

(* Each request: what Lark does when it carries it out. *)
DoCreate ==
  /\ step = "card" /\ ~seen.message
  (* The UUID is made of the key: a second create is the first message.     *)
  /\ message' = [message EXCEPT ![Chat] = IF @ = {} THEN {CardOf(seen)} ELSE @]
  /\ slotless' = FALSE
  /\ UNCHANGED reactions

DoUpdate ==
  /\ step = "card" /\ seen.message
  /\ message' = [message EXCEPT ![Chat] = {CardOf(seen)}]
  /\ slotless' = FALSE
  /\ UNCHANGED reactions

DoUnreact ==
  /\ step = "unreact"
  /\ reactions' = [reactions EXCEPT ![Chat] = @ \ Recorded]
  /\ slotless' = FALSE
  /\ UNCHANGED message

DoReact ==
  /\ step = "react"
  /\ reactions' = [reactions EXCEPT ![Chat] = @ \cup Wanted]
  /\ slotless' = FALSE
  /\ UNCHANGED message

Create ==
  /\ DoCreate /\ step' = "set_message"
  /\ UNCHANGED <<itemVars, state, item, current, rest, seen, historyVars>>

SetMessage ==
  /\ step = "set_message"
  /\ state' = [state EXCEPT ![Chat].message = TRUE]
  /\ step' = AfterCard
  /\ UNCHANGED <<itemVars, item, current, rest, seen, slotless, larkVars, historyVars>>

Update ==
  /\ DoUpdate /\ step' = AfterCard
  /\ UNCHANGED <<itemVars, state, item, current, rest, seen, historyVars>>

Unreact ==
  /\ DoUnreact /\ step' = "set_unreact"
  /\ UNCHANGED <<itemVars, state, item, current, rest, seen, historyVars>>

SetUnreact ==
  /\ step = "set_unreact"
  /\ state' = [state EXCEPT ![Chat].reaction = ""]
  /\ seen' = [seen EXCEPT !.reaction = ""]
  /\ step' = IF Wanted # {} THEN "react" ELSE "complete"
  /\ UNCHANGED <<itemVars, item, current, rest, slotless, larkVars, historyVars>>

React ==
  /\ DoReact /\ step' = "set_react"
  /\ UNCHANGED <<itemVars, state, item, current, rest, seen, historyVars>>

SetReact ==
  /\ step = "set_react"
  /\ state' = [state EXCEPT ![Chat].reaction = CHOOSE r \in Wanted : TRUE]
  /\ step' = "complete"
  /\ UNCHANGED <<itemVars, item, current, rest, seen, slotless, larkVars, historyVars>>

(* CompleteChatDelivery for this chat. *)
Complete ==
  /\ step = "complete"
  /\ Items!Serve(Queued, Chat)
  /\ NextChat
  /\ UNCHANGED <<attempts, state, larkVars, historyVars>>

(***************************************************************************)
(* Failures.                                                               *)
(***************************************************************************)
(* Mutant: one attempt more than MAX_ATTEMPTS. *)
CountFailureOnceMore(permanent) ==
  /\ attempts' = [d \in Deliveries |-> attempts[d] + IF d \in Queued THEN 1 ELSE 0]
  /\ Items!Bury({d \in Queued : permanent \/ attempts[d] >= MaxAttempts})

(* HandleFailure counts the attempt, whichever chat it was for, then the    *)
(* item waits for a retry or is a dead letter.                              *)
CountFailure(permanent) ==
  /\ attempts' = [d \in Deliveries |-> attempts[d] + IF d \in Queued THEN 1 ELSE 0]
  /\ Items!Bury({d \in Queued : permanent \/ attempts[d] + 1 >= MaxAttempts})

(* workflowFailure: the round goes on with the item's next chat, unless the *)
(* answer bears a Retry-After.                                              *)
Failure(permanent) == CountFailure(permanent) /\ NextChat

Limited == CountFailure(FALSE) /\ Idle

Requesting == step \in {"card", "unreact", "react"}

(* Lark rejects the request. *)
Rejected ==
  /\ Requesting
  /\ Failure(TRUE) \/ Failure(FALSE) \/ Limited
  /\ UNCHANGED <<state, larkVars, historyVars>>

Disturbed == disturbances < DisturbanceBound /\ disturbances' = disturbances + 1

(* What a request changes that the store knows from its record only.        *)
Trace ==
  CASE step \in {"card", "set_message"} -> IF seen.message THEN {} ELSE {"message"}
    [] step \in {"unreact", "set_unreact"} -> {"removal"}
    [] step \in {"react", "set_react"} -> {"reaction"}

Unrecorded == unrecorded' = unrecorded \cup ({Chat} \X Trace)

(* The state cannot be read or written. *)
TakeFails ==
  /\ step = "take"
  /\ Disturbed
  /\ Failure(FALSE)
  /\ UNCHANGED <<state, larkVars, unrecorded>>

(* The slot for a request cannot be reserved: a failure is counted, and the *)
(* request is sent all the same (workflowFailure tells its caller to go on).*)
ReserveFails ==
  /\ Requesting /\ ~slotless
  /\ Disturbed
  /\ CountFailure(FALSE)
  /\ slotless' = TRUE
  /\ UNCHANGED <<state, item, current, rest, step, seen, larkVars, unrecorded>>

(* Lark carries the request out, its answer is lost. *)
AnswerLost ==
  /\ Disturbed
  /\ DoCreate \/ DoUpdate \/ DoUnreact \/ DoReact
  /\ Unrecorded
  /\ Failure(FALSE)
  /\ UNCHANGED state

(* The transaction that records an answer fails. *)
RecordFails ==
  /\ step \in {"set_message", "set_unreact", "set_react"}
  /\ Disturbed
  /\ Unrecorded
  /\ Failure(FALSE)
  /\ UNCHANGED <<state, larkVars>>

(* The process dies before the next request or record; so it does for a     *)
(* worker whose last transaction fails (it stops until the next start).     *)
Crash ==
  /\ step # "idle"
  /\ Disturbed
  /\ IF step \in {"set_message", "set_unreact", "set_react"} THEN Unrecorded ELSE UNCHANGED unrecorded
  /\ Idle
  /\ UNCHANGED <<itemVars, state, larkVars>>

(* RequeueDeadLetter: an operator puts a dead letter back, under a new      *)
(* sequence number; a copy the worker still has is the old one's.           *)
Requeue(d) ==
  /\ Items!Revive(d)
  /\ attempts' = [attempts EXCEPT ![d] = 0]
  /\ current' = (current /\ d \notin item)
  /\ UNCHANGED <<state, item, rest, step, seen, slotless, larkVars, historyVars>>

WorkerStep ==
  \/ \E d \in Deliveries : Begin(d)
  \/ Take \/ Drain
  \/ Create \/ SetMessage \/ Update \/ Unreact \/ SetUnreact \/ React \/ SetReact \/ Complete

Next ==
  /\ \/ \E d \in Deliveries : Accept(d) \/ Requeue(d)
     \/ WorkerStep
     \/ TakeFails \/ Rejected \/ ReserveFails \/ AnswerLost \/ RecordFails \/ Crash
  /\ UNCHANGED card

Spec == Init /\ [][Next]_vars
------------------------------------------------------------------------------
(***************************************************************************)
(* Properties.                                                             *)
(***************************************************************************)
(* The worker has an item and a chat exactly while it is doing something,   *)
(* and a card the store knows of is there.                                  *)
TypeOK ==
  /\ phase \in [Deliveries -> Items!Phases]
  /\ attempts \in [Deliveries -> 0..MaxAttempts]
  /\ step \in {"idle", "take", "card", "set_message", "unreact", "set_unreact", "react",
               "set_react", "complete"}
  /\ item \subseteq Deliveries /\ Cardinality(item) <= 1
  /\ step = "idle" <=> item = {}
  /\ rest \subseteq card.chats /\ (step = "idle" <=> rest = {})
  /\ current \in BOOLEAN /\ (current => \A d \in item : rest \subseteq todo[d])
  /\ slotless \in BOOLEAN /\ (slotless => Requesting)
  /\ \A c \in AllChats : state[c].message => message[c] # {}
  /\ \A c \in AllChats : reactions[c] \subseteq {"DONE", "ERROR", "CrossMark"}
  /\ unrecorded \subseteq AllChats \X {"message", "reaction", "removal"}
  /\ disturbances \in 0..DisturbanceBound

(* Everything that was accepted has been sent. *)
AllSent ==
  /\ step = "idle"
  /\ \E d \in Deliveries : phase[d] = "delivered"
  /\ \A d \in Deliveries : phase[d] \in {"new", "delivered"}

(* When every event has been sent, in whatever order and after whatever     *)
(* retries, each chat's message shows its stored state; only a message      *)
(* whose creation was never recorded may lag behind.                        *)
CardShowsState ==
  AllSent => \A c \in card.chats :
               message[c] = {CardOf(state[c])} \/ <<c, "message">> \in unrecorded

(* The cards of workflows do: their retries reach Lark again. *)
WorkflowCardShowsState == ~Gitlab => CardShowsState

(* ... and they carry no reaction but that of their conclusion, unless the  *)
(* addition of one was never recorded, and they do carry it, unless the     *)
(* removal of one was never recorded.                                       *)
ReactionShowsState ==
  ~Gitlab /\ AllSent => \A c \in card.chats :
    /\ reactions[c] \subseteq Reaction(state[c].conclusion) \/ <<c, "reaction">> \in unrecorded
    /\ Reaction(state[c].conclusion) \subseteq reactions[c] \/ <<c, "removal">> \in unrecorded

(* What came later, beyond doubt: a run's attempt counts before its time; a *)
(* pipeline's stage and time must agree, for the code looks at both and     *)
(* "canceled" is the last stage, though such a pipeline may be retried.     *)
Newer(u, v) ==
  IF Gitlab
  THEN /\ StatusRank[u.status] >= StatusRank[v.status] /\ u.at >= v.at
       /\ StatusRank[u.status] > StatusRank[v.status] \/ u.at > v.at
  ELSE u.attempt > v.attempt \/ (u.attempt = v.attempt /\ u.at > v.at)

(* A check later than the event e of the same attempt as d was sent: it has *)
(* moved the stored time past e.                                            *)
Outdated(e, d) ==
  /\ Event[e].attempt = Event[d].attempt
  /\ \E k \in DOMAIN Event :
       phase[k] = "delivered" /\ Event[k].status = "" /\ Event[k].at > Event[e].at

(* The order in which events are taken, retried or requeued does not        *)
(* matter: when all have been sent, each chat's card shows the status of an *)
(* event with none newer but outdated ones, though every chat had them in   *)
(* an order of its own.                                                     *)
NewestWins ==
  LET Shown == {d \in Deliveries : phase[d] = "delivered" /\ Event[d].status # ""}
  IN  AllSent /\ Shown # {} =>
        \A c \in card.chats : \E d \in Shown :
          /\ Label(state[c]) = Label(Event[d])
          /\ \A e \in Shown : Newer(Event[e], Event[d]) => Outdated(e, d)

(* The card of a rerun lists no check that is older than the rerun. *)
ChecksOfAttempt ==
  \A c \in AllChats : state[c].attempt > 1 =>
    \A i \in DOMAIN state[c].checks : state[c].checks[i].at >= state[c].started

(* A pipeline's card never goes back to an earlier stage. *)
NoRegression ==
  [][\A c \in AllChats : Gitlab /\ state[c].known =>
       StatusRank[state'[c].status] >= StatusRank[state[c].status]]_vars
==============================================================================
