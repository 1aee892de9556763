------------------------------ MODULE Cards_proofs ------------------------------
(***************************************************************************)
(* Theorems about Cards, for any histories, chats, number of attempts and  *)
(* of disturbances.                                                        *)
(*                                                                         *)
(* The worker learns the state of a chat's card once per event and works   *)
(* from that copy; requests it has sent and not recorded yet, or never     *)
(* will, stand between the store and Lark.  IInv says what is left to do   *)
(* (a chat that is not owed anything any more shows its state), what the   *)
(* copy is still worth (SeenOK), and from which event a chat's status      *)
(* stems (OriginOK).                                                       *)
(***************************************************************************)
EXTENDS Cards, FiniteLemmas, TLAPS

------------------------------------------------------------------------------
(***************************************************************************)
(* The inductive invariant.                                                *)
(***************************************************************************)
StateFields == {"known", "attempt", "status", "conclusion", "at", "started", "checks",
                "message", "reaction"}

(* A WorkflowState.                                                         *)
IsState(s) ==
  /\ s = [f \in StateFields |-> s[f]]
  /\ s.known \in BOOLEAN /\ s.message \in BOOLEAN
  /\ s.attempt \in Nat /\ s.at \in Nat
  /\ s.reaction \in {"", "DONE", "ERROR", "CrossMark"}

(* Sent to all its chats or not: the delivery waits or is a dead letter.    *)
Open(d) == phase[d] \in {"queued", "dead"}

Steps == {"idle", "take", "card", "set_message", "unreact", "set_unreact", "react",
          "set_react", "complete"}

(* The worker is sending the card of chat c. *)
Sending(c) == step \notin {"idle", "take"} /\ c = Chat

(* The worker is idle, or has an item that all of the rest is owed.         *)
WorkerOK ==
  \/ item = {} /\ rest = {} /\ step = "idle" /\ current = FALSE /\ slotless = FALSE
  \/ /\ step \in Steps \ {"idle"} /\ rest # {}
     /\ \E d \in Deliveries : item = {d} /\ Open(d) /\ rest \subseteq todo[d]
     /\ current \in BOOLEAN /\ slotless \in BOOLEAN /\ (slotless => Requesting)

(* The deliveries; what is neither new nor delivered is owed to some chat.  *)
ItemsOK ==
  /\ phase \in [Deliveries -> Items!Phases]
  /\ attempts \in [Deliveries -> 0..MaxAttempts]
  /\ todo \in [Deliveries -> SUBSET card.chats]
  /\ \A d \in Deliveries :
       /\ phase[d] = "queued" => attempts[d] < MaxAttempts
       /\ phase[d] = "new" => attempts[d] = 0
       /\ phase[d] # "new" => d \in DOMAIN Event
       /\ Open(d) => todo[d] # {}
       /\ phase[d] = "delivered" => todo[d] = {}

StatesOK ==
  /\ state = [c \in AllChats |-> state[c]]
  /\ \A c \in AllChats : IsState(state[c])
  /\ \A c \in AllChats \ card.chats : state[c] = NoState

(* The reaction recorded for a chat.                                        *)
Recording(c) == IF state[c].reaction = "" THEN {} ELSE {state[c].reaction}

(* What the worker's copy of the state is worth at each step.               *)
SeenOK ==
  step \notin {"idle", "take"} =>
    /\ IsState(seen)
    /\ CardOf(seen) = CardOf(state[Chat]) /\ seen.conclusion = state[Chat].conclusion
    /\ step # "complete" => seen.reaction = state[Chat].reaction
    /\ step = "card" => seen.message = state[Chat].message
    /\ step = "set_message" => ~seen.message
    /\ step \in {"unreact", "set_unreact"} => Recorded # {}
    /\ step \in {"react", "set_react"} => Recorded = {} /\ Wanted # {}
    /\ step = "complete" => Recording(Chat) = Wanted

(* Something is owed to the chat; nothing was accepted yet.                  *)
Owed(c) == \E d \in Deliveries : Open(d) /\ c \in todo[d]

AllNew == \A d \in Deliveries : phase[d] = "new"

Shows(c) == message[c] = {CardOf(state[c])} \/ <<c, "message">> \in unrecorded

(* The message is there if recorded; a message without a record was lost to *)
(* the store or is about to be recorded; it shows the state from the         *)
(* request on, and once nothing is owed.                                     *)
MessageOK(c) ==
  /\ state[c].message => message[c] # {}
  /\ message[c] # {} => \/ state[c].message
                        \/ <<c, "message">> \in unrecorded
                        \/ step = "set_message" /\ c = Chat
  /\ step = "set_message" /\ c = Chat => message[c] # {}
  /\ Sending(c) /\ step # "card" => Shows(c)
  /\ ~Gitlab /\ c \in card.chats => Owed(c) \/ AllNew \/ Shows(c)

(* The same of reactions.                                                    *)
ReactionOK(c) ==
  /\ reactions[c] \subseteq {"DONE", "ERROR", "CrossMark"}
  /\ \/ reactions[c] \subseteq Recording(c)
     \/ <<c, "reaction">> \in unrecorded
     \/ step = "set_react" /\ c = Chat /\ reactions[c] \subseteq Wanted
  /\ \/ Recording(c) \subseteq reactions[c]
     \/ <<c, "removal">> \in unrecorded
     \/ step = "set_unreact" /\ c = Chat
  /\ step = "set_unreact" /\ c = Chat => reactions[c] = {} \/ <<c, "reaction">> \in unrecorded
  /\ step = "set_react" /\ c = Chat => Wanted \subseteq reactions[c]
  /\ ~Gitlab /\ c \in card.chats =>
       Owed(c) \/ AllNew \/ Recording(c) = Reaction(state[c].conclusion)

LarkOK ==
  /\ message = [c \in AllChats |-> message[c]]
  /\ reactions \in [AllChats -> SUBSET {"DONE", "ERROR", "CrossMark"}]
  /\ unrecorded \subseteq AllChats \X {"message", "reaction", "removal"}
  /\ disturbances \in 0..DisturbanceBound
  /\ \A c \in AllChats : MessageOK(c) /\ ReactionOK(c)

(* Chat c's state has seen the event of delivery d. *)
Taken(d, c) == phase[d] # "new" /\ (c \notin todo[d] \/ (Sending(c) /\ d \in item))

(* k is a check that was accepted; e is hidden by one later than it.         *)
IsCheck(k) == k \in DOMAIN Event /\ phase[k] # "new" /\ Event[k].status = ""

Hidden(e, b) ==
  Event[e].attempt = Event[b].attempt /\ \E k \in Deliveries : IsCheck(k) /\ Event[k].at > Event[e].at

(* Chat c's status stems from b: no event the chat has seen beats b, unless  *)
(* a check hides it.                                                         *)
Origin(c, b) ==
  /\ b \in DOMAIN Event /\ phase[b] # "new" /\ Event[b].status # ""
  /\ state[c].attempt = Event[b].attempt /\ state[c].conclusion = Event[b].conclusion
  /\ state[c].status = Event[b].status \/ (~Gitlab /\ state[c].conclusion # "")
  /\ \/ state[c].at = Event[b].at
     \/ /\ ~Gitlab /\ state[c].at > Event[b].at
        /\ \E k \in Deliveries : IsCheck(k) /\ state[c].at = Event[k].at
  /\ \A e \in Deliveries :
       Taken(e, c) /\ Event[e].status # "" /\ Newer(Event[e], Event[b]) => Hidden(e, b)

(* A chat has seen no event with a status, or its status stems from one.     *)
OriginOK(c) ==
  /\ state[c].status = "" =>
       /\ state[c].attempt = 0 /\ state[c].conclusion = ""
       /\ Gitlab => ~state[c].known /\ state[c].at = 0
       /\ \A d \in Deliveries : Taken(d, c) => Event[d].status = ""
  /\ state[c].status # "" => state[c].known /\ \E b \in Deliveries : Origin(c, b)

(* The inductive invariant.                                                  *)
IInv ==
  /\ card \in Histories
  /\ ItemsOK /\ WorkerOK /\ StatesOK /\ SeenOK /\ LarkOK
  /\ \A c \in card.chats : OriginOK(c)

------------------------------------------------------------------------------
(***************************************************************************)
(* What the operators on states and events do.                             *)
(***************************************************************************)
(* The ranks of the statuses: terminal ones are above 6.                    *)
LEMMA RankType ==
  \A s \in DOMAIN StatusRank :
    /\ StatusRank[s] \in Nat /\ s # "" /\ s # "completed"
    /\ s \in PipelineTerminal => StatusRank[s] > 6
    /\ s \notin PipelineTerminal => StatusRank[s] <= 6
<1>1. DOMAIN StatusRank = {"created", "waiting_for_resource", "preparing", "waiting_for_callback",
                           "pending", "scheduled", "manual", "running", "canceling", "success",
                           "failed", "skipped", "canceled"}
  BY DEF StatusRank
<1>2. \A s \in DOMAIN StatusRank : s # "" /\ s # "completed"
  BY <1>1
<1>3. /\ StatusRank["created"] = 0 /\ StatusRank["waiting_for_resource"] = 1
      /\ StatusRank["preparing"] = 2 /\ StatusRank["waiting_for_callback"] = 3
      /\ StatusRank["pending"] = 4 /\ StatusRank["scheduled"] = 4 /\ StatusRank["manual"] = 4
      /\ StatusRank["running"] = 5 /\ StatusRank["canceling"] = 6
      /\ StatusRank["success"] = 7 /\ StatusRank["failed"] = 7 /\ StatusRank["skipped"] = 7
      /\ StatusRank["canceled"] = 8
  BY DEF StatusRank
<1>4. \A s \in DOMAIN StatusRank : StatusRank[s] \in Nat
  BY <1>1, <1>3
<1>5. \A s \in DOMAIN StatusRank : s \in PipelineTerminal => StatusRank[s] > 6
  BY <1>1, <1>3 DEF PipelineTerminal
<1>6. \A s \in DOMAIN StatusRank : s \notin PipelineTerminal => StatusRank[s] <= 6
  BY <1>1, <1>3 DEF PipelineTerminal
<1>7. QED
  BY <1>2, <1>4, <1>5, <1>6

(* What the three kinds of events carry.                                    *)
LEMMA PipelineFields ==
  ASSUME NEW u, IsPipelineEvent(u)
  PROVE  /\ u.attempt = 0 /\ u.status \in DOMAIN StatusRank /\ u.at \in Nat /\ u.at > 0
         /\ u.conclusion = (IF u.status \in PipelineTerminal THEN u.status ELSE "")
<1>1. PICK a, b : u = PipelineEvent(a, b)
  BY DEF IsPipelineEvent
<1>2. u.attempt = 0 /\ u.conclusion = (IF u.status \in PipelineTerminal THEN u.status ELSE "")
  BY <1>1 DEF PipelineEvent, RunEvent
<1>3. u.status \in DOMAIN StatusRank /\ u.at \in Nat \ {0}
  BY DEF IsPipelineEvent
<1>4. u.at \in Nat /\ u.at > 0
  BY <1>3
<1>5. QED
  BY <1>2, <1>3, <1>4

LEMMA RunFields ==
  ASSUME NEW u, IsRunEvent(u)
  PROVE  /\ u.attempt \in Nat /\ u.attempt > 0 /\ u.status # ""
         /\ u.at \in Nat /\ u.at > 0
<1>1. u.status # ""
  BY DEF IsRunEvent
<1>2. u.attempt \in Nat \ {0}
  BY DEF IsRunEvent
<1>3. u.at \in Nat \ {0}
  BY DEF IsRunEvent
<1>4. u.attempt \in Nat /\ u.attempt > 0
  BY <1>2
<1>5. u.at \in Nat /\ u.at > 0
  BY <1>3
<1>6. QED
  BY <1>1, <1>4, <1>5

LEMMA CheckFields ==
  ASSUME NEW u, IsCheckEvent(u)
  PROVE  u.attempt = 0 /\ u.status = "" /\ u.conclusion = "" /\ u.at \in Nat
<1>1. PICK a, b, k, t : u = CheckEvent(a, b, k, t)
  BY DEF IsCheckEvent
<1>2. u.attempt = 0 /\ u.status = "" /\ u.conclusion = ""
  BY <1>1 DEF CheckEvent
<1>3. QED
  BY <1>2 DEF IsCheckEvent

(* A check changes the checks only.                                         *)
LEMMA CheckKeeps ==
  ASSUME NEW s, IsState(s), NEW k
  PROVE  /\ IsState(WithCheck(s, k))
         /\ WithCheck(s, k).known = s.known /\ WithCheck(s, k).attempt = s.attempt
         /\ WithCheck(s, k).status = s.status /\ WithCheck(s, k).conclusion = s.conclusion
         /\ WithCheck(s, k).at = s.at /\ WithCheck(s, k).message = s.message
         /\ WithCheck(s, k).reaction = s.reaction
BY DEF WithCheck, IsState, StateFields

(* What an accepted update sets.                                            *)
LEMMA StatusSets ==
  ASSUME NEW s, IsState(s), NEW u, u.attempt \in Nat, u.at \in Nat
  PROVE  LET w == WithStatus(WithAttempt(s, u), u)
         IN /\ IsState(w)
            /\ w.known = s.known /\ w.message = s.message /\ w.reaction = s.reaction
            /\ w.attempt = (IF u.attempt > s.attempt THEN u.attempt ELSE s.attempt)
            /\ w.status = (IF u.status # "" THEN u.status ELSE s.status)
            /\ w.conclusion = (IF u.conclusion # "" \/ u.status = "completed" THEN u.conclusion
                              ELSE IF u.attempt > s.attempt THEN "" ELSE s.conclusion)
            /\ w.at = (IF u.at # 0 THEN u.at ELSE s.at)
<1> DEFINE v == WithAttempt(s, u)
<1>0. s.attempt \in Nat
  BY DEF IsState
<1>1. /\ IsState(v) /\ v.known = s.known /\ v.message = s.message /\ v.reaction = s.reaction
      /\ v.attempt = (IF u.attempt > s.attempt THEN u.attempt ELSE s.attempt)
      /\ v.status = s.status /\ v.at = s.at
      /\ v.conclusion = (IF u.attempt > s.attempt THEN "" ELSE s.conclusion)
  <2>1. CASE u.attempt <= s.attempt
    <3>1. v = s
      BY <2>1 DEF WithAttempt
    <3>2. ~(u.attempt > s.attempt)
      BY <1>0, <2>1
    <3> HIDE DEF v
    <3>3. QED
      BY <3>1, <3>2
  <2>2. CASE ~(u.attempt <= s.attempt)
    <3> DEFINE b == IF u.started # 0 THEN u.started ELSE u.at
               k == IF s.attempt > 0 THEN NoState.checks ELSE s.checks
    <3>1. v = [s EXCEPT !.attempt = u.attempt, !.started = b, !.checks = k, !.conclusion = ""]
      BY <2>2 DEF WithAttempt
    <3>2. u.attempt > s.attempt
      BY <1>0, <2>2
    <3> HIDE DEF b, k, v
    <3>3. /\ IsState(v) /\ v.known = s.known /\ v.message = s.message /\ v.reaction = s.reaction
          /\ v.attempt = u.attempt /\ v.status = s.status /\ v.at = s.at /\ v.conclusion = ""
      BY <3>1 DEF IsState, StateFields
    <3>4. QED
      BY <3>2, <3>3
  <2>3. QED
    BY <2>1, <2>2
<1> HIDE DEF v
<1> DEFINE a == IF u.status # "" THEN u.status ELSE v.status
           b == IF u.conclusion # "" \/ u.status = "completed" THEN u.conclusion ELSE v.conclusion
           t == IF u.at # 0 THEN u.at ELSE v.at
           w == WithStatus(v, u)
<1>2. w = [v EXCEPT !.status = a, !.conclusion = b, !.at = t]
  BY DEF WithStatus
<1>3. t \in Nat
  BY <1>1 DEF IsState
<1>4. /\ IsState(w) /\ w.known = v.known /\ w.message = v.message /\ w.reaction = v.reaction
      /\ w.attempt = v.attempt /\ w.status = a /\ w.at = t /\ w.conclusion = b
  <2> HIDE DEF a, b, t, w
  <2> QED BY <1>1, <1>2, <1>3 DEF IsState, StateFields
<1>5. QED
  BY <1>1, <1>4 DEF v

(* UpsertWorkflow leaves message and reaction alone. *)
LEMMA UpsertFields ==
  ASSUME NEW s, IsState(s), NEW u, u.attempt \in Nat, u.at \in Nat
  PROVE  LET w == UpsertWorkflow(s, u)
         IN /\ IsState(w) /\ w.known /\ w.message = s.message /\ w.reaction = s.reaction
            /\ ~Accepts(s, u) => /\ w.attempt = s.attempt /\ w.status = s.status
                                 /\ w.conclusion = s.conclusion /\ w.at = s.at
            /\ Accepts(s, u) =>
                 /\ w.attempt = (IF u.attempt > s.attempt THEN u.attempt ELSE s.attempt)
                 /\ w.status = (IF u.status # "" THEN u.status ELSE s.status)
                 /\ w.conclusion = (IF u.conclusion # "" \/ u.status = "completed" THEN u.conclusion
                                   ELSE IF u.attempt > s.attempt THEN "" ELSE s.conclusion)
                 /\ w.at = (IF u.at # 0 THEN u.at ELSE s.at)
<1> DEFINE t == IF Accepts(s, u) THEN WithStatus(WithAttempt(s, u), u) ELSE s
           w == WithCheck(t, u.check)
<1>1. IsState(t)
  BY StatusSets
<1>2. /\ IsState(w) /\ w.known = t.known /\ w.attempt = t.attempt /\ w.status = t.status
      /\ w.conclusion = t.conclusion /\ w.at = t.at /\ w.message = t.message
      /\ w.reaction = t.reaction
  BY <1>1, CheckKeeps
<1>3. UpsertWorkflow(s, u) = [w EXCEPT !.known = TRUE]
  BY DEF UpsertWorkflow
<1> DEFINE x == [w EXCEPT !.known = TRUE]
<1>4. ASSUME NEW r, IsState(r)
      PROVE LET y == [r EXCEPT !.known = TRUE] IN
         /\ IsState(y) /\ y.known /\ y.attempt = r.attempt /\ y.status = r.status
         /\ y.conclusion = r.conclusion /\ y.at = r.at /\ y.message = r.message
         /\ y.reaction = r.reaction
  BY <1>4 DEF IsState, StateFields
<1>5. /\ IsState(x) /\ x.known /\ x.attempt = t.attempt /\ x.status = t.status
      /\ x.conclusion = t.conclusion /\ x.at = t.at /\ x.message = t.message
      /\ x.reaction = t.reaction
  <2> HIDE DEF w
  <2> QED BY <1>2, <1>4
<1>6. /\ t.message = s.message /\ t.reaction = s.reaction
      /\ ~Accepts(s, u) => t = s
      /\ Accepts(s, u) =>
           /\ t.attempt = (IF u.attempt > s.attempt THEN u.attempt ELSE s.attempt)
           /\ t.status = (IF u.status # "" THEN u.status ELSE s.status)
           /\ t.conclusion = (IF u.conclusion # "" \/ u.status = "completed" THEN u.conclusion
                             ELSE IF u.attempt > s.attempt THEN "" ELSE s.conclusion)
           /\ t.at = (IF u.at # 0 THEN u.at ELSE s.at)
  BY StatusSets
<1> HIDE DEF t, x
<1>7. QED
  BY <1>3, <1>5, <1>6 DEF x

(* Every conclusion has one reaction or none. *)
LEMMA ReactionType ==
  \A r : \/ Reaction(r) = {}
         \/ \E x \in {"DONE", "ERROR", "CrossMark"} : Reaction(r) = {x}
BY DEF Reaction

(* The chat the worker is at is one of the rest.                            *)
LEMMA FirstIn == ASSUME NEW S \in SUBSET Nat, S # {} PROVE FirstOf(S) \in S
BY LeastNatural DEF FirstOf

------------------------------------------------------------------------------
(***************************************************************************)
(* What each step does to the deliveries.                                  *)
(***************************************************************************)
Itemwise == card \in Histories /\ ItemsOK /\ WorkerOK

(* A step leaves every delivery open or closed, and what it owes. *)
SameItems ==
  /\ card' = card /\ todo' = todo
  /\ \A d \in Deliveries : (Open(d)' <=> Open(d)) /\ (phase'[d] = "new" <=> phase[d] = "new")

(* ... and one of the card's.                                               *)
LEMMA ChatIn ==
  ASSUME Itemwise, rest # {}
  PROVE  Chat \in rest /\ Chat \in card.chats /\ Chat \in AllChats /\ rest \subseteq card.chats
<1>1. PICK d \in Deliveries : rest \subseteq todo[d]
  BY DEF Itemwise, WorkerOK
<1>2. rest \subseteq card.chats
  BY <1>1 DEF Itemwise, ItemsOK
<1>3. card.chats \subseteq Nat
  BY HistoriesAssumption DEF Itemwise
<1>4. Chat \in rest
  BY <1>2, <1>3, FirstIn DEF Chat
<1>5. card.chats \subseteq AllChats
  BY DEF AllChats, Itemwise
<1>6. QED
  BY <1>2, <1>4, <1>5

(* The worker has one item, which has not been served for the rest.         *)
LEMMA ItemIs ==
  ASSUME Itemwise, step # "idle"
  PROVE  /\ rest # {} /\ step \in Steps
         /\ \E d \in Deliveries : item = {d} /\ Open(d) /\ rest \subseteq todo[d]
BY DEF Itemwise, WorkerOK

(* Most steps leave the deliveries alone.                                   *)
LEMMA KeepItems ==
  ASSUME ItemsOK, card' = card, UNCHANGED itemVars
  PROVE  ItemsOK' /\ SameItems
BY DEF ItemsOK, SameItems, itemVars, Open, Event

(* A failure counts, and a dead letter still owes what it owed.             *)
LEMMA FailItems ==
  ASSUME ItemsOK, card' = card, NEW p, CountFailure(p)
  PROVE  ItemsOK' /\ SameItems
<1> DEFINE B == {d \in Queued : p \/ attempts[d] + 1 >= MaxAttempts}
<1>1. /\ attempts' = [d \in Deliveries |-> attempts[d] + IF d \in Queued THEN 1 ELSE 0]
      /\ phase' = [d \in Deliveries |-> IF d \in B THEN "dead" ELSE phase[d]]
      /\ todo' = todo
  BY DEF CountFailure, Items!Bury
<1>2. \A d \in B : phase[d] = "queued"
  BY DEF Queued
<1> HIDE DEF B
<1>3. \A d \in Deliveries : phase'[d] = (IF d \in B THEN "dead" ELSE phase[d])
  BY <1>1
<1>4. phase' \in [Deliveries -> Items!Phases]
  BY <1>1 DEF ItemsOK, Items!Phases
<1>5. \A d \in Deliveries : attempts[d] \in 0..MaxAttempts /\ (phase[d] = "queued" => attempts[d] < MaxAttempts)
  BY DEF ItemsOK
<1>6. MaxAttempts \in Nat
  BY AttemptsAssumption
<1>7. ASSUME NEW d \in Deliveries
      PROVE  /\ attempts'[d] \in 0..MaxAttempts
             /\ phase'[d] = "queued" => attempts'[d] < MaxAttempts
             /\ phase'[d] = "new" => attempts'[d] = 0
  <2>1. CASE d \in Queued
    <3>1. phase[d] = "queued" /\ attempts'[d] = attempts[d] + 1
      BY <1>1, <2>1 DEF Queued
    <3>2. attempts'[d] \in 0..MaxAttempts
      BY <3>1, <1>5, <1>6
    <3>3. ASSUME phase'[d] = "queued" PROVE attempts'[d] < MaxAttempts
      <4>1. d \notin B
        BY <1>3, <3>3
      <4>2. ~(attempts[d] + 1 >= MaxAttempts)
        BY <4>1, <2>1 DEF B
      <4>3. QED
        BY <4>2, <3>1, <1>5, <1>6
    <3>4. phase'[d] # "new"
      BY <3>1, <1>3
    <3>5. QED
      BY <3>2, <3>3, <3>4
  <2>2. CASE d \notin Queued
    <3>1. attempts'[d] = attempts[d]
      BY <1>1, <1>5, <2>2
    <3>2. phase'[d] = phase[d]
      BY <1>3, <2>2 DEF B
    <3>3. QED
      BY <3>1, <3>2, <1>5 DEF ItemsOK
  <2>3. QED
    BY <2>1, <2>2
<1>8. attempts' \in [Deliveries -> 0..MaxAttempts]
  BY <1>1, <1>7
<1>9. SameItems
  BY <1>1, <1>2, <1>3 DEF SameItems, Open
<1>10. ItemsOK'
  <2>1. todo' \in [Deliveries -> SUBSET card'.chats]
    BY <1>1 DEF ItemsOK
  <2>2. \A d \in Deliveries : /\ phase'[d] # "new" => d \in DOMAIN Event'
                              /\ Open(d)' => todo'[d] # {}
                              /\ phase'[d] = "delivered" => todo'[d] = {}
    BY <1>9, <1>3, <1>1 DEF ItemsOK, SameItems, Event
  <2>3. QED
    BY <2>1, <2>2, <1>4, <1>7, <1>8 DEF ItemsOK
<1>11. QED
  BY <1>9, <1>10

(* A chat that is served is owed no more, if the item still is in the queue. *)
LEMMA ServeItems ==
  ASSUME Itemwise, card' = card, Items!Serve(Queued, Chat), UNCHANGED attempts
  PROVE  /\ ItemsOK'
         /\ \A d \in Deliveries :
              /\ todo'[d] = (IF d \in Queued THEN todo[d] \ {Chat} ELSE todo[d])
              /\ phase'[d] = "new" <=> phase[d] = "new"
              /\ Open(d)' <=> Open(d) /\ (d \in Queued => todo[d] # {Chat})
<1>1. /\ todo' = [d \in Deliveries |-> IF d \in Queued THEN todo[d] \ {Chat} ELSE todo[d]]
      /\ phase' = [d \in Deliveries |->
                 IF d \in Queued /\ todo[d] = {Chat} THEN "delivered" ELSE phase[d]]
  BY DEF Items!Serve
<1>2. \A d \in Queued : phase[d] = "queued"
  BY DEF Queued
<1>3. \A d \in Deliveries : phase'[d] = IF d \in Queued /\ todo[d] = {Chat} THEN "delivered" ELSE phase[d]
  BY <1>1
<1>4. \A d \in Deliveries : todo'[d] = IF d \in Queued THEN todo[d] \ {Chat} ELSE todo[d]
  BY <1>1
<1>5. \A d \in Deliveries : /\ phase'[d] = "new" <=> phase[d] = "new"
                            /\ Open(d)' <=> Open(d) /\ (d \in Queued => todo[d] # {Chat})
  BY <1>2, <1>3 DEF Open
<1>6. ItemsOK'
  <2>1. phase' \in [Deliveries -> Items!Phases]
    BY <1>1 DEF Itemwise, ItemsOK, Items!Phases
  <2>2. todo' \in [Deliveries -> SUBSET card'.chats]
    BY <1>1 DEF Itemwise, ItemsOK
  <2>3. ASSUME NEW d \in Deliveries
        PROVE /\ phase'[d] = "queued" => attempts'[d] < MaxAttempts
              /\ phase'[d] = "new" => attempts'[d] = 0
              /\ phase'[d] # "new" => d \in DOMAIN Event'
              /\ phase'[d] = "delivered" => todo'[d] = {}
    BY <1>2, <1>3, <1>4 DEF Itemwise, ItemsOK, Event
  <2>4. ASSUME NEW d \in Deliveries, Open(d)'
        PROVE todo'[d] # {}
    BY <2>4, <1>5, <1>4 DEF Itemwise, ItemsOK
  <2>5. QED
    BY <2>1, <2>2, <2>3, <2>4 DEF Itemwise, ItemsOK
<1>7. QED
  BY <1>4, <1>5, <1>6

(* A new delivery is owed to all chats.                                     *)
LEMMA AcceptItems ==
  ASSUME Itemwise, card' = card, NEW d \in Deliveries, Accept(d)
  PROVE  /\ ItemsOK' /\ UNCHANGED <<state, workerVars, larkVars, historyVars>>
         /\ phase[d] = "new" /\ phase' = [phase EXCEPT ![d] = "queued"]
         /\ todo' = [todo EXCEPT ![d] = card.chats]
<1>1. /\ phase[d] = "new" /\ card.chats # {} /\ d \in DOMAIN Event
      /\ phase' = [phase EXCEPT ![d] = "queued"] /\ todo' = [todo EXCEPT ![d] = card.chats]
      /\ UNCHANGED <<attempts, state, workerVars, larkVars, historyVars>>
  BY DEF Accept, Items!Accept
<1>2. phase \in [Deliveries -> Items!Phases] /\ todo \in [Deliveries -> SUBSET card.chats]
  BY DEF Itemwise, ItemsOK
<1>3. phase' \in [Deliveries -> Items!Phases] /\ todo' \in [Deliveries -> SUBSET card'.chats]
  BY <1>1, <1>2 DEF Items!Phases
<1>4. phase'[d] = "queued" /\ todo'[d] = card.chats
  BY <1>1, <1>2
<1>5. \A e \in Deliveries \ {d} : phase'[e] = phase[e] /\ todo'[e] = todo[e]
  BY <1>1, <1>2
<1>6. attempts[d] = 0 /\ 0 < MaxAttempts /\ attempts' = attempts
  BY <1>1, AttemptsAssumption DEF Itemwise, ItemsOK
<1>7. attempts'[d] < MaxAttempts
  BY <1>6
<1>8. ItemsOK'
  <2>1. attempts' \in [Deliveries -> 0..MaxAttempts]
    BY <1>6 DEF Itemwise, ItemsOK
  <2>2. ASSUME NEW e \in Deliveries
        PROVE  /\ phase'[e] = "queued" => attempts'[e] < MaxAttempts
               /\ phase'[e] = "new" => attempts'[e] = 0
    BY <1>4, <1>5, <1>6, <1>7 DEF Itemwise, ItemsOK
  <2>3. ASSUME NEW e \in Deliveries
        PROVE  /\ phase'[e] # "new" => e \in DOMAIN Event'
               /\ Open(e)' => todo'[e] # {}
               /\ phase'[e] = "delivered" => todo'[e] = {}
    BY <1>1, <1>4, <1>5 DEF Itemwise, ItemsOK, Open, Event
  <2>4. QED
    BY <2>1, <2>2, <2>3, <1>3 DEF ItemsOK
<1>9. QED
  BY <1>1, <1>8

(* A dead letter comes back with what it owes.                              *)
LEMMA RequeueItems ==
  ASSUME Itemwise, card' = card, NEW d \in Deliveries, Requeue(d)
  PROVE  ItemsOK' /\ SameItems
<1>1. /\ phase[d] = "dead" /\ phase' = [phase EXCEPT ![d] = "queued"] /\ todo' = todo
      /\ attempts' = [attempts EXCEPT ![d] = 0]
  BY DEF Requeue, Items!Revive
<1>2. phase \in [Deliveries -> Items!Phases] /\ attempts \in [Deliveries -> 0..MaxAttempts]
  BY DEF Itemwise, ItemsOK
<1>3. phase' \in [Deliveries -> Items!Phases]
  BY <1>1, <1>2 DEF Items!Phases
<1>4. MaxAttempts \in Nat \ {0}
  BY AttemptsAssumption
<1>5. attempts' \in [Deliveries -> 0..MaxAttempts]
  BY <1>1, <1>2, <1>4
<1>6. phase'[d] = "queued" /\ attempts'[d] = 0 /\ 0 < MaxAttempts
  BY <1>1, <1>2, <1>4
<1>7. \A e \in Deliveries \ {d} : phase'[e] = phase[e] /\ attempts'[e] = attempts[e]
  BY <1>1, <1>2
<1>8. ASSUME NEW e \in Deliveries
      PROVE  /\ phase'[e] = "queued" => attempts'[e] < MaxAttempts
             /\ phase'[e] = "new" => attempts'[e] = 0
  BY <1>6, <1>7 DEF Itemwise, ItemsOK
<1>9. SameItems
  BY <1>1, <1>6, <1>7 DEF SameItems, Open
<1>10. ItemsOK'
  BY <1>1, <1>3, <1>5, <1>6, <1>7, <1>8 DEF Itemwise, ItemsOK, Open, Event
<1>11. QED
  BY <1>9, <1>10

------------------------------------------------------------------------------
(***************************************************************************)
(* The worker keeps to an item and its chats.                              *)
(***************************************************************************)
(* The worker leaves the item.                                              *)
LEMMA Away ==
  ASSUME Itemwise, Idle
  PROVE  WorkerOK' /\ step' = "idle"
BY DEF Idle, WorkerOK

(* The worker goes on with the item's next chat.                            *)
LEMMA OnToNextChat ==
  ASSUME Itemwise, step # "idle", NextChat,
         \A d \in item : rest # {Chat} => Open(d)' /\ todo[d] \ {Chat} \subseteq todo'[d]
  PROVE  WorkerOK' /\ step' \in {"idle", "take"}
<1>1. CASE rest = {Chat}
  BY <1>1, Away DEF NextChat
<1>2. CASE rest # {Chat}
  <2>1. /\ rest' = rest \ {Chat} /\ step' = "take" /\ slotless' = FALSE
        /\ item' = item /\ current' = current
    BY <1>2 DEF NextChat
  <2>2. PICK d \in Deliveries : item = {d} /\ Open(d) /\ rest \subseteq todo[d]
    BY ItemIs
  <2>3. rest' # {} /\ rest' \subseteq todo'[d] /\ Open(d)'
    BY <1>2, <2>1, <2>2, ItemIs
  <2>4. current \in BOOLEAN
    BY DEF Itemwise, WorkerOK
  <2>5. QED
    BY <2>1, <2>2, <2>3, <2>4 DEF WorkerOK, Steps
<1>3. QED
  BY <1>1, <1>2

(* The worker stays at a chat.                                              *)
LEMMA StayOK ==
  ASSUME Itemwise, step # "idle", SameItems, UNCHANGED <<item, rest>>, current' \in BOOLEAN,
         step' \in Steps \ {"idle"}, slotless' \in BOOLEAN, slotless' => Requesting'
  PROVE  WorkerOK'
<1>1. PICK d \in Deliveries : item = {d} /\ Open(d) /\ rest \subseteq todo[d] /\ rest # {}
  BY ItemIs
<1>2. item' = {d} /\ Open(d)' /\ rest' \subseteq todo'[d] /\ rest' # {}
  BY <1>1 DEF SameItems
<1>3. QED
  BY <1>2 DEF WorkerOK

(* A round's item that fails, or a worker that dies, leaves the card.       *)
LEMMA FailureLeaves ==
  ASSUME Itemwise, step # "idle", card' = card, NEW p, Failure(p)
  PROVE  ItemsOK' /\ SameItems /\ WorkerOK' /\ step' \in {"idle", "take"}
<1>1. ItemsOK' /\ SameItems
  BY FailItems DEF Failure, Itemwise
<1>2. \A d \in item : Open(d)' /\ todo[d] \ {Chat} \subseteq todo'[d]
  BY <1>1, ItemIs DEF SameItems
<1>3. QED
  BY <1>1, <1>2, OnToNextChat DEF Failure

FailingStep == TakeFails \/ Rejected \/ AnswerLost \/ RecordFails \/ Crash

LEMMA FailingLeaves ==
  ASSUME Itemwise, card' = card, FailingStep
  PROVE  ItemsOK' /\ SameItems /\ WorkerOK' /\ step' \in {"idle", "take"} /\ state' = state /\ step # "idle"
<1>1. step # "idle" /\ state' = state
  BY DEF FailingStep, TakeFails, Rejected, AnswerLost, RecordFails, Crash, Requesting, DoCreate,
     DoUpdate,
     DoUnreact, DoReact
<1>2. CASE \E p \in BOOLEAN : Failure(p)
  BY <1>1, <1>2, FailureLeaves
<1>3. CASE Limited
  <2>1. ItemsOK' /\ SameItems
    BY <1>3, FailItems DEF Limited, Itemwise
  <2>2. QED
    BY <1>1, <1>3, <2>1, Away DEF Limited
<1>4. CASE Crash
  <2>1. ItemsOK' /\ SameItems
    BY <1>4, KeepItems DEF Crash, Itemwise
  <2>2. QED
    BY <1>1, <1>4, <2>1, Away DEF Crash
<1>5. QED
  BY <1>2, <1>3, <1>4 DEF FailingStep, TakeFails, Rejected, AnswerLost, RecordFails

(* A step of the worker within one chat. *)
SendingStep ==
  Take \/ Create \/ SetMessage \/ Update \/ Unreact \/ SetUnreact \/ React \/ SetReact

LEMMA SendingStays ==
  ASSUME Itemwise, card' = card, SendingStep
  PROVE  /\ ItemsOK' /\ SameItems /\ WorkerOK' /\ UNCHANGED <<item, current, rest>>
         /\ step \notin {"idle", "complete"} /\ step' \in Steps \ {"idle", "take"}
<1>1. /\ step \notin {"idle", "complete"} /\ UNCHANGED <<itemVars, item, current, rest>>
  BY DEF SendingStep, Take, Create, SetMessage, Update, Unreact, SetUnreact, React, SetReact,
     DoCreate,
     DoUpdate, DoUnreact, DoReact
<1>2. ItemsOK' /\ SameItems
  BY <1>1, KeepItems DEF Itemwise
<1>3. step' \in Steps \ {"idle", "take"}
  BY DEF SendingStep, Take, Create, SetMessage, Update, Unreact, SetUnreact, React, SetReact,
     AfterCard, Steps
<1>4. slotless' = FALSE
  <2>1. step \in {"take", "set_message", "set_unreact", "set_react"} => slotless = FALSE
    BY DEF Itemwise, WorkerOK, Requesting
  <2>2. QED
    BY <2>1 DEF SendingStep, Take, Create, SetMessage, Update, Unreact, SetUnreact, React,
       SetReact, DoCreate,
     DoUpdate, DoUnreact, DoReact
<1>5. current' \in BOOLEAN
  BY <1>1 DEF Itemwise, WorkerOK
<1>6. QED
  BY <1>1, <1>2, <1>3, <1>4, <1>5, StayOK

LEMMA ServedLeaves ==
  ASSUME Itemwise, card' = card, Drain \/ Complete
  PROVE  ItemsOK' /\ WorkerOK' /\ step' \in {"idle", "take"} /\ step # "idle"
<1>1. step # "idle" /\ Items!Serve(Queued, Chat) /\ UNCHANGED attempts /\ NextChat
  BY DEF Drain, Complete
<1>2. PICK d \in Deliveries : item = {d} /\ Open(d) /\ rest \subseteq todo[d] /\ rest # {}
  BY <1>1, ItemIs
<1>3. /\ ItemsOK'
      /\ \A e \in Deliveries :
              /\ todo'[e] = (IF e \in Queued THEN todo[e] \ {Chat} ELSE todo[e])
              /\ Open(e)' <=> Open(e) /\ (e \in Queued => todo[e] # {Chat})
  BY <1>1, ServeItems
<1>4. rest # {Chat} => Open(d)' /\ todo[d] \ {Chat} \subseteq todo'[d]
  BY <1>2, <1>3, ChatIn
<1>5. QED
  BY <1>1, <1>2, <1>3, <1>4, OnToNextChat

LEMMA BeginOK ==
  ASSUME Itemwise, card' = card, NEW d \in Deliveries, Begin(d)
  PROVE  ItemsOK' /\ SameItems /\ WorkerOK' /\ step' = "take" /\ step = "idle"
<1>1. /\ step = "idle" /\ phase[d] = "queued" /\ item' = {d} /\ current' = TRUE /\ rest' = todo[d]
      /\ step' = "take" /\ slotless' = slotless /\ UNCHANGED itemVars
  BY DEF Begin
<1>2. ItemsOK' /\ SameItems
  BY <1>1, KeepItems DEF Itemwise
<1>3. slotless' = FALSE
  BY <1>1 DEF Itemwise, WorkerOK
<1>4. Open(d)' /\ rest' # {} /\ rest' \subseteq todo'[d]
  BY <1>1, <1>2 DEF Itemwise, ItemsOK, SameItems, Open
<1>5. QED
  BY <1>1, <1>2, <1>3, <1>4 DEF WorkerOK, Steps

LEMMA ReserveOK ==
  ASSUME Itemwise, card' = card, ReserveFails
  PROVE  /\ ItemsOK' /\ SameItems /\ WorkerOK' /\ step # "idle"
         /\ UNCHANGED <<state, item, current, rest, step, seen, larkVars, unrecorded>>
<1>1. /\ Requesting /\ CountFailure(FALSE) /\ slotless' = TRUE
      /\ UNCHANGED <<state, item, current, rest, step, seen, larkVars, unrecorded>>
  BY DEF ReserveFails
<1>2. ItemsOK' /\ SameItems
  BY <1>1, FailItems DEF Itemwise
<1>3. step # "idle" /\ Requesting' /\ step \in Steps
  BY <1>1 DEF Requesting, Steps
<1>4. current' \in BOOLEAN
  BY <1>1 DEF Itemwise, WorkerOK
<1>5. WorkerOK'
  BY <1>1, <1>2, <1>3, <1>4, StayOK
<1>6. QED
  BY <1>1, <1>2, <1>3, <1>5

LEMMA RequeueOK ==
  ASSUME Itemwise, card' = card, NEW d \in Deliveries, Requeue(d)
  PROVE  /\ ItemsOK' /\ SameItems /\ WorkerOK'
         /\ UNCHANGED <<state, item, rest, step, seen, slotless, larkVars, historyVars>>
<1>1. /\ current' = (current /\ d \notin item)
      /\ UNCHANGED <<state, item, rest, step, seen, slotless, larkVars, historyVars>>
  BY DEF Requeue
<1>2. ItemsOK' /\ SameItems
  BY RequeueItems
<1>3. CASE step = "idle"
  BY <1>1, <1>2, <1>3 DEF Itemwise, WorkerOK
<1>4. CASE step # "idle"
  <2>1. /\ step' \in Steps \ {"idle"} /\ slotless' \in BOOLEAN /\ (slotless' => Requesting')
        /\ current' \in BOOLEAN
    BY <1>1, <1>4 DEF Itemwise, WorkerOK, Requesting
  <2>2. QED
    BY <1>1, <1>2, <1>4, <2>1, StayOK
<1>5. QED
  BY <1>1, <1>2, <1>3, <1>4

LEMMA AcceptOK ==
  ASSUME Itemwise, card' = card, NEW d \in Deliveries, Accept(d)
  PROVE  WorkerOK'
<1>1. /\ UNCHANGED workerVars /\ phase[d] = "new"
      /\ phase' = [phase EXCEPT ![d] = "queued"] /\ todo' = [todo EXCEPT ![d] = card.chats]
  BY AcceptItems
<1>2. \A e \in Deliveries : Open(e) => Open(e)' /\ todo'[e] = todo[e]
  BY <1>1 DEF Itemwise, ItemsOK, Open
<1>3. QED
  BY <1>1, <1>2 DEF Itemwise, WorkerOK, workerVars, Requesting

(* Every step keeps deliveries and worker consistent.                       *)
LEMMA NextItemwise ==
  ASSUME Itemwise, [Next]_vars
  PROVE  Itemwise'
<1>1. card' = card
  BY DEF Next, vars
<1>2. CASE UNCHANGED vars
  BY <1>2 DEF vars, Itemwise, ItemsOK, WorkerOK, Open, itemVars, workerVars, Event, Requesting
<1>3. CASE \E d \in Deliveries : Accept(d)
  BY <1>1, <1>3, AcceptItems, AcceptOK DEF Itemwise
<1>4. CASE \E d \in Deliveries : Requeue(d)
  BY <1>1, <1>4, RequeueOK DEF Itemwise
<1>5. CASE \E d \in Deliveries : Begin(d)
  BY <1>1, <1>5, BeginOK DEF Itemwise
<1>6. CASE SendingStep
  BY <1>1, <1>6, SendingStays DEF Itemwise
<1>7. CASE Drain \/ Complete
  BY <1>1, <1>7, ServedLeaves DEF Itemwise
<1>8. CASE FailingStep
  BY <1>1, <1>8, FailingLeaves DEF Itemwise
<1>9. CASE ReserveFails
  BY <1>1, <1>9, ReserveOK DEF Itemwise
<1>10. QED
  BY <1>2, <1>3, <1>4, <1>5, <1>6, <1>7, <1>8, <1>9 DEF Next, WorkerStep, SendingStep,
     FailingStep

------------------------------------------------------------------------------
(***************************************************************************)
(* The states of the cards, and the copy the worker has.                   *)
(***************************************************************************)
(* The events of a card are of its kind.                                    *)
LEMMA EventIs ==
  ASSUME card \in Histories, NEW d \in DOMAIN Event
  PROVE  /\ IF Gitlab THEN IsPipelineEvent(Event[d]) ELSE IsRunEvent(Event[d]) \/ IsCheckEvent(Event[d])
         /\ Event[d].attempt \in Nat /\ Event[d].at \in Nat
<1>1. IF Gitlab THEN IsPipelineEvent(Event[d]) ELSE IsRunEvent(Event[d]) \/ IsCheckEvent(Event[d])
  BY HistoriesAssumption DEF Event, Gitlab
<1>2. Gitlab \in BOOLEAN
  BY HistoriesAssumption DEF Gitlab
<1> DEFINE u == Event[d]
<1> HIDE DEF u
<1>3. CASE IsPipelineEvent(u)
  <2>1. u.attempt = 0 /\ u.at \in Nat
    BY <1>3, PipelineFields
  <2>2. QED
    BY <1>1, <2>1 DEF u
<1>4. CASE IsRunEvent(u)
  <2>1. u.attempt \in Nat /\ u.at \in Nat
    BY <1>4, RunFields
  <2>2. QED
    BY <1>1, <2>1 DEF u
<1>5. CASE IsCheckEvent(u)
  <2>1. u.attempt = 0 /\ u.at \in Nat
    BY <1>5, CheckFields
  <2>2. QED
    BY <1>1, <2>1 DEF u
<1>6. QED
  BY <1>1, <1>2, <1>3, <1>4, <1>5 DEF u

(* The chat whose state the transaction reads and writes. *)
LEMMA TakeIs ==
  ASSUME Itemwise, StatesOK, Take
  PROVE  /\ Chat \in card.chats /\ Chat \in AllChats
         /\ \E d \in Deliveries :
              /\ item = {d} /\ d \in DOMAIN Event /\ phase[d] # "new" /\ ~Drains(d)
              /\ state'[Chat] = UpsertWorkflow(state[Chat], Event[d])
              /\ IsState(state'[Chat])
         /\ state' = [c \in AllChats |-> state'[c]]
         /\ \A c \in AllChats \ {Chat} : state'[c] = state[c]
         /\ step' = "card" /\ seen' = state'[Chat]
<1>1. PICK d \in item : ~Drains(d) /\ state' = [state EXCEPT ![Chat] = UpsertWorkflow(@, Event[d])]
  BY DEF Take
<1>2. step' = "card" /\ seen' = state'[Chat] /\ step = "take"
  BY DEF Take
<1>3. Chat \in card.chats /\ Chat \in AllChats
  BY <1>2, ChatIn, ItemIs
<1>4. item = {d} /\ d \in Deliveries /\ Open(d)
  BY <1>1, <1>2, ItemIs
<1>5. phase[d] # "new" /\ d \in DOMAIN Event
  BY <1>4 DEF Open, Itemwise, ItemsOK
<1>6. state = [c \in AllChats |-> state[c]] /\ IsState(state[Chat])
  BY <1>3 DEF StatesOK
<1>7. /\ state'[Chat] = UpsertWorkflow(state[Chat], Event[d])
      /\ \A c \in AllChats \ {Chat} : state'[c] = state[c]
      /\ state' = [c \in AllChats |-> state'[c]]
  BY <1>1, <1>3, <1>6
<1>8. IsState(state'[Chat])
  <2>1. card \in Histories
    BY DEF Itemwise
  <2>2. Event[d].attempt \in Nat /\ Event[d].at \in Nat
    BY <1>5, <2>1, EventIs
  <2>3. QED
    <3> DEFINE s == state[Chat]
               u == Event[d]
    <3>1. IsState(s) /\ u.attempt \in Nat /\ u.at \in Nat
      BY <1>6, <2>2
    <3> HIDE DEF s, u
    <3>2. IsState(UpsertWorkflow(s, u))
      BY <3>1, UpsertFields
    <3>3. QED
      BY <3>2, <1>7 DEF s, u
<1>9. QED
  BY <1>1, <1>2, <1>3, <1>4, <1>5, <1>7, <1>8

(* What the records of message and reaction change. *)
WithMessage(s) == [s EXCEPT !.message = TRUE]

WithReaction(s, r) == [s EXCEPT !.reaction = r]

(* Records change nothing that is shown.                                    *)
LEMMA RecordMessage ==
  ASSUME NEW s, IsState(s)
  PROVE  LET w == WithMessage(s)
         IN /\ IsState(w) /\ CardOf(w) = CardOf(s) /\ w.known = s.known /\ w.attempt = s.attempt
            /\ w.status = s.status /\ w.conclusion = s.conclusion /\ w.at = s.at
            /\ w.reaction = s.reaction /\ w.message
<1> DEFINE w == WithMessage(s)
<1>1. /\ IsState(w) /\ w.known = s.known /\ w.attempt = s.attempt
      /\ w.status = s.status /\ w.conclusion = s.conclusion /\ w.at = s.at
      /\ w.reaction = s.reaction /\ w.message /\ w.checks = s.checks
  BY DEF WithMessage, IsState, StateFields
<1> HIDE DEF w
<1>2. CardOf(w) = CardOf(s)
  BY <1>1 DEF CardOf, Label
<1>3. QED
  BY <1>1, <1>2 DEF w

LEMMA RecordReaction ==
  ASSUME NEW s, IsState(s), NEW r \in {"", "DONE", "ERROR", "CrossMark"}
  PROVE  LET w == WithReaction(s, r)
         IN /\ IsState(w) /\ CardOf(w) = CardOf(s) /\ w.known = s.known /\ w.attempt = s.attempt
            /\ w.status = s.status /\ w.conclusion = s.conclusion /\ w.at = s.at
            /\ w.reaction = r /\ w.message = s.message
<1> DEFINE w == WithReaction(s, r)
<1>1. /\ IsState(w) /\ w.known = s.known /\ w.attempt = s.attempt
      /\ w.status = s.status /\ w.conclusion = s.conclusion /\ w.at = s.at
      /\ w.reaction = r /\ w.message = s.message /\ w.checks = s.checks
  BY DEF WithReaction, IsState, StateFields
<1> HIDE DEF w
<1>2. CardOf(w) = CardOf(s)
  BY <1>1 DEF CardOf, Label
<1>3. QED
  BY <1>1, <1>2 DEF w

(* A record keeps what the card shows. *)
SameShown(c) ==
  /\ CardOf(state'[c]) = CardOf(state[c]) /\ state'[c].known = state[c].known
  /\ state'[c].attempt = state[c].attempt /\ state'[c].status = state[c].status
  /\ state'[c].conclusion = state[c].conclusion /\ state'[c].at = state[c].at

Wants == CHOOSE r \in Wanted : TRUE

(* The reaction to add is one.                                              *)
LEMMA WantedIs ==
  ASSUME Wanted # {}
  PROVE  Wanted = {Wants} /\ Wants \in {"DONE", "ERROR", "CrossMark"}
<1>1. PICK x \in {"DONE", "ERROR", "CrossMark"} : Wanted = {x}
  BY ReactionType DEF Wanted
<1>2. Wants = x
  BY <1>1 DEF Wants
<1>3. QED
  BY <1>1, <1>2

(* The state after a record.                                                *)
LEMMA RecordIs ==
  ASSUME Itemwise, StatesOK, SeenOK, SetMessage \/ SetUnreact \/ SetReact
  PROVE  /\ Chat \in card.chats /\ Chat \in AllChats
         /\ state' = [c \in AllChats |-> state'[c]]
         /\ IsState(state'[Chat]) /\ \A c \in AllChats : SameShown(c)
         /\ \A c \in AllChats \ {Chat} : state'[c] = state[c]
         /\ SetMessage => state'[Chat].message /\ state'[Chat].reaction = state[Chat].reaction
         /\ SetUnreact => state'[Chat].message = state[Chat].message /\ state'[Chat].reaction = ""
         /\ SetReact => state'[Chat].message = state[Chat].message /\ state'[Chat].reaction = Wants
<1>1. step \notin {"idle", "take"}
  BY DEF SetMessage, SetUnreact, SetReact
<1>2. Chat \in card.chats /\ Chat \in AllChats
  BY <1>1, ChatIn, ItemIs
<1>3. state = [c \in AllChats |-> state[c]] /\ IsState(state[Chat])
  BY <1>2 DEF StatesOK
<1>4. CASE SetMessage
  <2>1. state' = [state EXCEPT ![Chat].message = TRUE]
    BY <1>4 DEF SetMessage
  <2>2. /\ state'[Chat] = WithMessage(state[Chat])
        /\ \A c \in AllChats \ {Chat} : state'[c] = state[c]
        /\ state' = [c \in AllChats |-> state'[c]]
    BY <1>2, <1>3, <2>1 DEF WithMessage, WithReaction
  <2>3. step = "set_message"
    BY <1>4 DEF SetMessage
  <2>4. ~SetUnreact /\ ~SetReact
    BY <2>3 DEF SetUnreact, SetReact
  <2>5. /\ IsState(state'[Chat]) /\ state'[Chat].message
        /\ state'[Chat].reaction = state[Chat].reaction
    BY <1>3, <2>2, RecordMessage
  <2>6. SameShown(Chat)
    BY <1>3, <2>2, RecordMessage DEF SameShown
  <2>7. \A c \in AllChats : SameShown(c)
    BY <2>2, <2>6 DEF SameShown
  <2>8. QED
    BY <1>2, <2>2, <2>4, <2>5, <2>7
<1>5. CASE SetUnreact
  <2>1. state' = [state EXCEPT ![Chat].reaction = ""]
    BY <1>5 DEF SetUnreact
  <2>2. /\ state'[Chat] = WithReaction(state[Chat], "")
        /\ \A c \in AllChats \ {Chat} : state'[c] = state[c]
        /\ state' = [c \in AllChats |-> state'[c]]
    BY <1>2, <1>3, <2>1 DEF WithMessage, WithReaction
  <2>3. step = "set_unreact"
    BY <1>5 DEF SetUnreact
  <2>4. ~SetMessage /\ ~SetReact
    BY <2>3 DEF SetMessage, SetReact
  <2>5. /\ IsState(state'[Chat]) /\ state'[Chat].reaction = ""
        /\ state'[Chat].message = state[Chat].message
        /\ SameShown(Chat)
    <3> DEFINE s == state[Chat]
               w == WithReaction(s, "")
    <3>1. IsState(s) /\ w = state'[Chat]
      BY <1>3, <2>2
    <3>2. /\ IsState(w) /\ CardOf(w) = CardOf(s) /\ w.known = s.known /\ w.attempt = s.attempt
          /\ w.status = s.status /\ w.conclusion = s.conclusion /\ w.at = s.at
          /\ w.reaction = "" /\ w.message = s.message
      <4> HIDE DEF s
      <4> QED BY <3>1, RecordReaction
    <3> HIDE DEF w
    <3>3. QED
      BY <3>1, <3>2 DEF SameShown
  <2>6. SameShown(Chat)
    BY <2>5
  <2>7. \A c \in AllChats : SameShown(c)
    BY <2>2, <2>6 DEF SameShown
  <2>8. QED
    BY <1>2, <2>2, <2>4, <2>5, <2>7
<1>6. CASE SetReact
  <2>1. state' = [state EXCEPT ![Chat].reaction = Wants] /\ step = "set_react"
    BY <1>6 DEF SetReact, Wants
  <2>2. /\ state'[Chat] = WithReaction(state[Chat], Wants)
        /\ \A c \in AllChats \ {Chat} : state'[c] = state[c]
        /\ state' = [c \in AllChats |-> state'[c]]
    BY <1>2, <1>3, <2>1 DEF WithMessage, WithReaction
  <2>3. ~SetMessage /\ ~SetUnreact
    BY <2>1 DEF SetMessage, SetUnreact
  <2>4. Wants \in {"", "DONE", "ERROR", "CrossMark"}
    BY <1>1, <2>1, WantedIs DEF SeenOK
  <2>5. /\ IsState(state'[Chat]) /\ state'[Chat].reaction = Wants
        /\ state'[Chat].message = state[Chat].message
        /\ SameShown(Chat)
    <3> DEFINE s == state[Chat]
               w == WithReaction(s, Wants)
    <3>1. IsState(s) /\ w = state'[Chat]
      BY <1>3, <2>2
    <3>2. /\ IsState(w) /\ CardOf(w) = CardOf(s) /\ w.known = s.known /\ w.attempt = s.attempt
          /\ w.status = s.status /\ w.conclusion = s.conclusion /\ w.at = s.at
          /\ w.reaction = Wants /\ w.message = s.message
      <4> HIDE DEF s
      <4> QED BY <2>4, <3>1, RecordReaction
    <3> HIDE DEF w
    <3>3. QED
      BY <3>1, <3>2 DEF SameShown
  <2>6. SameShown(Chat)
    BY <2>5
  <2>7. \A c \in AllChats : SameShown(c)
    BY <2>2, <2>6 DEF SameShown
  <2>8. QED
    BY <1>2, <2>2, <2>3, <2>5, <2>7
<1>7. QED
  BY <1>4, <1>5, <1>6

(* States stay states.                                                      *)
LEMMA NextStates ==
  ASSUME Itemwise, StatesOK, SeenOK, [Next]_vars
  PROVE  StatesOK'
<1>1. card' = card
  BY DEF Next, vars
<1>2. CASE state' = state
  BY <1>1, <1>2 DEF StatesOK
<1>3. CASE Take
  BY <1>1, <1>3, TakeIs DEF StatesOK
<1>4. CASE SetMessage \/ SetUnreact \/ SetReact
  BY <1>1, <1>4, RecordIs DEF StatesOK
<1>5. state' = state \/ Take \/ SetMessage \/ SetUnreact \/ SetReact
  BY DEF Next, WorkerStep, vars, Accept, Requeue, Begin, Drain, Create, Update, Unreact, React,
     Complete,
     TakeFails, Rejected, ReserveFails, AnswerLost, RecordFails, Crash
<1>6. QED
  BY <1>2, <1>3, <1>4, <1>5

(* Where the worker goes once the card is in place.                         *)
LEMMA AfterCardIs ==
  /\ AfterCard = "unreact" => Recorded # {}
  /\ AfterCard = "react" => Recorded = {} /\ Wanted # {}
  /\ AfterCard = "complete" => Recorded = Wanted
  /\ AfterCard \in {"unreact", "react", "complete"}
BY DEF AfterCard

(* The worker's copy agrees with the stored state on what the worker still uses. *)
LEMMA NextSeen ==
  ASSUME Itemwise, StatesOK, SeenOK, [Next]_vars
  PROVE  SeenOK'
<1>1. card' = card
  BY DEF Next, vars
<1>2. CASE step' \in {"idle", "take"}
  BY <1>2 DEF SeenOK
<1>3. CASE UNCHANGED <<state, step, seen, rest>>
  BY <1>3 DEF SeenOK, Wanted, Recorded, Recording, Chat
<1>4. CASE Take
  <2>1. Chat' = Chat
    BY <1>4 DEF Take, Chat
  <2>2. step' = "card" /\ seen' = state'[Chat] /\ IsState(state'[Chat])
    BY <1>4, TakeIs
  <2>3. QED
    BY <2>1, <2>2 DEF SeenOK
<1>5. CASE Create \/ Unreact \/ React
  <2>1. UNCHANGED <<state, seen, rest>> /\ step \in {"card", "unreact", "react"}
    BY <1>5 DEF Create, Unreact, React, DoCreate, DoUnreact, DoReact
  <2>2. /\ step = "card" => ~seen.message /\ step' = "set_message"
        /\ step = "unreact" => step' = "set_unreact"
        /\ step = "react" => step' = "set_react"
    BY <1>5 DEF Create, Unreact, React, DoCreate, DoUnreact, DoReact
  <2>3. QED
    BY <2>1, <2>2 DEF SeenOK, Wanted, Recorded, Recording, Chat
<1>6. CASE Update
  <2>1. UNCHANGED <<state, seen, rest>> /\ step = "card" /\ step' = AfterCard
    BY <1>6 DEF Update, DoUpdate
  <2>2. Recording(Chat) = Recorded
    BY <2>1 DEF SeenOK, Recording, Recorded
  <2>3. QED
    BY <2>1, <2>2, AfterCardIs DEF SeenOK, Wanted, Recorded, Recording, Chat
<1>7. CASE SetMessage
  <2>1. UNCHANGED <<seen, rest>> /\ step = "set_message" /\ step' = AfterCard
    BY <1>7 DEF SetMessage
  <2>2. SameShown(Chat) /\ state'[Chat].reaction = state[Chat].reaction
    BY <1>7, RecordIs
  <2>3. Recording(Chat)' = Recorded /\ Chat' = Chat /\ Wanted' = Wanted /\ Recorded' = Recorded
    BY <2>1, <2>2 DEF SeenOK, Recording, Recorded, Chat, Wanted
  <2>4. QED
    BY <2>1, <2>2, <2>3, AfterCardIs DEF SeenOK, SameShown
<1>8. CASE SetUnreact
  <2>1. /\ rest' = rest /\ step = "set_unreact" /\ step' = IF Wanted # {} THEN "react" ELSE "complete"
        /\ seen' = WithReaction(seen, "")
    BY <1>8 DEF SetUnreact, WithReaction
  <2>2. SameShown(Chat) /\ state'[Chat].reaction = "" /\ IsState(seen)
    BY <1>8, <2>1, RecordIs DEF SeenOK
  <2>3. /\ IsState(seen') /\ CardOf(seen') = CardOf(seen) /\ seen'.conclusion = seen.conclusion
        /\ seen'.reaction = ""
    BY <2>1, <2>2, RecordReaction
  <2>4. Recording(Chat)' = {} /\ Chat' = Chat /\ Wanted' = Wanted /\ Recorded' = {}
    BY <2>1, <2>2, <2>3 DEF Recording, Recorded, Chat, Wanted
  <2>5. QED
    BY <2>1, <2>2, <2>3, <2>4 DEF SeenOK, SameShown
<1>9. CASE SetReact
  <2>1. UNCHANGED <<seen, rest>> /\ step = "set_react" /\ step' = "complete"
    BY <1>9 DEF SetReact
  <2>2. SameShown(Chat) /\ state'[Chat].reaction = Wants
    BY <1>9, RecordIs
  <2>3. Wanted = {Wants} /\ Wants # ""
    BY <2>1, WantedIs DEF SeenOK
  <2>4. Recording(Chat)' = Wanted /\ Chat' = Chat /\ Wanted' = Wanted
    BY <2>1, <2>2, <2>3 DEF Recording, Chat, Wanted
  <2>5. QED
    BY <2>1, <2>2, <2>4 DEF SeenOK, SameShown
<1>10. CASE FailingStep
  BY <1>1, <1>2, <1>10, FailingLeaves
<1>11. CASE Drain \/ Complete \/ \E d \in Deliveries : Begin(d)
  BY <1>1, <1>2, <1>11, ServedLeaves, BeginOK
<1>12. CASE ReserveFails \/ (\E d \in Deliveries : Accept(d) \/ Requeue(d)) \/ UNCHANGED vars
  BY <1>3, <1>12 DEF ReserveFails, Accept, Requeue, vars, workerVars
<1>13. QED
  BY <1>4, <1>5, <1>6, <1>7, <1>8, <1>9, <1>10, <1>11, <1>12 DEF Next, WorkerStep, FailingStep

------------------------------------------------------------------------------
(***************************************************************************)
(* What the requests and failures leave in Lark.                           *)
(***************************************************************************)
Kinds == {"message", "reaction", "removal"}

Emoji == {"DONE", "ERROR", "CrossMark"}

(* What is owed only depends on the deliveries.                             *)
LEMMA SameOwed ==
  ASSUME SameItems
  PROVE  /\ \A c \in AllChats : Owed(c)' <=> Owed(c)
         /\ AllNew' <=> AllNew
BY DEF SameItems, Owed, AllNew

LEMMA WantedType == Wanted \subseteq Emoji
BY ReactionType DEF Wanted, Emoji

(* What Lark does with each request. *)
LEMMA MessageSent ==
  ASSUME Itemwise, SeenOK, LarkOK, DoCreate \/ DoUpdate
  PROVE  /\ message' = [c \in AllChats |-> message'[c]] /\ reactions' = reactions
         /\ \A c \in AllChats \ {Chat} : message'[c] = message[c]
         /\ message'[Chat] # {}
         /\ DoUpdate => seen.message /\ message'[Chat] = {CardOf(state[Chat])}
         /\ DoCreate => /\ ~seen.message
                        /\ \/ message'[Chat] = {CardOf(state[Chat])}
                           \/ message[Chat] # {} /\ message'[Chat] = message[Chat]
         /\ step = "card" /\ Chat \in AllChats
<1>1. step = "card" /\ reactions' = reactions
  BY DEF DoCreate, DoUpdate
<1>2. Chat \in AllChats
  BY <1>1, ChatIn, ItemIs
<1>3. message = [c \in AllChats |-> message[c]] /\ CardOf(seen) = CardOf(state[Chat])
  BY <1>1 DEF LarkOK, SeenOK
<1>4. CASE DoCreate
  <2>1. /\ ~seen.message
        /\ message' = [message EXCEPT ![Chat] = IF @ = {} THEN {CardOf(seen)} ELSE @]
    BY <1>4 DEF DoCreate
  <2>2. ~DoUpdate
    BY <2>1 DEF DoUpdate
  <2>3. /\ message'[Chat] = IF message[Chat] = {} THEN {CardOf(seen)} ELSE message[Chat]
        /\ \A c \in AllChats \ {Chat} : message'[c] = message[c]
        /\ message' = [c \in AllChats |-> message'[c]]
    BY <1>2, <1>3, <2>1
  <2>4. QED
    BY <1>1, <1>2, <1>3, <2>1, <2>2, <2>3
<1>5. CASE DoUpdate
  <2>1. /\ seen.message
        /\ message' = [message EXCEPT ![Chat] = {CardOf(seen)}]
    BY <1>5 DEF DoUpdate
  <2>2. ~DoCreate
    BY <2>1 DEF DoCreate
  <2>3. /\ message'[Chat] = {CardOf(seen)}
        /\ \A c \in AllChats \ {Chat} : message'[c] = message[c]
        /\ message' = [c \in AllChats |-> message'[c]]
    BY <1>2, <1>3, <2>1
  <2>4. QED
    BY <1>1, <1>2, <1>3, <2>1, <2>2, <2>3
<1>6. QED
  BY <1>4, <1>5

LEMMA ReactionSent ==
  ASSUME Itemwise, SeenOK, LarkOK, DoUnreact \/ DoReact
  PROVE  /\ reactions' \in [AllChats -> SUBSET Emoji] /\ message' = message
         /\ \A c \in AllChats \ {Chat} : reactions'[c] = reactions[c]
         /\ DoUnreact => step = "unreact" /\ reactions'[Chat] = reactions[Chat] \ Recorded
         /\ DoReact => step = "react" /\ reactions'[Chat] = reactions[Chat] \cup Wanted
         /\ Chat \in AllChats
<1>1. step \in {"unreact", "react"} /\ message' = message
  BY DEF DoUnreact, DoReact
<1>2. Chat \in AllChats
  BY <1>1, ChatIn, ItemIs
<1>3. reactions \in [AllChats -> SUBSET Emoji]
  BY DEF LarkOK, Emoji
<1>4. CASE DoUnreact
  <2>1. step = "unreact" /\ reactions' = [reactions EXCEPT ![Chat] = @ \ Recorded]
    BY <1>4 DEF DoUnreact
  <2>2. ~DoReact
    BY <2>1 DEF DoReact
  <2>3. QED
    BY <1>1, <1>2, <1>3, <2>1, <2>2
<1>5. CASE DoReact
  <2>1. step = "react" /\ reactions' = [reactions EXCEPT ![Chat] = @ \cup Wanted]
    BY <1>5 DEF DoReact
  <2>2. ~DoUnreact
    BY <2>1 DEF DoUnreact
  <2>3. QED
    BY <1>1, <1>2, <1>3, <2>1, <2>2, WantedType
<1>6. QED
  BY <1>4, <1>5

LEMMA TraceIs ==
  /\ step \in {"card", "set_message"} => Trace = IF seen.message THEN {} ELSE {"message"}
  /\ step \in {"unreact", "set_unreact"} => Trace = {"removal"}
  /\ step \in {"react", "set_react"} => Trace = {"reaction"}
BY DEF Trace

LEMMA UnrecordedIs ==
  ASSUME Itemwise, SeenOK, LarkOK, Unrecorded,
         step \in {"card", "set_message", "unreact", "set_unreact", "react", "set_react"}
  PROVE  /\ unrecorded \subseteq unrecorded' /\ unrecorded' \subseteq AllChats \X Kinds
         /\ step \in {"card", "set_message"} /\ ~seen.message => <<Chat, "message">> \in unrecorded'
         /\ step \in {"unreact", "set_unreact"} => <<Chat, "removal">> \in unrecorded'
         /\ step \in {"react", "set_react"} => <<Chat, "reaction">> \in unrecorded'
<1>1. unrecorded' = unrecorded \cup ({Chat} \X Trace)
  BY DEF Unrecorded
<1>2. Trace \subseteq Kinds
  BY TraceIs DEF Kinds
<1>3. Chat \in AllChats
  BY ChatIn, ItemIs
<1>4. unrecorded \subseteq AllChats \X Kinds
  BY DEF LarkOK, Kinds
<1>5. \A k \in Trace : <<Chat, k>> \in unrecorded'
  BY <1>1
<1>6. unrecorded' \subseteq AllChats \X Kinds
  BY <1>1, <1>2, <1>3, <1>4
<1>7. QED
  BY <1>1, <1>5, <1>6, TraceIs

LEMMA FailingTraces ==
  ASSUME Itemwise, SeenOK, LarkOK, FailingStep
  PROVE  /\ unrecorded \subseteq unrecorded' /\ unrecorded' \subseteq AllChats \X Kinds
         /\ disturbances' \in 0..DisturbanceBound
         /\ step = "set_message" => <<Chat, "message">> \in unrecorded'
         /\ step = "set_unreact" => <<Chat, "removal">> \in unrecorded'
         /\ step = "set_react" => <<Chat, "reaction">> \in unrecorded'
         /\ AnswerLost =>
              /\ step = "card" /\ ~seen.message => <<Chat, "message">> \in unrecorded'
              /\ step = "unreact" => <<Chat, "removal">> \in unrecorded'
              /\ step = "react" => <<Chat, "reaction">> \in unrecorded'
<1>1. disturbances \in 0..DisturbanceBound /\ unrecorded \subseteq AllChats \X Kinds
  BY DEF LarkOK, Kinds
<1>2. disturbances' = disturbances \/ Disturbed
  BY DEF FailingStep, TakeFails, Rejected, AnswerLost, RecordFails, Crash, historyVars
<1>3. disturbances' \in 0..DisturbanceBound
  BY <1>1, <1>2, AttemptsAssumption DEF Disturbed
<1>4. step = "set_message" => ~seen.message
  BY DEF SeenOK
<1>5. CASE unrecorded' = unrecorded /\ step \notin {"set_message", "set_unreact", "set_react"} /\ ~AnswerLost
  BY <1>1, <1>3, <1>5
<1>6. CASE Unrecorded /\ step \in {"card", "set_message", "unreact", "set_unreact", "react", "set_react"}
  BY <1>3, <1>4, <1>6, UnrecordedIs
<1>7. CASE AnswerLost
  BY <1>6, <1>7 DEF AnswerLost, DoCreate, DoUpdate, DoUnreact, DoReact
<1>8. CASE ~AnswerLost
  BY <1>5, <1>6, <1>8 DEF FailingStep, TakeFails, Rejected, RecordFails, Crash, historyVars,
     Requesting
<1>9. QED
  BY <1>7, <1>8

(* A step that leaves the card and Lark alone. *)
LEMMA LeavesLark ==
  ASSUME LarkOK, SameItems, UNCHANGED <<state, message, reactions>>, step' \in {"idle", "take"},
         unrecorded \subseteq unrecorded', unrecorded' \subseteq AllChats \X Kinds,
         disturbances' \in 0..DisturbanceBound,
         step = "set_message" => <<Chat, "message">> \in unrecorded',
         step = "set_unreact" => <<Chat, "removal">> \in unrecorded',
         step = "set_react" => <<Chat, "reaction">> \in unrecorded'
  PROVE  LarkOK'
<1>1. card' = card /\ AllChats' = AllChats
  BY DEF SameItems, AllChats
<1>2. ASSUME NEW c \in AllChats PROVE MessageOK(c)'
  <2>1. MessageOK(c) /\ (Owed(c)' <=> Owed(c)) /\ (AllNew' <=> AllNew)
    BY SameOwed DEF LarkOK
  <2>2. Shows(c) => Shows(c)'
    BY DEF Shows
  <2>3. QED
    BY <1>1, <2>1, <2>2 DEF MessageOK, Sending, Gitlab, Shows
<1>3. ASSUME NEW c \in AllChats PROVE ReactionOK(c)'
  <2>1. ReactionOK(c) /\ (Owed(c)' <=> Owed(c)) /\ (AllNew' <=> AllNew)
    BY SameOwed DEF LarkOK
  <2>2. Recording(c)' = Recording(c)
    BY DEF Recording
  <2>3. QED
    BY <1>1, <2>1, <2>2 DEF ReactionOK, Gitlab
<1>4. QED
  BY <1>1, <1>2, <1>3 DEF LarkOK, Kinds

LEMMA AnswerLostLark ==
  ASSUME Itemwise, SeenOK, LarkOK, SameItems, state' = state, step' \in {"idle", "take"}, AnswerLost
  PROVE  LarkOK'
<1>0. FailingStep
  BY DEF FailingStep
<1>1. card' = card /\ AllChats' = AllChats
  BY DEF SameItems, AllChats
<1>2. /\ unrecorded \subseteq unrecorded' /\ unrecorded' \subseteq AllChats \X Kinds
      /\ disturbances' \in 0..DisturbanceBound
      /\ step = "card" /\ ~seen.message => <<Chat, "message">> \in unrecorded'
      /\ step = "unreact" => <<Chat, "removal">> \in unrecorded'
      /\ step = "react" => <<Chat, "reaction">> \in unrecorded'
  BY <1>0, FailingTraces
<1>3. \A c \in AllChats : /\ MessageOK(c) /\ ReactionOK(c) /\ (Owed(c)' <=> Owed(c)) /\ (AllNew' <=> AllNew)
                          /\ Recording(c)' = Recording(c)
  BY SameOwed DEF LarkOK, Recording
<1>4. CASE DoCreate \/ DoUpdate
  <2>1. /\ message' = [c \in AllChats |-> message'[c]] /\ reactions' = reactions
        /\ \A c \in AllChats \ {Chat} : message'[c] = message[c]
        /\ message'[Chat] # {}
        /\ DoUpdate => seen.message /\ message'[Chat] = {CardOf(state[Chat])}
        /\ DoCreate => ~seen.message
        /\ step = "card" /\ Chat \in AllChats
    BY <1>4, MessageSent
  <2>2. state[Chat].message = seen.message
    BY <2>1 DEF SeenOK
  <2>3. ASSUME NEW c \in AllChats, c = Chat PROVE MessageOK(c)'
    <3>1. CASE DoUpdate
      <4>1. Shows(c)' /\ state'[c].message
        BY <2>1, <2>2, <2>3, <3>1 DEF Shows
      <4>2. QED
        BY <2>1, <2>3, <4>1 DEF MessageOK, Shows
    <3>2. CASE DoCreate
      <4>1. <<c, "message">> \in unrecorded'
        BY <1>2, <2>1, <2>3, <3>2
      <4>2. QED
        BY <2>1, <2>3, <4>1 DEF MessageOK, Shows
    <3>3. QED
      BY <1>4, <3>1, <3>2
  <2>4. ASSUME NEW c \in AllChats, c # Chat PROVE MessageOK(c)'
    <3>1. message'[c] = message[c] /\ MessageOK(c)
      BY <2>1, <2>4, <1>3
    <3>2. Shows(c) => Shows(c)'
      BY <3>1, <1>2 DEF Shows
    <3>3. QED
      BY <1>1, <1>2, <1>3, <2>4, <3>1, <3>2 DEF MessageOK, Sending, Gitlab, Shows
  <2>5. ASSUME NEW c \in AllChats PROVE ReactionOK(c)'
    BY <1>1, <1>2, <1>3, <2>1 DEF ReactionOK, Gitlab
  <2>6. \A c \in AllChats : MessageOK(c)'
    <3>1. ASSUME NEW c \in AllChats PROVE MessageOK(c)'
      BY <2>3, <2>4
    <3>2. QED
      BY <3>1
  <2>7. QED
    BY <1>1, <1>2, <2>1, <2>5, <2>6 DEF LarkOK, Kinds
<1>5. CASE DoUnreact \/ DoReact
  <2>1. /\ reactions' \in [AllChats -> SUBSET Emoji] /\ message' = message
        /\ \A c \in AllChats \ {Chat} : reactions'[c] = reactions[c]
        /\ DoUnreact => step = "unreact" /\ reactions'[Chat] = reactions[Chat] \ Recorded
        /\ DoReact => step = "react" /\ reactions'[Chat] = reactions[Chat] \cup Wanted
        /\ Chat \in AllChats
    BY <1>5, ReactionSent
  <2>2. ASSUME NEW c \in AllChats PROVE MessageOK(c)'
    <3>1. MessageOK(c) /\ step # "set_message"
      BY <1>3, <1>5, <2>1
    <3>2. Shows(c) => Shows(c)'
      BY <1>2, <2>1 DEF Shows
    <3>3. QED
      BY <1>1, <1>2, <1>3, <2>1, <3>1, <3>2 DEF MessageOK, Sending, Gitlab, Shows
  <2>3. ASSUME NEW c \in AllChats, c # Chat PROVE ReactionOK(c)'
    <3>1. reactions'[c] = reactions[c] /\ ReactionOK(c) /\ Recording(c)' = Recording(c)
      BY <2>1, <2>3, <1>3
    <3>2. QED
      BY <1>1, <1>2, <1>3, <2>3, <3>1 DEF ReactionOK, Gitlab
  <2>4. ASSUME NEW c \in AllChats, c = Chat PROVE ReactionOK(c)'
    <3>1. ReactionOK(c) /\ reactions'[c] \subseteq Emoji /\ Recording(c)' = Recording(c)
      BY <2>1, <2>4, <1>3
    <3>2. CASE DoUnreact
      <4>1. <<c, "removal">> \in unrecorded' /\ reactions'[c] \subseteq reactions[c]
        BY <1>2, <2>1, <2>4, <3>2
      <4>2. QED
        BY <1>1, <1>2, <1>3, <2>1, <3>1, <3>2, <4>1 DEF ReactionOK, Gitlab, Emoji
    <3>3. CASE DoReact
      <4>1. <<c, "reaction">> \in unrecorded' /\ reactions[c] \subseteq reactions'[c]
        BY <1>2, <2>1, <2>4, <3>3
      <4>2. QED
        BY <1>1, <1>2, <1>3, <2>1, <3>1, <3>3, <4>1 DEF ReactionOK, Gitlab, Emoji
    <3>4. QED
      BY <1>5, <3>2, <3>3
  <2>5. ASSUME NEW c \in AllChats PROVE ReactionOK(c)'
    BY <2>3, <2>4
  <2>6. message' = [c \in AllChats |-> message'[c]]
    BY <2>1 DEF LarkOK
  <2>7. QED
    BY <1>1, <1>2, <2>1, <2>2, <2>5, <2>6 DEF LarkOK, Kinds, Emoji
<1>6. QED
  BY <1>4, <1>5 DEF AnswerLost

LEMMA FailingLark ==
  ASSUME Itemwise, SeenOK, LarkOK, card' = card, FailingStep
  PROVE  LarkOK'
<1>1. SameItems /\ step' \in {"idle", "take"} /\ state' = state
  BY FailingLeaves
<1>2. CASE AnswerLost
  BY <1>1, <1>2, AnswerLostLark
<1>3. CASE ~AnswerLost
  <2>1. UNCHANGED <<message, reactions>>
    BY <1>3 DEF FailingStep, TakeFails, Rejected, RecordFails, Crash, larkVars
  <2>2. QED
    BY <1>1, <2>1, FailingTraces, LeavesLark
<1>4. QED
  BY <1>2, <1>3

LEMMA BeginLark ==
  ASSUME Itemwise, LarkOK, card' = card, NEW d \in Deliveries, Begin(d)
  PROVE  LarkOK'
<1>1. SameItems /\ step' = "take" /\ step = "idle"
  BY BeginOK
<1>2. UNCHANGED <<state, message, reactions, unrecorded, disturbances>>
  BY DEF Begin, larkVars, historyVars
<1>3. unrecorded' \subseteq AllChats \X Kinds /\ disturbances' \in 0..DisturbanceBound
  BY <1>2 DEF LarkOK, Kinds
<1>4. QED
  BY <1>1, <1>2, <1>3, LeavesLark

(* A step that changes neither the card, the worker's place, nor Lark.      *)
LEMMA StaysLark ==
  ASSUME LarkOK, SameItems, UNCHANGED <<state, message, reactions, unrecorded, step, seen, rest>>,
         disturbances' \in 0..DisturbanceBound
  PROVE  LarkOK'
<1>1. card' = card /\ AllChats' = AllChats /\ Chat' = Chat /\ Wanted' = Wanted
  BY DEF SameItems, AllChats, Chat, Wanted
<1>2. ASSUME NEW c \in AllChats PROVE MessageOK(c)'
  <2>1. MessageOK(c) /\ (Owed(c)' <=> Owed(c)) /\ (AllNew' <=> AllNew)
    BY SameOwed DEF LarkOK
  <2>2. Shows(c)' <=> Shows(c)
    BY DEF Shows
  <2>3. QED
    BY <1>1, <2>1, <2>2 DEF MessageOK, Sending, Gitlab
<1>3. ASSUME NEW c \in AllChats PROVE ReactionOK(c)'
  <2>1. ReactionOK(c) /\ (Owed(c)' <=> Owed(c)) /\ (AllNew' <=> AllNew)
    BY SameOwed DEF LarkOK
  <2>2. Recording(c)' = Recording(c)
    BY DEF Recording
  <2>3. QED
    BY <1>1, <2>1, <2>2 DEF ReactionOK, Gitlab
<1>4. QED
  BY <1>1, <1>2, <1>3 DEF LarkOK, Kinds

LEMMA AcceptLark ==
  ASSUME Itemwise, LarkOK, card' = card, NEW d \in Deliveries, Accept(d)
  PROVE  LarkOK'
<1>1. /\ UNCHANGED <<state, message, reactions, unrecorded, disturbances, step, seen, rest>>
      /\ phase[d] = "new" /\ phase' = [phase EXCEPT ![d] = "queued"]
      /\ todo' = [todo EXCEPT ![d] = card.chats]
  BY AcceptItems DEF larkVars, historyVars, workerVars
<1>2. \A c \in card.chats : Owed(c)'
  <2>1. phase'[d] = "queued" /\ todo'[d] = card.chats
    BY <1>1 DEF Itemwise, ItemsOK
  <2>2. QED
    BY <2>1 DEF Owed, Open
<1>3. AllChats' = AllChats /\ Chat' = Chat /\ Wanted' = Wanted
  BY <1>1 DEF AllChats, Chat, Wanted
<1>4. ASSUME NEW c \in AllChats PROVE MessageOK(c)'
  <2>1. MessageOK(c)
    BY DEF LarkOK
  <2>2. Shows(c)' <=> Shows(c)
    BY <1>1 DEF Shows
  <2>3. QED
    BY <1>1, <1>2, <1>3, <2>1, <2>2 DEF MessageOK, Sending, Gitlab
<1>5. ASSUME NEW c \in AllChats PROVE ReactionOK(c)'
  <2>1. ReactionOK(c)
    BY DEF LarkOK
  <2>2. Recording(c)' = Recording(c)
    BY <1>1 DEF Recording
  <2>3. QED
    BY <1>1, <1>2, <1>3, <2>1, <2>2 DEF ReactionOK, Gitlab
<1>6. QED
  BY <1>1, <1>3, <1>4, <1>5 DEF LarkOK, Kinds

LEMMA ServedLark ==
  ASSUME Itemwise, StatesOK, SeenOK, LarkOK, card' = card, Drain \/ Complete
  PROVE  LarkOK'
<1>1. step' \in {"idle", "take"} /\ step # "idle"
  BY ServedLeaves
<1>2. /\ UNCHANGED <<state, message, reactions, unrecorded, disturbances, attempts>>
      /\ Items!Serve(Queued, Chat) /\ step \in {"take", "complete"}
  BY DEF Drain, Complete, larkVars, historyVars
<1>3. \A d \in Deliveries :
              /\ todo'[d] = (IF d \in Queued THEN todo[d] \ {Chat} ELSE todo[d])
              /\ phase'[d] = "new" <=> phase[d] = "new"
              /\ Open(d)' <=> Open(d) /\ (d \in Queued => todo[d] # {Chat})
  BY <1>2, ServeItems
<1>4. Chat \in card.chats
  BY <1>1, ChatIn, ItemIs
<1>5. ASSUME NEW c, c # Chat, Owed(c) PROVE Owed(c)'
  BY <1>3, <1>5 DEF Owed
<1>6. AllNew' <=> AllNew
  BY <1>3 DEF AllNew
<1>7. ~Gitlab => step = "complete"
  BY DEF Drain, Drains, Complete
<1>8. AllChats' = AllChats
  BY DEF AllChats
<1>9. ASSUME NEW c \in AllChats PROVE MessageOK(c)'
  <2>1. MessageOK(c)
    BY DEF LarkOK
  <2>2. Shows(c)' <=> Shows(c)
    BY <1>2 DEF Shows
  <2>3. ~Gitlab /\ c = Chat => Shows(c)
    BY <1>7, <2>1 DEF MessageOK, Sending
  <2>4. QED
    BY <1>1, <1>2, <1>5, <1>6, <2>1, <2>2, <2>3 DEF MessageOK, Sending, Gitlab
<1>10. ASSUME NEW c \in AllChats PROVE ReactionOK(c)'
  <2>1. ReactionOK(c)
    BY DEF LarkOK
  <2>2. Recording(c)' = Recording(c)
    BY <1>2 DEF Recording
  <2>3. ~Gitlab /\ c = Chat => Recording(c) = Reaction(state[c].conclusion)
    BY <1>7 DEF SeenOK, Wanted
  <2>4. QED
    BY <1>1, <1>2, <1>5, <1>6, <2>1, <2>2, <2>3 DEF ReactionOK, Gitlab
<1>11. QED
  BY <1>2, <1>8, <1>9, <1>10 DEF LarkOK, Kinds

(* An event touches neither message nor reaction.                           *)
LEMMA TakeKeeps ==
  ASSUME Itemwise, StatesOK, Take
  PROVE  /\ state'[Chat].message = state[Chat].message
         /\ state'[Chat].reaction = state[Chat].reaction
<1>1. PICK d \in DOMAIN Event : state'[Chat] = UpsertWorkflow(state[Chat], Event[d])
  BY TakeIs
<1> DEFINE s == state[Chat]
           u == Event[d]
<1>2. u.attempt \in Nat /\ u.at \in Nat
  BY EventIs DEF Itemwise
<1>3. IsState(s)
  BY TakeIs DEF StatesOK
<1> HIDE DEF s, u
<1>4. UpsertWorkflow(s, u).message = s.message /\ UpsertWorkflow(s, u).reaction = s.reaction
  BY <1>2, <1>3, UpsertFields
<1>5. QED
  BY <1>1, <1>4 DEF s, u

(* A step at a chat leaves the other chats alone; the chat still is owed.   *)
LEMMA SendingFrame ==
  ASSUME Itemwise, StatesOK, SeenOK, LarkOK, card' = card, SendingStep
  PROVE  /\ SameItems /\ Chat' = Chat /\ AllChats' = AllChats
         /\ Chat \in AllChats /\ Owed(Chat) /\ Owed(Chat)'
         /\ UNCHANGED <<unrecorded, disturbances>>
         /\ message' = [c \in AllChats |-> message'[c]]
         /\ reactions' \in [AllChats -> SUBSET Emoji]
         /\ \A c \in AllChats \ {Chat} : /\ state'[c] = state[c] /\ message'[c] = message[c]
                                         /\ reactions'[c] = reactions[c]
<1>1. SameItems /\ rest' = rest /\ step # "idle"
  BY SendingStays
<1>2. Chat' = Chat /\ AllChats' = AllChats
  BY <1>1 DEF Chat, AllChats
<1>3. Chat \in AllChats /\ Chat \in rest
  BY <1>1, ChatIn, ItemIs
<1>4. Owed(Chat)
  BY <1>1, <1>3, ItemIs DEF Owed
<1>5. Owed(Chat)'
  BY <1>1, <1>2, <1>3, <1>4, SameOwed
<1>6. UNCHANGED <<unrecorded, disturbances>>
  BY DEF SendingStep, Take, Create, SetMessage, Update, Unreact, SetUnreact, React, SetReact,
     historyVars
<1>7. /\ message = [c \in AllChats |-> message[c]] /\ reactions \in [AllChats -> SUBSET Emoji]
  BY DEF LarkOK, Emoji
<1>8. CASE DoCreate \/ DoUpdate
  <2>1. state' = state
    BY <1>8 DEF DoCreate, DoUpdate, SendingStep, Take, Create, SetMessage, Update, Unreact,
       SetUnreact, React,
       SetReact
  <2>2. QED
    BY <1>1, <1>2, <1>3, <1>4, <1>5, <1>6, <1>7, <1>8, <2>1, MessageSent
<1>9. CASE DoUnreact \/ DoReact
  <2>1. state' = state
    BY <1>9 DEF DoUnreact, DoReact, SendingStep, Take, Create, SetMessage, Update, Unreact,
       SetUnreact, React,
       SetReact
  <2>2. QED
    BY <1>1, <1>2, <1>3, <1>4, <1>5, <1>6, <1>7, <1>9, <2>1, ReactionSent
<1>10. CASE Take
  <2>1. UNCHANGED <<message, reactions>>
    BY <1>10 DEF Take, larkVars
  <2>2. QED
    BY <1>1, <1>2, <1>3, <1>4, <1>5, <1>6, <1>7, <1>10, <2>1, TakeIs
<1>11. CASE SetMessage \/ SetUnreact \/ SetReact
  <2>1. UNCHANGED <<message, reactions>>
    BY <1>11 DEF SetMessage, SetUnreact, SetReact, larkVars
  <2>2. QED
    BY <1>1, <1>2, <1>3, <1>4, <1>5, <1>6, <1>7, <1>11, <2>1, RecordIs
<1>12. QED
  BY <1>8, <1>9, <1>10, <1>11 DEF SendingStep, Create, Update, Unreact, React

(* The chats the worker is not at. *)
LEMMA OthersLark ==
  ASSUME Itemwise, StatesOK, SeenOK, LarkOK, card' = card, SendingStep, NEW c \in AllChats, c # Chat
  PROVE  MessageOK(c)' /\ ReactionOK(c)'
<1>1. /\ SameItems /\ Chat' = Chat /\ unrecorded' = unrecorded
      /\ state'[c] = state[c] /\ message'[c] = message[c] /\ reactions'[c] = reactions[c]
  BY SendingFrame
<1>2. (Owed(c)' <=> Owed(c)) /\ (AllNew' <=> AllNew)
  BY <1>1, SameOwed
<1>3. MessageOK(c) /\ ReactionOK(c)
  BY DEF LarkOK
<1>4. (Shows(c)' <=> Shows(c)) /\ Recording(c)' = Recording(c)
  BY <1>1 DEF Shows, Recording
<1>5. MessageOK(c)'
  BY <1>1, <1>2, <1>3, <1>4 DEF MessageOK, Sending, Gitlab
<1>6. ReactionOK(c)'
  BY <1>1, <1>2, <1>3, <1>4 DEF ReactionOK, Gitlab
<1>7. QED
  BY <1>5, <1>6

(* At the chat: what Lark has, after the transaction, a request, a record.  *)
LEMMA TakeLark ==
  ASSUME Itemwise, StatesOK, SeenOK, LarkOK, card' = card, Take
  PROVE  MessageOK(Chat)' /\ ReactionOK(Chat)'
<1>1. /\ Chat' = Chat /\ unrecorded' = unrecorded /\ Owed(Chat)' /\ Chat \in AllChats
  BY SendingFrame DEF SendingStep
<1>2. /\ step = "take" /\ step' = "card" /\ UNCHANGED <<message, reactions>>
  BY DEF Take, larkVars
<1>3. MessageOK(Chat) /\ ReactionOK(Chat)
  BY <1>1 DEF LarkOK
<1>4. Recording(Chat)' = Recording(Chat)
  BY <1>1, TakeKeeps DEF Recording
<1>5. MessageOK(Chat)'
  BY <1>1, <1>2, <1>3, TakeKeeps DEF MessageOK, Sending
<1>6. ReactionOK(Chat)'
  BY <1>1, <1>2, <1>3, <1>4 DEF ReactionOK
<1>7. QED
  BY <1>5, <1>6

LEMMA MessageLark ==
  ASSUME Itemwise, StatesOK, SeenOK, LarkOK, card' = card, Create \/ Update
  PROVE  MessageOK(Chat)' /\ ReactionOK(Chat)'
<1>1. /\ Chat' = Chat /\ unrecorded' = unrecorded /\ Owed(Chat)' /\ Chat \in AllChats
  BY SendingFrame DEF SendingStep
<1>2. /\ reactions' = reactions /\ state' = state /\ step = "card" /\ message'[Chat] # {}
      /\ DoUpdate => seen.message /\ message'[Chat] = {CardOf(state[Chat])}
      /\ DoCreate => /\ ~seen.message
                     /\ \/ message'[Chat] = {CardOf(state[Chat])}
                        \/ message[Chat] # {} /\ message'[Chat] = message[Chat]
  <2>1. DoCreate \/ DoUpdate
    BY DEF Create, Update
  <2>2. state' = state
    BY DEF Create, Update
  <2>3. QED
    BY <2>1, <2>2, MessageSent
<1>3. MessageOK(Chat) /\ ReactionOK(Chat) /\ seen.message = state[Chat].message
  BY <1>1, <1>2 DEF LarkOK, SeenOK
<1>4. Recording(Chat)' = Recording(Chat)
  BY <1>1, <1>2 DEF Recording
<1>5. Shows(Chat)'
  <2>1. CASE Update
    BY <1>1, <1>2, <2>1 DEF Shows, Update
  <2>2. CASE Create
    <3>1. message'[Chat] = {CardOf(state[Chat])} \/ <<Chat, "message">> \in unrecorded
      BY <1>2, <1>3, <2>2 DEF Create, MessageOK
    <3>2. QED
      BY <1>1, <1>2, <3>1 DEF Shows
  <2>3. QED
    BY <2>1, <2>2
<1>6. (Create /\ step' = "set_message") \/ (Update /\ step' \in {"unreact", "react", "complete"})
  BY AfterCardIs DEF Create, Update
<1>7. MessageOK(Chat)'
  <2>1. state'[Chat].message \/ <<Chat, "message">> \in unrecorded' \/ step' = "set_message"
    BY <1>2, <1>3, <1>6 DEF Update
  <2>2. QED
    BY <1>1, <1>2, <1>5, <2>1 DEF MessageOK, Sending
<1>8. ReactionOK(Chat)'
  BY <1>1, <1>2, <1>3, <1>4, <1>6 DEF ReactionOK
<1>9. QED
  BY <1>7, <1>8

LEMMA RecordLark ==
  ASSUME Itemwise, StatesOK, SeenOK, LarkOK, card' = card, SetMessage \/ SetUnreact \/ SetReact
  PROVE  MessageOK(Chat)' /\ ReactionOK(Chat)'
<1>1. /\ Chat' = Chat /\ unrecorded' = unrecorded /\ Owed(Chat)' /\ Chat \in AllChats
  BY SendingFrame DEF SendingStep
<1>2. UNCHANGED <<message, reactions>>
  BY DEF SetMessage, SetUnreact, SetReact, larkVars
<1>3. MessageOK(Chat) /\ ReactionOK(Chat)
  BY <1>1 DEF LarkOK
<1>4. CardOf(state'[Chat]) = CardOf(state[Chat])
  BY <1>1, RecordIs DEF SameShown
<1>5. Shows(Chat)'
  <2>1. Sending(Chat) /\ step # "card"
    BY DEF SetMessage, SetUnreact, SetReact, Sending
  <2>2. QED
    BY <1>1, <1>2, <1>3, <1>4, <2>1 DEF Shows, MessageOK
<1>6. step' \in {"unreact", "react", "complete"}
  BY AfterCardIs DEF SetMessage, SetUnreact, SetReact
<1>7. MessageOK(Chat)'
  <2>1. state'[Chat].message => message[Chat] # {}
    BY <1>3, RecordIs DEF MessageOK, SetMessage, SetUnreact, SetReact
  <2>2. message[Chat] # {} => state'[Chat].message \/ <<Chat, "message">> \in unrecorded
    BY <1>3, RecordIs DEF MessageOK, SetMessage, SetUnreact, SetReact
  <2>3. QED
    BY <1>1, <1>2, <1>5, <1>6, <2>1, <2>2 DEF MessageOK, Sending
<1>8. ReactionOK(Chat)'
  <2>1. CASE SetMessage
    <3>1. step = "set_message" /\ state'[Chat].reaction = state[Chat].reaction
      BY <2>1, RecordIs DEF SetMessage
    <3>2. Recording(Chat)' = Recording(Chat)
      BY <1>1, <3>1 DEF Recording
    <3>3. QED
      BY <1>1, <1>2, <1>3, <1>6, <3>1, <3>2 DEF ReactionOK
  <2>2. CASE SetUnreact
    <3>1. step = "set_unreact" /\ state'[Chat].reaction = ""
      BY <2>2, RecordIs DEF SetUnreact
    <3>2. Recording(Chat)' = {}
      BY <1>1, <3>1 DEF Recording
    <3>3. QED
      BY <1>1, <1>2, <1>3, <1>6, <3>1, <3>2 DEF ReactionOK
  <2>3. CASE SetReact
    <3>1. step = "set_react" /\ state'[Chat].reaction = Wants
      BY <2>3, RecordIs DEF SetReact
    <3>2. Wanted = {Wants} /\ Wants # "" /\ seen.reaction = state[Chat].reaction /\ Recorded = {}
      BY <3>1, WantedIs DEF SeenOK
    <3>3. Recording(Chat)' = Wanted /\ Recording(Chat) = {}
      BY <1>1, <3>1, <3>2 DEF Recording, Recorded
    <3>4. QED
      BY <1>1, <1>2, <1>3, <1>6, <3>1, <3>3 DEF ReactionOK
  <2>4. QED
    BY <2>1, <2>2, <2>3
<1>9. QED
  BY <1>7, <1>8

LEMMA ReactLark ==
  ASSUME Itemwise, StatesOK, SeenOK, LarkOK, card' = card, Unreact \/ React
  PROVE  MessageOK(Chat)' /\ ReactionOK(Chat)'
<1>1. /\ Chat' = Chat /\ unrecorded' = unrecorded /\ Owed(Chat)' /\ Chat \in AllChats
  BY SendingFrame DEF SendingStep
<1>2. /\ reactions' \in [AllChats -> SUBSET Emoji] /\ message' = message
      /\ DoUnreact => step = "unreact" /\ reactions'[Chat] = reactions[Chat] \ Recorded
      /\ DoReact => step = "react" /\ reactions'[Chat] = reactions[Chat] \cup Wanted
  BY ReactionSent DEF Unreact, React
<1>3. UNCHANGED <<state, seen>> /\ step \in {"unreact", "react"}
  BY <1>2 DEF Unreact, React
<1>4. MessageOK(Chat) /\ ReactionOK(Chat)
  BY <1>1 DEF LarkOK
<1>5. Recording(Chat)' = Recording(Chat) /\ Recording(Chat) = Recorded /\ Wanted' = Wanted
  BY <1>1, <1>3 DEF Recording, Recorded, SeenOK, Wanted
<1>6. step' \in {"set_unreact", "set_react"}
  BY DEF Unreact, React
<1>7. MessageOK(Chat)'
  <2>1. Shows(Chat)'
    <3>1. Shows(Chat)
      BY <1>3, <1>4 DEF MessageOK, Sending
    <3>2. QED
      BY <1>1, <1>2, <1>3, <3>1 DEF Shows
  <2>2. QED
    BY <1>1, <1>2, <1>3, <1>4, <1>6, <2>1 DEF MessageOK, Sending
<1>8. ReactionOK(Chat)'
  <2>1. reactions'[Chat] \subseteq Emoji
    BY <1>1, <1>2
  <2>2. CASE Unreact
    <3>1. step = "unreact" /\ step' = "set_unreact" /\ reactions'[Chat] = reactions[Chat] \ Recorded
      BY <1>2, <2>2 DEF Unreact
    <3>2. QED
      BY <1>1, <1>4, <1>5, <2>1, <3>1 DEF ReactionOK, Emoji
  <2>3. CASE React
    <3>1. step = "react" /\ step' = "set_react" /\ reactions'[Chat] = reactions[Chat] \cup Wanted
      BY <1>2, <2>3 DEF React
    <3>2. Recorded = {}
      BY <3>1 DEF SeenOK
    <3>3. QED
      BY <1>1, <1>4, <1>5, <2>1, <3>1, <3>2 DEF ReactionOK, Emoji
  <2>4. QED
    BY <2>2, <2>3
<1>9. QED
  BY <1>7, <1>8

LEMMA SendingLark ==
  ASSUME Itemwise, StatesOK, SeenOK, LarkOK, card' = card, SendingStep
  PROVE  LarkOK'
<1>1. MessageOK(Chat)' /\ ReactionOK(Chat)'
  BY TakeLark, MessageLark, RecordLark, ReactLark DEF SendingStep
<1>2. Chat' = Chat
  BY SendingFrame
<1>3. ASSUME NEW c \in AllChats PROVE MessageOK(c)' /\ ReactionOK(c)'
  <2>1. CASE c = Chat
    BY <1>1, <1>2, <2>1
  <2>2. CASE c # Chat
    BY <2>2, OthersLark
  <2>3. QED
    BY <2>1, <2>2
<1>4. QED
  BY <1>3, SendingFrame DEF LarkOK, Emoji

(* Every step keeps what is known of Lark.                                  *)
LEMMA NextLark ==
  ASSUME Itemwise, StatesOK, SeenOK, LarkOK, [Next]_vars
  PROVE  LarkOK'
<1>1. card' = card
  BY DEF Next, vars
<1>2. CASE UNCHANGED vars
  <2>1. UNCHANGED <<state, message, reactions, unrecorded, disturbances, step, seen, rest, itemVars>>
    BY <1>2 DEF vars, larkVars, historyVars, workerVars
  <2>2. SameItems
    BY <1>1, <2>1, KeepItems DEF Itemwise
  <2>3. disturbances' \in 0..DisturbanceBound
    BY <2>1 DEF LarkOK
  <2>4. QED
    BY <2>1, <2>2, <2>3, StaysLark
<1>3. CASE \E d \in Deliveries : Accept(d)
  BY <1>1, <1>3, AcceptLark
<1>4. CASE \E d \in Deliveries : Requeue(d)
  <2>1. /\ SameItems
        /\ UNCHANGED <<state, message, reactions, unrecorded, disturbances, step, seen, rest>>
    BY <1>1, <1>4, RequeueOK DEF larkVars, historyVars
  <2>2. disturbances' \in 0..DisturbanceBound
    BY <2>1 DEF LarkOK
  <2>3. QED
    BY <2>1, <2>2, StaysLark
<1>5. CASE \E d \in Deliveries : Begin(d)
  BY <1>1, <1>5, BeginLark
<1>6. CASE SendingStep
  BY <1>1, <1>6, SendingLark
<1>7. CASE Drain \/ Complete
  BY <1>1, <1>7, ServedLark
<1>8. CASE FailingStep
  BY <1>1, <1>8, FailingLark
<1>9. CASE ReserveFails
  <2>1. SameItems /\ UNCHANGED <<state, message, reactions, unrecorded, step, seen, rest>>
    BY <1>1, <1>9, ReserveOK DEF larkVars
  <2>2. disturbances' \in 0..DisturbanceBound
    BY <1>9, AttemptsAssumption DEF ReserveFails, Disturbed, LarkOK
  <2>3. QED
    BY <2>1, <2>2, StaysLark
<1>10. QED
  BY <1>2, <1>3, <1>4, <1>5, <1>6, <1>7, <1>8, <1>9 DEF Next, WorkerStep, SendingStep,
     FailingStep

------------------------------------------------------------------------------
(***************************************************************************)
(* Which event a chat's status stems from.                                 *)
(***************************************************************************)
(* What does not bear on where a status stems from. *)
LEMMA KeepOrigin ==
  ASSUME card' = card, NEW c, OriginOK(c), SameShown(c),
         \A d \in Deliveries : phase[d] # "new" => phase'[d] # "new",
         \A d \in Deliveries : Taken(d, c)' => Taken(d, c)
  PROVE  OriginOK(c)'
<1>1. Event' = Event /\ Gitlab' = Gitlab
  BY DEF Event, Gitlab
<1>2. CASE state[c].status = ""
  BY <1>1, <1>2 DEF OriginOK, SameShown
<1>3. CASE state[c].status # ""
  <2>1. PICK b \in Deliveries : Origin(c, b)
    BY <1>3 DEF OriginOK
  <2>2. \A k \in Deliveries : IsCheck(k) => IsCheck(k)'
    BY <1>1 DEF IsCheck
  <2>3. \A e \in Deliveries : Hidden(e, b) => Hidden(e, b)'
    BY <1>1, <2>2 DEF Hidden
  <2>4. \A e \in Deliveries : Newer(Event[e], Event[b])' <=> Newer(Event[e], Event[b])
    BY <1>1 DEF Newer
  <2>5. /\ b \in DOMAIN Event' /\ phase'[b] # "new" /\ Event'[b].status # ""
        /\ state'[c].attempt = Event'[b].attempt /\ state'[c].conclusion = Event'[b].conclusion
        /\ state'[c].status = Event'[b].status \/ (~Gitlab' /\ state'[c].conclusion # "")
    BY <1>1, <2>1 DEF Origin, SameShown
  <2>6. \/ state'[c].at = Event'[b].at
        \/ /\ ~Gitlab' /\ state'[c].at > Event'[b].at
           /\ \E k \in Deliveries : IsCheck(k)' /\ state'[c].at = Event'[k].at
    BY <1>1, <2>1, <2>2 DEF Origin, SameShown
  <2>7. \A e \in Deliveries :
          Taken(e, c)' /\ Event'[e].status # "" /\ Newer(Event[e], Event[b])' => Hidden(e, b)'
    BY <1>1, <2>1, <2>3, <2>4 DEF Origin
  <2>8. Origin(c, b)'
    BY <2>5, <2>6, <2>7 DEF Origin
  <2>9. QED
    BY <1>3, <2>8 DEF OriginOK, SameShown
<1>4. QED
  BY <1>2, <1>3

(* Only the transaction makes a chat see another event.                     *)
LEMMA StaysTaken ==
  ASSUME Itemwise, StatesOK, SeenOK, [Next]_vars, NEW c \in card.chats,
         c = Chat => ~Take /\ ~Drain
  PROVE  /\ \A d \in Deliveries : phase[d] # "new" => phase'[d] # "new"
         /\ \A d \in Deliveries : Taken(d, c)' => Taken(d, c)
         /\ SameShown(c)
<1>1. card' = card /\ c \in AllChats
  BY DEF Next, vars, AllChats, Itemwise
<1>2. ASSUME SameItems, Sending(c)' => Sending(c) /\ item' = item, state'[c] = state[c] \/ SameShown(c)
      PROVE /\ \A d \in Deliveries : phase[d] # "new" => phase'[d] # "new"
            /\ \A d \in Deliveries : Taken(d, c)' => Taken(d, c)
            /\ SameShown(c)
  BY <1>2 DEF SameItems, Taken, SameShown
<1>3. CASE UNCHANGED vars
  <2>1. UNCHANGED itemVars /\ UNCHANGED <<step, rest, item, state>>
    BY <1>3 DEF vars, workerVars
  <2>2. SameItems
    BY <1>1, <2>1, KeepItems DEF Itemwise
  <2>3. QED
    BY <1>2, <2>1, <2>2 DEF Sending, Chat
<1>4. CASE \E d \in Deliveries : Accept(d)
  <2>1. PICK d \in Deliveries : Accept(d)
    BY <1>4
  <2>2. /\ UNCHANGED <<state, workerVars>> /\ phase[d] = "new"
        /\ phase' = [phase EXCEPT ![d] = "queued"] /\ todo' = [todo EXCEPT ![d] = card.chats]
    BY <1>1, <2>1, AcceptItems
  <2>3. UNCHANGED <<step, rest, item, state>>
    BY <2>2 DEF workerVars
  <2>4. (Sending(c)' <=> Sending(c)) /\ SameShown(c)
    BY <2>3 DEF Sending, Chat, SameShown
  <2>5. phase'[d] = "queued" /\ todo'[d] = card.chats
    BY <2>2 DEF Itemwise, ItemsOK
  <2>6. \A e \in Deliveries \ {d} : phase'[e] = phase[e] /\ todo'[e] = todo[e]
    BY <2>2 DEF Itemwise, ItemsOK
  <2>7. Sending(c) => d \notin item
    BY <2>2, ItemIs DEF Sending, Open
  <2>8. ~Taken(d, c)'
    BY <2>3, <2>4, <2>5, <2>7 DEF Taken
  <2>9. \A e \in Deliveries \ {d} : Taken(e, c)' => Taken(e, c)
    BY <2>3, <2>4, <2>6 DEF Taken
  <2>10. QED
    BY <2>2, <2>4, <2>6, <2>8, <2>9
<1>5. CASE \E d \in Deliveries : Requeue(d)
  <2>1. SameItems /\ UNCHANGED <<state, item, rest, step>>
    BY <1>1, <1>5, RequeueOK
  <2>2. QED
    BY <1>2, <2>1 DEF Sending, Chat
<1>6. CASE \E d \in Deliveries : Begin(d)
  <2>1. SameItems /\ step' = "take" /\ state' = state
    BY <1>1, <1>6, BeginOK DEF Begin
  <2>2. QED
    BY <1>2, <2>1 DEF Sending
<1>7. CASE SendingStep
  <2>1. SameItems /\ UNCHANGED <<item, rest>> /\ step \notin {"idle", "complete"}
    BY <1>1, <1>7, SendingStays
  <2>2. Chat' = Chat
    BY <2>1 DEF Chat
  <2>3. CASE Take
    BY <1>1, <1>2, <2>1, <2>2, <2>3, TakeIs DEF Sending
  <2>4. CASE ~Take
    <3>1. step # "take"
      BY <1>7, <2>4 DEF SendingStep, Create, SetMessage, Update, Unreact, SetUnreact, React,
         SetReact, DoCreate,
         DoUpdate, DoUnreact, DoReact
    <3>2. state' = state \/ SameShown(c)
      BY <1>1, <1>7, <2>4, RecordIs DEF SendingStep, Create, Update, Unreact, React
    <3>3. QED
      BY <1>2, <2>1, <2>2, <3>1, <3>2 DEF Sending
  <2>5. QED
    BY <2>3, <2>4
<1>8. CASE Drain \/ Complete
  <2>1. state' = state /\ Items!Serve(Queued, Chat) /\ UNCHANGED attempts
    BY <1>8 DEF Drain, Complete
  <2>2. \A d \in Deliveries :
          /\ todo'[d] = (IF d \in Queued THEN todo[d] \ {Chat} ELSE todo[d])
          /\ phase'[d] = "new" <=> phase[d] = "new"
    BY <1>1, <2>1, ServeItems
  <2>3. ~Sending(c)'
    BY <1>1, <1>8, ServedLeaves DEF Sending
  <2>4. ASSUME NEW d \in Deliveries, Taken(d, c)' PROVE Taken(d, c)
    <3>1. phase[d] # "new" /\ c \notin todo'[d]
      BY <2>2, <2>3, <2>4 DEF Taken
    <3>2. CASE c \notin todo[d]
      BY <3>1, <3>2 DEF Taken
    <3>3. CASE c \in todo[d]
      <4>1. d \in item /\ c = Chat
        BY <2>2, <3>1, <3>3 DEF Queued
      <4>2. Complete /\ step = "complete"
        BY <1>8, <4>1 DEF Complete
      <4>3. QED
        BY <3>1, <4>1, <4>2 DEF Taken, Sending
    <3>4. QED
      BY <3>2, <3>3
  <2>5. QED
    BY <2>1, <2>2, <2>4 DEF SameShown
<1>9. CASE FailingStep
  <2>1. SameItems /\ step' \in {"idle", "take"} /\ state' = state
    BY <1>1, <1>9, FailingLeaves
  <2>2. QED
    BY <1>2, <2>1 DEF Sending
<1>10. CASE ReserveFails
  <2>1. SameItems /\ UNCHANGED <<state, item, rest, step>>
    BY <1>1, <1>10, ReserveOK
  <2>2. QED
    BY <1>2, <2>1 DEF Sending, Chat
<1>11. QED
  BY <1>3, <1>4, <1>5, <1>6, <1>7, <1>8, <1>9, <1>10 DEF Next, WorkerStep, SendingStep,
     FailingStep

(* The state after a pipeline event, a run event, a check event.            *)
LEMMA PipelineTaken ==
  ASSUME NEW s, IsState(s), s.attempt = 0, NEW u, IsPipelineEvent(u)
  PROVE  LET w == UpsertWorkflow(s, u)
         IN /\ u.at >= s.at => /\ w.attempt = 0 /\ w.status = u.status /\ w.at = u.at
                               /\ w.conclusion = (IF u.conclusion # "" THEN u.conclusion
                                                  ELSE s.conclusion)
            /\ ~(u.at >= s.at) => /\ w.attempt = 0 /\ w.status = s.status /\ w.at = s.at
                                  /\ w.conclusion = s.conclusion
<1>1. /\ u.attempt = 0 /\ u.status \in DOMAIN StatusRank /\ u.at \in Nat /\ u.at > 0
  BY PipelineFields
<1>2. u.status # "" /\ u.status # "completed"
  BY <1>1, RankType
<1>3. ~(u.attempt > s.attempt) /\ u.at # 0 /\ u.attempt \in Nat
  BY <1>1
<1>4. Accepts(s, u) <=> u.at >= s.at
  BY <1>3 DEF Accepts
<1> DEFINE w == UpsertWorkflow(s, u)
<1>5. /\ ~Accepts(s, u) => /\ w.attempt = s.attempt /\ w.status = s.status
                           /\ w.conclusion = s.conclusion /\ w.at = s.at
      /\ Accepts(s, u) =>
           /\ w.attempt = (IF u.attempt > s.attempt THEN u.attempt ELSE s.attempt)
           /\ w.status = (IF u.status # "" THEN u.status ELSE s.status)
           /\ w.conclusion = (IF u.conclusion # "" \/ u.status = "completed" THEN u.conclusion
                             ELSE IF u.attempt > s.attempt THEN "" ELSE s.conclusion)
           /\ w.at = (IF u.at # 0 THEN u.at ELSE s.at)
  BY <1>1, <1>3, UpsertFields
<1> HIDE DEF w
<1>6. QED
  BY <1>2, <1>3, <1>4, <1>5 DEF w

LEMMA RunTaken ==
  ASSUME NEW s, IsState(s), NEW u, IsRunEvent(u)
  PROVE  LET w == UpsertWorkflow(s, u)
         IN /\ u.attempt > s.attempt => /\ w.attempt = u.attempt /\ w.status = u.status
                                        /\ w.at = u.at /\ w.conclusion = u.conclusion
            /\ ~(u.attempt > s.attempt) /\ u.at >= s.at =>
                 /\ w.attempt = s.attempt /\ w.status = u.status /\ w.at = u.at
                 /\ w.conclusion = u.conclusion \/ (u.conclusion = "" /\ w.conclusion = s.conclusion)
            /\ ~(u.attempt > s.attempt) /\ ~(u.at >= s.at) =>
                 /\ w.attempt = s.attempt /\ w.status = s.status /\ w.at = s.at
                 /\ w.conclusion = s.conclusion
<1>1. /\ u.attempt \in Nat /\ u.at \in Nat /\ u.at > 0
  BY RunFields
<1>2. u.status # ""
  BY RunFields
<1>3. u.at # 0
  BY <1>1
<1>4. Accepts(s, u) <=> (u.attempt > s.attempt \/ u.at >= s.at)
  BY <1>3 DEF Accepts
<1> DEFINE w == UpsertWorkflow(s, u)
<1>5. /\ ~Accepts(s, u) => /\ w.attempt = s.attempt /\ w.status = s.status
                           /\ w.conclusion = s.conclusion /\ w.at = s.at
      /\ Accepts(s, u) =>
           /\ w.attempt = (IF u.attempt > s.attempt THEN u.attempt ELSE s.attempt)
           /\ w.status = (IF u.status # "" THEN u.status ELSE s.status)
           /\ w.conclusion = (IF u.conclusion # "" \/ u.status = "completed" THEN u.conclusion
                             ELSE IF u.attempt > s.attempt THEN "" ELSE s.conclusion)
           /\ w.at = (IF u.at # 0 THEN u.at ELSE s.at)
  BY <1>1, UpsertFields
<1> HIDE DEF w
<1>6. CASE u.attempt > s.attempt
  <2>1. w.attempt = u.attempt /\ w.at = u.at /\ w.status = u.status
    BY <1>2, <1>3, <1>4, <1>5, <1>6
  <2>2. w.conclusion = (IF u.conclusion # "" \/ u.status = "completed" THEN u.conclusion ELSE "")
    BY <1>4, <1>5, <1>6
  <2>3. QED
    BY <2>1, <2>2, <1>6 DEF w
<1>7. CASE ~(u.attempt > s.attempt) /\ u.at >= s.at
  <2>1. w.attempt = s.attempt /\ w.at = u.at /\ w.status = u.status
    BY <1>2, <1>3, <1>4, <1>5, <1>7
  <2>2. w.conclusion = (IF u.conclusion # "" \/ u.status = "completed" THEN u.conclusion
                        ELSE s.conclusion)
    BY <1>4, <1>5, <1>7
  <2>3. QED
    BY <2>1, <2>2, <1>7 DEF w
<1>8. CASE ~(u.attempt > s.attempt) /\ ~(u.at >= s.at)
  BY <1>4, <1>5, <1>8 DEF w
<1>9. QED
  BY <1>6, <1>7, <1>8

LEMMA CheckTaken ==
  ASSUME NEW s, IsState(s), NEW u, IsCheckEvent(u)
  PROVE  LET w == UpsertWorkflow(s, u)
         IN /\ w.attempt = s.attempt /\ w.status = s.status /\ w.conclusion = s.conclusion
            /\ w.at = s.at \/ (w.at = u.at /\ w.at > s.at)
<1>0. u.attempt = 0 /\ u.at \in Nat
  BY CheckFields
<1>1. u.attempt = 0 /\ u.at \in Nat /\ u.attempt \in Nat
  BY <1>0
<1>2. u.status = "" /\ u.conclusion = ""
  BY CheckFields
<1>3. s.attempt \in Nat /\ s.at \in Nat
  BY DEF IsState
<1>4. ~(u.attempt > s.attempt)
  BY <1>1, <1>3
<1>5. Accepts(s, u) /\ u.at # 0 => u.at >= s.at
  BY <1>4 DEF Accepts
<1> DEFINE w == UpsertWorkflow(s, u)
<1>6. /\ ~Accepts(s, u) => /\ w.attempt = s.attempt /\ w.status = s.status
                           /\ w.conclusion = s.conclusion /\ w.at = s.at
      /\ Accepts(s, u) =>
           /\ w.attempt = (IF u.attempt > s.attempt THEN u.attempt ELSE s.attempt)
           /\ w.status = (IF u.status # "" THEN u.status ELSE s.status)
           /\ w.conclusion = (IF u.conclusion # "" \/ u.status = "completed" THEN u.conclusion
                             ELSE IF u.attempt > s.attempt THEN "" ELSE s.conclusion)
           /\ w.at = (IF u.at # 0 THEN u.at ELSE s.at)
  BY <1>1, UpsertFields
<1> HIDE DEF w
<1>7. w.attempt = s.attempt
  BY <1>4, <1>6
<1>8. w.status = s.status /\ w.conclusion = s.conclusion
  BY <1>2, <1>4, <1>6
<1>9. w.at = s.at \/ (w.at = u.at /\ w.at >= s.at)
  BY <1>5, <1>6
<1>10. w.at = s.at \/ (w.at = u.at /\ w.at > s.at)
  BY <1>1, <1>3, <1>9
<1>11. QED
  BY <1>7, <1>8, <1>10 DEF w

(* A chat's card has seen one more event; b is the one its status stems     *)
(* from.                                                                    *)
LEMMA NewOrigin ==
  ASSUME card' = card, NEW c, NEW d \in Deliveries, NEW b \in Deliveries,
         \A e \in Deliveries : phase[e] # "new" => phase'[e] # "new",
         \A e \in Deliveries : Taken(e, c)' => e = d \/ Taken(e, c),
         b \in DOMAIN Event, phase[b] # "new", Event[b].status # "", state'[c].status # "", state'[c].known,
         state'[c].attempt = Event[b].attempt, state'[c].conclusion = Event[b].conclusion,
         state'[c].status = Event[b].status \/ (~Gitlab /\ state'[c].conclusion # ""),
         \/ state'[c].at = Event[b].at
         \/ /\ ~Gitlab /\ state'[c].at > Event[b].at
            /\ \E k \in Deliveries : IsCheck(k) /\ state'[c].at = Event[k].at,
         \A e \in Deliveries :
           (e = d \/ Taken(e, c)) /\ Event[e].status # "" /\ Newer(Event[e], Event[b]) => Hidden(e, b)
  PROVE  OriginOK(c)'
<1>1. Event' = Event /\ Gitlab' = Gitlab
  BY DEF Event, Gitlab
<1>2. \A k \in Deliveries : IsCheck(k) => IsCheck(k)'
  BY <1>1 DEF IsCheck
<1>3. \A e \in Deliveries : Hidden(e, b) => Hidden(e, b)'
  BY <1>1, <1>2 DEF Hidden
<1>4. \A e \in Deliveries : Newer(Event[e], Event[b])' <=> Newer(Event[e], Event[b])
  BY <1>1 DEF Newer
<1>5. /\ b \in DOMAIN Event' /\ phase'[b] # "new" /\ Event'[b].status # ""
      /\ state'[c].attempt = Event'[b].attempt /\ state'[c].conclusion = Event'[b].conclusion
      /\ state'[c].status = Event'[b].status \/ (~Gitlab' /\ state'[c].conclusion # "")
  BY <1>1
<1>6. \/ state'[c].at = Event'[b].at
      \/ /\ ~Gitlab' /\ state'[c].at > Event'[b].at
         /\ \E k \in Deliveries : IsCheck(k)' /\ state'[c].at = Event'[k].at
  BY <1>1, <1>2
<1>7. \A e \in Deliveries :
        Taken(e, c)' /\ Event'[e].status # "" /\ Newer(Event[e], Event[b])' => Hidden(e, b)'
  BY <1>1, <1>3, <1>4
<1>8. Origin(c, b)'
  BY <1>5, <1>6, <1>7 DEF Origin
<1>9. QED
  BY <1>8 DEF OriginOK

(* What a drained pipeline event misses. *)
LEMMA DrainOrigin ==
  ASSUME Itemwise, StatesOK, card' = card, NEW c \in AllChats, c = Chat, OriginOK(c), Drain
  PROVE  OriginOK(c)'
<1>1. PICK d \in item : Drains(d)
  BY DEF Drain
<1>2. /\ step = "take" /\ Items!Serve(Queued, Chat) /\ UNCHANGED <<attempts, state>>
  BY DEF Drain
<1>3. item = {d} /\ d \in Deliveries /\ Open(d)
  BY <1>1, <1>2, ItemIs
<1>4. d \in DOMAIN Event /\ phase[d] # "new" /\ card \in Histories
  BY <1>3 DEF Itemwise, ItemsOK, Open
<1>5. Gitlab /\ ~PipelineAdvances(state[c], Event[d])
  BY <1>1 DEF Drains
<1>6. state[c].status # ""
  BY <1>5 DEF PipelineAdvances
<1>7. PICK b \in Deliveries : Origin(c, b)
  BY <1>6 DEF OriginOK
<1>8. /\ b \in DOMAIN Event /\ phase[b] # "new" /\ Event[b].status # ""
      /\ state[c].attempt = Event[b].attempt /\ state[c].conclusion = Event[b].conclusion
      /\ state[c].status = Event[b].status /\ state[c].at = Event[b].at
  BY <1>5, <1>7 DEF Origin
<1>9. /\ Event[d].status \in DOMAIN StatusRank /\ Event[d].at \in Nat
      /\ Event[b].status \in DOMAIN StatusRank /\ Event[b].at \in Nat
  BY <1>4, <1>5, <1>8, EventIs, PipelineFields
<1>10. ~Newer(Event[d], Event[b])
  <2> DEFINE u == Event[d]
             v == Event[b]
             m == StatusRank[u.status]
             n == StatusRank[v.status]
  <2>1. m \in Nat /\ n \in Nat
    BY <1>9, RankType
  <2>2. u.at \in Nat /\ v.at \in Nat
    BY <1>9
  <2>3. ~(m > n) /\ ~(m = n /\ u.at > v.at)
    BY <1>5, <1>8 DEF PipelineAdvances
  <2>4. Newer(u, v) => m >= n /\ u.at >= v.at /\ (m > n \/ u.at > v.at)
    BY <1>5 DEF Newer
  <2> HIDE DEF u, v, m, n
  <2>5. ~(m >= n /\ u.at >= v.at /\ (m > n \/ u.at > v.at))
    BY <2>1, <2>2, <2>3
  <2>6. QED
    BY <2>4, <2>5 DEF u, v
<1>11. \A e \in Deliveries :
         /\ todo'[e] = (IF e \in Queued THEN todo[e] \ {Chat} ELSE todo[e])
         /\ phase'[e] = "new" <=> phase[e] = "new"
  BY <1>2, ServeItems
<1>12. ~Sending(c)'
  BY ServedLeaves DEF Sending
<1>13. \A e \in Deliveries : Taken(e, c)' => e = d \/ Taken(e, c)
  BY <1>3, <1>11, <1>12 DEF Taken, Queued
<1>14. /\ state'[c].attempt = Event[b].attempt /\ state'[c].conclusion = Event[b].conclusion
       /\ state'[c].status = Event[b].status /\ state'[c].at = Event[b].at
       /\ state'[c].status # "" /\ state'[c].known
  BY <1>2, <1>6, <1>8 DEF OriginOK
<1>15. \A e \in Deliveries :
         (e = d \/ Taken(e, c)) /\ Event[e].status # "" /\ Newer(Event[e], Event[b]) => Hidden(e, b)
  BY <1>7, <1>10 DEF Origin
<1>16. QED
  BY <1>3, <1>8, <1>11, <1>13, <1>14, <1>15, NewOrigin

(* The transaction at a chat sees one event more.                           *)
LEMMA TakeSees ==
  ASSUME Itemwise, card' = card, NEW c, c = Chat, Take, NEW d \in Deliveries, item = {d}
  PROVE  /\ \A e \in Deliveries : phase[e] # "new" => phase'[e] # "new"
         /\ \A e \in Deliveries : Taken(e, c)' => e = d \/ Taken(e, c)
         /\ c = Chat' /\ UNCHANGED <<phase, todo>>
BY DEF Take, itemVars, Taken, Chat

(* A card that has taken an event is known.                                 *)
LEMMA TakeKnows ==
  ASSUME Itemwise, StatesOK, Take
  PROVE  state'[Chat].known
<1>1. PICK d \in DOMAIN Event : state'[Chat] = UpsertWorkflow(state[Chat], Event[d])
  BY TakeIs
<1> DEFINE s == state[Chat]
           u == Event[d]
<1>2. u.attempt \in Nat /\ u.at \in Nat
  BY EventIs DEF Itemwise
<1>3. IsState(s)
  BY TakeIs DEF StatesOK
<1> HIDE DEF s, u
<1>4. UpsertWorkflow(s, u).known
  BY <1>2, <1>3, UpsertFields
<1>5. QED
  BY <1>1, <1>4 DEF s, u

(* Where a pipeline's status stems from. *)
LEMMA TakePipeline ==
  ASSUME Itemwise, StatesOK, card' = card, NEW c \in AllChats, c = Chat, OriginOK(c), Take, Gitlab
  PROVE  OriginOK(c)'
<1>1. PICK d \in Deliveries :
        /\ item = {d} /\ d \in DOMAIN Event /\ phase[d] # "new" /\ ~Drains(d)
        /\ state'[c] = UpsertWorkflow(state[c], Event[d]) /\ state'[c].known
  BY TakeIs, TakeKnows
<1>2. /\ \A e \in Deliveries : phase[e] # "new" => phase'[e] # "new"
      /\ \A e \in Deliveries : Taken(e, c)' => e = d \/ Taken(e, c)
  BY <1>1, TakeSees
<1>3. card \in Histories /\ IsState(state[c])
  BY DEF Itemwise, StatesOK
<1>4. IsPipelineEvent(Event[d])
  BY <1>1, <1>3, EventIs
<1>5. /\ Event[d].status \in DOMAIN StatusRank /\ Event[d].at \in Nat /\ Event[d].at > 0
      /\ Event[d].attempt = 0
      /\ Event[d].conclusion = (IF Event[d].status \in PipelineTerminal THEN Event[d].status ELSE "")
  BY <1>4, PipelineFields
<1>6. Event[d].status # "" /\ StatusRank[Event[d].status] \in Nat
  BY <1>5, RankType
<1>0. Event[d].at \in Nat /\ Event[d].at > 0
  BY <1>5
<1>7. ~Newer(Event[d], Event[d])
  <2> DEFINE u == Event[d]
             m == StatusRank[u.status]
  <2>1. Newer(u, u) => m > m \/ u.at > u.at
    BY DEF Newer
  <2>2. m \in Nat /\ u.at \in Nat
    BY <1>0, <1>6
  <2> HIDE DEF u, m
  <2>4. ~(m > m) /\ ~(u.at > u.at)
    BY <2>2
  <2> USE DEF u, m
  <2>3. QED
    BY <2>1, <2>4
<1> DEFINE s == state[c]
           u == Event[d]
           w == UpsertWorkflow(s, u)
<1>8. s.attempt = 0 =>
        /\ u.at >= s.at => /\ w.attempt = 0 /\ w.status = u.status /\ w.at = u.at
                           /\ w.conclusion = (IF u.conclusion # "" THEN u.conclusion
                                              ELSE s.conclusion)
        /\ ~(u.at >= s.at) => /\ w.attempt = 0 /\ w.status = s.status /\ w.at = s.at
                              /\ w.conclusion = s.conclusion
  <2>1. IsState(s) /\ IsPipelineEvent(u)
    BY <1>3, <1>4
  <2> HIDE DEF s, u
  <2>2. QED
    BY <2>1, PipelineTaken
<1>9. CASE state[c].status = ""
  <2>1. /\ s.attempt = 0 /\ s.conclusion = "" /\ s.at = 0
        /\ \A e \in Deliveries : Taken(e, c) => Event[e].status = ""
    BY <1>9 DEF OriginOK
  <2>2. u.at >= s.at
    <3>1. s.at = 0 /\ u.at \in Nat /\ u.at > 0
      BY <1>0, <2>1
    <3> HIDE DEF s, u
    <3>2. QED
      BY <3>1
  <2>3. w.attempt = 0 /\ w.status = u.status /\ w.at = u.at
    BY <1>8, <2>1, <2>2
  <2>4. w.conclusion = u.conclusion
    BY <1>8, <2>1, <2>2
  <2>5. /\ state'[c].attempt = Event[d].attempt /\ state'[c].conclusion = Event[d].conclusion
        /\ state'[c].status = Event[d].status /\ state'[c].at = Event[d].at
    BY <1>1, <1>5, <2>3, <2>4
  <2>6. \A e \in Deliveries :
          (e = d \/ Taken(e, c)) /\ Event[e].status # "" /\ Newer(Event[e], Event[d]) => Hidden(e, d)
    BY <1>7, <2>1
  <2> HIDE DEF s, u, w
  <2>7. QED
    BY <1>1, <1>2, <1>6, <2>5, <2>6, NewOrigin
<1>10. CASE state[c].status # ""
  <2>1. PICK b \in Deliveries : Origin(c, b)
    BY <1>10 DEF OriginOK
  <2>2. /\ b \in DOMAIN Event /\ phase[b] # "new" /\ Event[b].status # ""
        /\ s.attempt = Event[b].attempt /\ s.conclusion = Event[b].conclusion
        /\ s.status = Event[b].status /\ s.at = Event[b].at
    BY <2>1 DEF Origin
  <2>3. /\ Event[b].status \in DOMAIN StatusRank /\ Event[b].at \in Nat /\ Event[b].at > 0
        /\ Event[b].attempt = 0
        /\ Event[b].conclusion = (IF Event[b].status \in PipelineTerminal THEN Event[b].status ELSE "")
    BY <1>3, <2>2, EventIs, PipelineFields
  <2>4. \A e \in Deliveries : Taken(e, c) /\ Event[e].status # "" => ~Newer(Event[e], Event[b])
    <3>1. ASSUME NEW k \in Deliveries, IsCheck(k) PROVE FALSE
      <4>1. k \in DOMAIN Event /\ Event[k].status = ""
        BY <3>1 DEF IsCheck
      <4>2. Event[k].status \in DOMAIN StatusRank
        BY <1>3, <4>1, EventIs, PipelineFields
      <4>3. QED
        BY <4>1, <4>2, RankType
    <3>2. QED
      BY <2>1, <3>1 DEF Origin, Hidden
  <2> DEFINE v == Event[b]
             m == StatusRank[u.status]
             n == StatusRank[v.status]
  <2>5. m \in Nat /\ n \in Nat /\ u.at \in Nat /\ v.at \in Nat
    BY <1>5, <2>3, RankType
  <2>6. m > n \/ (m = n /\ u.at > v.at)
    <3>1. state[c].known => PipelineAdvances(state[c], Event[d])
      BY <1>1 DEF Drains
    <3>2. s.at # 0 /\ s.status # ""
      <4>1. v.at # 0
        <5>1. v.at \in Nat /\ v.at > 0
          BY <2>3
        <5> HIDE DEF v
        <5>2. QED
          BY <5>1
      <4>2. QED
        BY <2>2, <4>1
    <3>3. PipelineAdvances(s, u) => m > n \/ (m = n /\ u.at > v.at)
      BY <2>2, <3>2 DEF PipelineAdvances
    <3>4. state[c].known
      BY <1>10 DEF OriginOK
    <3>5. QED
      BY <3>1, <3>3, <3>4
  <2>7. CASE u.at >= s.at
    <3>1. w.attempt = 0 /\ w.status = u.status /\ w.at = u.at
      BY <1>8, <2>2, <2>3, <2>7
    <3>2. w.conclusion = u.conclusion
      <4>1. w.conclusion = (IF u.conclusion # "" THEN u.conclusion ELSE v.conclusion)
        BY <1>8, <2>2, <2>3, <2>7
      <4>2. CASE u.conclusion # ""
        BY <4>1, <4>2
      <4>3. CASE u.conclusion = ""
        <5>1. u.status \notin PipelineTerminal
          BY <1>5, <1>6, <4>3
        <5>2. m <= 6
          BY <1>5, <5>1, RankType
        <5>3. n <= 6
          BY <2>5, <2>6, <5>2
        <5>4. v.status \notin PipelineTerminal
          <6>1. v.status \in PipelineTerminal => n > 6
            BY <2>3, RankType
          <6> HIDE DEF n
          <6>2. QED
            BY <2>5, <5>3, <6>1
        <5>5. v.conclusion = ""
          BY <2>3, <5>4
        <5>6. QED
          BY <4>1, <4>3, <5>5
      <4>4. QED
        BY <4>2, <4>3
    <3>3. /\ state'[c].attempt = Event[d].attempt /\ state'[c].conclusion = Event[d].conclusion
          /\ state'[c].status = Event[d].status /\ state'[c].at = Event[d].at
      BY <1>1, <1>5, <3>1, <3>2
    <3>4. ASSUME NEW e \in Deliveries, Taken(e, c), Event[e].status # "", Newer(Event[e], Event[d])
          PROVE  FALSE
      <4>1. e \in DOMAIN Event
        BY <3>4 DEF Taken, Itemwise, ItemsOK
      <4>2. Event[e].status \in DOMAIN StatusRank /\ Event[e].at \in Nat
        BY <1>3, <4>1, EventIs, PipelineFields
      <4> DEFINE x == Event[e]
                 l == StatusRank[x.status]
      <4>3. l \in Nat /\ x.at \in Nat
        BY <4>2, RankType
      <4>4. l >= m /\ x.at >= u.at /\ (l > m \/ x.at > u.at)
        BY <3>4 DEF Newer
      <4>5. s.at = v.at
        BY <2>2
      <4>6. ~Newer(x, v)
        BY <2>4, <3>4
      <4>7. l >= n /\ x.at >= v.at /\ (l > n \/ x.at > v.at) => Newer(x, v)
        BY DEF Newer
      <4> HIDE DEF x, l, u, v, m, n, s, w
      <4>8. l >= n /\ x.at >= v.at /\ (l > n \/ x.at > v.at)
        BY <2>5, <2>6, <2>7, <4>3, <4>4, <4>5
      <4>9. QED
        BY <4>6, <4>7, <4>8
    <3>5. \A e \in Deliveries :
            (e = d \/ Taken(e, c)) /\ Event[e].status # "" /\ Newer(Event[e], Event[d]) => Hidden(e, d)
      BY <1>7, <3>4
    <3> HIDE DEF s, u, w, v, m, n
    <3>6. QED
      BY <1>1, <1>2, <1>6, <3>3, <3>5, NewOrigin
  <2>8. CASE ~(u.at >= s.at)
    <3>1. w.attempt = 0 /\ w.status = s.status /\ w.at = s.at
      BY <1>8, <2>2, <2>3, <2>8
    <3>2. w.conclusion = s.conclusion
      BY <1>8, <2>2, <2>3, <2>8
    <3>3. /\ state'[c].attempt = Event[b].attempt /\ state'[c].conclusion = Event[b].conclusion
          /\ state'[c].status = Event[b].status /\ state'[c].at = Event[b].at
      BY <1>1, <2>2, <2>3, <3>1, <3>2
    <3>4. ~Newer(u, v)
      <4>1. Newer(u, v) => u.at >= v.at
        BY DEF Newer
      <4>2. s.at = v.at
        BY <2>2
      <4>3. QED
        BY <2>8, <4>1, <4>2
    <3>5. \A e \in Deliveries :
            (e = d \/ Taken(e, c)) /\ Event[e].status # "" /\ Newer(Event[e], Event[b]) => Hidden(e, b)
      BY <2>4, <3>4
    <3>6. state'[c].status # ""
      BY <2>2, <3>3
    <3> HIDE DEF s, u, w, v, m, n
    <3>7. QED
      BY <1>1, <1>2, <2>2, <3>3, <3>5, <3>6, NewOrigin
  <2>9. QED
    BY <2>7, <2>8
<1>11. QED
  BY <1>9, <1>10

(* The times of a workflow's runs. *)
LEMMA RunTimes ==
  ASSUME card \in Histories, ~Gitlab,
         NEW d \in DOMAIN Event, NEW e \in DOMAIN Event, Event[d].status # "", Event[e].status # ""
  PROVE  /\ Event[d].attempt > Event[e].attempt => Event[d].at > Event[e].at
         /\ Event[d].attempt = Event[e].attempt /\ Event[e].conclusion # ""
            /\ Event[d].conclusion = "" => Event[d].at <= Event[e].at
<1>1. WellTimed(Event)
  BY TimesAssumption DEF Event, Gitlab
<1> DEFINE R == {Event[k] : k \in {l \in DOMAIN Event : Event[l].status # ""}}
<1>2. Event[d] \in R /\ Event[e] \in R
  OBVIOUS
<1>3. \A u, v \in R :
        /\ u.attempt > v.attempt => u.at > v.at
        /\ u.attempt = v.attempt /\ v.conclusion # "" /\ u.conclusion = "" => u.at <= v.at
  BY <1>1 DEF WellTimed
<1> HIDE DEF R
<1>4. QED
  BY <1>2, <1>3

(* A check moves the time only. *)
LEMMA TakeCheck ==
  ASSUME Itemwise, StatesOK, card' = card, NEW c \in AllChats, c = Chat, OriginOK(c), Take, ~Gitlab,
         NEW d \in Deliveries, item = {d}, d \in DOMAIN Event, phase[d] # "new",
         state'[c] = UpsertWorkflow(state[c], Event[d]), state'[c].known, IsCheckEvent(Event[d])
  PROVE  OriginOK(c)'
<1>1. /\ \A e \in Deliveries : phase[e] # "new" => phase'[e] # "new"
      /\ \A e \in Deliveries : Taken(e, c)' => e = d \/ Taken(e, c)
      /\ Event' = Event /\ Gitlab' = Gitlab
  BY TakeSees DEF Event, Gitlab
<1>2. IsState(state[c])
  BY DEF StatesOK
<1>3. Event[d].status = ""
  BY CheckFields
<1> DEFINE s == state[c]
           u == Event[d]
           w == UpsertWorkflow(s, u)
<1>4. /\ w.attempt = s.attempt /\ w.status = s.status /\ w.conclusion = s.conclusion
      /\ w.at = s.at \/ (w.at = u.at /\ w.at > s.at)
  <2>1. IsState(s) /\ IsCheckEvent(u)
    BY <1>2
  <2> HIDE DEF s, u
  <2>2. QED
    BY <2>1, CheckTaken
<1>5. CASE state[c].status = ""
  <2>1. /\ state'[c].attempt = 0 /\ state'[c].conclusion = "" /\ state'[c].status = ""
        /\ \A e \in Deliveries : Taken(e, c) => Event[e].status = ""
    BY <1>4, <1>5 DEF OriginOK
  <2>2. \A e \in Deliveries : Taken(e, c)' => Event'[e].status = ""
    BY <1>1, <1>3, <2>1
  <2>3. QED
    BY <1>1, <2>1, <2>2 DEF OriginOK
<1>6. CASE state[c].status # ""
  <2>1. PICK b \in Deliveries : Origin(c, b)
    BY <1>6 DEF OriginOK
  <2>2. /\ b \in DOMAIN Event /\ phase[b] # "new" /\ Event[b].status # ""
        /\ w.status # "" /\ w.attempt = Event[b].attempt /\ w.conclusion = Event[b].conclusion
        /\ w.status = Event[b].status \/ w.conclusion # ""
    BY <1>4, <1>6, <2>1 DEF Origin
  <2>3. s.at = Event[b].at
        \/ (s.at > Event[b].at /\ \E k \in Deliveries : IsCheck(k) /\ s.at = Event[k].at)
    BY <2>1 DEF Origin
  <2>4. IsCheck(d)
    BY <1>3 DEF IsCheck
  <2>5. w.at = Event[b].at
        \/ (w.at > Event[b].at /\ \E k \in Deliveries : IsCheck(k) /\ w.at = Event[k].at)
    <3>1. CASE w.at = s.at
      BY <2>3, <3>1
    <3>2. CASE w.at = u.at /\ w.at > s.at
      <4> DEFINE t == Event[b].at
      <4>1. s.at \in Nat /\ u.at \in Nat /\ t \in Nat
        BY <1>2, <2>2, EventIs DEF IsState, Itemwise
      <4>2. s.at >= t
        <5>1. s.at = t \/ s.at > t
          BY <2>3
        <5> HIDE DEF s, t
        <5>2. QED
          BY <4>1, <5>1
      <4>3. w.at > t
        <5> HIDE DEF s, t, u, w
        <5>1. QED
          BY <3>2, <4>1, <4>2
      <4>4. QED
        BY <2>4, <3>2, <4>3
    <3>3. QED
      BY <1>4, <3>1, <3>2
  <2>6. \A e \in Deliveries :
          (e = d \/ Taken(e, c)) /\ Event[e].status # "" /\ Newer(Event[e], Event[b]) => Hidden(e, b)
    BY <1>3, <2>1 DEF Origin
  <2>7. state'[c] = w
    OBVIOUS
  <2> HIDE DEF s, u, w
  <2>8. QED
    BY <1>1, <2>2, <2>5, <2>6, <2>7, NewOrigin
<1>7. QED
  BY <1>5, <1>6

(* A run event becomes the origin, or leaves it for one it does not beat.   *)
LEMMA TakeRun ==
  ASSUME Itemwise, StatesOK, card' = card, NEW c \in AllChats, c = Chat, OriginOK(c), Take, ~Gitlab,
         NEW d \in Deliveries, item = {d}, d \in DOMAIN Event, phase[d] # "new",
         state'[c] = UpsertWorkflow(state[c], Event[d]), state'[c].known, IsRunEvent(Event[d])
  PROVE  OriginOK(c)'
<1>1. /\ \A e \in Deliveries : phase[e] # "new" => phase'[e] # "new"
      /\ \A e \in Deliveries : Taken(e, c)' => e = d \/ Taken(e, c)
      /\ card \in Histories
  BY TakeSees DEF Itemwise
<1>2. IsState(state[c]) /\ Event[d].status # ""
  BY RunFields DEF StatesOK
<1> DEFINE s == state[c]
           u == Event[d]
           w == UpsertWorkflow(s, u)
<1>3. /\ u.attempt > s.attempt => /\ w.attempt = u.attempt /\ w.status = u.status
                                  /\ w.at = u.at /\ w.conclusion = u.conclusion
      /\ ~(u.attempt > s.attempt) /\ u.at >= s.at =>
           /\ w.attempt = s.attempt /\ w.status = u.status /\ w.at = u.at
           /\ w.conclusion = u.conclusion \/ (u.conclusion = "" /\ w.conclusion = s.conclusion)
      /\ ~(u.attempt > s.attempt) /\ ~(u.at >= s.at) =>
           /\ w.attempt = s.attempt /\ w.status = s.status /\ w.at = s.at
           /\ w.conclusion = s.conclusion
  <2>1. IsState(s) /\ IsRunEvent(u)
    BY <1>2
  <2> HIDE DEF s, u
  <2>2. QED
    BY <2>1, RunTaken
<1>4. /\ u.attempt \in Nat /\ u.attempt > 0 /\ u.at \in Nat /\ s.attempt \in Nat /\ s.at \in Nat
  <2>1. u.attempt \in Nat /\ u.attempt > 0 /\ u.at \in Nat
    BY RunFields
  <2>2. QED
    BY <1>2, <2>1 DEF IsState
<1>5. state'[c] = w
  OBVIOUS
<1>6. \A x \in DOMAIN Event :
        /\ Event[x].attempt \in Nat /\ Event[x].at \in Nat
        /\ \A y \in DOMAIN Event :
             Newer(Event[x], Event[y]) <=>
               \/ Event[x].attempt > Event[y].attempt
               \/ Event[x].attempt = Event[y].attempt /\ Event[x].at > Event[y].at
  BY <1>1, EventIs DEF Newer
<1>7. ~Newer(u, u)
  <2>1. Newer(u, u) => u.attempt > u.attempt \/ u.at > u.at
    BY <1>6
  <2> HIDE DEF u
  <2>2. QED
    BY <1>4, <2>1
<1>8. CASE state[c].status = ""
  <2>1. s.attempt = 0 /\ \A e \in Deliveries : Taken(e, c) => Event[e].status = ""
    BY <1>8 DEF OriginOK
  <2>2. u.attempt > s.attempt
    <3> HIDE DEF s, u
    <3>1. QED
      BY <1>4, <2>1
  <2>3. /\ w.attempt = u.attempt /\ w.at = u.at
        /\ w.status = u.status /\ w.conclusion = u.conclusion
    BY <1>3, <2>2
  <2>4. \A e \in Deliveries :
          (e = d \/ Taken(e, c)) /\ Event[e].status # "" /\ Newer(Event[e], Event[d]) => Hidden(e, d)
    BY <1>7, <2>1
  <2>5. /\ state'[c].attempt = Event[d].attempt /\ state'[c].conclusion = Event[d].conclusion
        /\ state'[c].status = Event[d].status /\ state'[c].at = Event[d].at
    BY <1>5, <2>3
  <2> HIDE DEF s, u, w
  <2>6. QED
    BY <1>1, <1>2, <2>4, <2>5, NewOrigin
<1>9. CASE state[c].status # ""
  <2>1. PICK b \in Deliveries : Origin(c, b)
    BY <1>9 DEF OriginOK
  <2> DEFINE v == Event[b]
  <2>2. /\ b \in DOMAIN Event /\ phase[b] # "new" /\ v.status # ""
        /\ s.attempt = v.attempt
        /\ s.conclusion = v.conclusion
        /\ s.status = v.status \/ s.conclusion # ""
        /\ \A e \in Deliveries :
             Taken(e, c) /\ Event[e].status # "" /\ Newer(Event[e], v) => Hidden(e, b)
    BY <2>1 DEF Origin
  <2>3. s.at = v.at \/ (s.at > v.at /\ \E k \in Deliveries : IsCheck(k) /\ s.at = Event[k].at)
    BY <2>1 DEF Origin
  <2>4. v.attempt \in Nat /\ v.at \in Nat
    BY <1>6, <2>2
  <2>5. s.at >= v.at
    <3>1. s.at = v.at \/ s.at > v.at
      BY <2>3
    <3> HIDE DEF s, v
    <3>2. QED
      BY <1>4, <2>4, <3>1
  <2>6. \A e \in Deliveries : Taken(e, c) => e \in DOMAIN Event
    BY DEF Taken, Itemwise, ItemsOK
  <2>7. Newer(u, v) <=> u.attempt > v.attempt \/ (u.attempt = v.attempt /\ u.at > v.at)
    BY <1>6, <2>2
  <2>8. CASE u.attempt > s.attempt
    <3>1. /\ w.attempt = u.attempt /\ w.at = u.at
          /\ w.status = u.status /\ w.conclusion = u.conclusion
      BY <1>3, <2>8
    <3>2. ASSUME NEW e \in Deliveries, Taken(e, c), Event[e].status # "", Newer(Event[e], u)
          PROVE  FALSE
      <4> DEFINE x == Event[e]
      <4>1. e \in DOMAIN Event
        BY <2>6, <3>2
      <4>2. x.attempt \in Nat /\ x.at \in Nat
        BY <1>6, <4>1
      <4>3. x.attempt > u.attempt \/ (x.attempt = u.attempt /\ x.at > u.at)
        BY <1>6, <3>2, <4>1
      <4>4. Newer(x, v) <=> x.attempt > v.attempt \/ (x.attempt = v.attempt /\ x.at > v.at)
        BY <1>6, <2>2, <4>1
      <4>5. Hidden(e, b) => x.attempt = v.attempt
        BY DEF Hidden
      <4>6. Newer(x, v) => Hidden(e, b)
        BY <2>2, <3>2
      <4>7. s.attempt = v.attempt
        BY <2>2
      <4> HIDE DEF x, u, v, s, w
      <4>8. x.attempt > v.attempt /\ ~(x.attempt = v.attempt)
        BY <1>4, <2>4, <2>8, <4>2, <4>3, <4>7
      <4>9. QED
        BY <4>4, <4>5, <4>6, <4>8
    <3>3. \A e \in Deliveries :
            (e = d \/ Taken(e, c)) /\ Event[e].status # "" /\ Newer(Event[e], Event[d]) => Hidden(e, d)
      BY <1>7, <3>2
    <3>4. /\ state'[c].attempt = Event[d].attempt /\ state'[c].conclusion = Event[d].conclusion
          /\ state'[c].status = Event[d].status /\ state'[c].at = Event[d].at
      BY <1>5, <3>1
    <3> HIDE DEF s, u, v, w
    <3>5. QED
      BY <1>1, <1>2, <3>3, <3>4, NewOrigin
  <2>9. CASE ~(u.attempt > s.attempt) /\ ~(u.at >= s.at)
    <3>1. w.attempt = s.attempt /\ w.at = s.at /\ w.status = s.status /\ w.conclusion = s.conclusion
      BY <1>3, <2>9
    <3>2. Newer(u, v) => Hidden(d, b)
      <4>1. ASSUME Newer(u, v) PROVE Hidden(d, b)
        <5>1. s.attempt = v.attempt
          BY <2>2
        <5>2. u.attempt = v.attempt /\ u.at > v.at /\ s.at > u.at /\ s.at > v.at /\ ~(s.at = v.at)
          <6>1. u.attempt > v.attempt \/ (u.attempt = v.attempt /\ u.at > v.at)
            BY <2>7, <4>1
          <6> HIDE DEF u, v, s, w
          <6>2. QED
            BY <1>4, <2>4, <2>9, <5>1, <6>1
        <5>3. PICK k \in Deliveries : IsCheck(k) /\ s.at = Event[k].at
          BY <2>3, <5>2
        <5>4. QED
          BY <5>2, <5>3 DEF Hidden
      <4>2. QED
        BY <4>1
    <3>3. \A e \in Deliveries :
            (e = d \/ Taken(e, c)) /\ Event[e].status # "" /\ Newer(Event[e], Event[b]) => Hidden(e, b)
      BY <2>2, <3>2
    <3>4. /\ state'[c].attempt = Event[b].attempt /\ state'[c].conclusion = Event[b].conclusion
          /\ state'[c].status = Event[b].status \/ state'[c].conclusion # ""
          /\ state'[c].status # ""
          /\ \/ state'[c].at = Event[b].at
             \/ /\ state'[c].at > Event[b].at
                /\ \E k \in Deliveries : IsCheck(k) /\ state'[c].at = Event[k].at
      <4>1. state'[c].attempt = Event[b].attempt
        BY <1>5, <2>2, <3>1
      <4>2. /\ state'[c].conclusion = Event[b].conclusion
            /\ state'[c].status = Event[b].status \/ state'[c].conclusion # ""
            /\ state'[c].status # ""
        BY <1>5, <1>9, <2>2, <3>1
      <4>3. state'[c].at = s.at
        BY <1>5, <3>1
      <4>4. QED
        BY <2>3, <4>1, <4>2, <4>3
    <3> HIDE DEF s, u, w
    <3>5. QED
      BY <1>1, <2>2, <3>3, <3>4, NewOrigin
  <2>10. CASE ~(u.attempt > s.attempt) /\ u.at >= s.at
    <3>1. w.attempt = s.attempt /\ w.at = u.at
      BY <1>3, <2>10
    <3>2. /\ w.status = u.status
          /\ w.conclusion = u.conclusion \/ (u.conclusion = "" /\ w.conclusion = s.conclusion)
      BY <1>3, <2>10
    <3>3. u.attempt = v.attempt
      <4>1. s.attempt = v.attempt
        BY <2>2
      <4>2. v.attempt > u.attempt => v.at > u.at
        BY <1>1, <1>2, <2>2, RunTimes
      <4> HIDE DEF s, u, v, w
      <4>3. QED
        BY <1>4, <2>4, <2>5, <2>10, <4>1, <4>2
    <3>4. s.attempt = v.attempt
      BY <2>2
    <3>5. CASE w.conclusion = u.conclusion
      <4>1. ASSUME NEW e \in Deliveries, Taken(e, c), Event[e].status # "", Newer(Event[e], u)
            PROVE  Hidden(e, d)
        <5> DEFINE x == Event[e]
        <5>1. e \in DOMAIN Event
          BY <2>6, <4>1
        <5>2. x.attempt \in Nat /\ x.at \in Nat
          BY <1>6, <5>1
        <5>3. x.attempt > u.attempt \/ (x.attempt = u.attempt /\ x.at > u.at)
          BY <1>6, <4>1, <5>1
        <5>4. Newer(x, v) <=> x.attempt > v.attempt \/ (x.attempt = v.attempt /\ x.at > v.at)
          BY <1>6, <2>2, <5>1
        <5>5. x.attempt > v.attempt \/ (x.attempt = v.attempt /\ x.at > v.at)
          <6> HIDE DEF s, u, v, w, x
          <6>1. QED
            BY <1>4, <2>4, <2>5, <2>10, <3>3, <5>2, <5>3
        <5>6. Hidden(e, b)
          BY <2>2, <4>1, <5>4, <5>5
        <5>7. QED
          BY <3>3, <5>6 DEF Hidden
      <4>2. \A e \in Deliveries :
              (e = d \/ Taken(e, c)) /\ Event[e].status # "" /\ Newer(Event[e], Event[d]) => Hidden(e, d)
        BY <1>7, <4>1
      <4>3. /\ state'[c].attempt = Event[d].attempt /\ state'[c].at = Event[d].at
        BY <1>5, <3>1, <3>3, <3>4
      <4>4. state'[c].conclusion = Event[d].conclusion /\ state'[c].status = Event[d].status
        BY <1>5, <3>2, <3>5
      <4> HIDE DEF s, u, v, w
      <4>5. QED
        BY <1>1, <1>2, <4>2, <4>3, <4>4, NewOrigin
    <3>6. CASE u.conclusion = "" /\ w.conclusion = s.conclusion /\ w.conclusion # u.conclusion
      <4>1. v.conclusion # ""
        BY <2>2, <3>6
      <4>2. u.at <= v.at
        BY <1>1, <1>2, <2>2, <3>3, <3>6, <4>1, RunTimes
      <4>3. u.at = v.at /\ ~(u.at > v.at) /\ ~(u.attempt > v.attempt)
        <5> HIDE DEF s, u, v, w
        <5>1. QED
          BY <1>4, <2>4, <2>5, <2>10, <3>3, <4>2
      <4>4. ~Newer(u, v)
        BY <2>7, <4>3
      <4>5. \A e \in Deliveries :
              (e = d \/ Taken(e, c)) /\ Event[e].status # "" /\ Newer(Event[e], Event[b]) => Hidden(e, b)
        BY <2>2, <4>4
      <4>6. /\ state'[c].attempt = Event[b].attempt /\ state'[c].at = Event[b].at
        BY <1>5, <3>1, <3>4, <4>3
      <4>7. /\ state'[c].conclusion = Event[b].conclusion /\ state'[c].conclusion # ""
            /\ state'[c].status # ""
        BY <1>2, <1>5, <2>2, <3>2, <3>6
      <4> HIDE DEF s, u, w
      <4>8. QED
        BY <1>1, <2>2, <4>5, <4>6, <4>7, NewOrigin
    <3>7. QED
      BY <3>2, <3>5, <3>6
  <2>11. QED
    BY <2>8, <2>9, <2>10
<1>10. QED
  BY <1>8, <1>9

(* Every step keeps a status tied to an event that none seen beats.         *)
LEMMA NextOrigin ==
  ASSUME Itemwise, StatesOK, SeenOK, [Next]_vars, \A c \in card.chats : OriginOK(c)
  PROVE  \A c \in card.chats : OriginOK(c)'
<1>1. card' = card
  BY DEF Next, vars
<1>2. ASSUME NEW c \in card.chats PROVE OriginOK(c)'
  <2>1. c \in AllChats /\ OriginOK(c)
    BY DEF AllChats, Itemwise
  <2>2. CASE c = Chat => ~Take /\ ~Drain
    BY <1>1, <2>1, <2>2, StaysTaken, KeepOrigin
  <2>3. CASE c = Chat /\ Drain
    BY <1>1, <2>1, <2>3, DrainOrigin
  <2>4. CASE c = Chat /\ Take
    <3>1. CASE Gitlab
      BY <1>1, <2>1, <2>4, <3>1, TakePipeline
    <3>2. CASE ~Gitlab
      <4>1. PICK d \in Deliveries :
              /\ item = {d} /\ d \in DOMAIN Event /\ phase[d] # "new"
              /\ state'[c] = UpsertWorkflow(state[c], Event[d])
        BY <2>4, TakeIs
      <4>2. state'[c].known
        BY <2>4, TakeKnows
      <4>3. IsRunEvent(Event[d]) \/ IsCheckEvent(Event[d])
        BY <3>2, <4>1, EventIs DEF Itemwise
      <4>4. CASE IsRunEvent(Event[d])
        BY <1>1, <2>1, <2>4, <3>2, <4>1, <4>2, <4>4, TakeRun
      <4>5. CASE IsCheckEvent(Event[d])
        BY <1>1, <2>1, <2>4, <3>2, <4>1, <4>2, <4>5, TakeCheck
      <4>6. QED
        BY <4>3, <4>4, <4>5
    <3>3. QED
      BY <3>1, <3>2
  <2>5. QED
    BY <2>2, <2>3, <2>4
<1>3. QED
  BY <1>2

------------------------------------------------------------------------------
(***************************************************************************)
(* The invariant, and the theorems.                                        *)
(***************************************************************************)
(* The invariant holds at first, and is kept.                               *)
LEMMA InitIInv == Init => IInv
<1> SUFFICES ASSUME Init PROVE IInv
  OBVIOUS
<1>1. /\ phase = [d \in Deliveries |-> "new"] /\ todo = [d \in Deliveries |-> {}]
      /\ attempts = [d \in Deliveries |-> 0] /\ card \in Histories
      /\ state = [c \in AllChats |-> NoState] /\ step = "idle"
  BY DEF Init, Items!Init
<1>2. ItemsOK
  BY <1>1, AttemptsAssumption DEF ItemsOK, Items!Phases, Open
<1>3. WorkerOK
  BY DEF Init, WorkerOK
<1>4. IsState(NoState)
  BY DEF IsState, NoState, StateFields
<1>5. card.chats \subseteq AllChats
  BY <1>1 DEF AllChats
<1>6. StatesOK
  BY <1>1, <1>4 DEF StatesOK
<1>7. SeenOK
  BY <1>1 DEF SeenOK
<1>8. LarkOK
  <2>1. /\ message = [c \in AllChats |-> {}] /\ reactions = [c \in AllChats |-> {}]
        /\ unrecorded = {} /\ disturbances = 0
    BY DEF Init
  <2>2. disturbances \in 0..DisturbanceBound
    BY <2>1, AttemptsAssumption
  <2>3. AllNew
    BY <1>1 DEF AllNew
  <2>4. NoState.message = FALSE /\ NoState.reaction = ""
    BY DEF NoState
  <2>5. ASSUME NEW c \in AllChats PROVE MessageOK(c) /\ ReactionOK(c)
    <3>1. state[c] = NoState /\ message[c] = {} /\ reactions[c] = {}
      BY <1>1, <2>1
    <3>2. Recording(c) = {}
      BY <2>4, <3>1 DEF Recording
    <3>3. MessageOK(c)
      BY <1>1, <2>3, <2>4, <3>1 DEF MessageOK, Sending
    <3>4. ReactionOK(c)
      BY <1>1, <2>3, <3>1, <3>2 DEF ReactionOK
    <3>5. QED
      BY <3>3, <3>4
  <2>6. QED
    BY <2>1, <2>2, <2>5 DEF LarkOK
<1>9. ASSUME NEW c \in card.chats PROVE OriginOK(c)
  <2>1. state[c] = NoState
    BY <1>1, <1>5
  <2>2. /\ NoState.status = "" /\ NoState.attempt = 0 /\ NoState.conclusion = ""
        /\ NoState.known = FALSE /\ NoState.at = 0
    BY DEF NoState
  <2>3. \A d \in Deliveries : ~Taken(d, c)
    BY <1>1 DEF Taken
  <2>4. QED
    BY <2>1, <2>2, <2>3 DEF OriginOK
<1>10. QED
  BY <1>1, <1>2, <1>3, <1>6, <1>7, <1>8, <1>9 DEF IInv

LEMMA NextIInv == IInv /\ [Next]_vars => IInv'
<1> SUFFICES ASSUME IInv, [Next]_vars PROVE IInv'
  OBVIOUS
<1>1. Itemwise /\ StatesOK /\ SeenOK /\ LarkOK /\ \A c \in card.chats : OriginOK(c)
  BY DEF IInv, Itemwise
<1>2. card' = card
  BY DEF Next, vars
<1>3. Itemwise'
  BY <1>1, NextItemwise
<1>4. StatesOK' /\ SeenOK'
  BY <1>1, NextStates, NextSeen
<1>5. LarkOK'
  BY <1>1, NextLark
<1>6. \A c \in card'.chats : OriginOK(c)'
  BY <1>1, <1>2, NextOrigin
<1>7. QED
  BY <1>3, <1>4, <1>5, <1>6 DEF IInv, Itemwise

(* IInv holds in every state. *)
THEOREM CardsInvariant == Spec => []IInv
<1>1. QED
  BY InitIInv, NextIInv, PTL DEF Spec

(* One item at a time, within the chats it is owed to, attempts and          *)
(* disturbances within their bounds, and no message recorded that is not     *)
(* there.                                                                    *)
THEOREM CardsTypeOK == Spec => []TypeOK
<1>1. ASSUME IInv PROVE TypeOK
  <2>1. ItemsOK /\ WorkerOK /\ LarkOK /\ Itemwise
    BY <1>1 DEF IInv, Itemwise
  <2>2. Cardinality(item) <= 1 /\ item \subseteq Deliveries
    <3>1. Cardinality({}) = 0 /\ \A d \in Deliveries : Cardinality({d}) = 1
      BY FS_EmptySet, FS_Singleton
    <3>2. item = {} \/ \E d \in Deliveries : item = {d}
      BY <2>1 DEF WorkerOK
    <3>3. CASE item = {}
      BY <3>1, <3>3
    <3>4. CASE \E d \in Deliveries : item = {d}
      BY <3>1, <3>4
    <3>5. QED
      BY <3>2, <3>3, <3>4
  <2>3. /\ step \in Steps /\ (step = "idle" <=> item = {}) /\ (step = "idle" <=> rest = {})
        /\ current \in BOOLEAN /\ slotless \in BOOLEAN /\ (slotless => Requesting)
    BY <2>1 DEF WorkerOK, Steps
  <2>4. rest \subseteq card.chats
    BY <2>1, ChatIn
  <2>5. current => \A d \in item : rest \subseteq todo[d]
    BY <2>1 DEF WorkerOK
  <2>6. /\ \A c \in AllChats : state[c].message => message[c] # {}
        /\ \A c \in AllChats : reactions[c] \subseteq {"DONE", "ERROR", "CrossMark"}
        /\ unrecorded \subseteq AllChats \X {"message", "reaction", "removal"}
        /\ disturbances \in 0..DisturbanceBound
    BY <2>1 DEF LarkOK, MessageOK
  <2>7. phase \in [Deliveries -> Items!Phases] /\ attempts \in [Deliveries -> 0..MaxAttempts]
    BY <2>1 DEF ItemsOK
  <2>8. QED
    BY <2>2, <2>3, <2>4, <2>5, <2>6, <2>7 DEF TypeOK, Steps
<1>2. QED
  BY <1>1, CardsInvariant, PTL

(* When all is sent, nothing is owed.                                       *)
LEMMA AllSentOwesNothing ==
  ASSUME AllSent
  PROVE  ~AllNew /\ \A c \in card.chats : ~Owed(c)
BY DEF AllSent, AllNew, Owed, Open

(* When every event of a workflow is sent, after whatever retries and         *)
(* crashes, every chat's message shows the stored state, or its creation was  *)
(* never recorded.                                                            *)
THEOREM CardsWorkflowCardShowsState == Spec => []WorkflowCardShowsState
<1>1. ASSUME IInv PROVE WorkflowCardShowsState
  <2>1. ASSUME ~Gitlab, AllSent, NEW c \in card.chats
        PROVE  message[c] = {CardOf(state[c])} \/ <<c, "message">> \in unrecorded
    <3>1. c \in AllChats
      BY <1>1 DEF IInv, AllChats
    <3>2. MessageOK(c)
      BY <1>1, <3>1 DEF IInv, LarkOK
    <3>3. Shows(c)
      BY <2>1, <3>2, AllSentOwesNothing DEF MessageOK
    <3>4. QED
      BY <3>3 DEF Shows
  <2>2. QED
    BY <2>1 DEF WorkflowCardShowsState, CardShowsState
<1>2. QED
  BY <1>1, CardsInvariant, PTL

(* ... and bears the reaction of its conclusion, no more unless an addition  *)
(* and no less unless a removal was never recorded.                          *)
THEOREM CardsReactionShowsState == Spec => []ReactionShowsState
<1>1. ASSUME IInv PROVE ReactionShowsState
  <2>1. ASSUME ~Gitlab, AllSent, NEW c \in card.chats
        PROVE  /\ \/ reactions[c] \subseteq Reaction(state[c].conclusion)
                  \/ <<c, "reaction">> \in unrecorded
               /\ \/ Reaction(state[c].conclusion) \subseteq reactions[c]
                  \/ <<c, "removal">> \in unrecorded
    <3>1. c \in AllChats
      BY <1>1 DEF IInv, AllChats
    <3>2. ReactionOK(c)
      BY <1>1, <3>1 DEF IInv, LarkOK
    <3>3. Recording(c) = Reaction(state[c].conclusion)
      BY <2>1, <3>2, AllSentOwesNothing DEF ReactionOK
    <3>4. step = "idle"
      BY <2>1 DEF AllSent
    <3>5. QED
      BY <3>2, <3>3, <3>4 DEF ReactionOK
  <2>2. QED
    BY <2>1 DEF ReactionShowsState
<1>2. QED
  BY <1>1, CardsInvariant, PTL

(* Whatever the order in which a chat's events are taken, retried or         *)
(* requeued: once all are sent, its card shows the status of an event that   *)
(* no other beats, but for those a later check has hidden.                   *)
THEOREM CardsNewestWins == Spec => []NewestWins
<1>1. ASSUME IInv PROVE NewestWins
  <2> DEFINE Shown == {d \in Deliveries : phase[d] = "delivered" /\ Event[d].status # ""}
  <2>1. ASSUME AllSent, Shown # {}, NEW c \in card.chats
        PROVE  \E d \in Shown :
                 /\ Label(state[c]) = Label(Event[d])
                 /\ \A e \in Shown : Newer(Event[e], Event[d]) => Outdated(e, d)
    <3>1. \A d \in Deliveries : phase[d] # "new" => phase[d] = "delivered"
      BY <2>1 DEF AllSent
    <3>2. \A d \in Shown : Taken(d, c)
      BY <1>1 DEF IInv, ItemsOK, Taken
    <3>3. OriginOK(c)
      BY <1>1 DEF IInv
    <3>4. state[c].status # ""
      BY <2>1, <3>2, <3>3 DEF OriginOK
    <3>5. PICK b \in Deliveries : Origin(c, b)
      BY <3>3, <3>4 DEF OriginOK
    <3>6. b \in Shown
      BY <3>1, <3>5 DEF Origin
    <3>7. Label(state[c]) = Label(Event[b])
      BY <3>5 DEF Origin, Label
    <3>8. ASSUME NEW e \in Shown, Newer(Event[e], Event[b]) PROVE Outdated(e, b)
      <4>1. Hidden(e, b)
        BY <3>2, <3>5, <3>8 DEF Origin
      <4>2. QED
        BY <3>1, <4>1 DEF Hidden, IsCheck, Outdated
    <3>9. QED
      BY <3>6, <3>7, <3>8
  <2>2. QED
    BY <2>1 DEF NewestWins
<1>2. QED
  BY <1>1, CardsInvariant, PTL

(* A pipeline's card keeps its stage or goes on to a later one, whatever     *)
(* order the events come in.                                                 *)
THEOREM CardsNoRegression == Spec => NoRegression
<1> DEFINE Onward == \A c \in AllChats : Gitlab /\ state[c].known =>
                       StatusRank[state'[c].status] >= StatusRank[state[c].status]
<1>1. ASSUME IInv, Next PROVE Onward
  <2>1. ASSUME NEW c \in AllChats, Gitlab, state[c].known
        PROVE  StatusRank[state'[c].status] >= StatusRank[state[c].status]
    <3>1. Itemwise /\ StatesOK /\ SeenOK /\ card \in Histories
      BY <1>1 DEF IInv, Itemwise
    <3>2. c \in card.chats
      <4>1. NoState.known = FALSE
        BY DEF NoState
      <4>2. QED
        BY <2>1, <3>1, <4>1 DEF StatesOK
    <3>3. OriginOK(c)
      BY <1>1, <3>2 DEF IInv
    <3>4. state[c].status # ""
      BY <2>1, <3>3 DEF OriginOK
    <3>5. PICK b \in Deliveries : Origin(c, b)
      BY <3>3, <3>4 DEF OriginOK
    <3>6. /\ b \in DOMAIN Event /\ state[c].attempt = Event[b].attempt
          /\ state[c].status = Event[b].status /\ state[c].at = Event[b].at
      BY <2>1, <3>5 DEF Origin
    <3>7. /\ state[c].attempt = 0 /\ state[c].status \in DOMAIN StatusRank
          /\ state[c].at \in Nat /\ state[c].at > 0
      BY <2>1, <3>1, <3>6, EventIs, PipelineFields
    <3> DEFINE s == state[c]
               n == StatusRank[s.status]
    <3>8. n \in Nat
      BY <3>7, RankType
    <3>9. CASE c = Chat => ~Take /\ ~Drain
      <4>1. state'[c].status = s.status
        BY <1>1, <3>1, <3>2, <3>9, StaysTaken DEF SameShown
      <4>2. n >= n
        <5> HIDE DEF n
        <5>1. QED
          BY <3>8
      <4>3. QED
        BY <4>1, <4>2
    <3>10. CASE c = Chat /\ Drain
      <4>1. state' = state
        BY <3>10 DEF Drain
      <4>2. n >= n
        <5> HIDE DEF n
        <5>1. QED
          BY <3>8
      <4>3. QED
        BY <4>1, <4>2
    <3>11. CASE c = Chat /\ Take
      <4>1. PICK d \in Deliveries :
              /\ d \in DOMAIN Event /\ ~Drains(d) /\ state'[c] = UpsertWorkflow(state[c], Event[d])
        BY <3>1, <3>11, TakeIs
      <4> DEFINE u == Event[d]
                 m == StatusRank[u.status]
                 w == UpsertWorkflow(s, u)
      <4>2. IsPipelineEvent(u) /\ IsState(s)
        BY <2>1, <3>1, <4>1, EventIs DEF StatesOK
      <4>3. m \in Nat
        BY <4>2, PipelineFields, RankType
      <4>4. PipelineAdvances(s, u)
        BY <2>1, <3>11, <4>1 DEF Drains
      <4>5. s.at # 0
        <5>1. s.at \in Nat /\ s.at > 0
          BY <3>7
        <5> HIDE DEF s
        <5>2. QED
          BY <5>1
      <4>6. m > n \/ m = n
        BY <3>4, <4>4, <4>5 DEF PipelineAdvances
      <4>7. s.attempt = 0
        BY <3>7
      <4>8. w.status = u.status \/ w.status = s.status
        <5> HIDE DEF s, u
        <5>1. QED
          BY <4>2, <4>7, PipelineTaken
      <4>9. m >= n /\ n >= n
        <5> HIDE DEF m, n
        <5>1. QED
          BY <3>8, <4>3, <4>6
      <4>10. QED
        BY <4>1, <4>8, <4>9
    <3>12. QED
      BY <3>9, <3>10, <3>11
  <2>2. QED
    BY <2>1
<1>2. IInv /\ [Next]_vars => [Onward]_vars
  BY <1>1
<1>3. QED
  BY <1>2, CardsInvariant, PTL DEF Spec, NoRegression
==============================================================================
