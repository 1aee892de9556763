--------------------------- MODULE Onboarding_proofs ---------------------------
(***************************************************************************)
(* Theorems about Onboarding, for any budgets that BudgetsAssumption allows, *)
(* any deliveries, request slots and entries.                              *)
(*                                                                         *)
(* The induction says which request may still act.  A request that is in time, *)
(* Deadline - clock > Guard, and holds the claim of its delivery has the   *)
(* pending time of the claim (HoldOK); one that is in time and has reserved a *)
(* validation has the time of the last one (TicketOK); and no two requests in *)
(* time share either (Alone).  A claim can be taken over after Budget and a *)
(* validation reserved after Cooldown > Budget, and by then whoever had it is *)
(* no longer in time.                                                      *)
(***************************************************************************)
EXTENDS Onboarding, TLAPS

CallbackSteps ==
  {"idle", "claim", "wait", "replay", "check", "reserve", "lookup", "asked", "bind", "persist",
   "reply"}
Toasts == {"", "success", "generic", "malformed", "limited", "temporary", "unknown"}
Logins == {Login[d] : d \in Deliveries} \cup {""}

Request ==
  [step : CallbackSteps, d : SUBSET Deliveries, start : Nat, at : Nat, until : Int,
           ticket : Int,
   toast : Toasts, card : Logins, held : SUBSET Logins]

HoldSteps == {"check", "reserve", "lookup", "asked", "bind", "persist"}
TicketSteps == {"lookup", "asked", "bind"}
WorkerSteps == {"idle", "create", "create_slotless", "record", "delete", "stopped"}

Typed ==
  /\ clock \in Nat /\ validatedAt \in Int /\ lookedUpAt \in Int
  /\ form \in Nat /\ sent \in Nat
  /\ login \in Logins
  /\ result \in [Deliveries -> [toast : Toasts, pendingAt : Int]]
  /\ worker \in [step : WorkerSteps, for : SUBSET Entries]
  /\ req \in [Requests -> Request]

TimesOK(r) ==
  LET q == req[r] IN
  /\ q.start <= clock
  /\ q.step \in {"claim", "reserve"} => q.start <= q.at /\ q.at <= clock
  /\ q.step \in TicketSteps => q.start <= q.ticket /\ q.ticket <= clock

TicketOK(r) ==
  LET q == req[r] IN
  /\ q.step \in TicketSteps /\ InTime(r) => q.ticket = validatedAt
  /\ q.step = "lookup" /\ InTime(r) =>
       lookedUpAt + Cooldown < q.ticket + (Budget - ResultBudget)

HoldOK(r) ==
  LET q == req[r] IN
  q.step \in HoldSteps /\ InTime(r) =>
    \A d \in q.d : ~Stored(d) /\ q.start <= result[d].pendingAt

AnswerOK(r) ==
  LET q == req[r] IN
  /\ login \in q.held
  /\ q.step \in {"reserve", "lookup", "asked", "bind"} => \A d \in q.d : Login[d] # ""
  /\ q.step = "reply" \/ (q.step = "persist" /\ q.toast = "success") =>
       q.card \in q.held \ {""}
  /\ q.step = "persist" /\ q.toast = "success" =>
       login # "" /\ \A d \in q.d : Login[d] \in everBound

RequestOK(r) ==
  Running(r) =>
    /\ \E d \in Deliveries : req[r].d = {d}
    /\ TimesOK(r) /\ TicketOK(r) /\ HoldOK(r) /\ AnswerOK(r)

Alone(r, x) ==
  /\ req[r].step \in TicketSteps /\ req[x].step \in TicketSteps => ~InTime(r) \/ ~InTime(x)
  /\ req[r].step \in HoldSteps /\ req[x].step \in HoldSteps /\ req[r].d = req[x].d =>
       ~InTime(r) \/ ~InTime(x)

MappingOK ==
  /\ lookedUpAt < validatedAt + (Budget - ResultBudget)
  /\ login # "" => login \in everBound
  /\ SuccessIsBound

FormOK == Creating => form = 0

IInv ==
  /\ Typed
  /\ \A r \in Requests : RequestOK(r)
  /\ \A r, x \in Requests : r # x => Alone(r, x)
  /\ MappingOK /\ FormOK

LEMMA RequestIsTyped ==
  ASSUME Typed, NEW r \in Requests
  PROVE  /\ req[r] \in Request
         /\ req[r].step \in CallbackSteps /\ req[r].d \subseteq Deliveries
         /\ req[r].start \in Nat /\ req[r].at \in Nat /\ req[r].until \in Int
         /\ req[r].ticket \in Int /\ req[r].toast \in Toasts /\ req[r].card \in Logins
         /\ req[r].held \subseteq Logins
BY DEF Typed, Request

LEMMA Budgets ==
  /\ Budget \in Nat /\ Guard \in Nat /\ LookupBudget \in Nat /\ ResultBudget \in Nat
  /\ Cooldown \in Nat
  /\ Guard < ResultBudget /\ ResultBudget < Budget /\ Budget < Cooldown
BY BudgetsAssumption

(* What a step does to its request. *)
Moved(r, s, at, until, ticket, toast, card) ==
  /\ req' \in [Requests -> Request]
  /\ \A x \in Requests : x # r => req'[x] = req[x]
  /\ req'[r].step = s /\ req'[r].d = req[r].d /\ req'[r].start = req[r].start
  /\ req'[r].at = at /\ req'[r].until = until /\ req'[r].ticket = ticket
  /\ req'[r].toast = toast /\ req'[r].card = card /\ req'[r].held = req[r].held

LEMMA IdleRequestTyped ==
  /\ IdleRequest \in Request /\ IdleRequest.step = "idle" /\ IdleRequest.at = 0
  /\ IdleRequest.until = 0 /\ IdleRequest.ticket = LongAgo /\ IdleRequest.toast = ""
  /\ IdleRequest.card = "" /\ LongAgo \in Int /\ "" \in Toasts /\ "" \in Logins
  /\ 0 \in Nat /\ 0 \in Int
BY Budgets DEF IdleRequest, Request, CallbackSteps, Toasts, Logins, LongAgo

LEMMA KeptTyped ==
  ASSUME Typed, NEW r \in Requests
  PROVE  /\ Kept(r) \in Request
         /\ Kept(r).d = req[r].d /\ Kept(r).start = req[r].start /\ Kept(r).held = req[r].held
         /\ Kept(r).at = 0 /\ Kept(r).until = 0 /\ Kept(r).ticket = LongAgo
         /\ Kept(r).toast = "" /\ Kept(r).card = ""
BY RequestIsTyped, IdleRequestTyped DEF Kept, Request

LEMMA GotoMoves ==
  ASSUME Typed, NEW r \in Requests, NEW s \in CallbackSteps, NEW at \in Nat, NEW u \in Int,
         NEW t \in Int, NEW toast \in Toasts, NEW c \in Logins,
         req' = [req EXCEPT ![r] = [Kept(r) EXCEPT !.step = s, !.at = at, !.until = u,
                                                   !.ticket = t, !.toast = toast, !.card = c]]
  PROVE  Moved(r, s, at, u, t, toast, c)
<1>1. PICK k \in Request : k = Kept(r)
  BY KeptTyped
<1>2. PICK q : q = [k EXCEPT !.step = s, !.at = at, !.until = u, !.ticket = t, !.toast = toast,
                             !.card = c]
  OBVIOUS
<1>3. q \in Request
  BY <1>2 DEF Request
<1>4. q.step = s /\ q.at = at /\ q.until = u /\ q.ticket = t /\ q.toast = toast /\ q.card = c
  BY <1>2 DEF Request
<1>5. q.d = k.d /\ q.start = k.start /\ q.held = k.held
  BY <1>2 DEF Request
<1>6. q.d = req[r].d /\ q.start = req[r].start /\ q.held = req[r].held
  BY <1>1, <1>5, KeptTyped
<1>7. req' = [req EXCEPT ![r] = q]
  BY <1>1, <1>2
<1>8. req' \in [Requests -> Request] /\ req'[r] = q /\ \A x \in Requests : x # r => req'[x] = req[x]
  BY <1>3, <1>7 DEF Typed
<1>9. QED
  BY <1>4, <1>6, <1>8 DEF Moved

LEMMA StepGoes ==
  ASSUME Typed, NEW r \in Requests, NEW s \in CallbackSteps,
         Goto(r, [Kept(r) EXCEPT !.step = s])
  PROVE  Moved(r, s, 0, 0, LongAgo, "", "")
<1>1. PICK k \in Request : k = Kept(r)
  BY KeptTyped
<1>2. [k EXCEPT !.step = s] =
        [k EXCEPT !.step = s, !.at = k.at, !.until = k.until, !.ticket = k.ticket,
                  !.toast = k.toast, !.card = k.card]
  BY DEF Request
<1>3. Kept(r).at = 0 /\ Kept(r).until = 0 /\ Kept(r).ticket = LongAgo
      /\ Kept(r).toast = "" /\ Kept(r).card = ""
  BY KeptTyped, Zenon
<1>4. req' = [req EXCEPT ![r] = [Kept(r) EXCEPT !.step = s, !.at = 0, !.until = 0,
                                                !.ticket = LongAgo, !.toast = "", !.card = ""]]
  BY <1>1, <1>2, <1>3 DEF Goto
<1>5. 0 \in Nat /\ 0 \in Int /\ LongAgo \in Int /\ "" \in Toasts /\ "" \in Logins
  BY IdleRequestTyped, Zenon
<1>6. QED
  BY <1>4, <1>5, GotoMoves, Zenon

LEMMA ToastGoes ==
  ASSUME Typed, NEW r \in Requests, NEW s \in CallbackSteps, NEW toast \in Toasts,
         Goto(r, [Kept(r) EXCEPT !.step = s, !.toast = toast])
  PROVE  Moved(r, s, 0, 0, LongAgo, toast, "")
<1>1. PICK k \in Request : k = Kept(r)
  BY KeptTyped
<1>2. [k EXCEPT !.step = s, !.toast = toast] =
        [k EXCEPT !.step = s, !.at = k.at, !.until = k.until, !.ticket = k.ticket,
                  !.toast = toast, !.card = k.card]
  BY DEF Request
<1>3. Kept(r).at = 0 /\ Kept(r).until = 0 /\ Kept(r).ticket = LongAgo
      /\ Kept(r).toast = "" /\ Kept(r).card = ""
  BY KeptTyped, Zenon
<1>4. req' = [req EXCEPT ![r] = [Kept(r) EXCEPT !.step = s, !.at = 0, !.until = 0,
                                                !.ticket = LongAgo, !.toast = toast,
                                                !.card = ""]]
  BY <1>1, <1>2, <1>3 DEF Goto
<1>5. 0 \in Nat /\ 0 \in Int /\ LongAgo \in Int /\ "" \in Toasts /\ "" \in Logins
  BY IdleRequestTyped, Zenon
<1>6. QED
  BY <1>4, <1>5, GotoMoves, Zenon

LEMMA CardGoes ==
  ASSUME Typed, NEW r \in Requests, NEW s \in CallbackSteps, NEW toast \in Toasts,
           NEW c \in Logins,
         Goto(r, [Kept(r) EXCEPT !.step = s, !.toast = toast, !.card = c])
  PROVE  Moved(r, s, 0, 0, LongAgo, toast, c)
<1>1. PICK k \in Request : k = Kept(r)
  BY KeptTyped
<1>2. [k EXCEPT !.step = s, !.toast = toast, !.card = c] =
        [k EXCEPT !.step = s, !.at = k.at, !.until = k.until, !.ticket = k.ticket,
                  !.toast = toast, !.card = c]
  BY DEF Request
<1>3. Kept(r).at = 0 /\ Kept(r).until = 0 /\ Kept(r).ticket = LongAgo
      /\ Kept(r).toast = "" /\ Kept(r).card = ""
  BY KeptTyped, Zenon
<1>4. req' = [req EXCEPT ![r] = [Kept(r) EXCEPT !.step = s, !.at = 0, !.until = 0,
                                                !.ticket = LongAgo, !.toast = toast,
                                                !.card = c]]
  BY <1>1, <1>2, <1>3 DEF Goto
<1>5. 0 \in Nat /\ 0 \in Int /\ LongAgo \in Int /\ "" \in Toasts /\ "" \in Logins
  BY IdleRequestTyped, Zenon
<1>6. QED
  BY <1>4, <1>5, GotoMoves, Zenon

LEMMA AtGoes ==
  ASSUME Typed, NEW r \in Requests, NEW s \in CallbackSteps, NEW at \in Nat,
         Goto(r, [Kept(r) EXCEPT !.step = s, !.at = at])
  PROVE  Moved(r, s, at, 0, LongAgo, "", "")
<1>1. PICK k \in Request : k = Kept(r)
  BY KeptTyped
<1>2. [k EXCEPT !.step = s, !.at = at] =
        [k EXCEPT !.step = s, !.at = at, !.until = k.until, !.ticket = k.ticket,
                  !.toast = k.toast, !.card = k.card]
  BY DEF Request
<1>3. Kept(r).at = 0 /\ Kept(r).until = 0 /\ Kept(r).ticket = LongAgo
      /\ Kept(r).toast = "" /\ Kept(r).card = ""
  BY KeptTyped, Zenon
<1>4. req' = [req EXCEPT ![r] = [Kept(r) EXCEPT !.step = s, !.at = at, !.until = 0,
                                                !.ticket = LongAgo, !.toast = "", !.card = ""]]
  BY <1>1, <1>2, <1>3 DEF Goto
<1>5. 0 \in Nat /\ 0 \in Int /\ LongAgo \in Int /\ "" \in Toasts /\ "" \in Logins
  BY IdleRequestTyped, Zenon
<1>6. QED
  BY <1>4, <1>5, GotoMoves, Zenon

LEMMA TicketGoes ==
  ASSUME Typed, NEW r \in Requests, NEW s \in CallbackSteps, NEW t \in Int,
         Goto(r, [Kept(r) EXCEPT !.step = s, !.ticket = t])
  PROVE  Moved(r, s, 0, 0, t, "", "")
<1>1. PICK k \in Request : k = Kept(r)
  BY KeptTyped
<1>2. [k EXCEPT !.step = s, !.ticket = t] =
        [k EXCEPT !.step = s, !.at = k.at, !.until = k.until, !.ticket = t, !.toast = k.toast,
                  !.card = k.card]
  BY DEF Request
<1>3. Kept(r).at = 0 /\ Kept(r).until = 0 /\ Kept(r).ticket = LongAgo
      /\ Kept(r).toast = "" /\ Kept(r).card = ""
  BY KeptTyped, Zenon
<1>4. req' = [req EXCEPT ![r] = [Kept(r) EXCEPT !.step = s, !.at = 0, !.until = 0,
                                                !.ticket = t, !.toast = "", !.card = ""]]
  BY <1>1, <1>2, <1>3 DEF Goto
<1>5. 0 \in Nat /\ 0 \in Int /\ LongAgo \in Int /\ "" \in Toasts /\ "" \in Logins
  BY IdleRequestTyped, Zenon
<1>6. QED
  BY <1>4, <1>5, GotoMoves, Zenon

LEMMA UntilGoes ==
  ASSUME Typed, NEW r \in Requests, NEW s \in CallbackSteps, NEW u \in Int, NEW t \in Int,
         Goto(r, [Kept(r) EXCEPT !.step = s, !.until = u, !.ticket = t])
  PROVE  Moved(r, s, 0, u, t, "", "")
<1>1. PICK k \in Request : k = Kept(r)
  BY KeptTyped
<1>2. [k EXCEPT !.step = s, !.until = u, !.ticket = t] =
        [k EXCEPT !.step = s, !.at = k.at, !.until = u, !.ticket = t, !.toast = k.toast,
                  !.card = k.card]
  BY DEF Request
<1>3. Kept(r).at = 0 /\ Kept(r).until = 0 /\ Kept(r).ticket = LongAgo
      /\ Kept(r).toast = "" /\ Kept(r).card = ""
  BY KeptTyped, Zenon
<1>4. req' = [req EXCEPT ![r] = [Kept(r) EXCEPT !.step = s, !.at = 0, !.until = u,
                                                !.ticket = t, !.toast = "", !.card = ""]]
  BY <1>1, <1>2, <1>3 DEF Goto
<1>5. 0 \in Nat /\ 0 \in Int /\ LongAgo \in Int /\ "" \in Toasts /\ "" \in Logins
  BY IdleRequestTyped, Zenon
<1>6. QED
  BY <1>4, <1>5, GotoMoves, Zenon

(***************************************************************************)
(* What leaves alone everything but a request.                             *)
(***************************************************************************)
Finished(r) ==
  /\ req' \in [Requests -> Request] /\ req'[r] = IdleRequest
  /\ \A x \in Requests : x # r => req'[x] = req[x]

LEMMA FinishGoes ==
  ASSUME Typed, NEW r \in Requests, Finish(r)
  PROVE  Finished(r)
<1>1. PICK q \in Request : q = IdleRequest
  BY IdleRequestTyped
<1>2. req' = [req EXCEPT ![r] = q]
  BY <1>1 DEF Finish, Goto
<1>3. QED
  BY <1>1, <1>2 DEF Finished, Typed

LEMMA PersistingGoes ==
  ASSUME Typed, NEW r \in Requests, NEW toast \in Toasts, Persisting(r, toast)
  PROVE  Moved(r, "persist", 0, 0, LongAgo, toast, "")
<1>1. "persist" \in CallbackSteps
  BY DEF CallbackSteps
<1>2. Goto(r, [Kept(r) EXCEPT !.step = "persist", !.toast = toast])
  BY Zenon DEF Persisting
<1>3. QED
  BY <1>1, <1>2, ToastGoes, Zenon

LEMMA PersistingSuccessGoes ==
  ASSUME Typed, NEW r \in Requests, NEW l \in Logins, PersistingSuccess(r, l)
  PROVE  Moved(r, "persist", 0, 0, LongAgo, "success", l)
<1>1. "persist" \in CallbackSteps /\ "success" \in Toasts
  BY DEF CallbackSteps, Toasts
<1>2. Goto(r, [Kept(r) EXCEPT !.step = "persist", !.toast = "success", !.card = l])
  BY Zenon DEF PersistingSuccess
<1>3. QED
  BY <1>1, <1>2, CardGoes, Zenon

LEMMA AnsweringGoes ==
  ASSUME Typed, NEW r \in Requests, NEW toast \in Toasts, NEW card \in Logins,
         Answering(r, toast, card)
  PROVE  IF toast = "success" THEN Moved(r, "reply", 0, 0, LongAgo, toast, card)
         ELSE Finished(r)
<1>1. CASE toast = "success"
  <2>1. "reply" \in CallbackSteps
    BY DEF CallbackSteps
  <2>2. Goto(r, [Kept(r) EXCEPT !.step = "reply", !.toast = toast, !.card = card])
    BY <1>1, Zenon DEF Answering
  <2>3. QED
    BY <1>1, <2>1, <2>2, CardGoes, Zenon
<1>2. CASE toast # "success"
  BY <1>2, FinishGoes DEF Answering
<1>3. QED
  BY <1>1, <1>2

LEMMA OthersKeep ==
  ASSUME NEW x \in Requests, RequestOK(x), req'[x] = req[x],
         clock' = clock, login' = login, validatedAt' = validatedAt, result' = result,
         lookedUpAt' = lookedUpAt, everBound' = everBound
  PROVE  RequestOK(x)'
BY DEF RequestOK, Running, TimesOK, TicketOK, HoldOK, AnswerOK, InTime, Deadline, Stored

LEMMA FinishKeeps ==
  ASSUME IInv, NEW r \in Requests, Finished(r), UNCHANGED requestOnly
  PROVE  IInv'
<1>1. Typed'
  BY DEF IInv, Typed, Finished, requestOnly, stateVars, workerVars, historyVars
<1>2. ASSUME NEW x \in Requests PROVE RequestOK(x)'
  BY <1>2, OthersKeep, IdleRequestTyped DEF IInv, Finished, requestOnly, stateVars,
     historyVars, RequestOK, Running
<1>3. ASSUME NEW x \in Requests, NEW y \in Requests, x # y PROVE Alone(x, y)'
  BY <1>3, IdleRequestTyped DEF IInv, Finished, requestOnly, Alone, HoldSteps, TicketSteps,
     InTime, Deadline
<1>4. MappingOK' /\ FormOK'
  BY DEF IInv, MappingOK, FormOK, Creating, SuccessIsBound, requestOnly, stateVars, workerVars,
     historyVars
<1>5. QED
  BY <1>1, <1>2, <1>3, <1>4 DEF IInv

(* What a step of a running request may do besides. *)
Proper(r, s, at, t, toast, c) ==
  /\ s \in HoldSteps => req[r].step \in HoldSteps
  /\ s \in TicketSteps => req[r].step \in TicketSteps /\ t = req[r].ticket
  /\ s \notin {"idle", "claim", "lookup"} /\ (s = "reserve" => at = clock)
  /\ s \in {"reserve", "lookup", "asked", "bind"} => \A d \in req[r].d : Login[d] # ""
  /\ s = "reply" \/ (s = "persist" /\ toast = "success") => c \in req[r].held \ {""}
  /\ s = "persist" /\ toast = "success" =>
       login # "" /\ \A d \in req[r].d : Login[d] \in everBound

LEMMA MoverIsOK ==
  ASSUME IInv, NEW r \in Requests, Running(r), NEW s, NEW at, NEW u, NEW t, NEW toast, NEW c,
         Moved(r, s, at, u, t, toast, c), Proper(r, s, at, t, toast, c),
         clock' = clock, login' = login, validatedAt' = validatedAt, result' = result,
         everBound' = everBound
  PROVE  RequestOK(r)'
<1>1. RequestOK(r) /\ Typed
  BY DEF IInv
<1>2. req[r].start \in Nat /\ clock \in Nat
  BY <1>1, RequestIsTyped DEF Typed
<1>3. TimesOK(r)'
  <2>1. req[r].start <= clock /\ (req[r].step \in TicketSteps =>
                                   req[r].start <= req[r].ticket /\ req[r].ticket <= clock)
    BY <1>1 DEF RequestOK, TimesOK
  <2>2. /\ req'[r].start = req[r].start /\ req'[r].step = s /\ req'[r].at = at
        /\ req'[r].ticket = t
    BY DEF Moved
  <2>3. s # "claim" /\ (s = "reserve" => at = clock)
    BY DEF Proper
  <2>4. s \in TicketSteps => req[r].step \in TicketSteps /\ t = req[r].ticket
    BY DEF Proper
  <2>5. QED
    BY <1>2, <2>1, <2>2, <2>3, <2>4 DEF TimesOK
<1>4. TicketOK(r)'
  BY <1>1 DEF RequestOK, TicketOK, Moved, Proper, InTime, Deadline
<1>5. HoldOK(r)'
  BY <1>1 DEF RequestOK, HoldOK, Moved, Proper, InTime, Deadline, Stored
<1>6. AnswerOK(r)'
  BY <1>1 DEF RequestOK, AnswerOK, Moved, Proper
<1>7. QED
  BY <1>1, <1>3, <1>4, <1>5, <1>6 DEF RequestOK, Moved

LEMMA MoveKeepsApart ==
  ASSUME IInv, NEW r \in Requests, NEW s, NEW at, NEW u, NEW t, NEW toast, NEW c,
         Moved(r, s, at, u, t, toast, c), clock' = clock,
         s \in HoldSteps => req[r].step \in HoldSteps,
         s \in TicketSteps => req[r].step \in TicketSteps,
         NEW x \in Requests, NEW y \in Requests, x # y
  PROVE  Alone(x, y)'
<1>1. Alone(x, y)
  BY DEF IInv
<1>2. \A z \in {x, y} : /\ req'[z].d = req[z].d /\ req'[z].start = req[z].start
                        /\ req'[z].step \in HoldSteps => req[z].step \in HoldSteps
                        /\ req'[z].step \in TicketSteps => req[z].step \in TicketSteps
  BY DEF Moved
<1>3. QED
  BY <1>1, <1>2 DEF Alone, InTime, Deadline

LEMMA MoveKeeps ==
  ASSUME IInv, NEW r \in Requests, Running(r), NEW s, NEW at, NEW u, NEW t, NEW toast, NEW c,
         Moved(r, s, at, u, t, toast, c), Proper(r, s, at, t, toast, c), UNCHANGED requestOnly
  PROVE  IInv'
<1>1. Typed'
  BY DEF IInv, Typed, Moved, requestOnly, stateVars, workerVars, historyVars
<1>2. ASSUME NEW x \in Requests PROVE RequestOK(x)'
  <2>1. CASE x = r
    BY <2>1, MoverIsOK DEF requestOnly, stateVars, historyVars
  <2>2. CASE x # r
    BY <2>2, OthersKeep DEF IInv, Moved, requestOnly, stateVars, historyVars
  <2>3. QED
    BY <2>1, <2>2
<1>3. ASSUME NEW x \in Requests, NEW y \in Requests, x # y PROVE Alone(x, y)'
  BY <1>3, MoveKeepsApart DEF Proper, requestOnly
<1>4. MappingOK' /\ FormOK'
  BY DEF IInv, MappingOK, FormOK, Creating, SuccessIsBound, requestOnly, stateVars, workerVars,
     historyVars
<1>5. QED
  BY <1>1, <1>2, <1>3, <1>4 DEF IInv

(***************************************************************************)
(* The steps of a callback, one lemma per action.                          *)
(***************************************************************************)
(* Leaving the steps that hold anything. *)
LEMMA LeaveKeeps ==
  ASSUME IInv, NEW r \in Requests, Running(r), NEW toast \in Toasts, NEW s \in {"replay",
           "wait"},
         Moved(r, s, 0, 0, LongAgo, toast, ""), UNCHANGED requestOnly
  PROVE  IInv'
<1>1. Proper(r, s, 0, LongAgo, toast, "")
  BY DEF Proper, HoldSteps, TicketSteps
<1>2. QED
  BY <1>1, MoveKeeps

(* Any toast but success may be stored without further ado. *)
LEMMA PersistingKeeps ==
  ASSUME IInv, NEW r \in Requests, req[r].step \in HoldSteps,
           NEW toast \in Toasts \ {"success"},
         Persisting(r, toast), UNCHANGED requestOnly
  PROVE  IInv'
<1>1. Moved(r, "persist", 0, 0, LongAgo, toast, "")
  BY PersistingGoes DEF IInv
<1>2. Proper(r, "persist", 0, LongAgo, toast, "") /\ Running(r)
  BY DEF Proper, HoldSteps, TicketSteps, Running
<1>3. QED
  BY <1>1, <1>2, MoveKeeps

LEMMA AnsweringKeeps ==
  ASSUME IInv, NEW r \in Requests, Running(r), NEW toast \in Toasts, NEW card \in Logins,
         Answering(r, toast, card), UNCHANGED requestOnly,
         toast = "success" => card \in req[r].held \ {""}
  PROVE  IInv'
<1>1. CASE toast = "success"
  <2>1. Moved(r, "reply", 0, 0, LongAgo, toast, card)
    BY <1>1, AnsweringGoes DEF IInv
  <2>2. Proper(r, "reply", 0, LongAgo, toast, card)
    BY <1>1 DEF Proper, HoldSteps, TicketSteps
  <2>3. QED
    BY <2>1, <2>2, MoveKeeps
<1>2. CASE toast # "success"
  <2>1. Finished(r)
    BY <1>2, AnsweringGoes DEF IInv
  <2>2. QED
    BY <2>1, FinishKeeps
<1>3. QED
  BY <1>1, <1>2

LEMMA OneDelivery ==
  ASSUME IInv, NEW r \in Requests, Running(r)
  PROVE  \E d \in Deliveries : req[r].d = {d}
BY DEF IInv, RequestOK

LEMMA WaitKeeps ==
  ASSUME IInv, NEW r \in Requests, Wait(r)
  PROVE  IInv'
<1>1. req[r].step = "wait" /\ Running(r) /\ UNCHANGED requestOnly
  BY DEF Wait, Running
<1>2. PICK d \in Deliveries : req[r].d = {d}
  BY <1>1, OneDelivery
<1>3. Goto(r, [Kept(r) EXCEPT !.step = "replay", !.toast = result[d].toast])
  BY <1>2, Zenon DEF Wait
<1>4. result[d].toast \in Toasts /\ "replay" \in CallbackSteps
  BY DEF IInv, Typed, CallbackSteps
<1>5. Moved(r, "replay", 0, 0, LongAgo, result[d].toast, "")
  BY <1>3, <1>4, ToastGoes, Zenon DEF IInv
<1>6. QED
  BY <1>1, <1>4, <1>5, LeaveKeeps

LEMMA ReplayKeeps ==
  ASSUME IInv, NEW r \in Requests, Replay(r)
  PROVE  IInv'
<1>1. req[r].step = "replay" /\ Running(r) /\ UNCHANGED requestOnly
  BY DEF Replay, Running
<1>2. req[r].toast \in Toasts /\ login \in Logins /\ "" \in Logins
      /\ {"generic", "success"} \subseteq Toasts
  BY RequestIsTyped DEF IInv, Typed, Toasts, Logins
<1>3. login \in req[r].held
  BY <1>1 DEF IInv, RequestOK, AnswerOK
<1>4. \/ req[r].toast # "success" /\ Answering(r, req[r].toast, "")
      \/ login # "" /\ Answering(r, "success", login)
      \/ Answering(r, "generic", "")
  BY DEF Replay
<1>5. QED
  BY <1>1, <1>2, <1>3, <1>4, AnsweringKeeps

LEMMA CheckKeeps ==
  ASSUME IInv, NEW r \in Requests, Check(r)
  PROVE  IInv'
<1>1. req[r].step = "check" /\ Running(r) /\ UNCHANGED requestOnly
  BY DEF Check, Running
<1>2. PICK d \in Deliveries : req[r].d = {d}
  BY <1>1, OneDelivery
<1>3. login \in req[r].held /\ login \in Logins /\ (login # "" => login \in everBound)
      /\ req[r].step \in HoldSteps /\ clock \in Nat /\ Typed
  BY <1>1 DEF IInv, RequestOK, AnswerOK, MappingOK, Typed, HoldSteps
<1>4. \/ Persisting(r, "generic") \/ Persisting(r, "malformed")
      \/ Login[d] # "" /\ Login[d] = login /\ PersistingSuccess(r, login)
      \/ Login[d] # "" /\ Goto(r, [Kept(r) EXCEPT !.step = "reserve", !.at = clock])
  BY <1>2, Zenon DEF Check
<1>5. CASE Persisting(r, "generic") \/ Persisting(r, "malformed")
  BY <1>1, <1>3, <1>5, PersistingKeeps DEF Toasts
<1>6. CASE Login[d] # "" /\ Login[d] = login /\ PersistingSuccess(r, login)
  <2>1. Moved(r, "persist", 0, 0, LongAgo, "success", login)
    BY <1>3, <1>6, PersistingSuccessGoes
  <2>2. Proper(r, "persist", 0, LongAgo, "success", login)
    BY <1>1, <1>2, <1>3, <1>6 DEF Proper, HoldSteps, TicketSteps
  <2>3. QED
    BY <1>1, <2>1, <2>2, MoveKeeps
<1>7. CASE Login[d] # "" /\ Goto(r, [Kept(r) EXCEPT !.step = "reserve", !.at = clock])
  <2>1. "reserve" \in CallbackSteps
    BY Zenon DEF CallbackSteps
  <2>2. Moved(r, "reserve", clock, 0, LongAgo, "", "")
    BY <1>3, <1>7, <2>1, AtGoes, Zenon
  <2>3. Login[d] # ""
    BY <1>7, Zenon
  <2>4. Proper(r, "reserve", clock, LongAgo, "", "")
    BY <1>1, <1>2, <1>3, <2>3, Zenon DEF Proper, HoldSteps, TicketSteps
  <2>5. QED
    BY <1>1, <2>2, <2>4, MoveKeeps, Zenon
<1>8. QED
  BY <1>4, <1>5, <1>6, <1>7, Zenon

LEMMA StateFailsKeeps ==
  ASSUME IInv, NEW r \in Requests, StateFails(r)
  PROVE  IInv'
BY PersistingKeeps DEF StateFails, HoldSteps, Toasts

LEMMA GithubAnswersKeeps ==
  ASSUME IInv, NEW r \in Requests, GithubAnswers(r)
  PROVE  IInv'
<1>1. req[r].step = "asked" /\ Running(r) /\ UNCHANGED requestOnly /\ Typed
  BY DEF GithubAnswers, Running, IInv
<1>2. \/ Goto(r, [Kept(r) EXCEPT !.step = "bind", !.ticket = req[r].ticket])
      \/ Persisting(r, "unknown") \/ Persisting(r, "temporary") \/ Answering(r, "temporary", "")
  BY Zenon DEF GithubAnswers
<1>3. CASE Goto(r, [Kept(r) EXCEPT !.step = "bind", !.ticket = req[r].ticket])
  <2>1. "bind" \in CallbackSteps
    BY Zenon DEF CallbackSteps
  <2>2. Moved(r, "bind", 0, 0, req[r].ticket, "", "")
    BY <1>1, <1>3, <2>1, TicketGoes, RequestIsTyped, Zenon
  <2>3. Proper(r, "bind", 0, req[r].ticket, "", "")
    <3>1. \A d \in req[r].d : Login[d] # ""
      BY <1>1, Zenon DEF IInv, RequestOK, AnswerOK
    <3>2. QED
      BY <1>1, <3>1, Zenon DEF Proper, HoldSteps, TicketSteps
  <2>4. QED
    BY <1>1, <2>2, <2>3, MoveKeeps, Zenon
<1>4. CASE Persisting(r, "unknown") \/ Persisting(r, "temporary")
  BY <1>1, <1>4, PersistingKeeps DEF Toasts, HoldSteps
<1>5. CASE Answering(r, "temporary", "")
  BY <1>1, <1>5, AnsweringKeeps, IdleRequestTyped DEF Toasts
<1>6. QED
  BY <1>2, <1>3, <1>4, <1>5, Zenon

LEMMA GithubTooLateKeeps ==
  ASSUME IInv, NEW r \in Requests, GithubTooLate(r)
  PROVE  IInv'
BY PersistingKeeps DEF GithubTooLate, HoldSteps, Toasts

LEMMA EndsKeep ==
  ASSUME IInv, NEW r \in Requests, Reply(r) \/ GiveUp(r)
  PROVE  IInv'
BY FinishGoes, FinishKeeps DEF Reply, GiveUp, IInv

LEMMA NowIsPast ==
  ASSUME IInv, NEW r \in Requests, req[r].step \in {"claim", "reserve"}, NEW now \in Now(r)
  PROVE  now \in Nat /\ req[r].start <= now /\ now <= clock
<1>1. req[r].at \in Nat /\ req[r].start \in Nat /\ clock \in Nat
  BY RequestIsTyped DEF IInv, Typed
<1>2. req[r].start <= req[r].at
  BY DEF IInv, RequestOK, Running, TimesOK
<1>3. QED
  BY <1>1, <1>2 DEF Now

(* When a claim can be taken over its holder is too late to commit. *)
LEMMA HolderIsLate ==
  ASSUME IInv, NEW x \in Requests, req[x].step \in HoldSteps, NEW d \in req[x].d,
           NEW now \in Nat,
         now <= clock, result[d].pendingAt + Budget <= now
  PROVE  ~InTime(x)
<1>1. SUFFICES ASSUME InTime(x) PROVE FALSE
  OBVIOUS
<1>2. req[x].start <= result[d].pendingAt
  BY <1>1 DEF IInv, RequestOK, Running, HoldOK, HoldSteps
<1>3. req[x].start \in Nat /\ result[d].pendingAt \in Int /\ clock \in Nat
  BY RequestIsTyped DEF IInv, Typed
<1>4. QED
  BY <1>1, <1>2, <1>3, Budgets DEF InTime, Deadline

(* Nor can whoever reserved the last validation, once the user has rested. *)
LEMMA TicketIsLate ==
  ASSUME IInv, NEW x \in Requests, req[x].step \in TicketSteps, NEW now \in Nat,
         now <= clock, Rested(now)
  PROVE  ~InTime(x)
<1>1. SUFFICES ASSUME InTime(x) PROVE FALSE
  OBVIOUS
<1>2. req[x].start <= validatedAt
  BY <1>1 DEF IInv, RequestOK, Running, TimesOK, TicketOK, TicketSteps
<1>3. req[x].start \in Nat /\ validatedAt \in Int /\ clock \in Nat
  BY RequestIsTyped DEF IInv, Typed
<1>4. QED
  BY <1>1, <1>2, <1>3, Budgets DEF InTime, Deadline, Rested

LEMMA PendingUpdate ==
  ASSUME NEW o \in [toast : Toasts, pendingAt : Int], NEW v \in Nat
  PROVE  /\ [o EXCEPT !.pendingAt = v] \in [toast : Toasts, pendingAt : Int]
         /\ [o EXCEPT !.pendingAt = v].toast = o.toast /\ [o EXCEPT !.pendingAt = v].pendingAt = v
OBVIOUS

LEMMA TakeOverKeeps ==
  ASSUME IInv, NEW r \in Requests, req[r].step = "claim", NEW d \in Deliveries, req[r].d = {d},
         NEW now \in Now(r), Claimable(d, now), result' = [result EXCEPT ![d].pendingAt = now],
         Moved(r, "check", 0, 0, LongAgo, "", ""),
         UNCHANGED <<clock, stateVars, workerVars, historyVars>>
  PROVE  IInv'
<1>1. now \in Nat /\ req[r].start <= now /\ now <= clock
  BY NowIsPast
<1>2. /\ result' \in [Deliveries -> [toast : Toasts, pendingAt : Int]]
      /\ result'[d].toast = result[d].toast /\ result'[d].pendingAt = now
      /\ \A e \in Deliveries : result'[e].toast = result[e].toast
      /\ \A e \in Deliveries : e # d => result'[e] = result[e]
  <2>1. result \in [Deliveries -> [toast : Toasts, pendingAt : Int]]
    BY DEF IInv, Typed
  <2>2. PICK o \in [toast : Toasts, pendingAt : Int] : o = result[d]
    BY <2>1
  <2>3. PICK n \in [toast : Toasts, pendingAt : Int] :
          n = [o EXCEPT !.pendingAt = now] /\ n.toast = o.toast /\ n.pendingAt = now
    BY <1>1, PendingUpdate
  <2>4. result' = [result EXCEPT ![d] = n]
    BY <2>2, <2>3
  <2>5. QED
    BY <2>1, <2>2, <2>3, <2>4
<1>3. ~Stored(d) /\ result[d].pendingAt + Budget <= now
  BY DEF Claimable
<1>4. Typed'
  BY <1>2 DEF IInv, Typed, Moved, stateVars, workerVars, historyVars
<1>5. RequestOK(r)'
  <2>1. RequestOK(r) /\ Running(r)
    BY DEF IInv, Running
  <2>2. TimesOK(r)' /\ TicketOK(r)' /\ AnswerOK(r)'
    BY <2>1 DEF RequestOK, TimesOK, TicketOK, AnswerOK, Moved, TicketSteps, stateVars
  <2>3. HoldOK(r)'
    BY <1>1, <1>2, <1>3 DEF HoldOK, Moved, Stored
  <2>4. QED
    BY <2>1, <2>2, <2>3 DEF RequestOK, Moved
<1>6. ASSUME NEW x \in Requests, x # r PROVE RequestOK(x)'
  <2>1. SUFFICES ASSUME Running(x) PROVE RequestOK(x)'
    BY <1>6 DEF RequestOK, Moved, Running
  <2>2. RequestOK(x) /\ req'[x] = req[x] /\ \E e \in Deliveries : req[x].d = {e}
    BY <1>6, <2>1 DEF IInv, Moved, RequestOK
  <2>3. TimesOK(x)' /\ TicketOK(x)' /\ AnswerOK(x)'
    BY <2>1, <2>2 DEF RequestOK, TimesOK, TicketOK, AnswerOK, InTime, Deadline, stateVars,
       historyVars
  <2>4. HoldOK(x)'
    <3>1. SUFFICES ASSUME req[x].step \in HoldSteps, InTime(x)
                   PROVE  \A e \in req[x].d : ~Stored(e)' /\ req[x].start <= result'[e].pendingAt
      BY <2>2 DEF HoldOK, InTime, Deadline
    <3>2. d \notin req[x].d
      BY <1>1, <1>3, <3>1, HolderIsLate
    <3>3. \A e \in req[x].d : ~Stored(e) /\ req[x].start <= result[e].pendingAt
      BY <2>1, <2>2, <3>1 DEF RequestOK, HoldOK
    <3>4. QED
      BY <1>2, <2>2, <3>2, <3>3 DEF Stored
  <2>5. QED
    BY <2>2, <2>3, <2>4 DEF RequestOK
<1>7. ASSUME NEW x \in Requests, x # r, req[x].step \in HoldSteps,
         req[x].d = {d} PROVE ~InTime(x)
  BY <1>1, <1>3, <1>7, HolderIsLate
<1>8. ASSUME NEW x \in Requests, NEW y \in Requests, x # y PROVE Alone(x, y)'
  BY <1>7, <1>8 DEF IInv, Alone, Moved, InTime, Deadline, TicketSteps
<1>9. MappingOK' /\ FormOK'
  BY <1>2 DEF IInv, MappingOK, FormOK, Creating, SuccessIsBound, stateVars, workerVars,
     historyVars
<1>10. QED
  BY <1>4, <1>5, <1>6, <1>8, <1>9 DEF IInv

LEMMA ClaimKeeps ==
  ASSUME IInv, NEW r \in Requests, Claim(r)
  PROVE  IInv'
<1>1. req[r].step = "claim" /\ Running(r) /\ Typed
      /\ UNCHANGED <<clock, stateVars, workerVars, source, historyVars, crashes>>
  BY DEF Claim, Running, IInv
<1>2. PICK d \in Deliveries : req[r].d = {d}
  BY <1>1, OneDelivery
<1>3. {"check", "wait", "replay"} \subseteq CallbackSteps
  BY DEF CallbackSteps
<1>4. PICK now \in Now(r) :
        \/ /\ Claimable(d, now)
           /\ result' = [result EXCEPT ![d].pendingAt = now]
           /\ Step(r, "check")
        \/ /\ Goto(r, [Kept(r) EXCEPT !.step = "replay", !.toast = result[d].toast])
           /\ UNCHANGED result
        \/ Step(r, "wait") /\ UNCHANGED result
  BY <1>2, Zenon DEF Claim
<1>5. CASE Claimable(d, now) /\ result' = [result EXCEPT ![d].pendingAt = now] /\ Step(r,
         "check")
  <2>1. Goto(r, [Kept(r) EXCEPT !.step = "check"])
    BY <1>5, Zenon DEF Step
  <2>2. Moved(r, "check", 0, 0, LongAgo, "", "")
    BY <1>1, <1>3, <2>1, StepGoes, Zenon
  <2>3. QED
    BY <1>1, <1>2, <1>5, <2>2, TakeOverKeeps, Zenon
<1>6. CASE /\ Goto(r, [Kept(r) EXCEPT !.step = "replay", !.toast = result[d].toast])
           /\ UNCHANGED result
  <2>1. result[d].toast \in Toasts
    BY <1>1 DEF Typed
  <2>2. Moved(r, "replay", 0, 0, LongAgo, result[d].toast, "")
    BY <1>1, <1>3, <1>6, <2>1, ToastGoes, Zenon
  <2>3. UNCHANGED requestOnly
    BY <1>1, <1>6, Zenon DEF requestOnly
  <2>4. QED
    BY <1>1, <2>1, <2>2, <2>3, LeaveKeeps, Zenon
<1>7. CASE Step(r, "wait") /\ UNCHANGED result
  <2>1. Goto(r, [Kept(r) EXCEPT !.step = "wait"])
    BY <1>7, Zenon DEF Step
  <2>2. Moved(r, "wait", 0, 0, LongAgo, "", "") /\ "" \in Toasts
    BY <1>1, <1>3, <2>1, StepGoes, IdleRequestTyped, Zenon
  <2>3. UNCHANGED requestOnly
    BY <1>1, <1>7, Zenon DEF requestOnly
  <2>4. QED
    BY <1>1, <2>2, <2>3, LeaveKeeps, Zenon
<1>8. QED
  BY <1>4, <1>5, <1>6, <1>7, Zenon

(* The part of Moved that is the same for every step. *)
Moves(r) ==
  /\ req' \in [Requests -> Request]
  /\ \A x \in Requests : x # r => req'[x] = req[x]
  /\ req'[r].d = req[r].d /\ req'[r].start = req[r].start /\ req'[r].held = req[r].held

LEMMA TicketKeeps ==
  ASSUME IInv, NEW r \in Requests, req[r].step = "reserve", NEW now \in Now(r), Rested(now),
         validatedAt' = now, Moves(r), req'[r].step = "lookup", req'[r].ticket = now,
         UNCHANGED <<clock, form, login, result, workerVars, historyVars>>
  PROVE  IInv'
<1>1. now \in Nat /\ req[r].start <= now /\ now <= clock
  BY NowIsPast
<1>2. Typed'
  BY <1>1 DEF IInv, Typed, Moves, workerVars, historyVars
<1>3. validatedAt \in Int /\ lookedUpAt \in Int /\ validatedAt + Cooldown <= now
      /\ lookedUpAt < validatedAt + (Budget - ResultBudget)
  BY DEF IInv, Typed, MappingOK, Rested
<1>4. RequestOK(r)'
  <2>1. RequestOK(r) /\ Running(r)
    BY DEF IInv, Running
  <2>2. lookedUpAt + Cooldown < now + (Budget - ResultBudget)
    BY <1>1, <1>3, Budgets
  <2>3. TimesOK(r)' /\ AnswerOK(r)'
    BY <1>1, <2>1 DEF RequestOK, TimesOK, AnswerOK, Moves
  <2>4. TicketOK(r)'
    BY <2>2 DEF TicketOK, Moves, historyVars
  <2>5. HoldOK(r)'
    BY <2>1 DEF RequestOK, HoldOK, Moves, HoldSteps, Stored, InTime, Deadline
  <2>6. QED
    BY <2>1, <2>3, <2>4, <2>5 DEF RequestOK, Moves
<1>5. ASSUME NEW x \in Requests, req[x].step \in TicketSteps PROVE ~InTime(x)
  BY <1>1, <1>5, TicketIsLate
<1>6. ASSUME NEW x \in Requests, x # r PROVE RequestOK(x)'
  <2>1. RequestOK(x) /\ req'[x] = req[x]
    BY <1>6 DEF IInv, Moves
  <2>2. req[x].step \in TicketSteps => ~InTime(x)
    BY <1>5
  <2>3. Running(x) => TicketOK(x)'
    BY <2>1, <2>2 DEF RequestOK, TicketOK, InTime, Deadline, TicketSteps
  <2>4. QED
    BY <2>1, <2>3 DEF RequestOK, TimesOK, AnswerOK, HoldOK, InTime, Deadline, Running, Stored,
       historyVars
<1>7. ASSUME NEW x \in Requests, NEW y \in Requests, x # y PROVE Alone(x, y)'
  BY <1>5, <1>7 DEF IInv, Alone, Moves, InTime, Deadline, HoldSteps
<1>8. MappingOK' /\ FormOK'
  <2>1. lookedUpAt < now + (Budget - ResultBudget)
    BY <1>1, <1>3, Budgets
  <2>2. QED
    BY <2>1 DEF IInv, MappingOK, FormOK, Creating, SuccessIsBound, workerVars, historyVars
<1>9. QED
  BY <1>2, <1>4, <1>6, <1>7, <1>8 DEF IInv

LEMMA ReserveKeeps ==
  ASSUME IInv, NEW r \in Requests, Reserve(r)
  PROVE  IInv'
<1>1. req[r].step = "reserve" /\ Typed
      /\ UNCHANGED <<clock, form, login, result, workerVars, source, historyVars, crashes>>
  BY DEF Reserve, IInv
<1>2. PICK now \in Now(r) :
        \/ /\ Rested(now) /\ validatedAt' = now
           /\ Goto(r, [Kept(r) EXCEPT !.step = "lookup", !.ticket = now])
        \/ Persisting(r, "limited") /\ UNCHANGED validatedAt
  BY Zenon DEF Reserve
<1>3. CASE /\ Rested(now) /\ validatedAt' = now
           /\ Goto(r, [Kept(r) EXCEPT !.step = "lookup", !.ticket = now])
  <2>1. now \in Int
    BY <1>1, NowIsPast
  <2>2. "lookup" \in CallbackSteps
    BY Zenon DEF CallbackSteps
  <2>3. Moved(r, "lookup", 0, 0, now, "", "")
    BY <1>1, <1>3, <2>1, <2>2, TicketGoes, Zenon
  <2>4. Moves(r) /\ req'[r].step = "lookup" /\ req'[r].ticket = now
    BY <2>3, Zenon DEF Moved, Moves
  <2>5. QED
    BY <1>1, <1>3, <2>4, TicketKeeps, Zenon
<1>4. CASE Persisting(r, "limited") /\ UNCHANGED validatedAt
  BY <1>1, <1>4, PersistingKeeps DEF requestOnly, stateVars, HoldSteps, Toasts
<1>5. QED
  BY <1>2, <1>3, <1>4, Zenon

LEMMA LookupKeeps ==
  ASSUME IInv, NEW r \in Requests, req[r].step = "lookup", clock < Deadline(r) - ResultBudget,
         Moves(r), req'[r].step = "asked", req'[r].ticket = req[r].ticket, lookedUpAt' = clock,
         UNCHANGED <<clock, stateVars, result, workerVars, everBound>>
  PROVE  IInv'
<1>1. clock \in Nat /\ req[r].start \in Nat /\ validatedAt \in Int /\ req[r].ticket \in Int
  BY RequestIsTyped DEF IInv, Typed
<1>2. InTime(r)
  BY <1>1, Budgets DEF InTime, Deadline
<1>3. RequestOK(r) /\ Running(r)
  BY DEF IInv, Running
<1>4. req[r].start <= req[r].ticket /\ req[r].ticket = validatedAt
  BY <1>2, <1>3 DEF RequestOK, TimesOK, TicketOK, TicketSteps
<1>5. Typed'
  BY DEF IInv, Typed, Moves, stateVars, workerVars
<1>6. RequestOK(r)'
  <2>1. TimesOK(r)' /\ TicketOK(r)'
    BY <1>3, <1>4 DEF RequestOK, TimesOK, TicketOK, Moves, TicketSteps, stateVars
  <2>2. HoldOK(r)'
    BY <1>3 DEF RequestOK, HoldOK, Moves, HoldSteps, Stored, InTime, Deadline
  <2>3. AnswerOK(r)'
    BY <1>3 DEF RequestOK, AnswerOK, Moves, stateVars
  <2>4. QED
    BY <1>3, <2>1, <2>2, <2>3 DEF RequestOK, Moves
<1>7. ASSUME NEW x \in Requests, x # r PROVE RequestOK(x)'
  <2>1. RequestOK(x) /\ req'[x] = req[x] /\ Alone(x, r)
    BY <1>7 DEF IInv, Moves
  <2>2. req[x].step = "lookup" => ~InTime(x)
    BY <1>2, <2>1 DEF Alone, TicketSteps
  <2>3. TicketOK(x)' \/ ~Running(x)
    BY <2>1, <2>2 DEF RequestOK, TicketOK, InTime, Deadline, stateVars
  <2>4. QED
    BY <2>1, <2>3 DEF RequestOK, TimesOK, AnswerOK, HoldOK, InTime, Deadline, Running, Stored,
       stateVars
<1>8. ASSUME NEW x \in Requests, NEW y \in Requests, x # y PROVE Alone(x, y)'
  BY <1>8 DEF IInv, Alone, Moves, InTime, Deadline, HoldSteps, TicketSteps
<1>9. MappingOK' /\ FormOK'
  <2>1. clock < validatedAt + (Budget - ResultBudget)
    BY <1>1, <1>4, Budgets DEF Deadline
  <2>2. QED
    BY <2>1 DEF IInv, MappingOK, FormOK, Creating, SuccessIsBound, stateVars, workerVars
<1>10. QED
  BY <1>5, <1>6, <1>7, <1>8, <1>9 DEF IInv

LEMMA AskGithubKeeps ==
  ASSUME IInv, NEW r \in Requests, AskGithub(r)
  PROVE  IInv'
<1>1. req[r].step = "lookup" /\ Typed
      /\ UNCHANGED <<clock, stateVars, result, workerVars, source, everBound, crashes>>
  BY DEF AskGithub, IInv
<1>2. \/ /\ clock < Deadline(r) - ResultBudget /\ lookedUpAt' = clock
         /\ Goto(r, [Kept(r) EXCEPT !.step = "asked", !.until = Until(r),
                                    !.ticket = req[r].ticket])
      \/ Persisting(r, "temporary") /\ UNCHANGED lookedUpAt
  BY Zenon DEF AskGithub
<1>3. Until(r) \in Int /\ req[r].ticket \in Int
  <2>1. req[r].start \in Int /\ req[r].ticket \in Int /\ clock \in Int
    BY <1>1, RequestIsTyped DEF Typed
  <2>2. QED
    BY <2>1, Budgets DEF Until, Deadline
<1>4. CASE /\ clock < Deadline(r) - ResultBudget /\ lookedUpAt' = clock
           /\ Goto(r, [Kept(r) EXCEPT !.step = "asked", !.until = Until(r),
                                      !.ticket = req[r].ticket])
  <2>1. "asked" \in CallbackSteps
    BY Zenon DEF CallbackSteps
  <2>2. Moved(r, "asked", 0, Until(r), req[r].ticket, "", "")
    BY <1>1, <1>3, <1>4, <2>1, UntilGoes, Zenon
  <2>3. Moves(r) /\ req'[r].step = "asked" /\ req'[r].ticket = req[r].ticket
    BY <2>2, Zenon DEF Moved, Moves
  <2>4. QED
    BY <1>1, <1>4, <2>3, LookupKeeps, Zenon
<1>5. CASE Persisting(r, "temporary") /\ UNCHANGED lookedUpAt
  BY <1>1, <1>5, PersistingKeeps DEF requestOnly, historyVars, HoldSteps, Toasts
<1>6. QED
  BY <1>2, <1>4, <1>5, Zenon

(* The login is stored, and whoever is running has seen it held.           *)
LEMMA BindKeeps ==
  ASSUME IInv, NEW r \in Requests, Bind(r)
  PROVE  IInv'
<1>1. req[r].step = "bind" /\ Running(r) /\ Typed
  BY DEF Bind, Running, IInv
<1>2. PICK d \in Deliveries : req[r].d = {d}
  BY <1>1, OneDelivery
<1>3. PICK l : l = Login[d]
  OBVIOUS
<1>4. /\ login' = l /\ Bound(r, l)
      /\ UNCHANGED <<clock, form, validatedAt, result, workerVars, source, lookedUpAt, crashes>>
  BY <1>2, <1>3 DEF Bind
<1>5. RequestOK(r)
  BY DEF IInv
<1>6. l \in Logins /\ l # ""
  BY <1>1, <1>2, <1>3, <1>5 DEF RequestOK, AnswerOK, Logins
<1>7. /\ Kept(r) \in Request
      /\ Kept(r).d = req[r].d /\ Kept(r).start = req[r].start /\ Kept(r).held = req[r].held
  BY <1>1, KeptTyped
<1>8. PICK k \in Request : k = Kept(r)
  BY <1>7
<1>9. PICK q : q = [k EXCEPT !.step = "persist", !.toast = "success", !.card = l,
                             !.held = @ \cup {l}]
  OBVIOUS
<1>10. q \in Request /\ q.step = "persist" /\ q.toast = "success" /\ q.card = l
       /\ q.d = k.d /\ q.start = k.start /\ q.held = k.held \cup {l}
  BY <1>6, <1>9 DEF Request, CallbackSteps, Toasts
<1>11. req' = [x \in Requests |-> IF x = r THEN q
                                  ELSE IF Running(x) THEN [req[x] EXCEPT !.held = @ \cup {l}]
                                  ELSE req[x]]
  BY <1>4, <1>8, <1>9 DEF Bound
<1>12. /\ req'[r] \in Request /\ req'[r].step = "persist" /\ req'[r].toast = "success"
       /\ req'[r].card = l /\ req'[r].d = req[r].d /\ req'[r].start = req[r].start
       /\ req'[r].held = req[r].held \cup {l}
  BY <1>7, <1>8, <1>10, <1>11
<1>13. ASSUME NEW x \in Requests, x # r, ~Running(x) PROVE req'[x] = req[x]
  BY <1>11, <1>13
<1>14. ASSUME NEW x \in Requests, x # r, Running(x)
       PROVE /\ req'[x] \in Request /\ req'[x].held = req[x].held \cup {l}
             /\ req'[x].step = req[x].step /\ req'[x].d = req[x].d /\ req'[x].start = req[x].start
             /\ req'[x].at = req[x].at /\ req'[x].ticket = req[x].ticket
             /\ req'[x].toast = req[x].toast /\ req'[x].card = req[x].card
  <2>1. PICK o \in Request : o = req[x]
    BY <1>1 DEF Typed
  <2>2. req'[x] = [o EXCEPT !.held = @ \cup {l}]
    BY <1>11, <1>14, <2>1
  <2>3. [o EXCEPT !.held = @ \cup {l}] \in Request
    BY <1>6 DEF Request
  <2>4. QED
    BY <2>1, <2>2, <2>3 DEF Request
<1>15. req' \in [Requests -> Request]
  <2>1. \A x \in Requests : req'[x] \in Request
    BY <1>1, <1>12, <1>13, <1>14 DEF Typed
  <2>2. QED
    BY <1>11, <2>1
<1>16. everBound' = everBound \cup {l}
  BY <1>4 DEF Bound
<1>17. Typed'
  BY <1>1, <1>4, <1>6, <1>15 DEF Typed, workerVars
<1>18. RequestOK(r)'
  <2>1. TimesOK(r)' /\ TicketOK(r)'
    BY <1>1, <1>4, <1>5, <1>12 DEF RequestOK, TimesOK, TicketOK, TicketSteps
  <2>2. HoldOK(r)'
    BY <1>1, <1>4, <1>5, <1>12 DEF RequestOK, HoldOK, HoldSteps, InTime, Deadline, Stored
  <2>3. AnswerOK(r)'
    BY <1>2, <1>3, <1>4, <1>6, <1>12, <1>16 DEF AnswerOK
  <2>4. QED
    BY <1>2, <1>12, <2>1, <2>2, <2>3 DEF RequestOK
<1>19. ASSUME NEW x \in Requests, x # r PROVE RequestOK(x)'
  <2>1. CASE ~Running(x)
    BY <1>13, <1>19, <2>1 DEF RequestOK, Running
  <2>2. CASE Running(x)
    <3>1. RequestOK(x)
      BY DEF IInv
    <3>2. /\ req'[x].held = req[x].held \cup {l}
          /\ req'[x].step = req[x].step /\ req'[x].d = req[x].d /\ req'[x].start = req[x].start
          /\ req'[x].at = req[x].at /\ req'[x].ticket = req[x].ticket
          /\ req'[x].toast = req[x].toast /\ req'[x].card = req[x].card
      BY <1>14, <1>19, <2>2
    <3>3. TimesOK(x)' /\ TicketOK(x)'
      BY <1>4, <2>2, <3>1, <3>2 DEF RequestOK, TimesOK, TicketOK, InTime, Deadline
    <3>4. HoldOK(x)'
      BY <1>4, <2>2, <3>1, <3>2 DEF RequestOK, HoldOK, InTime, Deadline, Stored
    <3>5. AnswerOK(x)'
      BY <1>4, <1>6, <1>16, <2>2, <3>1, <3>2 DEF RequestOK, AnswerOK
    <3>6. QED
      BY <2>2, <3>1, <3>2, <3>3, <3>4, <3>5 DEF RequestOK
  <2>3. QED
    BY <2>1, <2>2
<1>20. \A z \in Requests : /\ req'[z].d = req[z].d /\ req'[z].start = req[z].start
                           /\ req'[z].step \in HoldSteps => req[z].step \in HoldSteps
                           /\ req'[z].step \in TicketSteps => req[z].step \in TicketSteps
  BY <1>1, <1>12, <1>13, <1>14 DEF HoldSteps, TicketSteps
<1>21. ASSUME NEW x \in Requests, NEW y \in Requests, x # y PROVE Alone(x, y)'
  BY <1>4, <1>20, <1>21 DEF IInv, Alone, InTime, Deadline
<1>22. MappingOK' /\ FormOK'
  BY <1>4, <1>6, <1>16 DEF IInv, MappingOK, FormOK, Creating, SuccessIsBound, workerVars
<1>23. QED
  BY <1>17, <1>18, <1>19, <1>21, <1>22 DEF IInv

LEMMA ToastUpdate ==
  ASSUME NEW o \in [toast : Toasts, pendingAt : Int], NEW t \in Toasts
  PROVE  /\ [o EXCEPT !.toast = t] \in [toast : Toasts, pendingAt : Int]
         /\ [o EXCEPT !.toast = t].toast = t
OBVIOUS

LEMMA NoResultTyped == NoResult \in [toast : Toasts, pendingAt : Int]
<1>1. LongAgo - Budget \in Int
  BY Budgets DEF LongAgo
<1>2. QED
  BY <1>1, IdleRequestTyped DEF NoResult

LEMMA OthersPersistLate ==
  ASSUME IInv, NEW r \in Requests, req[r].step = "persist", InTime(r),
         NEW x \in Requests, x # r, req[x].step \in HoldSteps, req[x].d = req[r].d
  PROVE  ~InTime(x)
BY DEF IInv, Alone, HoldSteps

LEMMA PersistKeeps ==
  ASSUME IInv, NEW r \in Requests, Persist(r)
  PROVE  IInv'
<1>1. req[r].step = "persist" /\ InTime(r) /\ Running(r) /\ Typed /\ RequestOK(r)
      /\ UNCHANGED <<clock, stateVars, workerVars, source, historyVars, crashes>>
  BY DEF Persist, Running, IInv
<1>2. PICK d \in Deliveries : req[r].d = {d}
  BY <1>1, OneDelivery
<1>3. req[r].toast \in Toasts /\ req[r].card \in Logins
  BY <1>1, RequestIsTyped
<1>4. PICK n : n = [NoResult EXCEPT !.toast = req[r].toast]
  OBVIOUS
<1>5. n \in [toast : Toasts, pendingAt : Int] /\ n.toast = req[r].toast
  BY <1>3, <1>4, NoResultTyped, ToastUpdate
<1>6. result' = [e \in Deliveries |-> IF e \in req[r].d THEN n ELSE result[e]]
  BY <1>4 DEF Persist
<1>7. /\ result' \in [Deliveries -> [toast : Toasts, pendingAt : Int]]
      /\ result'[d] = n /\ \A e \in Deliveries : e # d => result'[e] = result[e]
  BY <1>1, <1>2, <1>5, <1>6 DEF Typed
<1>8. /\ req' \in [Requests -> Request]
      /\ \A x \in Requests : x # r => req'[x] = req[x]
      /\ \/ req'[r] = IdleRequest
         \/ /\ req[r].toast = "success" /\ req'[r].step = "reply" /\ req'[r].d = req[r].d
            /\ req'[r].start = req[r].start /\ req'[r].card = req[r].card
            /\ req'[r].held = req[r].held
  <2>1. Answering(r, req[r].toast, req[r].card)
    BY DEF Persist
  <2>2. IF req[r].toast = "success"
        THEN Moved(r, "reply", 0, 0, LongAgo, req[r].toast, req[r].card) ELSE Finished(r)
    BY <1>1, <1>3, <2>1, AnsweringGoes
  <2>3. CASE req[r].toast = "success"
    BY <2>2, <2>3, Zenon DEF Moved
  <2>4. CASE req[r].toast # "success"
    BY <2>2, <2>4 DEF Finished
  <2>5. QED
    BY <2>3, <2>4
<1>9. Typed'
  BY <1>1, <1>7, <1>8 DEF Typed, stateVars, workerVars, historyVars
<1>10. RequestOK(r)'
  <2>1. CASE req'[r] = IdleRequest
    BY <2>1, IdleRequestTyped DEF RequestOK, Running
  <2>2. CASE /\ req[r].toast = "success" /\ req'[r].step = "reply" /\ req'[r].d = req[r].d
             /\ req'[r].start = req[r].start /\ req'[r].card = req[r].card
             /\ req'[r].held = req[r].held
    BY <1>1, <2>2 DEF RequestOK, TimesOK, TicketOK, HoldOK, AnswerOK, HoldSteps, TicketSteps,
       stateVars
  <2>3. QED
    BY <1>8, <2>1, <2>2
<1>11. ASSUME NEW x \in Requests, x # r PROVE RequestOK(x)'
  <2>1. SUFFICES ASSUME Running(x) PROVE RequestOK(x)'
    BY <1>8, <1>11 DEF RequestOK, Running
  <2>2. RequestOK(x) /\ req'[x] = req[x]
    BY <1>8, <1>11 DEF IInv
  <2>3. PICK e \in Deliveries : req[x].d = {e}
    BY <2>1, OneDelivery
  <2>4. TimesOK(x)' /\ TicketOK(x)' /\ AnswerOK(x)'
    BY <1>1, <2>1, <2>2 DEF RequestOK, TimesOK, TicketOK, AnswerOK, InTime, Deadline,
       stateVars, historyVars
  <2>5. HoldOK(x)'
    <3>1. CASE e = d
      <4>1. req[x].step \in HoldSteps => ~InTime(x)
        BY <1>1, <1>2, <1>11, <2>3, <3>1, OthersPersistLate
      <4>2. QED
        BY <1>1, <2>2, <4>1 DEF HoldOK, InTime, Deadline
    <3>2. CASE e # d
      <4>1. result'[e] = result[e]
        BY <1>7, <3>2
      <4>2. req[x].step \in HoldSteps /\ InTime(x) =>
              ~Stored(e) /\ req[x].start <= result[e].pendingAt
        BY <2>1, <2>2, <2>3 DEF RequestOK, HoldOK
      <4>3. QED
        BY <1>1, <2>2, <2>3, <4>1, <4>2 DEF HoldOK, InTime, Deadline, Stored
    <3>3. QED
      BY <3>1, <3>2
  <2>6. QED
    BY <2>2, <2>3, <2>4, <2>5 DEF RequestOK
<1>12. ASSUME NEW x \in Requests, NEW y \in Requests, x # y PROVE Alone(x, y)'
  <2>1. \A z \in Requests : /\ req'[z].step \in HoldSteps => req'[z] = req[z]
                            /\ req'[z].step \in TicketSteps => req'[z] = req[z]
    BY <1>8, IdleRequestTyped DEF HoldSteps, TicketSteps
  <2>2. QED
    BY <1>1, <1>12, <2>1 DEF IInv, Alone, InTime, Deadline
<1>13. SuccessIsBound'
  <2>1. req[r].toast = "success" => login # "" /\ Login[d] \in everBound
    BY <1>1, <1>2 DEF RequestOK, AnswerOK
  <2>2. QED
    BY <1>1, <1>5, <1>7, <2>1 DEF IInv, MappingOK, SuccessIsBound, stateVars, historyVars
<1>14. MappingOK' /\ FormOK'
  BY <1>1, <1>13 DEF IInv, MappingOK, FormOK, Creating, stateVars, workerVars, historyVars
<1>15. QED
  BY <1>9, <1>10, <1>11, <1>12, <1>14 DEF IInv

(***************************************************************************)
(* Arrivals, time, crashes and the worker.                                 *)
(***************************************************************************)
LEMMA StartKeeps ==
  ASSUME IInv, NEW r \in Requests, NEW d \in Deliveries, Start(r, d)
  PROVE  IInv'
<1>1. /\ ~Running(r) /\ Typed
      /\ UNCHANGED <<clock, stateVars, result, workerVars, historyVars, crashes>>
  BY DEF Start, IInv
<1>2. clock \in Nat /\ login \in Logins
  BY <1>1 DEF Typed
<1>3. PICK i \in Request : i = IdleRequest /\ i.ticket = LongAgo /\ i.toast = "" /\ i.card = ""
  BY IdleRequestTyped
<1>4. PICK q : q = [i EXCEPT !.step = "claim", !.d = {d}, !.start = clock, !.at = clock,
                             !.held = {login}]
  OBVIOUS
<1>5. q \in Request
  BY <1>2, <1>4 DEF Request, CallbackSteps
<1>6. q.step = "claim" /\ q.d = {d} /\ q.start = clock /\ q.at = clock /\ q.held = {login}
  BY <1>4 DEF Request
<1>7. req' = [req EXCEPT ![r] = q]
  BY <1>3, <1>4 DEF Start
<1>8. req' \in [Requests -> Request] /\ req'[r] = q /\ \A x \in Requests : x # r => req'[x] = req[x]
  BY <1>1, <1>5, <1>7 DEF Typed
<1>9. Typed'
  BY <1>1, <1>8 DEF Typed, stateVars, workerVars, historyVars
<1>10. RequestOK(r)'
  <2>1. TimesOK(r)'
    BY <1>1, <1>2, <1>6, <1>8 DEF TimesOK, TicketSteps
  <2>2. TicketOK(r)' /\ HoldOK(r)'
    BY <1>6, <1>8 DEF TicketOK, HoldOK, HoldSteps, TicketSteps
  <2>3. AnswerOK(r)'
    BY <1>1, <1>6, <1>8 DEF AnswerOK, stateVars
  <2>4. QED
    BY <1>6, <1>8, <2>1, <2>2, <2>3 DEF RequestOK
<1>11. ASSUME NEW x \in Requests PROVE RequestOK(x)'
  BY <1>1, <1>8, <1>10, OthersKeep DEF IInv, stateVars, historyVars
<1>12. ASSUME NEW x \in Requests, NEW y \in Requests, x # y PROVE Alone(x, y)'
  BY <1>1, <1>6, <1>8, <1>12 DEF IInv, Alone, InTime, Deadline, HoldSteps, TicketSteps
<1>13. MappingOK' /\ FormOK'
  BY <1>1 DEF IInv, MappingOK, FormOK, Creating, SuccessIsBound, stateVars, workerVars,
     historyVars
<1>14. QED
  BY <1>9, <1>11, <1>12, <1>13 DEF IInv

(* Time only takes away. *)
LEMMA TickKeeps ==
  ASSUME IInv, Tick
  PROVE  IInv'
<1>1. /\ clock' = clock + 1 /\ Typed
      /\ UNCHANGED <<stateVars, result, workerVars, source, req, historyVars, crashes>>
  BY DEF Tick, IInv
<1>2. clock \in Nat
  BY <1>1 DEF Typed
<1>3. ASSUME NEW x \in Requests PROVE InTime(x)' => InTime(x)
  <2>1. req[x].start \in Nat
    BY <1>1, RequestIsTyped
  <2>2. QED
    BY <1>1, <1>2, <2>1, Budgets DEF InTime, Deadline
<1>4. Typed'
  BY <1>1, <1>2 DEF Typed, stateVars, workerVars, historyVars
<1>5. ASSUME NEW x \in Requests PROVE RequestOK(x)'
  <2>1. RequestOK(x) /\ req'[x] = req[x] /\ req[x].start \in Nat /\ req[x].at \in Nat
        /\ req[x].ticket \in Int
    BY <1>1, RequestIsTyped DEF IInv
  <2>2. Running(x) => TimesOK(x)'
    BY <1>1, <1>2, <2>1 DEF RequestOK, TimesOK
  <2>3. Running(x) => TicketOK(x)' /\ HoldOK(x)'
    BY <1>1, <1>3, <2>1 DEF RequestOK, TicketOK, HoldOK, Stored, stateVars, historyVars
  <2>4. Running(x) => AnswerOK(x)'
    BY <1>1, <2>1 DEF RequestOK, AnswerOK, stateVars, historyVars
  <2>5. QED
    BY <2>1, <2>2, <2>3, <2>4 DEF RequestOK, Running
<1>6. ASSUME NEW x \in Requests, NEW y \in Requests, x # y PROVE Alone(x, y)'
  BY <1>1, <1>3, <1>6 DEF IInv, Alone
<1>7. MappingOK' /\ FormOK'
  BY <1>1 DEF IInv, MappingOK, FormOK, Creating, SuccessIsBound, stateVars, workerVars,
     historyVars
<1>8. QED
  BY <1>4, <1>5, <1>6, <1>7 DEF IInv

LEMMA CrashKeeps ==
  ASSUME IInv, Crash
  PROVE  IInv'
<1>1. /\ worker' = IdleWorker /\ req' = [r \in Requests |-> IdleRequest] /\ Typed
      /\ UNCHANGED <<clock, stateVars, result, sent, lookedUpAt, everBound>>
  BY DEF Crash, IInv
<1>2. PICK i \in Request : i = IdleRequest /\ i.step = "idle"
  BY IdleRequestTyped
<1>3. req' \in [Requests -> Request] /\ \A x \in Requests : req'[x].step = "idle"
  BY <1>1, <1>2
<1>4. worker' \in [step : WorkerSteps, for : SUBSET Entries] /\ worker'.step = "idle"
  BY <1>1 DEF IdleWorker, WorkerSteps
<1>5. Typed'
  BY <1>1, <1>3, <1>4 DEF Typed, stateVars
<1>6. ASSUME NEW x \in Requests PROVE RequestOK(x)'
  BY <1>3 DEF RequestOK, Running
<1>7. ASSUME NEW x \in Requests, NEW y \in Requests PROVE Alone(x, y)'
  BY <1>3 DEF Alone, HoldSteps, TicketSteps
<1>8. MappingOK' /\ FormOK'
  BY <1>1, <1>4 DEF IInv, MappingOK, FormOK, Creating, SuccessIsBound, stateVars
<1>9. QED
  BY <1>5, <1>6, <1>7, <1>8 DEF IInv

(* What the worker does concerns the callbacks only by the form. *)
LEMMA WorkerKeeps ==
  ASSUME IInv, form' \in Nat, sent' \in Nat,
         worker' \in [step : WorkerSteps, for : SUBSET Entries], FormOK',
         UNCHANGED <<clock, login, validatedAt, result, req, historyVars>>
  PROVE  IInv'
<1>1. Typed'
  BY DEF IInv, Typed, historyVars
<1>2. ASSUME NEW x \in Requests PROVE RequestOK(x)'
  BY OthersKeep DEF IInv, historyVars
<1>3. ASSUME NEW x \in Requests, NEW y \in Requests, x # y PROVE Alone(x, y)'
  BY <1>3 DEF IInv, Alone, InTime, Deadline
<1>4. MappingOK'
  BY DEF IInv, MappingOK, SuccessIsBound, historyVars
<1>5. QED
  BY <1>1, <1>2, <1>3, <1>4 DEF IInv

LEMMA WorkerMoves ==
  ASSUME NEW w \in [step : WorkerSteps, for : SUBSET Entries], NEW s \in WorkerSteps
  PROVE  /\ [w EXCEPT !.step = s] \in [step : WorkerSteps, for : SUBSET Entries]
         /\ [w EXCEPT !.step = s].step = s
OBVIOUS

LEMMA CarryOutTyped ==
  ASSUME Typed, CarryOut \/ UNCHANGED <<sent, uuid>>
  PROVE  sent' \in Nat
BY DEF Typed, CarryOut

LEMMA WorkerStepKeeps ==
  ASSUME IInv, WorkerStep \/ StopWorker \/ ForgetUuid \/ \E e \in Entries : Enter(e)
  PROVE  IInv'
<1> DEFINE W == [step : WorkerSteps, for : SUBSET Entries]
<1>1. worker \in W /\ form \in Nat /\ sent \in Nat /\ Typed /\ (Creating => form = 0)
  BY DEF IInv, Typed, FormOK
<1>2. IdleWorker \in W /\ [step |-> "stopped", for |-> {}] \in W
  BY DEF IdleWorker, WorkerSteps
<1>3. CASE \E e \in Entries : Take(e)
  <2>1. PICK e \in Entries : Take(e)
    BY <1>3
  <2>2. worker' = [step |-> IF form # 0 \/ login # "" THEN "delete" ELSE "create", for |-> {e}]
        /\ UNCHANGED <<clock, form, login, sent, validatedAt, result, req, historyVars>>
    BY <2>1 DEF Take, stateVars
  <2>3. worker' \in W /\ FormOK'
    BY <1>1, <2>2 DEF WorkerSteps, FormOK, Creating
  <2>4. QED
    BY <1>1, <2>2, <2>3, WorkerKeeps
<1>4. CASE Create
  <2>1. worker' \in W /\ worker'.step = "record"
    BY <1>1, <1>4, WorkerMoves DEF Create, WorkerSteps
  <2>2. QED
    BY <1>1, <1>4, <2>1, CarryOutTyped, WorkerKeeps DEF Create, FormOK, Creating, stateVars
<1>5. CASE ReserveFails
  <2>1. worker' \in W /\ worker'.step = "create_slotless" /\ worker.step = "create"
    BY <1>1, <1>5, WorkerMoves DEF ReserveFails, WorkerSteps
  <2>2. QED
    BY <1>1, <1>5, <2>1, WorkerKeeps DEF ReserveFails, FormOK, Creating, stateVars
<1>6. CASE CreateFails
  BY <1>1, <1>2, <1>6, CarryOutTyped, WorkerKeeps
     DEF CreateFails, FormOK, Creating, IdleWorker, stateVars
<1>7. CASE Record
  <2>1. form' \in Nat /\ worker' \in W /\ worker'.step \in {"delete", "stopped"}
    BY <1>1, <1>2, <1>7, WorkerMoves DEF Record, WorkerSteps
  <2>2. QED
    BY <1>1, <1>7, <2>1, WorkerKeeps DEF Record, FormOK, Creating
<1>8. CASE DeleteItem
  BY <1>1, <1>2, <1>8, WorkerKeeps DEF DeleteItem, FormOK, Creating, IdleWorker, stateVars
<1>9. CASE StopWorker
  BY <1>1, <1>2, <1>9, WorkerKeeps DEF StopWorker, FormOK, Creating, stateVars
<1>10. CASE ForgetUuid \/ \E e \in Entries : Enter(e)
  BY <1>1, <1>10, WorkerKeeps DEF ForgetUuid, Enter, FormOK, Creating, stateVars
<1>11. QED
  BY <1>3, <1>4, <1>5, <1>6, <1>7, <1>8, <1>9, <1>10 DEF WorkerStep

(***************************************************************************)
(* The theorems.                                                           *)
(***************************************************************************)
LEMMA InitOK ==
  ASSUME Init
  PROVE  IInv
<1>1. PICK i \in Request : i = IdleRequest /\ i.step = "idle"
  BY IdleRequestTyped
<1>2. req \in [Requests -> Request] /\ \A x \in Requests : req[x].step = "idle"
  BY <1>1 DEF Init
<1>3. PICK n \in [toast : Toasts, pendingAt : Int] : n = NoResult /\ n.toast = ""
  BY NoResultTyped DEF NoResult
<1>4. result \in [Deliveries -> [toast : Toasts, pendingAt : Int]]
      /\ \A d \in Deliveries : result[d].toast = ""
  BY <1>3 DEF Init
<1>5. worker \in [step : WorkerSteps, for : SUBSET Entries] /\ worker.step = "idle"
  BY DEF Init, IdleWorker, WorkerSteps
<1>6. Typed
  <2>1. sent \in Nat /\ form \in Nat /\ clock \in Nat
    BY DEF Init
  <2>2. validatedAt \in Int /\ lookedUpAt \in Int /\ login \in Logins
    BY IdleRequestTyped DEF Init
  <2>3. QED
    BY <1>2, <1>4, <1>5, <2>1, <2>2 DEF Typed
<1>7. ASSUME NEW x \in Requests PROVE RequestOK(x)
  BY <1>2 DEF RequestOK, Running
<1>8. ASSUME NEW x \in Requests, NEW y \in Requests PROVE Alone(x, y)
  BY <1>2 DEF Alone, HoldSteps, TicketSteps
<1>9. MappingOK
  <2>1. lookedUpAt < validatedAt + (Budget - ResultBudget)
    <3>1. validatedAt = LongAgo /\ lookedUpAt = LongAgo /\ LongAgo \in Int
      BY IdleRequestTyped DEF Init
    <3>2. QED
      BY <1>6, <3>1, Budgets DEF Typed
  <2>2. QED
    BY <1>4, <2>1 DEF Init, MappingOK, SuccessIsBound
<1>10. FormOK
  BY <1>5 DEF FormOK, Creating
<1>11. QED
  BY <1>6, <1>7, <1>8, <1>9, <1>10 DEF IInv

LEMMA NextKeeps ==
  ASSUME IInv, [Next]_vars
  PROVE  IInv'
<1>1. CASE \E e \in Entries : Enter(e)
  BY <1>1, WorkerStepKeeps
<1>2. CASE WorkerStep \/ StopWorker \/ ForgetUuid
  BY <1>2, WorkerStepKeeps
<1>3. CASE \E r \in Requests, d \in Deliveries : Start(r, d)
  BY <1>3, StartKeeps
<1>4. ASSUME NEW r \in Requests, RequestStep(r) \/ StateFails(r) \/ GiveUp(r) PROVE IInv'
  BY <1>4, ClaimKeeps, WaitKeeps, ReplayKeeps, CheckKeeps, ReserveKeeps, AskGithubKeeps,
     GithubAnswersKeeps, GithubTooLateKeeps, BindKeeps, PersistKeeps, StateFailsKeeps, EndsKeep
     DEF RequestStep
<1>5. CASE Tick
  BY <1>5, TickKeeps
<1>6. CASE Crash
  BY <1>6, CrashKeeps
<1>7. CASE UNCHANGED vars
  BY <1>7, WorkerKeeps DEF vars, stateVars, workerVars, IInv, Typed, FormOK, Creating
<1>8. QED
  BY <1>1, <1>2, <1>3, <1>4, <1>5, <1>6, <1>7 DEF Next

(* The inductive invariant: types, what each request knows and holds, that no *)
(* two requests in time hold the same claim or the last validation, and that *)
(* the form is unrecorded while one is being sent.                         *)
THEOREM OnboardingInvariant == Spec => []IInv
<1>1. Init => IInv
  BY InitOK
<1>2. IInv /\ [Next]_vars => IInv'
  BY NextKeeps
<1>3. QED
  BY <1>1, <1>2, PTL DEF Spec

(* A success card shows a login that the store held while its callback was *)
(* being served: the login stays among those the request has seen held, from *)
(* the check, the bind or the replay to the answer.                        *)
THEOREM OnboardingCardIsCurrent == Spec => []CardIsCurrent
<1>1. IInv => CardIsCurrent
  BY DEF IInv, CardIsCurrent, RequestOK, Running, AnswerOK
<1>2. QED
  BY <1>1, OnboardingInvariant, PTL

(* A durable success is never ahead of the mapping.                        *)
THEOREM OnboardingSuccessIsBound == Spec => []SuccessIsBound
<1>1. IInv => SuccessIsBound
  BY DEF IInv, MappingOK
<1>2. QED
  BY <1>1, OnboardingInvariant, PTL

LEMMA ResultStays ==
  ASSUME IInv, [Next]_vars, NEW d \in Deliveries, Stored(d)
  PROVE  result'[d] = result[d]
<1>1. ASSUME NEW r \in Requests, Claim(r) PROVE result'[d] = result[d]
  <2>1. PICK e \in req[r].d, now \in Now(r) :
          \/ Claimable(e, now) /\ result' = [result EXCEPT ![e].pendingAt = now]
          \/ UNCHANGED result
    BY <1>1, Zenon DEF Claim
  <2>2. CASE Claimable(e, now) /\ result' = [result EXCEPT ![e].pendingAt = now]
    <3>1. d # e
      BY <2>2 DEF Claimable
    <3>2. QED
      BY <2>2, <3>1 DEF IInv, Typed
  <2>3. QED
    BY <2>1, <2>2
<1>2. ASSUME NEW r \in Requests, Persist(r) PROVE result'[d] = result[d]
  <2>1. req[r].step = "persist" /\ InTime(r)
    BY <1>2 DEF Persist
  <2>2. d \notin req[r].d
    BY <2>1 DEF IInv, RequestOK, Running, HoldOK, HoldSteps
  <2>3. QED
    BY <1>2, <2>2 DEF Persist
<1>3. ASSUME ~(\E r \in Requests : Claim(r) \/ Persist(r)) PROVE UNCHANGED result
  BY <1>3 DEF Next, WorkerStep, RequestStep, vars, requestOnly, Enter, Take, Create,
     ReserveFails,
     CreateFails, Record, DeleteItem, StopWorker, ForgetUuid, Start, Wait, Replay, Check,
              Reserve,
     AskGithub, GithubAnswers, GithubTooLate, Bind, Reply, StateFails, GiveUp, Tick, Crash
<1>4. QED
  BY <1>1, <1>2, <1>3

(* A stored result stays, although storing replaces whatever is there: who *)
(* stores is in time and holds the claim, hence nobody has stored before.  *)
THEOREM OnboardingResultIsFinal == Spec => ResultIsFinal
<1>1. IInv /\ [Next]_vars => [\A d \in Deliveries : Stored(d) => result'[d] = result[d]]_vars
  BY ResultStays
<1>2. QED
  BY <1>1, OnboardingInvariant, PTL DEF Spec, ResultIsFinal

(* Only Bind changes the login. *)
LEMMA LoginBinds ==
  ASSUME [Next]_vars, login' # login
  PROVE  \E r \in Requests : Bind(r)
BY DEF Next, WorkerStep, RequestStep, vars, requestOnly, stateVars, Enter, Take, Create,
   ReserveFails, CreateFails, Record, DeleteItem, StopWorker, ForgetUuid, Start, Claim, Wait,
   Replay, Check, Reserve, AskGithub, GithubAnswers, GithubTooLate, Persist, Reply, StateFails,
   GiveUp, Tick, Crash

LEMMA BindIsLatest ==
  ASSUME IInv, NEW r \in Requests, Bind(r)
  PROVE  /\ req[r].step = "bind" /\ req[r].ticket = validatedAt
         /\ \E d \in req[r].d : d \in Deliveries /\ form # 0 /\ source[d] = form
                                   /\ login' = Login[d]
<1>1. req[r].step = "bind" /\ InTime(r) /\ Running(r)
  BY DEF Bind, Running
<1>2. req[r].ticket = validatedAt
  BY <1>1 DEF IInv, RequestOK, TicketOK, TicketSteps
<1>3. \E d \in req[r].d : d \in Deliveries /\ form # 0 /\ source[d] = form /\ login' = Login[d]
  BY <1>1, OneDelivery DEF Bind, OwnsForm
<1>4. QED
  BY <1>1, <1>2, <1>3

(* The login only changes to the one the last reserved validation was about, *)
(* submitted on the recorded form: with Budget < Cooldown an earlier       *)
(* validation is out of time when a later one is reserved.                 *)
THEOREM OnboardingLatestValidationBinds == Spec => LatestValidationBinds
<1>1. IInv /\ [Next]_vars =>
        [login' # login =>
           \E r \in Requests :
             /\ req[r].step = "bind" /\ req[r].ticket = validatedAt
             /\ \E d \in req[r].d : source[d] = form /\ login' = Login[d]]_vars
  BY LoginBinds, BindIsLatest
<1>2. QED
  BY <1>1, OnboardingInvariant, PTL DEF Spec, LatestValidationBinds

LEMMA LookupAsks ==
  ASSUME [Next]_vars, lookedUpAt' # lookedUpAt
  PROVE  \E r \in Requests : AskGithub(r)
BY DEF Next, WorkerStep, RequestStep, vars, requestOnly, historyVars, Enter, Take, Create,
   ReserveFails, CreateFails, Record, DeleteItem, StopWorker, ForgetUuid, Start, Claim, Wait,
   Replay, Check, Reserve, Bind, GithubAnswers, GithubTooLate, Persist, Reply, StateFails,
   GiveUp, Tick, Crash

LEMMA LookupIsSpaced ==
  ASSUME IInv, NEW r \in Requests, AskGithub(r), lookedUpAt' # lookedUpAt
  PROVE  lookedUpAt' - lookedUpAt > Cooldown - (Budget - ResultBudget)
<1>1. /\ req[r].step = "lookup" /\ Running(r)
      /\ clock < Deadline(r) - ResultBudget /\ lookedUpAt' = clock
  BY Zenon DEF AskGithub, Running
<1>2. /\ req[r].start \in Nat /\ req[r].ticket \in Int /\ clock \in Nat /\ lookedUpAt \in Int
  BY RequestIsTyped DEF IInv, Typed
<1>3. InTime(r)
  BY <1>1, <1>2, Budgets DEF InTime, Deadline
<1>4. lookedUpAt + Cooldown < req[r].ticket + (Budget - ResultBudget) /\ req[r].ticket <= clock
  BY <1>1, <1>3 DEF IInv, RequestOK, TicketOK, TimesOK, TicketSteps
<1>5. QED
  BY <1>1, <1>2, <1>4, Budgets

(* Two lookups are further apart than the cooldown less what a request may *)
(* spend between its reservation and its lookup.                           *)
THEOREM OnboardingLookupsSpaced == Spec => LookupsSpaced
<1>1. IInv /\ [Next]_vars =>
        [lookedUpAt' # lookedUpAt =>
           lookedUpAt' - lookedUpAt > Cooldown - (Budget - ResultBudget)]_vars
  BY LookupAsks, LookupIsSpaced
<1>2. QED
  BY <1>1, OnboardingInvariant, PTL DEF Spec, LookupsSpaced

LEMMA FormStays ==
  ASSUME IInv, [Next]_vars, form # 0
  PROVE  sent' = sent /\ form' = form
<1>1. ~Creating
  BY DEF IInv, FormOK
<1>2. CASE Record
  BY <1>2 DEF Record
<1>3. CASE ~Record
  BY <1>1, <1>3 DEF Next, WorkerStep, RequestStep, vars, requestOnly, stateVars, workerVars,
     Enter,
     Take, Create, ReserveFails, CreateFails, DeleteItem, StopWorker, ForgetUuid, Start, Claim,
     Wait, Replay, Check, Reserve, AskGithub, GithubAnswers, GithubTooLate, Bind, Persist,
              Reply,
     StateFails, GiveUp, Tick, Crash
<1>4. QED
  BY <1>2, <1>3

(* A recorded form stays, no other is sent, and only its submissions bind. *)
THEOREM OnboardingOneForm == Spec => OneForm
<1>1. IInv /\ [Next]_vars =>
        [/\ form # 0 => sent' = sent /\ form' = form
         /\ login' # login =>
              \E d \in Deliveries : form # 0 /\ source[d] = form /\ login' = Login[d]]_vars
  BY FormStays, LoginBinds, BindIsLatest
<1>2. QED
  BY <1>1, OnboardingInvariant, PTL DEF Spec, OneForm
================================================================================
