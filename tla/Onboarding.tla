------------------------------ MODULE Onboarding ------------------------------
(***************************************************************************)
(* Onboarding of one Lark user.  The worker sends the GitHub username form *)
(* for an entered event (internal/forwarder/onboarding.go); submissions of *)
(* the form come back as card callbacks, each served by a goroutine that   *)
(* has to answer within a budget (internal/larkcallback).  Redeliveries of *)
(* a callback meet each other at its claim, different callbacks at the     *)
(* user's validation cooldown, and all of them at the stored login.        *)
(*                                                                         *)
(* Time is a counter of ticks.  The code reads the time before it waits    *)
(* for the database's single writer, and checks its deadline inside the    *)
(* transaction: hence Now for the one and InTime for the other.            *)
(***************************************************************************)
EXTENDS Integers, FiniteSets

CONSTANTS
  HasForm,        (* the user got the form before                            *)
  Entries,        (* the user's entered events in the queue                  *)
  MaxAttempts,    (* MAX_ATTEMPTS                                            *)
  Deliveries,     (* callback deliveries                                     *)
  Login,          (* Login[d]: the submitted login, "" when malformed        *)
  Requests,       (* slots for callbacks in flight                           *)
  Budget,         (* callbackBudget                                          *)
  Guard,          (* callbackCommitGuard                                     *)
  LookupBudget,   (* githubLookupBudget                                      *)
  ResultBudget,   (* callbackResultPersistenceBudget                         *)
  Cooldown,       (* the minute between two validations                      *)
  ClockBound,     (* bound of the model: the last tick                       *)
  FormBound,      (* bound of the model: form messages                       *)
  CrashBound      (* bound of the model: crashes                             *)

ASSUME BudgetsAssumption ==
  /\ {Budget, Guard, LookupBudget, ResultBudget, Cooldown} \subseteq Nat
  /\ Guard < ResultBudget /\ ResultBudget < Budget /\ Budget < Cooldown

VARIABLES
  clock,
  form,           (* FormMessageID of the user's state, 0 for none           *)
  login,          (* GitHubLogin of the user's state, "" for none            *)
  validatedAt,    (* LastValidationAt                                        *)
  result,         (* result[d]: the stored OnboardingCallbackResult          *)
  entry,          (* entry[e]: "absent", "queued", "done" or "dead"          *)
  attempts,       (* attempts[e]: failures counted on e                      *)
  worker,         (* what the worker does next, and for which entry          *)
  sent,           (* form messages the user has got, numbered 1..sent        *)
  uuid,           (* the form Lark still knows by its UUID, 0 for none       *)
  source,         (* source[d]: the form d was submitted on, 0 before        *)
  req,            (* req[r]: the callback goroutine r; its field held is a   *)
                  (* history, the logins stored while it was running         *)
  lookedUpAt,     (* history: when the last lookup was started               *)
  everBound,      (* history: logins ever stored                             *)
  crashes         (* crashes so far                                          *)

stateVars == <<form, login, validatedAt>>
workerVars == <<entry, attempts, worker, sent, uuid>>
historyVars == <<lookedUpAt, everBound>>
vars == <<clock, stateVars, result, workerVars, source, req, historyVars, crashes>>

LongAgo == -Cooldown
NoResult == [toast |-> "", pendingAt |-> LongAgo - Budget]
IdleWorker == [step |-> "idle", for |-> {}]
IdleRequest == [step |-> "idle", d |-> {}, start |-> 0, at |-> 0, until |-> 0,
                ticket |-> LongAgo, toast |-> "", card |-> "", held |-> {}]

Init ==
  /\ clock = 0
  /\ sent = IF HasForm THEN 1 ELSE 0
  /\ form = sent /\ login = "" /\ validatedAt = LongAgo
  /\ result = [d \in Deliveries |-> NoResult]
  /\ entry = [e \in Entries |-> "absent"] /\ attempts = [e \in Entries |-> 0]
  /\ worker = IdleWorker /\ uuid = 0
  /\ source = [d \in Deliveries |-> 0]
  /\ req = [r \in Requests |-> IdleRequest]
  /\ lookedUpAt = LongAgo /\ everBound = {}
  /\ crashes = 0

(***************************************************************************)
(* The worker: sendOnboarding.                                             *)
(***************************************************************************)
Enter(e) ==
  /\ entry[e] = "absent"
  /\ entry' = [entry EXCEPT ![e] = "queued"]
  /\ UNCHANGED <<clock, stateVars, result, attempts, worker, sent, uuid, source, req,
                 historyVars, crashes>>

(* Mutant: the user's state is not consulted before the form is sent. *)
TakeAlways(e) ==
  /\ worker.step = "idle" /\ entry[e] = "queued"
  /\ worker' = [step |-> "create", for |-> {e}]
  /\ UNCHANGED <<clock, stateVars, result, entry, attempts, sent, uuid, source, req,
                 historyVars, crashes>>

(* A user with a form or a login gets no other form. *)
Take(e) ==
  /\ worker.step = "idle" /\ entry[e] = "queued"
  /\ worker' = [step |-> IF form # 0 \/ login # "" THEN "delete" ELSE "create", for |-> {e}]
  /\ UNCHANGED <<clock, stateVars, result, entry, attempts, sent, uuid, source, req,
                 historyVars, crashes>>

(* CreateInteractiveToOpenID as Lark carries it out: the UUID is made of   *)
(* the user's open_id, so a form that Lark remembers is not sent again.    *)
CarryOut ==
  IF uuid # 0 THEN UNCHANGED <<sent, uuid>>
  ELSE sent < FormBound /\ sent' = sent + 1 /\ uuid' = sent + 1

(* The slot for the request may have failed to be reserved, see below.      *)
Creating == worker.step \in {"create", "create_slotless"}

Create ==
  /\ Creating
  /\ CarryOut
  /\ worker' = [worker EXCEPT !.step = "record"]
  /\ UNCHANGED <<clock, stateVars, result, entry, attempts, source, req, historyVars, crashes>>

(* Mutant: a failure is not counted. *)
CountNothing(e) ==
  /\ attempts' = attempts
  /\ entry' = [entry EXCEPT ![e] = IF attempts[e] + 1 >= MaxAttempts THEN "dead" ELSE @]

(* HandleFailure: one more attempt, and a dead letter after the last; what  *)
(* is a dead letter already stays as it is.                                 *)
CountFailure(e) ==
  IF entry[e] # "queued" THEN UNCHANGED <<attempts, entry>>
  ELSE /\ attempts' = [attempts EXCEPT ![e] = @ + 1]
       /\ entry' = [entry EXCEPT ![e] = IF attempts[e] + 1 >= MaxAttempts THEN "dead" ELSE @]

(* The slot cannot be reserved: a failure is counted, and the request is    *)
(* made all the same (onboardingFailure tells its caller to go on).         *)
ReserveFails ==
  /\ worker.step = "create"
  /\ \E e \in worker.for : CountFailure(e)
  /\ worker' = [worker EXCEPT !.step = "create_slotless"]
  /\ UNCHANGED <<clock, stateVars, result, sent, uuid, source, req, historyVars, crashes>>

(* The request is rejected, or carried out and its answer lost. *)
CreateFails ==
  /\ Creating
  /\ CarryOut \/ UNCHANGED <<sent, uuid>>
  /\ \E e \in worker.for :
       \/ CountFailure(e)
       \/ attempts' = attempts /\ entry' = [entry EXCEPT ![e] = "dead"]  (* Permanent *)
  /\ worker' = IdleWorker
  /\ UNCHANGED <<clock, stateVars, result, source, req, historyVars, crashes>>

(* SetOnboardingForm: the same message again is fine, another one is not.  *)
Record ==
  /\ worker.step = "record"
  /\ IF form \in {0, sent}
     THEN form' = sent /\ worker' = [worker EXCEPT !.step = "delete"]
     ELSE form' = form /\ worker' = [step |-> "stopped", for |-> {}]
  /\ UNCHANGED <<clock, login, validatedAt, result, entry, attempts, sent, uuid, source, req,
                 historyVars, crashes>>

DeleteItem ==
  /\ worker.step = "delete"
  /\ entry' = [e \in Entries |->
                 IF e \in worker.for /\ entry[e] = "queued" THEN "done" ELSE entry[e]]
  /\ worker' = IdleWorker
  /\ UNCHANGED <<clock, stateVars, result, attempts, sent, uuid, source, req,
                 historyVars, crashes>>

(* A failed record or delete ends Run for the rest of the process. *)
StopWorker ==
  /\ worker.step \in {"record", "delete"}
  /\ worker' = [step |-> "stopped", for |-> {}]
  /\ UNCHANGED <<clock, stateVars, result, entry, attempts, sent, uuid, source, req,
                 historyVars, crashes>>

(* Lark remembers UUIDs for a limited time. *)
ForgetUuid ==
  /\ uuid # 0
  /\ uuid' = 0
  /\ UNCHANGED <<clock, stateVars, result, entry, attempts, worker, sent, source, req,
                 historyVars, crashes>>

(***************************************************************************)
(* Callbacks: the deadline of a request and its steps.                     *)
(***************************************************************************)
Running(r) == req[r].step # "idle"
Deadline(r) == req[r].start + Budget

(* ctx.Err() = nil *)
Alive(r) == clock < Deadline(r)

(* contextCommitErr = nil, asked inside the transaction. *)
InTime(r) == Deadline(r) - clock > Guard

(* What time.Now() may have returned before the step's transaction began.  *)
Now(r) == req[r].at .. clock

Stored(d) == result[d].toast # ""

(* Mutant: any form will do. *)
OwnsAnyForm(d) == form # 0

(* The submission was made on the form that the store has for the user.    *)
OwnsForm(d) == form # 0 /\ source[d] = form

(* The request moves on; what only the last step needed is forgotten.      *)
Kept(r) == [IdleRequest EXCEPT !.d = req[r].d, !.start = req[r].start, !.held = req[r].held]

Goto(r, q) == req' = [req EXCEPT ![r] = q]

Step(r, s) == Goto(r, [Kept(r) EXCEPT !.step = s])
Persisting(r, toast) == Goto(r, [Kept(r) EXCEPT !.step = "persist", !.toast = toast])
PersistingSuccess(r, l) ==
  Goto(r, [Kept(r) EXCEPT !.step = "persist", !.toast = "success", !.card = l])

(* The callback is answered with a toast and its slot is free again.       *)
Finish(r) == Goto(r, IdleRequest)

(* Only a success carries a card; serve still has to write it.             *)
Answering(r, toast, card) ==
  IF toast = "success"
  THEN Goto(r, [Kept(r) EXCEPT !.step = "reply", !.toast = toast, !.card = card])
  ELSE Finish(r)

requestOnly == <<clock, stateVars, result, workerVars, source, historyVars, crashes>>

(* A callback arrives, the first time from a form the user has got.  It is *)
(* archived and admitted as in Admission, on which nothing here depends.   *)
Start(r, d) ==
  /\ ~Running(r)
  /\ clock + Budget <= ClockBound
  /\ IF source[d] # 0 THEN UNCHANGED source
     ELSE \E f \in 1..sent : source' = [source EXCEPT ![d] = f]
  /\ req' = [req EXCEPT ![r] = [IdleRequest EXCEPT !.step = "claim", !.d = {d}, !.start = clock,
                                                   !.at = clock, !.held = {login}]]
  /\ UNCHANGED <<clock, stateVars, result, workerVars, historyVars, crashes>>

(* Mutant: a claim goes stale while its holder may still act. *)
ClaimableEarly(d, now) == ~Stored(d) /\ result[d].pendingAt + Guard <= now

(* A pending claim can be taken over once its holder's budget is spent. *)
Claimable(d, now) == ~Stored(d) /\ result[d].pendingAt + Budget <= now

Claim(r) ==
  /\ req[r].step = "claim" /\ InTime(r)
  /\ \E d \in req[r].d, now \in Now(r) :
       \/ /\ Claimable(d, now)
          /\ result' = [result EXCEPT ![d].pendingAt = now]
          /\ Step(r, "check")
       \/ /\ Stored(d)
          /\ Goto(r, [Kept(r) EXCEPT !.step = "replay", !.toast = result[d].toast])
          /\ UNCHANGED result
       \/ /\ ~Stored(d) /\ ~Claimable(d, now)
          /\ Step(r, "wait")
          /\ UNCHANGED result
  /\ UNCHANGED <<clock, stateVars, workerVars, source, historyVars, crashes>>

(* waitOnboardingCallbackResult: poll until the holder has stored a result.*)
Wait(r) ==
  /\ req[r].step = "wait"
  /\ \E d \in req[r].d :
       Stored(d) /\ Goto(r, [Kept(r) EXCEPT !.step = "replay", !.toast = result[d].toast])
  /\ UNCHANGED requestOnly

(* Mutant: the submitted login is shown again. *)
ReplaySubmitted(r) ==
  /\ req[r].step = "replay"
  /\ \E d \in req[r].d :
       IF req[r].toast # "success" THEN Answering(r, req[r].toast, "")
       ELSE IF OwnsForm(d) /\ login # "" THEN Answering(r, "success", Login[d])
       ELSE Answering(r, "generic", "")
  /\ UNCHANGED requestOnly

(* A replayed success shows the login the user has now. *)
Replay(r) ==
  /\ req[r].step = "replay"
  /\ \E d \in req[r].d :
       IF req[r].toast # "success" THEN Answering(r, req[r].toast, "")
       ELSE IF OwnsForm(d) /\ login # "" THEN Answering(r, "success", login)
       ELSE Answering(r, "generic", "")
  /\ UNCHANGED requestOnly

(* The holder of the claim looks at the submission and at the stored state.*)
Check(r) ==
  /\ req[r].step = "check" /\ Alive(r)
  /\ \E d \in req[r].d :
       IF ~OwnsForm(d) THEN Persisting(r, "generic")
       ELSE IF Login[d] = "" THEN Persisting(r, "malformed")
       ELSE IF Login[d] = login THEN PersistingSuccess(r, login)
       ELSE Goto(r, [Kept(r) EXCEPT !.step = "reserve", !.at = clock])
  /\ UNCHANGED requestOnly

(* Mutant: no cooldown. *)
RestedAlways(now) == TRUE

Rested(now) == validatedAt + Cooldown <= now

(* ReserveOnboardingValidation: the only way to a lookup. *)
Reserve(r) ==
  /\ req[r].step = "reserve" /\ InTime(r)
  /\ \E d \in req[r].d, now \in Now(r) :
       \/ /\ OwnsForm(d) /\ Rested(now)
          /\ validatedAt' = now
          /\ Goto(r, [Kept(r) EXCEPT !.step = "lookup", !.ticket = now])
       \/ /\ OwnsForm(d) /\ ~Rested(now)
          /\ Persisting(r, "limited")
          /\ UNCHANGED validatedAt
  /\ UNCHANGED <<clock, form, login, result, workerVars, source, historyVars, crashes>>

(* Any other error of the two updates of the user's state. *)
StateFails(r) ==
  /\ req[r].step \in {"reserve", "bind"} /\ Alive(r)
  /\ Persisting(r, "generic")
  /\ UNCHANGED requestOnly

(* The lookup has to leave time for storing its outcome. *)
Until(r) == LET last == Deadline(r) - ResultBudget IN
            IF clock + LookupBudget < last THEN clock + LookupBudget ELSE last

AskGithub(r) ==
  /\ req[r].step = "lookup" /\ Alive(r)
  /\ IF clock < Deadline(r) - ResultBudget
     THEN /\ Goto(r, [Kept(r) EXCEPT !.step = "asked", !.until = Until(r),
                                     !.ticket = req[r].ticket])
          /\ lookedUpAt' = clock
     ELSE Persisting(r, "temporary") /\ UNCHANGED lookedUpAt
  /\ UNCHANGED <<clock, stateVars, result, workerVars, source, everBound, crashes>>

(* Mutant: the result is stored before the mapping. *)
GithubAnswersSuccess(r) ==
  /\ req[r].step = "asked" /\ clock < req[r].until
  /\ \E d \in req[r].d : PersistingSuccess(r, Login[d])
  /\ UNCHANGED requestOnly

(* ValidateUser returns: the login's owner, nobody, an error, or an answer *)
(* that is not about the login.                                            *)
GithubAnswers(r) ==
  /\ req[r].step = "asked" /\ clock < req[r].until
  /\ \/ Goto(r, [Kept(r) EXCEPT !.step = "bind", !.ticket = req[r].ticket])
     \/ Persisting(r, "unknown")
     \/ Persisting(r, "temporary")
     \/ Answering(r, "temporary", "")
  /\ UNCHANGED requestOnly

GithubTooLate(r) ==
  /\ req[r].step = "asked" /\ req[r].until <= clock /\ Alive(r)
  /\ Persisting(r, "temporary")
  /\ UNCHANGED requestOnly

(* The login is stored, and every running request has seen it held.        *)
Bound(r, l) ==
  /\ req' = [x \in Requests |->
        IF x = r THEN [Kept(r) EXCEPT !.step = "persist", !.toast = "success", !.card = l,
                                       !.held = @ \cup {l}]
        ELSE IF Running(x) THEN [req[x] EXCEPT !.held = @ \cup {l}]
        ELSE req[x]]
  /\ everBound' = everBound \cup {l}

(* Mutant: the login is stored however late (SetOnboardingGitHubLogin).    *)
BindAnytime(r) ==
  /\ req[r].step = "bind"
  /\ \E d \in req[r].d :
       /\ OwnsForm(d)
       /\ login' = Login[d]
       /\ Bound(r, Login[d])
  /\ UNCHANGED <<clock, form, validatedAt, result, workerVars, source, lookedUpAt, crashes>>

(* SetOnboardingGitHubLoginContext. *)
Bind(r) ==
  /\ req[r].step = "bind" /\ InTime(r)
  /\ \E d \in req[r].d :
       /\ OwnsForm(d)
       /\ login' = Login[d]
       /\ Bound(r, Login[d])
  /\ UNCHANGED <<clock, form, validatedAt, result, workerVars, source, lookedUpAt, crashes>>

(* SetOnboardingCallbackResultContext: whatever is stored is replaced. *)
Persist(r) ==
  /\ req[r].step = "persist" /\ InTime(r)
  /\ result' = [d \in Deliveries |-> IF d \in req[r].d THEN [NoResult EXCEPT !.toast = req[r].toast]
                                                       ELSE result[d]]
  /\ Answering(r, req[r].toast, req[r].card)
  /\ UNCHANGED <<clock, stateVars, workerVars, source, historyVars, crashes>>

(* Mutant: a callback that waits for a result is not subject to its budget.*)
GiveUpUnlessWaiting(r) ==
  /\ Running(r) /\ req[r].step # "wait"
  /\ Finish(r)
  /\ UNCHANGED requestOnly

(* A storage error, a commit refused within the guard, or the context is   *)
(* done: the budget is spent, or the caller has hung up.                   *)
GiveUp(r) ==
  /\ Running(r)
  /\ Finish(r)
  /\ UNCHANGED requestOnly

(* serve writes the outcome in time; later it is the temporary toast.      *)
Reply(r) ==
  /\ req[r].step = "reply" /\ Alive(r)
  /\ Finish(r)
  /\ UNCHANGED requestOnly

(***************************************************************************)
(* Time, crashes and the specification.                                    *)
(***************************************************************************)
Tick ==
  /\ clock < ClockBound
  /\ clock' = clock + 1
  /\ UNCHANGED <<stateVars, result, workerVars, source, req, historyVars, crashes>>

(* The process stops and is started again; Lark and the database remain.   *)
Crash ==
  /\ crashes < CrashBound
  /\ crashes' = crashes + 1
  /\ worker' = IdleWorker
  /\ req' = [r \in Requests |-> IdleRequest]
  /\ UNCHANGED <<clock, stateVars, result, entry, attempts, sent, uuid, source,
                 lookedUpAt, everBound>>

WorkerStep ==
  \/ \E e \in Entries : Take(e)
  \/ Create \/ ReserveFails \/ CreateFails \/ Record \/ DeleteItem

RequestStep(r) ==
  \/ Claim(r) \/ Wait(r) \/ Replay(r) \/ Check(r) \/ Reserve(r)
  \/ AskGithub(r) \/ GithubAnswers(r) \/ GithubTooLate(r)
  \/ Bind(r) \/ Persist(r) \/ Reply(r)

Next ==
  \/ \E e \in Entries : Enter(e)
  \/ WorkerStep \/ StopWorker \/ ForgetUuid
  \/ \E r \in Requests, d \in Deliveries : Start(r, d)
  \/ \E r \in Requests : RequestStep(r) \/ StateFails(r) \/ GiveUp(r)
  \/ Tick \/ Crash

Spec == Init /\ [][Next]_vars

(* The worker and every goroutine go on, a goroutine whose budget is spent *)
(* notices it, and time passes.  Nothing is assumed of Lark's callbacks,   *)
(* of hung-up callers or of storage errors.                                *)
Fairness ==
  /\ WF_vars(WorkerStep)
  /\ \A r \in Requests : WF_vars(RequestStep(r)) /\ WF_vars(~Alive(r) /\ GiveUp(r))
  /\ WF_vars(Tick)

LiveSpec == Spec /\ Fairness

(***************************************************************************)
(* Properties.                                                             *)
(***************************************************************************)
(* A success card shows a login that the store held for the user at some   *)
(* moment while the callback was being served: not one that has been       *)
(* replaced before, and not one that never was stored                      *)
(* (onboarding_delivery.go, replayOnboardingOutcome and the success paths).*)
CardIsCurrent ==
  \A r \in Requests :
    req[r].step = "reply" => req[r].card \in req[r].held \ {""}

(* The durable result of a callback never says success before the mapping  *)
(* has been stored, whatever crash or deadline comes between the two       *)
(* updates (onboarding_delivery.go:212-219).                               *)
SuccessIsBound ==
  \A d \in Deliveries : result[d].toast = "success" => login # "" /\ Login[d] \in everBound

(* Identical deliveries get one result: once stored it stays, although the *)
(* update that stores it replaces whatever is there, because a claim can   *)
(* only be taken over when its holder is too late to commit.               *)
ResultIsFinal ==
  [][\A d \in Deliveries : Stored(d) => result'[d] = result[d]]_vars

(* The mapping changes only to the login that the latest reserved          *)
(* validation was about, submitted on the user's own form: an older        *)
(* submission, still on its way, cannot undo a newer one.                  *)
LatestValidationBinds ==
  [][login' # login =>
       \E r \in Requests :
         /\ req[r].step = "bind" /\ req[r].ticket = validatedAt
         /\ \E d \in req[r].d : source[d] = form /\ login' = Login[d]]_vars

(* Two lookups for a user are a minute apart, but for the time a request   *)
(* may spend before its lookup.                                            *)
LookupsSpaced ==
  [][lookedUpAt' # lookedUpAt =>
       lookedUpAt' - lookedUpAt > Cooldown - (Budget - ResultBudget)]_vars

(* Of the forms a user may have been sent one counts: once it is recorded   *)
(* no other form is sent, whatever is queued, the record stays              *)
(* (onboarding.go:41-44), and a login is bound only by a submission made on *)
(* it.                                                                      *)
OneForm ==
  [][/\ form # 0 => sent' = sent /\ form' = form
     /\ login' # login =>
          \E d \in Deliveries : form # 0 /\ source[d] = form /\ login' = Login[d]]_vars

(* Every callback is answered and its slot released, although the holder   *)
(* it waits for may have gone.                                             *)
CallbacksEnd ==
  \A r \in Requests : Running(r) ~> ~Running(r)

(* An entered user gets a recorded form, unless the event becomes a dead   *)
(* letter or the worker has stopped.                                       *)
FormDelivered ==
  \A e \in Entries :
    entry[e] = "queued" ~> (form # 0 \/ entry[e] = "dead" \/ worker.step = "stopped")
==============================================================================
