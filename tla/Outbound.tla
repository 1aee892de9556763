------------------------------- MODULE Outbound -------------------------------
(***************************************************************************)
(* What the process sends to Lark: the worker, which reserves a slot       *)
(* before every request (internal/forwarder/worker.go, workflow.go), and   *)
(* the confirmations of subscription commands, which reserve none          *)
(* (internal/larkcallback/receiver.go), over one client and one store.     *)
(* The worker always has something to send; Forwarder, Cards and           *)
(* Onboarding say what.                                                    *)
(***************************************************************************)
EXTENDS Integers, FiniteSets

CONSTANTS
  Worker, Requests,
  Second, PerSecond, Minute, PerMinute, LagBound,      (* RateLimit          *)
  Tokens, Expire, Margin, Latency,                     (* LarkClient         *)
  RetryAfters,    (* values of Retry-After                                   *)
  FaultBound      (* bound of the model: revoked tokens, failed              *)
                  (* transactions and crashes                                *)

ASSUME WindowsAssumption ==
  /\ {Second, PerSecond, Minute, PerMinute} \subseteq Nat \ {0}
  /\ Second <= Minute /\ LagBound \in Nat

(* HTTP answers arrive within LARK_HTTP_TIMEOUT or not at all; its default  *)
(* is ten seconds, the margin a minute.                                     *)
ASSUME LatencyAssumption ==
  {Expire, Margin, Latency} \subseteq Nat /\ Latency <= Margin /\ Margin < Expire

ASSUME RetryAssumption == RetryAfters \subseteq Nat

ASSUME WorkerAssumption == Worker \notin Requests

Callers == {Worker} \cup Requests

(* Lark never runs out of tokens: the cached one and those that the calls   *)
(* of the other callers bear leave one that is free.                        *)
ASSUME TokensAssumption ==
  /\ Tokens \subseteq Nat \ {0} /\ IsFiniteSet(Tokens)
  /\ IsFiniteSet(Requests) /\ Cardinality(Tokens) > Cardinality(Callers)

VARIABLES
  rate, cooldown,                                      (* RateLimit          *)
  token, tokenLeft, tokenMu, accepted, call,           (* LarkClient         *)
  subscribed, claimed, serving,                        (* Subscriptions      *)
  worker,         (* the worker: what it does next, since when (lag), how    *)
                  (* long it still waits, and whether it has no slot         *)
  sent,           (* history: sent[a]: calls made under a slot a ticks ago   *)
  rest,           (* history: what remains of a Retry-After that the worker  *)
                  (* was told and recorded                                   *)
  revoked,        (* history: tokens withdrawn by Lark                       *)
  confirmations,  (* history: confirmations begun                            *)
  faults          (* faults so far                                           *)

Rate == INSTANCE RateLimit
Client == INSTANCE LarkClient
Chats == INSTANCE Subscriptions

rateVars == <<rate, cooldown>>
clientVars == <<token, tokenLeft, tokenMu, accepted, call>>
chatVars == <<subscribed, claimed, serving>>
historyVars == <<sent, rest, revoked, confirmations>>
vars == <<rateVars, clientVars, chatVars, worker, historyVars, faults>>

SentAges == 0 .. (Minute - 1)
IdleWorker == [step |-> "idle", lag |-> 0, wait |-> 0, slotless |-> FALSE]

Init ==
  /\ Rate!Init /\ Client!Init /\ Chats!Init
  /\ worker = IdleWorker
  /\ sent = [a \in SentAges |-> 0] /\ rest = 0 /\ revoked = {}
  /\ confirmations = 0
  /\ faults = 0

Faulty == faults < FaultBound /\ faults' = faults + 1

(***************************************************************************)
(* The worker: reserve, call, report.                                      *)
(***************************************************************************)
WorkerTo(step) == worker' = [IdleWorker EXCEPT !.step = step]

(* It asks for a slot with a time it read up to lag ticks ago. *)
Asks == worker.step = "idle" /\ worker.wait = 0

Reserve ==
  /\ Asks
  /\ \E lag \in 0..worker.lag : Rate!Reserve(lag)
  /\ Client!Begin(Worker)
  /\ WorkerTo("call")
  /\ UNCHANGED <<chatVars, historyVars, faults>>

MustWait ==
  /\ Asks
  /\ \E lag \in 0..worker.lag :
       /\ Rate!Wait(lag) > 0
       /\ worker' = [IdleWorker EXCEPT !.wait = Rate!Wait(lag)]
  /\ UNCHANGED <<rateVars, clientVars, chatVars, historyVars, faults>>

(* The transaction fails: a batch of messages is left for a later round; a  *)
(* card or a form counts a failure and is sent all the same.                *)
ReserveFails ==
  /\ Asks /\ Faulty
  /\ \/ worker' = IdleWorker /\ UNCHANGED clientVars
     \/ /\ worker' = [IdleWorker EXCEPT !.step = "call", !.slotless = TRUE]
        /\ Client!Begin(Worker)
  /\ UNCHANGED <<rateVars, chatVars, historyVars>>

(* A call's first request reaches Lark; the second is counted with it. *)
CountSent(c) ==
  sent' = IF c = Worker /\ ~worker.slotless /\ call[c].attempt = 0
          THEN [sent EXCEPT ![0] = @ + 1] ELSE sent

Returned == Client!Returned(Worker)

(* The Retry-After of the result; larkResponseError makes it a second at    *)
(* least when Lark is busy.                                                 *)
RetryAfterOf == IF Client!At(Worker, "limited") THEN RetryAfters ELSE {0}

Later(a, b) == IF a > b THEN a ELSE b

(* CompleteChatDelivery, or HandleFailure with the Retry-After counted from *)
(* when the worker reads the clock after the answer.                        *)
Report ==
  /\ Returned
  /\ \E r \in RetryAfterOf, lag \in 0..worker.lag :
       /\ IF r > 0 THEN Rate!Cool(r - lag) ELSE UNCHANGED rateVars
       /\ rest' = Later(rest, r - worker.lag)
  /\ Client!End(Worker)
  /\ WorkerTo("idle")
  /\ UNCHANGED <<chatVars, sent, revoked, confirmations, faults>>

(* It cannot be recorded: the worker stops until the next start. *)
ReportFails ==
  /\ Returned /\ Faulty
  /\ Client!End(Worker)
  /\ WorkerTo("stopped")
  /\ UNCHANGED <<rateVars, chatVars, historyVars>>

(***************************************************************************)
(* Confirmations.                                                          *)
(***************************************************************************)
Subscribe(q) ==
  /\ Chats!Subscribe(q)
  /\ UNCHANGED <<rateVars, clientVars, worker, historyVars, faults>>

ClaimFails(q) ==
  /\ Chats!ClaimFails(q) /\ Faulty
  /\ UNCHANGED <<rateVars, clientVars, worker, historyVars>>

Claim(q) ==
  /\ Chats!Claim(q)
  /\ IF Chats!Wins
     THEN Client!Begin(q) /\ confirmations' = confirmations + 1
     ELSE UNCHANGED <<clientVars, confirmations>>
  /\ UNCHANGED <<rateVars, worker, sent, rest, revoked, faults>>

(* The result of the confirmation is only logged, a Retry-After too. *)
Confirmed(q) ==
  /\ Client!End(q) /\ Chats!Confirmed(q)
  /\ UNCHANGED <<rateVars, worker, sent, rest, revoked, confirmations, faults>>

(***************************************************************************)
(* The client, Lark, time and the process.                                 *)
(***************************************************************************)
CallStep(c) ==
  /\ \/ (Client!Answered(c) \/ Client!Refused(c)) /\ CountSent(c)
     \/ (Client!TakeCached(c) \/ Client!Fetch(c) \/ Client!Fetched(c) \/ Client!FetchFails(c)
           \/ Client!InvalidateToken(c)) /\ sent' = sent
  /\ revoked' = revoked \cap Client!InUse'
  /\ UNCHANGED <<rateVars, chatVars, worker, rest, confirmations, faults>>

Revoke(k) ==
  /\ Client!Revoke(k) /\ k \in Client!InUse /\ Faulty
  /\ revoked' = revoked \cup {k}
  /\ UNCHANGED <<rateVars, chatVars, worker, sent, rest, confirmations>>

(* The time it may have read: since it has been idle, has waited or has     *)
(* been answered.                                                           *)
NextLag ==
  IF Asks \/ Returned
  THEN IF worker.lag < LagBound THEN worker.lag + 1 ELSE LagBound
  ELSE 0

Tick ==
  /\ Rate!Age /\ Client!Age
  /\ worker' = [worker EXCEPT !.lag = NextLag, !.wait = IF @ > 0 THEN @ - 1 ELSE 0]
  /\ sent' = [a \in SentAges |-> IF a = 0 THEN 0 ELSE sent[a - 1]]
  /\ rest' = IF rest > 0 THEN rest - 1 ELSE 0
  /\ UNCHANGED <<chatVars, revoked, confirmations, faults>>

Crash ==
  /\ Faulty
  /\ Client!Crash /\ Chats!Crash
  /\ worker' = IdleWorker
  /\ revoked' = {}
  /\ UNCHANGED <<rateVars, sent, rest, confirmations>>

Next ==
  \/ Reserve \/ MustWait \/ Report \/ ReserveFails \/ ReportFails
  \/ \E q \in Requests :
       Subscribe(q) \/ ClaimFails(q) \/ Claim(q) \/ Confirmed(q)
  \/ \E c \in Callers : CallStep(c)
  \/ \E k \in Tokens : Revoke(k)
  \/ Tick \/ Crash

Spec == Init /\ [][Next]_vars
------------------------------------------------------------------------------
(***************************************************************************)
(* Properties.                                                             *)
(***************************************************************************)
SentWithin(window) ==
  {s \in SentAges \X (1..(PerMinute + 2)) : s[1] < window /\ s[2] <= sent[s[1]]}

(* README.md:126, "outbound Lark limits are preserved across restarts at    *)
(* 5/s and 100/min": calls made under a slot stay within the limits, but    *)
(* for the one whose slot was given out before the window began and whose   *)
(* request was still on its way.                                            *)
WithinLimits ==
  /\ Cardinality(SentWithin(Second)) <= PerSecond + 1
  /\ Cardinality(SentWithin(Minute)) <= PerMinute + 1

(* No call is made under a slot while a Retry-After that was recorded has   *)
(* not passed, be it before a restart or longer than a later one.           *)
RestsDuringCooldown ==
  [][sent'[0] > sent[0] => rest = 0]_vars

(* A call takes a token from the cache only if Lark still accepts it, late  *)
(* as its expiry was noted (client.go:203, 238).                            *)
CachedTokenIsGood ==
  [][\A c \in Callers :
       Client!At(c, "token") /\ Client!At(c, "send")' =>
         accepted[token] > 0 \/ token \in revoked]_vars

(* A token that Lark accepts stays in the cache, or is replaced by a newer  *)
(* one: the refusal of another token, however late it is noticed, does not  *)
(* drop it (client.go:241-246).                                             *)
GoodTokenIsKept ==
  [][token # 0 /\ token' = 0 => accepted[token] = 0 \/ faults' > faults]_vars

(* A command gets one confirmation at most, however often and by whomever   *)
(* it is delivered ("the one allowed confirmation-message attempt").        *)
RepliesOnce == confirmations <= 1
==============================================================================
