---------------------------- MODULE Outbound_proofs ----------------------------
(***************************************************************************)
(* Proofs about Outbound, for every value of its constants.                *)
(***************************************************************************)
EXTENDS Outbound, FiniteLemmas

(***************************************************************************)
(* The inductive invariant.                                                *)
(***************************************************************************)
CallSteps == {"none", "token", "fetch", "send", "refused", "done", "limited"}
Call == [step : CallSteps, attempt : {0, 1}, token : Tokens \cup {0}]
WorkerState == [step : {"idle", "call", "stopped"}, lag : 0..LagBound,
                wait : Nat, slotless : BOOLEAN]

TypeOK ==
  /\ rate \in [Rate!Ages -> 0..PerMinute] /\ cooldown \in Int
  /\ token \in Tokens \cup {0} /\ tokenLeft \in Nat
  /\ accepted \in [Tokens -> Nat]
  /\ call \in [Callers -> Call]
  /\ worker \in WorkerState
  /\ sent \in [SentAges -> Nat] /\ rest \in Nat
  /\ faults \in Nat

(* A request bears a token, and one that is known to be refused stays so.   *)
TokensOK ==
  \A c \in Callers :
    /\ call[c].step \in {"send", "refused"} => call[c].token \in Tokens
    /\ call[c].step = "refused" => accepted[call[c].token] = 0
    /\ call[c].step = "fetch" => call[c].token = 0

(* The noted expiry lies behind the real one by the latency at most.        *)
CacheOK ==
  token # 0 /\ token \notin revoked => accepted[token] >= tokenLeft - Latency

(* A call of the worker is a step of its round; it only reads the clock     *)
(* late while nothing of its own is on the way.                             *)
WorkerOK ==
  /\ call[Worker].step # "none" => worker.step = "call"
  /\ worker.lag > 0 => Asks \/ Returned
  /\ \A a \in SentAges : a < worker.lag => sent[a] = 0

(* No cooldown that was recorded is forgotten, and no slot held during one. *)
RestOK ==
  /\ rest > 0 => cooldown >= rest
  /\ worker.step = "call" /\ ~worker.slotless => rest = 0

ClaimOK == confirmations = 0 \/ (confirmations = 1 /\ claimed)

(* The worker holds a slot that it has not used. *)
HoldsSlot ==
  /\ worker.step = "call" /\ ~worker.slotless
  /\ call[Worker].attempt = 0 /\ call[Worker].step \in {"token", "fetch", "send"}

Slots(window) == Rate!Recent(window, 0)

(* In any window at most one request was sent under a slot from before it.  *)
SlotsCoverSent ==
  \A window \in 0..Minute :
    Cardinality(SentWithin(window)) + (IF HoldsSlot THEN 1 ELSE 0)
      <= Cardinality(Slots(window)) + 1

SlotsLimited ==
  Cardinality(Slots(Second)) <= PerSecond /\ Cardinality(Slots(Minute)) <= PerMinute

IInv ==
  /\ TypeOK /\ TokensOK /\ CacheOK /\ WorkerOK /\ RestOK /\ ClaimOK
  /\ SlotsCoverSent /\ SlotsLimited

(***************************************************************************)
(* The marks of a window: as many for an age as happened at that age, m    *)
(* at most.                                                                *)
(***************************************************************************)
Marks(n, m, f, window) == {s \in (0..n) \X (1..m) : s[1] < window /\ s[2] <= f[s[1]]}

LEMMA MarksFinite ==
  ASSUME NEW n \in Nat, NEW m \in Nat, NEW f, NEW window
  PROVE  /\ IsFiniteSet(Marks(n, m, f, window))
         /\ Cardinality(Marks(n, m, f, window)) \in Nat
<1>1. IsFiniteSet(0..n) /\ IsFiniteSet(1..m)
  BY FS_Interval
<1>2. IsFiniteSet((0..n) \X (1..m))
  BY <1>1, FS_Product
<1>3. Marks(n, m, f, window) \in SUBSET ((0..n) \X (1..m))
  BY DEF Marks
<1>4. QED
  BY <1>2, <1>3, FS_Subset, FS_CardinalityType

LEMMA MarksGrow ==
  ASSUME NEW n \in Nat, NEW m \in Nat, NEW f \in [0..n -> Nat],
         NEW v \in Int, NEW w \in Int, v <= w
  PROVE  Cardinality(Marks(n, m, f, v)) <= Cardinality(Marks(n, m, f, w))
<1>1. Marks(n, m, f, v) \in SUBSET Marks(n, m, f, w)
  BY DEF Marks
<1>2. QED
  BY <1>1, MarksFinite, FS_Subset

(* One more at age a: a mark at most, and one exactly below the bound. *)
LEMMA MarksAdd ==
  ASSUME NEW n \in Nat, NEW m \in Nat, NEW f \in [0..n -> Nat], NEW w \in Int,
         NEW a \in 0..n
  PROVE  LET before == Cardinality(Marks(n, m, f, w))
             after == Cardinality(Marks(n, m, [f EXCEPT ![a] = @ + 1], w))
         IN  /\ after <= before + 1
             /\ a >= w => after = before
             /\ a < w /\ f[a] < m => after = before + 1
<1> DEFINE g == [f EXCEPT ![a] = @ + 1]
           M == Marks(n, m, f, w)
           N == Marks(n, m, g, w)
           x == <<a, f[a] + 1>>
<1>1. g \in [0..n -> Nat] /\ g[a] = f[a] + 1 /\ \A b \in (0..n) \ {a} : g[b] = f[b]
  OBVIOUS
<1>2. x \in (0..n) \X Nat /\ x[1] = a /\ x[2] = f[a] + 1
  OBVIOUS
<1> HIDE DEF g, x
<1>3. \A s \in (0..n) \X (1..m) : s = x <=> s[1] = a /\ s[2] = f[a] + 1
  <2>1. \A s \in (0..n) \X (1..m) : s = <<s[1], s[2]>>
    OBVIOUS
  <2>2. QED
    BY <2>1, <1>2 DEF x
<1>4. \A s \in (0..n) \X (1..m) : s[2] <= g[s[1]] <=> s[2] <= f[s[1]] \/ s = x
  <2> SUFFICES ASSUME NEW s \in (0..n) \X (1..m)
               PROVE  s[2] <= g[s[1]] <=> s[2] <= f[s[1]] \/ s = x
    OBVIOUS
  <2>1. s[1] \in 0..n /\ s[2] \in 1..m
    OBVIOUS
  <2>2. CASE s[1] = a
    BY <2>1, <2>2, <1>1, <1>3
  <2>3. CASE s[1] # a
    BY <2>1, <2>3, <1>1, <1>3
  <2>4. QED
    BY <2>2, <2>3
<1>5. M \in SUBSET N /\ N \in SUBSET (M \cup {x}) /\ x \notin M
  BY <1>1, <1>2, <1>4 DEF Marks
<1>6. a >= w => N = M
  BY <1>2, <1>5 DEF Marks
<1>7. a < w /\ f[a] < m => x \in N
  BY <1>1, <1>2 DEF Marks
<1>8. IsFiniteSet(M) /\ IsFiniteSet(N) /\ Cardinality(M) \in Nat /\ Cardinality(N) \in Nat
  BY MarksFinite
<1> HIDE DEF M, N
<1>9. IsFiniteSet(M \cup {x}) /\ Cardinality(M \cup {x}) = Cardinality(M) + 1
  BY <1>5, <1>8, FS_AddElement
<1>10. Cardinality(N) <= Cardinality(M) + 1
  BY <1>5, <1>9, FS_Subset
<1>11. x \in N => N = M \cup {x}
  BY <1>5
<1>12. QED
  BY <1>6, <1>7, <1>9, <1>10, <1>11 DEF M, N, g

(* A tick moves the marks by one age. *)
LEMMA MarksShift ==
  ASSUME NEW n \in Nat, NEW m \in Nat, NEW f \in [0..n -> Nat], NEW w \in 0..(n + 1)
  PROVE  Cardinality(Marks(n, m, [a \in 0..n |-> IF a = 0 THEN 0 ELSE f[a - 1]], w))
           = Cardinality(Marks(n, m, f, w - 1))
<1> DEFINE g == [a \in 0..n |-> IF a = 0 THEN 0 ELSE f[a - 1]]
           M == Marks(n, m, f, w - 1)
           N == Marks(n, m, g, w)
           h == [s \in M |-> <<s[1] + 1, s[2]>>]
<1>1. \A s \in M : /\ s[1] \in 0..n /\ s[2] \in 1..m /\ s = <<s[1], s[2]>>
                   /\ s[1] < w - 1 /\ s[2] <= f[s[1]]
  BY DEF Marks
<1>2. \A s \in N : /\ s[1] \in 0..n /\ s[2] \in 1..m /\ s = <<s[1], s[2]>>
                   /\ s[1] < w /\ s[2] <= g[s[1]]
  BY DEF Marks
<1>3. g[0] = 0 /\ \A a \in 1..n : a - 1 \in 0..n /\ g[a] = f[a - 1]
  OBVIOUS
<1> HIDE DEF g
<1>4. \A s \in M : <<s[1] + 1, s[2]>> \in N
  <2> SUFFICES ASSUME NEW s \in M PROVE <<s[1] + 1, s[2]>> \in N
    OBVIOUS
  <2>1. s[1] + 1 \in 1..n /\ s[1] + 1 < w
    BY <1>1
  <2>2. g[s[1] + 1] = f[s[1]]
    BY <2>1, <1>1, <1>3
  <2>3. QED
    BY <2>1, <2>2, <1>1 DEF Marks
<1>5. \A s \in N : <<s[1] - 1, s[2]>> \in M
  <2> SUFFICES ASSUME NEW s \in N PROVE <<s[1] - 1, s[2]>> \in M
    OBVIOUS
  <2>1. s[1] # 0
    BY <1>2, <1>3
  <2>2. s[1] \in 1..n
    BY <2>1, <1>2
  <2>3. s[1] - 1 \in 0..n /\ g[s[1]] = f[s[1] - 1]
    BY <2>2, <1>3
  <2>4. QED
    BY <2>2, <2>3, <1>2 DEF Marks
<1>6. IsFiniteSet(M)
  BY MarksFinite
<1> HIDE DEF M, N
<1>7. h \in [M -> N]
  BY <1>4
<1>8. \A s, t \in M : h[s] = h[t] => s = t
  BY <1>1
<1>9. \A t \in N : \E s \in M : h[s] = t
  <2> SUFFICES ASSUME NEW t \in N PROVE h[<<t[1] - 1, t[2]>>] = t /\ <<t[1] - 1, t[2]>> \in M
    OBVIOUS
  <2>1. <<t[1] - 1, t[2]>> \in M
    BY <1>5
  <2>2. h[<<t[1] - 1, t[2]>>] = <<(t[1] - 1) + 1, t[2]>>
    BY <2>1
  <2>3. QED
    BY <2>1, <2>2, <1>2
<1> HIDE DEF h
<1>10. h \in Bijection(M, N)
  BY <1>7, <1>8, <1>9 DEF Bijection, Injection, Surjection, IsInjective
<1>11. Cardinality(N) = Cardinality(M)
  BY <1>6, <1>10, FS_Bijection DEF ExistsBijection
<1>12. QED
  BY <1>11 DEF M, N, g

(***************************************************************************)
(* The slots and the requests are marks.                                   *)
(***************************************************************************)
LEMMA SlotsAreMarks ==
  \A w, lag : Rate!Recent(w, lag) = Marks(Minute - 1 + LagBound, PerMinute, rate, w + lag)
BY DEF Rate!Recent, Rate!Ages, Marks

LEMMA SentAreMarks ==
  \A w : SentWithin(w) = Marks(Minute - 1, PerMinute + 2, sent, w)
BY DEF SentWithin, SentAges, Marks

LEMMA Bounds ==
  /\ Second \in Nat \ {0} /\ PerSecond \in Nat \ {0} /\ Minute \in Nat \ {0}
  /\ PerMinute \in Nat \ {0} /\ LagBound \in Nat /\ Second <= Minute
  /\ Minute - 1 \in Nat /\ Minute - 1 + LagBound \in Nat /\ PerMinute + 2 \in Nat
  /\ Rate!Ages = 0..(Minute - 1 + LagBound) /\ SentAges = 0..(Minute - 1)
<1>1. /\ Second \in Nat \ {0} /\ PerSecond \in Nat \ {0} /\ Minute \in Nat \ {0}
      /\ PerMinute \in Nat \ {0} /\ LagBound \in Nat /\ Second <= Minute
  BY WindowsAssumption
<1>2. QED
  BY <1>1 DEF Rate!Ages, SentAges

LEMMA RecentFinite ==
  ASSUME NEW w, NEW lag
  PROVE  IsFiniteSet(Rate!Recent(w, lag)) /\ Cardinality(Rate!Recent(w, lag)) \in Nat
<1>1. Rate!Recent(w, lag) = Marks(Minute - 1 + LagBound, PerMinute, rate, w + lag)
  BY SlotsAreMarks
<1>2. QED
  BY <1>1, MarksFinite, Bounds

(* A full window has a slot that is older than all others. *)
LEMMA OldestIsRecent ==
  ASSUME NEW w \in Nat, NEW lag \in Nat, Cardinality(Rate!Recent(w, lag)) > 0
  PROVE  Rate!Oldest(w, lag) \in Rate!Ages /\ Rate!Oldest(w, lag) < w + lag
<1> DEFINE R == Rate!Recent(w, lag)
           S == {a \in Rate!Ages : \E s \in R : s[1] = a}
<1>1. R # {}
  BY FS_EmptySet
<1>2. \A s \in R : s[1] \in Rate!Ages /\ s[1] < w + lag
  BY DEF Rate!Recent
<1>3. S \in SUBSET (0..(Minute - 1 + LagBound)) /\ S # {}
  BY <1>1, <1>2, Bounds
<1>4. PICK m \in S : \A a \in S : a <= m
  BY <1>3, GreatestNatural, Bounds
<1> HIDE DEF R
<1>5. /\ m \in Rate!Ages
      /\ \E s \in R : s[1] = m
      /\ \A s \in R : s[1] <= m
  BY <1>2, <1>4
<1>6. \E s \in R : s[1] = Rate!Oldest(w, lag)
  BY <1>5 DEF Rate!Oldest, R
<1>7. QED
  BY <1>2, <1>6

(* No wait: neither a cooldown nor a full window. *)
LEMMA WaitIs ==
  ASSUME TypeOK, NEW lag \in Nat
  PROVE  /\ Rate!Wait(lag) \in Int
         /\ Rate!Wait(lag) = 0 => /\ cooldown + lag <= 0
                                  /\ Cardinality(Rate!Recent(Second, lag)) < PerSecond
                                  /\ Cardinality(Rate!Recent(Minute, lag)) < PerMinute
<1> DEFINE C == Rate!Cooling(lag)
           F == Cardinality(Rate!Recent(Second, lag)) >= PerSecond
           L == Cardinality(Rate!Recent(Minute, lag)) >= PerMinute
           X == Second + lag - Rate!Oldest(Second, lag)
           Y == Minute + lag - Rate!Oldest(Minute, lag)
<1>1. cooldown \in Int /\ (C <=> cooldown + lag > 0)
  BY DEF TypeOK, Rate!Cooling
<1>3. /\ Cardinality(Rate!Recent(Second, lag)) \in Nat
      /\ Cardinality(Rate!Recent(Minute, lag)) \in Nat
  BY RecentFinite
<1>4. F => Rate!Oldest(Second, lag) \in Rate!Ages /\ Rate!Oldest(Second, lag) < Second + lag
  BY <1>3, OldestIsRecent, Bounds
<1>5. L => Rate!Oldest(Minute, lag) \in Rate!Ages /\ Rate!Oldest(Minute, lag) < Minute + lag
  BY <1>3, OldestIsRecent, Bounds
<1>6. (F => X \in Int /\ X > 0) /\ (L => Y \in Int /\ Y > 0)
  BY <1>4, <1>5, Bounds
<1>7. Rate!Wait(lag) = CASE C -> cooldown + lag
                         [] ~C /\ F -> X
                         [] ~C /\ ~F /\ L -> Y
                         [] OTHER -> 0
  BY DEF Rate!Wait, Rate!Closed
<1> HIDE DEF C, F, L, X, Y
<1>8. /\ Rate!Wait(lag) \in Int
      /\ Rate!Wait(lag) = 0 => ~C /\ ~F /\ ~L
  BY <1>1, <1>6, <1>7
<1>9. QED
  BY <1>1, <1>3, <1>8, Bounds DEF F, L

(* Whoever fetches a token bears none, so that one is free. *)
LEMMA FreshToken ==
  ASSUME TypeOK, NEW c \in Callers, call[c].token = 0
  PROVE  Client!Fresh \in Tokens /\ Client!Fresh \notin Client!InUse
<1> DEFINE h == [d \in Callers |-> IF d = c THEN token ELSE call[d].token]
           T == {h[d] : d \in Callers}
<1>1. IsFiniteSet(Callers)
  <2>1. IsFiniteSet({Worker})
    BY FS_Singleton
  <2>2. QED
    BY <2>1, TokensAssumption, FS_Union DEF Callers
<1>2. h \in Surjection(Callers, T)
  BY DEF Surjection
<1>3. IsFiniteSet(T) /\ Cardinality(T) <= Cardinality(Callers)
  BY <1>1, <1>2, FS_Surjection
<1>4. Client!InUse \ {0} \subseteq T
  BY DEF Client!InUse
<1>5. Cardinality(T) \in Nat /\ Cardinality(Callers) \in Nat /\ Cardinality(Tokens) \in Nat
  BY <1>1, <1>3, TokensAssumption, FS_CardinalityType
<1>6. ~(Tokens \subseteq T)
  BY <1>3, <1>5, TokensAssumption, FS_Subset
<1>7. 0 \notin Tokens
  BY TokensAssumption
<1>8. \E k \in Tokens : k \notin Client!InUse
  BY <1>4, <1>6, <1>7
<1>9. QED
  BY <1>8 DEF Client!Fresh

(***************************************************************************)
(* How a step of the client changes the call of c.                         *)
(***************************************************************************)
CallIs(c, s, a, k) ==
  /\ call' \in [Callers -> Call]
  /\ \A d \in Callers \ {c} : call'[d] = call[d]
  /\ call'[c].step = s /\ call'[c].attempt = a /\ call'[c].token = k

LEMMA CallChanges ==
  ASSUME TypeOK, NEW c \in Callers,
         NEW s \in CallSteps, NEW a \in {0, 1}, NEW k \in Tokens \cup {0},
         call' = [call EXCEPT ![c] = [step |-> s, attempt |-> a, token |-> k]]
  PROVE  CallIs(c, s, a, k)
<1> DEFINE r == [step |-> s, attempt |-> a, token |-> k]
<1>1. r \in Call /\ r.step = s /\ r.attempt = a /\ r.token = k
  BY DEF Call
<1> HIDE DEF r
<1>2. call \in [Callers -> Call] /\ call' = [call EXCEPT ![c] = r]
  BY DEF TypeOK, r
<1>3. call' \in [Callers -> Call] /\ call'[c] = r /\ \A d \in Callers \ {c} : call'[d] = call[d]
  BY <1>1, <1>2
<1>4. QED
  BY <1>1, <1>3 DEF CallIs

LEMMA CallFields ==
  ASSUME TypeOK, NEW c \in Callers
  PROVE  /\ call[c] \in Call /\ DOMAIN call[c] = {"step", "attempt", "token"}
         /\ call[c].step \in CallSteps /\ call[c].attempt \in {0, 1}
         /\ call[c].token \in Tokens \cup {0}
BY DEF TypeOK, Call

LEMMA GotoStep ==
  ASSUME TypeOK, NEW c \in Callers, NEW s \in CallSteps, Client!Goto(c, [step |-> s])
  PROVE  CallIs(c, s, call[c].attempt, call[c].token)
<1>1. [f \in DOMAIN call[c] |-> IF f \in DOMAIN [step |-> s] THEN [step |-> s][f] ELSE call[c][f]]
        = [step |-> s, attempt |-> call[c].attempt, token |-> call[c].token]
  BY CallFields
<1>2. call' = [call EXCEPT ![c] = [step |-> s, attempt |-> call[c].attempt, token |-> call[c].token]]
  BY <1>1 DEF Client!Goto
<1>3. QED
  BY <1>2, CallFields, CallChanges

LEMMA GotoToken ==
  ASSUME TypeOK, NEW c \in Callers, NEW s \in CallSteps, NEW k \in Tokens \cup {0},
         Client!Goto(c, [step |-> s, token |-> k])
  PROVE  CallIs(c, s, call[c].attempt, k)
<1> DEFINE g == [step |-> s, token |-> k]
<1>1. [f \in DOMAIN call[c] |-> IF f \in DOMAIN g THEN g[f] ELSE call[c][f]]
        = [step |-> s, attempt |-> call[c].attempt, token |-> k]
  BY CallFields
<1>2. call' = [call EXCEPT ![c] = [step |-> s, attempt |-> call[c].attempt, token |-> k]]
  BY <1>1 DEF Client!Goto
<1>3. QED
  BY <1>2, CallFields, CallChanges

LEMMA GotoAttempt ==
  ASSUME TypeOK, NEW c \in Callers, NEW s \in CallSteps, NEW a \in {0, 1},
         NEW k \in Tokens \cup {0},
         Client!Goto(c, [step |-> s, attempt |-> a, token |-> k])
  PROVE  CallIs(c, s, a, k)
<1> DEFINE g == [step |-> s, attempt |-> a, token |-> k]
<1>1. [f \in DOMAIN call[c] |-> IF f \in DOMAIN g THEN g[f] ELSE call[c][f]] = g
  BY CallFields
<1>2. call' = [call EXCEPT ![c] = [step |-> s, attempt |-> a, token |-> k]]
  BY <1>1 DEF Client!Goto
<1>3. QED
  BY <1>2, CallChanges

LEMMA ReturnStep ==
  ASSUME TypeOK, NEW c \in Callers, NEW s \in CallSteps, Client!Return(c, s)
  PROVE  CallIs(c, s, 0, 0)
<1>1. [Client!NoCall EXCEPT !.step = s] = [step |-> s, attempt |-> 0, token |-> 0]
  BY DEF Client!NoCall
<1>2. call' = [call EXCEPT ![c] = [step |-> s, attempt |-> 0, token |-> 0]]
  BY <1>1 DEF Client!Return
<1>3. QED
  BY <1>2, CallChanges

(* What any step of a call does to the call, the cache, Lark and the count. *)
CallEffect(c) ==
  /\ call' \in [Callers -> Call]
  /\ \A d \in Callers \ {c} : call'[d] = call[d]
  /\ call[c].step \in {"token", "fetch", "send", "refused"} /\ call'[c].step # "none"
  /\ call'[c].step = "send" => call'[c].token \in Tokens
  /\ call'[c].step = "refused" =>
       call'[c].token = call[c].token /\ call[c].token \in Tokens /\ accepted[call[c].token] = 0
  /\ call'[c].step = "fetch" => call'[c].token = 0
  /\ accepted' \in [Tokens -> Nat]
  /\ \A k \in Tokens \cap Client!InUse : accepted'[k] = accepted[k]
  /\ \/ token' = token /\ tokenLeft' = tokenLeft
     \/ token' = 0 /\ tokenLeft' = 0 /\ (token # 0 => accepted[token] = 0)
     \/ /\ token' \in Tokens \ Client!InUse /\ tokenLeft' = Expire
        /\ accepted'[token'] >= tokenLeft' - Latency
  /\ call[c].step = "token" /\ call'[c].step = "send" => Client!Usable(c)
  /\ call'[c].step \in {"token", "fetch", "send"} /\ call'[c].attempt = 0 =>
       call[c].step \in {"token", "fetch", "send"} /\ call[c].attempt = 0
  /\ \/ sent' = sent
     \/ /\ c = Worker /\ ~worker.slotless /\ call[c].attempt = 0 /\ call[c].step = "send"
        /\ call'[c].step \notin {"token", "fetch", "send"}
        /\ sent' = [sent EXCEPT ![0] = @ + 1]

LEMMA CallStepEffect ==
  ASSUME TypeOK, TokensOK, NEW c \in Callers, CallStep(c)
  PROVE  CallEffect(c)
<1> DEFINE r == call[c]
<1>a. /\ r.step \in CallSteps /\ r.attempt \in {0, 1} /\ r.token \in Tokens \cup {0}
      /\ token \in Tokens \cup {0} /\ tokenLeft \in Nat /\ accepted \in [Tokens -> Nat]
      /\ 0 \notin Tokens
  BY CallFields, TokensAssumption DEF TypeOK
<1>b. Expire \in Nat /\ Latency \in Nat /\ Margin \in Nat /\ Expire >= Latency
  BY LatencyAssumption
<1>c. {"token", "fetch", "send", "refused", "done", "limited"} \subseteq CallSteps
  BY DEF CallSteps
<1>1. CASE Client!TakeCached(c) /\ sent' = sent
  <2>1. CallIs(c, "send", r.attempt, token)
    BY <1>1, <1>a, <1>c, GotoToken DEF Client!TakeCached
  <2>2. /\ r.step = "token" /\ Client!Usable(c) /\ token # 0
        /\ token' = token /\ tokenLeft' = tokenLeft /\ accepted' = accepted
    BY <1>1 DEF Client!TakeCached, Client!At, Client!Usable, Client!cacheVars
  <2>3. QED
    BY <1>1, <1>a, <2>1, <2>2 DEF CallEffect, CallIs
<1>2. CASE Client!Fetch(c) /\ sent' = sent
  <2>1. CallIs(c, "fetch", r.attempt, 0)
    BY <1>2, <1>a, <1>c, GotoToken DEF Client!Fetch
  <2>2. /\ r.step = "token"
        /\ token' = token /\ tokenLeft' = tokenLeft /\ accepted' = accepted
    BY <1>2 DEF Client!Fetch, Client!At
  <2>3. QED
    BY <1>2, <1>a, <2>1, <2>2 DEF CallEffect, CallIs
<1>3. CASE Client!Fetched(c) /\ sent' = sent
  <2>1. r.step = "fetch" /\ r.token = 0
    BY <1>3 DEF Client!Fetched, Client!At, TokensOK
  <2>2. Client!Fresh \in Tokens /\ Client!Fresh \notin Client!InUse
    BY <2>1, FreshToken
  <2>3. CallIs(c, "send", r.attempt, Client!Fresh)
    BY <1>3, <1>a, <1>c, <2>2, GotoToken DEF Client!Fetched
  <2>4. PICK late \in 0..Latency :
          accepted' = [k \in Tokens |-> IF k = Client!Fresh THEN Expire - late
                                        ELSE IF k \in Client!InUse THEN accepted[k] ELSE 0]
    BY <1>3 DEF Client!Fetched
  <2>5. token' = Client!Fresh /\ tokenLeft' = Expire
    BY <1>3 DEF Client!Fetched
  <2>6. Expire - late \in Nat /\ Expire - late >= Expire - Latency
    BY <1>b
  <2> DEFINE fresh == Client!Fresh
             inUse == Client!InUse
  <2> HIDE DEF fresh, inUse
  <2>7. /\ accepted' \in [Tokens -> Nat] /\ accepted'[fresh] = Expire - late
        /\ \A k \in Tokens \cap inUse : accepted'[k] = accepted[k]
    BY <1>a, <2>2, <2>4, <2>6 DEF fresh, inUse
  <2>8. QED
    BY <1>3, <1>a, <2>1, <2>2, <2>3, <2>5, <2>6, <2>7 DEF CallEffect, CallIs, fresh, inUse
<1>4. CASE Client!FetchFails(c) /\ sent' = sent
  <2>1. CallIs(c, "done", 0, 0) \/ CallIs(c, "limited", 0, 0)
    BY <1>4, <1>c, ReturnStep DEF Client!FetchFails
  <2>2. /\ r.step = "fetch"
        /\ token' = token /\ tokenLeft' = tokenLeft /\ accepted' = accepted
    BY <1>4 DEF Client!FetchFails, Client!At
  <2>3. QED
    BY <1>4, <1>a, <2>1, <2>2 DEF CallEffect, CallIs
<1>5. CASE Client!InvalidateToken(c) /\ sent' = sent
  <2>1. CallIs(c, "token", 1, 0)
    BY <1>5, <1>c, GotoAttempt DEF Client!InvalidateToken
  <2>2. /\ r.step = "refused" /\ accepted' = accepted
        /\ \/ token' = token /\ tokenLeft' = tokenLeft
           \/ token' = 0 /\ tokenLeft' = 0 /\ token = r.token
    BY <1>5 DEF Client!InvalidateToken, Client!At, Client!Drops
  <2>3. accepted[r.token] = 0
    BY <2>2 DEF TokensOK
  <2>4. QED
    BY <1>5, <1>a, <2>1, <2>2, <2>3 DEF CallEffect, CallIs
<1>6. CASE Client!Answered(c) /\ CountSent(c)
  <2>1. CallIs(c, "done", 0, 0) \/ CallIs(c, "limited", 0, 0)
    BY <1>6, <1>c, ReturnStep DEF Client!Answered
  <2>2. /\ r.step = "send"
        /\ token' = token /\ tokenLeft' = tokenLeft /\ accepted' = accepted
    BY <1>6 DEF Client!Answered, Client!At, Client!cacheVars
  <2>3. \/ sent' = sent
        \/ /\ c = Worker /\ ~worker.slotless /\ r.attempt = 0
           /\ sent' = [sent EXCEPT ![0] = @ + 1]
    BY <1>6 DEF CountSent
  <2>4. QED
    BY <1>a, <2>1, <2>2, <2>3 DEF CallEffect, CallIs
<1>7. CASE Client!Refused(c) /\ CountSent(c)
  <2>1. \/ CallIs(c, "refused", r.attempt, r.token)
        \/ CallIs(c, "done", 0, 0)
    <3>1. CASE r.attempt = 0
      BY <1>7, <1>c, <3>1, GotoStep DEF Client!Refused
    <3>2. CASE r.attempt # 0
      BY <1>7, <1>c, <3>2, ReturnStep DEF Client!Refused
    <3>3. QED
      BY <3>1, <3>2
  <2>2. /\ r.step = "send" /\ accepted[r.token] = 0
        /\ token' = token /\ tokenLeft' = tokenLeft /\ accepted' = accepted
    BY <1>7 DEF Client!Refused, Client!At, Client!cacheVars
  <2>3. \/ sent' = sent
        \/ /\ c = Worker /\ ~worker.slotless /\ r.attempt = 0
           /\ sent' = [sent EXCEPT ![0] = @ + 1]
    BY <1>7 DEF CountSent
  <2>4. r.token \in Tokens
    BY <2>2 DEF TokensOK
  <2>5. QED
    BY <1>a, <2>1, <2>2, <2>3, <2>4 DEF CallEffect, CallIs
<1>8. QED
  BY <1>1, <1>2, <1>3, <1>4, <1>5, <1>6, <1>7 DEF CallStep

LEMMA BeginEffect ==
  ASSUME TypeOK, NEW c \in Callers, Client!Begin(c)
  PROVE  /\ CallIs(c, "token", call[c].attempt, call[c].token)
         /\ call[c].step = "none"
         /\ token' = token /\ tokenLeft' = tokenLeft /\ accepted' = accepted
<1>1. CallIs(c, "token", call[c].attempt, call[c].token)
  BY GotoStep DEF Client!Begin, CallSteps
<1>2. QED
  BY <1>1 DEF Client!Begin, Client!At, Client!cacheVars

LEMMA EndEffect ==
  ASSUME TypeOK, NEW c \in Callers, Client!End(c)
  PROVE  /\ CallIs(c, "none", 0, 0)
         /\ Client!Returned(c)
         /\ token' = token /\ tokenLeft' = tokenLeft /\ accepted' = accepted
<1>1. call' = [call EXCEPT ![c] = [step |-> "none", attempt |-> 0, token |-> 0]]
  BY DEF Client!End, Client!NoCall
<1>2. CallIs(c, "none", 0, 0)
  BY <1>1, CallChanges DEF CallSteps
<1>3. QED
  BY <1>2 DEF Client!End, Client!cacheVars

LEMMA WorkerFields ==
  ASSUME TypeOK
  PROVE  /\ worker.step \in {"idle", "call", "stopped"} /\ worker.lag \in Nat
         /\ worker.lag <= LagBound /\ worker.wait \in Nat /\ worker.slotless \in BOOLEAN
         /\ worker = [step |-> worker.step, lag |-> worker.lag, wait |-> worker.wait,
                      slotless |-> worker.slotless]
BY Bounds DEF TypeOK, WorkerState

(* The worker's next state, field by field. *)
WorkerIs(s, l, w, b) ==
  worker' = [step |-> s, lag |-> l, wait |-> w, slotless |-> b]

LEMMA WorkerIsType ==
  ASSUME NEW s \in {"idle", "call", "stopped"}, NEW l \in 0..LagBound, NEW w \in Nat,
         NEW b \in BOOLEAN, WorkerIs(s, l, w, b)
  PROVE  /\ worker' \in WorkerState
         /\ worker'.step = s /\ worker'.lag = l /\ worker'.wait = w /\ worker'.slotless = b
BY DEF WorkerIs, WorkerState

(***************************************************************************)
(* What follows when a conjunct's variables change little.                 *)
(***************************************************************************)
LEMMA TokensKept ==
  ASSUME TokensOK, NEW c \in Callers, NEW s \in {"none", "token"}, NEW a, NEW k,
         CallIs(c, s, a, k), accepted' = accepted
  PROVE  TokensOK'
<1> SUFFICES ASSUME NEW d \in Callers
             PROVE  /\ call'[d].step \in {"send", "refused"} => call'[d].token \in Tokens
                    /\ call'[d].step = "refused" => accepted'[call'[d].token] = 0
                    /\ call'[d].step = "fetch" => call'[d].token = 0
  BY DEF TokensOK
<1>1. CASE d = c
  BY <1>1 DEF CallIs
<1>2. CASE d # c
  BY <1>2 DEF CallIs, TokensOK
<1>3. QED
  BY <1>1, <1>2

LEMMA CoverKept ==
  ASSUME TypeOK, SlotsCoverSent, rate' = rate, sent' = sent, HoldsSlot' => HoldsSlot
  PROVE  SlotsCoverSent'
<1> SUFFICES ASSUME NEW w \in 0..Minute
             PROVE  Cardinality(SentWithin(w))' + (IF HoldsSlot' THEN 1 ELSE 0)
                      <= Cardinality(Slots(w))' + 1
  BY DEF SlotsCoverSent
<1>1. Cardinality(SentWithin(w))' = Cardinality(SentWithin(w))
  BY DEF SentWithin
<1>2. Cardinality(Slots(w))' = Cardinality(Slots(w))
  BY DEF Slots, Rate!Recent
<1>3. Cardinality(SentWithin(w)) + (IF HoldsSlot THEN 1 ELSE 0) <= Cardinality(Slots(w)) + 1
  BY DEF SlotsCoverSent
<1>4. Cardinality(SentWithin(w)) \in Nat /\ Cardinality(Slots(w)) \in Nat
  BY Bounds, SentAreMarks, MarksFinite, RecentFinite DEF Slots
<1>5. QED
  BY <1>1, <1>2, <1>3, <1>4

LEMMA LimitedKept ==
  ASSUME SlotsLimited, rate' = rate
  PROVE  SlotsLimited'
BY DEF SlotsLimited, Slots, Rate!Recent

(***************************************************************************)
(* The steps.                                                              *)
(***************************************************************************)
LEMMA ReserveKeeps ==
  ASSUME IInv, Reserve
  PROVE  IInv'
<1> USE DEF IInv
<1>1. PICK lag \in 0..worker.lag : Rate!Reserve(lag)
  BY DEF Reserve
<1>2. /\ lag \in Nat /\ lag <= worker.lag /\ lag \in 0..LagBound /\ lag \in Rate!Ages
  BY WorkerFields, Bounds
<1>3. /\ rate' = [rate EXCEPT ![lag] = @ + 1] /\ cooldown' = cooldown
      /\ cooldown + lag <= 0
      /\ Cardinality(Rate!Recent(Second, lag)) < PerSecond
      /\ Cardinality(Rate!Recent(Minute, lag)) < PerMinute
  BY <1>1, <1>2, WaitIs DEF Rate!Reserve
<1>4. /\ CallIs(Worker, "token", call[Worker].attempt, call[Worker].token)
      /\ call[Worker].step = "none"
      /\ token' = token /\ tokenLeft' = tokenLeft /\ accepted' = accepted
  BY BeginEffect DEF Reserve, Callers
<1>5. WorkerIs("call", 0, 0, FALSE)
  BY DEF Reserve, WorkerTo, IdleWorker, WorkerIs
<1>6. /\ worker' \in WorkerState
      /\ worker'.step = "call" /\ worker'.lag = 0 /\ worker'.wait = 0 /\ ~worker'.slotless
  <2>1. 0 \in 0..LagBound /\ 0 \in Nat
    BY Bounds
  <2>2. QED
    BY <1>5, <2>1, WorkerIsType
<1>7. /\ sent' = sent /\ rest' = rest /\ revoked' = revoked /\ confirmations' = confirmations
      /\ claimed' = claimed /\ faults' = faults
  BY DEF Reserve, chatVars, historyVars
<1>8. worker.step = "idle"
  BY DEF Reserve, Asks
<1>9. rate \in [0..(Minute - 1 + LagBound) -> Nat] /\ \A a \in Rate!Ages : rate[a] \in 0..PerMinute
  BY Bounds DEF TypeOK
<1>10. rate[lag] < PerMinute
  <2> SUFFICES ASSUME rate[lag] = PerMinute PROVE FALSE
    BY <1>2, <1>9, Bounds
  <2>1. {lag} \X (1..PerMinute) \in SUBSET Rate!Recent(Minute, lag)
    BY <1>2, <1>9, Bounds DEF Rate!Recent
  <2>2. Cardinality({lag} \X (1..PerMinute)) = PerMinute
    <3>1. IsFiniteSet({lag}) /\ Cardinality({lag}) = 1
      BY FS_Singleton
    <3>2. PerMinute \in Int /\ 1 \in Int /\ ~(1 > PerMinute)
      BY Bounds
    <3>3. /\ IsFiniteSet(1..PerMinute)
          /\ Cardinality(1..PerMinute) = IF 1 > PerMinute THEN 0 ELSE PerMinute - 1 + 1
      BY <3>2, FS_Interval
    <3>4. Cardinality(1..PerMinute) = PerMinute
      BY <3>2, <3>3
    <3> DEFINE A == {lag}
               B == 1..PerMinute
    <3>5. IsFiniteSet(A) /\ IsFiniteSet(B) /\ Cardinality(A) = 1 /\ Cardinality(B) = PerMinute
      BY <3>1, <3>3, <3>4
    <3> HIDE DEF A, B
    <3>6. Cardinality(A \X B) = Cardinality(A) * Cardinality(B)
      BY <3>5, FS_Product
    <3>7. Cardinality(A \X B) = PerMinute
      BY <3>2, <3>5, <3>6
    <3>8. QED
      BY <3>7 DEF A, B
  <2>3. Cardinality({lag} \X (1..PerMinute)) <= Cardinality(Rate!Recent(Minute, lag))
    BY <2>1, RecentFinite, FS_Subset
  <2>4. QED
    BY <1>3, <2>2, <2>3, RecentFinite, Bounds
<1>11. rate' \in [Rate!Ages -> 0..PerMinute]
  BY <1>2, <1>3, <1>9, <1>10, Bounds DEF TypeOK
<1>12. TypeOK'
  BY <1>3, <1>4, <1>6, <1>7, <1>11 DEF TypeOK, CallIs
<1>13. TokensOK'
  BY <1>4, TokensKept DEF Callers
<1>14. CacheOK'
  BY <1>4, <1>7 DEF CacheOK
<1>15. WorkerOK'
  BY <1>6, <1>7, Bounds DEF WorkerOK, SentAges
<1>16. RestOK'
  BY <1>2, <1>3, <1>6, <1>7 DEF RestOK, TypeOK
<1>17. ClaimOK'
  BY <1>7 DEF ClaimOK
<1>18. \A w \in Int :
         /\ Cardinality(Slots(w))' <= Cardinality(Slots(w)) + 1
         /\ lag < w => Cardinality(Slots(w))' = Cardinality(Slots(w)) + 1
         /\ lag >= w => Cardinality(Slots(w))' = Cardinality(Slots(w))
  <2> SUFFICES ASSUME NEW w \in Int
      PROVE /\ Cardinality(Slots(w))' <= Cardinality(Slots(w)) + 1
            /\ lag < w => Cardinality(Slots(w))' = Cardinality(Slots(w)) + 1
            /\ lag >= w => Cardinality(Slots(w))' = Cardinality(Slots(w))
    OBVIOUS
  <2> DEFINE n == Minute - 1 + LagBound
  <2>1. Slots(w) = Marks(n, PerMinute, rate, w)
    BY SlotsAreMarks DEF Slots
  <2>2. Slots(w)' = Marks(n, PerMinute, [rate EXCEPT ![lag] = @ + 1], w)
    BY <1>3 DEF Slots, Rate!Recent, Rate!Ages, Marks
  <2>3. n \in Nat /\ PerMinute \in Nat /\ lag \in 0..n /\ rate \in [0..n -> Nat]
    BY <1>2, <1>9, Bounds
  <2> HIDE DEF n
  <2>4. QED
    BY <2>1, <2>2, <2>3, <1>10, MarksAdd
<1>19. SlotsLimited'
  <2>1. Cardinality(Slots(Second)) <= Cardinality(Rate!Recent(Second, lag))
    BY <1>2, <1>9, Bounds, SlotsAreMarks, MarksGrow DEF Slots
  <2>2. Cardinality(Slots(Minute)) <= Cardinality(Rate!Recent(Minute, lag))
    BY <1>2, <1>9, Bounds, SlotsAreMarks, MarksGrow DEF Slots
  <2>3. Cardinality(Slots(Second)) + 1 <= PerSecond /\ Cardinality(Slots(Minute)) + 1 <= PerMinute
    BY <1>3, <2>1, <2>2, RecentFinite, Bounds DEF Slots
  <2>4. /\ Cardinality(Slots(Second))' = Cardinality(Slots(Second))
           \/ Cardinality(Slots(Second))' = Cardinality(Slots(Second)) + 1
        /\ Cardinality(Slots(Minute))' = Cardinality(Slots(Minute))
           \/ Cardinality(Slots(Minute))' = Cardinality(Slots(Minute)) + 1
    BY <1>2, <1>18, Bounds
  <2>5. Cardinality(Slots(Second)) \in Nat /\ Cardinality(Slots(Minute)) \in Nat
    BY RecentFinite DEF Slots
  <2>6. Cardinality(Slots(Second))' <= PerSecond /\ Cardinality(Slots(Minute))' <= PerMinute
    BY <2>3, <2>4, <2>5, Bounds
  <2>7. QED
    BY <2>6 DEF SlotsLimited
<1>20. SlotsCoverSent'
  <2> SUFFICES ASSUME NEW w \in 0..Minute
               PROVE  Cardinality(SentWithin(w))' + (IF HoldsSlot' THEN 1 ELSE 0)
                        <= Cardinality(Slots(w))' + 1
    BY DEF SlotsCoverSent
  <2>1. Cardinality(SentWithin(w))' = Cardinality(SentWithin(w))
    BY <1>7 DEF SentWithin
  <2>2. Cardinality(SentWithin(w)) <= Cardinality(Slots(w)) + 1
    BY <1>8, Bounds, SentAreMarks, MarksFinite, RecentFinite
    DEF SlotsCoverSent, HoldsSlot, Slots
  <2>3. w \in Int /\ Cardinality(SentWithin(w)) \in Nat /\ Cardinality(Slots(w)) \in Nat
    BY Bounds, SentAreMarks, MarksFinite, RecentFinite DEF Slots
  <2>4. CASE lag < w
    BY <1>2, <1>18, <2>1, <2>2, <2>3, <2>4
  <2>5. CASE lag >= w
    <3>a. \A a \in SentAges : a < w => sent[a] = 0
      <4>1. \A a \in SentAges : a < w => a < worker.lag
        BY <1>2, <2>3, <2>5, Bounds, WorkerFields
      <4>2. QED
        BY <4>1 DEF WorkerOK
    <3>1. SentWithin(w) = {}
      <4> SUFFICES ASSUME NEW s \in SentAges \X (1..(PerMinute + 2)), s[1] < w PROVE ~(s[2] <= sent[s[1]])
        BY DEF SentWithin
      <4>1. s[1] \in SentAges /\ s[2] \in 1..(PerMinute + 2)
        OBVIOUS
      <4>2. QED
        BY <3>a, <4>1, Bounds
    <3>2. Cardinality(SentWithin(w)) = 0
      BY <3>1, FS_EmptySet
    <3>3. QED
      BY <1>2, <1>18, <2>1, <2>3, <2>5, <3>2
  <2>6. QED
    BY <1>2, <2>3, <2>4, <2>5
<1>21. QED
  BY <1>12, <1>13, <1>14, <1>15, <1>16, <1>17, <1>19, <1>20

(* The steps of the worker that leave the slots, the requests sent, the     *)
(* cache and Lark alone.                                                    *)
LEMMA WorkerStepKeeps ==
  ASSUME IInv,
         \/ call' = call
         \/ \E s \in {"none", "token"}, a \in {0, 1}, k \in Tokens \cup {0} : CallIs(Worker, s, a, k),
         token' = token, tokenLeft' = tokenLeft, accepted' = accepted,
         rate' = rate, cooldown' \in Int, cooldown' >= cooldown,
         NEW s \in {"idle", "call", "stopped"}, NEW w \in Nat, NEW b \in BOOLEAN,
         WorkerIs(s, 0, w, b),
         call'[Worker].step # "none" => s = "call", s = "call" => b,
         sent' = sent, rest' \in Nat, rest' > 0 => cooldown' >= rest',
         revoked' = revoked, confirmations' = confirmations, claimed' = claimed, faults' \in Nat
  PROVE  IInv'
<1> USE DEF IInv
<1>1. Worker \in Callers
  BY DEF Callers
<1>2. /\ worker' \in WorkerState
      /\ worker'.step = s /\ worker'.lag = 0 /\ worker'.wait = w /\ worker'.slotless = b
  <2>1. 0 \in 0..LagBound
    BY Bounds
  <2>2. QED
    BY <2>1, WorkerIsType
<1>3. call' \in [Callers -> Call]
  BY DEF TypeOK, CallIs
<1>4. TypeOK'
  BY <1>2, <1>3 DEF TypeOK
<1>5. TokensOK'
  <2>1. CASE call' = call
    BY <2>1 DEF TokensOK
  <2>2. CASE \E t \in {"none", "token"}, a \in {0, 1}, k \in Tokens \cup {0} : CallIs(Worker, t, a, k)
    BY <1>1, <2>2, TokensKept
  <2>3. QED
    BY <2>1, <2>2
<1>6. CacheOK'
  BY DEF CacheOK
<1>7. WorkerOK'
  BY <1>2, Bounds DEF WorkerOK, SentAges
<1>8. RestOK'
  BY <1>2 DEF RestOK
<1>9. ClaimOK'
  BY DEF ClaimOK
<1>10. SlotsCoverSent'
  <2>1. ~HoldsSlot'
    BY <1>2 DEF HoldsSlot
  <2>2. QED
    BY <2>1, CoverKept
<1>11. SlotsLimited'
  BY LimitedKept
<1>12. QED
  BY <1>4, <1>5, <1>6, <1>7, <1>8, <1>9, <1>10, <1>11

LEMMA MustWaitKeeps ==
  ASSUME IInv, MustWait
  PROVE  IInv'
<1>1. PICK lag \in 0..worker.lag :
        Rate!Wait(lag) > 0 /\ worker' = [IdleWorker EXCEPT !.wait = Rate!Wait(lag)]
  BY DEF MustWait
<1>2. TypeOK /\ lag \in Nat
  BY WorkerFields DEF IInv
<1>3. Rate!Wait(lag) \in Nat
  BY <1>1, <1>2, WaitIs
<1>4. WorkerIs("idle", 0, Rate!Wait(lag), FALSE)
  BY <1>1 DEF IdleWorker, WorkerIs
<1>5. call[Worker].step = "none"
  BY DEF IInv, WorkerOK, MustWait, Asks
<1>6. /\ rate' = rate /\ cooldown' = cooldown /\ claimed' = claimed /\ sent' = sent /\ rest' = rest
      /\ revoked' = revoked /\ confirmations' = confirmations /\ faults' = faults
      /\ call' = call /\ token' = token /\ tokenLeft' = tokenLeft /\ accepted' = accepted
  BY DEF MustWait, rateVars, clientVars, chatVars, historyVars
<1>7. /\ faults' \in Nat /\ cooldown' \in Int /\ cooldown' >= cooldown
      /\ rest' \in Nat /\ (rest' > 0 => cooldown' >= rest')
  BY <1>6 DEF IInv, TypeOK, RestOK
<1>8. QED
  BY <1>3, <1>4, <1>5, <1>6, <1>7, WorkerStepKeeps

LEMMA ReserveFailsKeeps ==
  ASSUME IInv, ReserveFails
  PROVE  IInv'
<1>1. /\ rate' = rate /\ cooldown' = cooldown /\ claimed' = claimed /\ sent' = sent /\ rest' = rest
      /\ revoked' = revoked /\ confirmations' = confirmations
  BY DEF ReserveFails, rateVars, chatVars, historyVars
<1>2. /\ TypeOK /\ faults' \in Nat /\ cooldown' \in Int /\ cooldown' >= cooldown
      /\ rest' \in Nat /\ (rest' > 0 => cooldown' >= rest')
  BY <1>1 DEF ReserveFails, Faulty, IInv, TypeOK, RestOK
<1>3. call[Worker].step = "none" /\ Worker \in Callers /\ 0 \in Nat
  BY DEF IInv, WorkerOK, ReserveFails, Asks, Callers
<1>4. CASE worker' = IdleWorker /\ UNCHANGED clientVars
  <2>1. WorkerIs("idle", 0, 0, FALSE)
    BY <1>4 DEF IdleWorker, WorkerIs
  <2>2. call' = call /\ token' = token /\ tokenLeft' = tokenLeft /\ accepted' = accepted
    BY <1>4 DEF clientVars
  <2>3. QED
    BY <1>1, <1>2, <1>3, <2>1, <2>2, WorkerStepKeeps
<1>5. CASE /\ worker' = [IdleWorker EXCEPT !.step = "call", !.slotless = TRUE]
           /\ Client!Begin(Worker)
  <2>1. WorkerIs("call", 0, 0, TRUE)
    BY <1>5 DEF IdleWorker, WorkerIs
  <2>2. /\ CallIs(Worker, "token", call[Worker].attempt, call[Worker].token)
        /\ token' = token /\ tokenLeft' = tokenLeft /\ accepted' = accepted
    BY <1>2, <1>3, <1>5, BeginEffect
  <2>3. call[Worker].attempt \in {0, 1} /\ call[Worker].token \in Tokens \cup {0}
    BY <1>2, <1>3, CallFields
  <2>4. QED
    BY <1>1, <1>2, <1>3, <2>1, <2>2, <2>3, WorkerStepKeeps
<1>6. QED
  BY <1>4, <1>5 DEF ReserveFails

LEMMA ReportKeeps ==
  ASSUME IInv, Report
  PROVE  IInv'
<1>1. PICK r \in RetryAfterOf, lag \in 0..worker.lag :
        /\ IF r > 0 THEN Rate!Cool(r - lag) ELSE UNCHANGED rateVars
        /\ rest' = Later(rest, r - worker.lag)
  BY DEF Report
<1>2. /\ TypeOK /\ Worker \in Callers /\ cooldown \in Int /\ rest \in Nat /\ faults \in Nat
      /\ (rest > 0 => cooldown >= rest)
  BY DEF IInv, Callers, TypeOK, RestOK
<1>3. r \in Nat /\ lag \in Nat /\ worker.lag \in Nat /\ lag <= worker.lag
  BY <1>1, <1>2, WorkerFields, RetryAssumption DEF RetryAfterOf
<1>4. rate' = rate /\ cooldown' \in Int /\ cooldown' >= cooldown /\ (r > 0 => cooldown' >= r - lag)
  BY <1>1, <1>2, <1>3 DEF Rate!Cool, rateVars
<1>5. rest' \in Nat /\ (rest' > 0 => cooldown' >= rest')
  BY <1>1, <1>2, <1>3, <1>4 DEF Later
<1>6. /\ CallIs(Worker, "none", 0, 0)
      /\ token' = token /\ tokenLeft' = tokenLeft /\ accepted' = accepted
  BY <1>2, EndEffect DEF Report
<1>7. WorkerIs("idle", 0, 0, FALSE)
  BY DEF Report, WorkerTo, IdleWorker, WorkerIs
<1>8. call'[Worker].step = "none"
  BY <1>6 DEF CallIs
<1>9. sent' = sent /\ revoked' = revoked /\ confirmations' = confirmations /\ claimed' = claimed
      /\ faults' = faults
  BY DEF Report, chatVars
<1>10. QED
  BY <1>2, <1>4, <1>5, <1>6, <1>7, <1>8, <1>9, WorkerStepKeeps

LEMMA ReportFailsKeeps ==
  ASSUME IInv, ReportFails
  PROVE  IInv'
<1>1. TypeOK /\ Worker \in Callers
  BY DEF IInv, Callers
<1>2. /\ CallIs(Worker, "none", 0, 0)
      /\ token' = token /\ tokenLeft' = tokenLeft /\ accepted' = accepted
  BY <1>1, EndEffect DEF ReportFails
<1>3. WorkerIs("stopped", 0, 0, FALSE)
  BY DEF ReportFails, WorkerTo, IdleWorker, WorkerIs
<1>4. call'[Worker].step = "none"
  BY <1>2 DEF CallIs
<1>5. /\ rate' = rate /\ cooldown' = cooldown /\ claimed' = claimed /\ sent' = sent /\ rest' = rest
      /\ revoked' = revoked /\ confirmations' = confirmations
  BY DEF ReportFails, rateVars, chatVars, historyVars
<1>6. /\ faults' \in Nat /\ cooldown' \in Int /\ cooldown' >= cooldown
      /\ rest' \in Nat /\ (rest' > 0 => cooldown' >= rest')
  BY <1>5 DEF ReportFails, Faulty, IInv, TypeOK, RestOK
<1>7. QED
  BY <1>2, <1>3, <1>4, <1>5, <1>6, WorkerStepKeeps

(* The steps of a request: the worker, its call and its slots are not       *)
(* touched.                                                                 *)
LEMMA RequestStepKeeps ==
  ASSUME IInv, NEW q \in Requests,
         \/ call' = call
         \/ \E s \in {"none", "token"}, a \in {0, 1}, k \in Tokens \cup {0} : CallIs(q, s, a, k),
         token' = token, tokenLeft' = tokenLeft, accepted' = accepted,
         rate' = rate, cooldown' = cooldown, worker' = worker,
         sent' = sent, rest' = rest, revoked' = revoked, faults' \in Nat, ClaimOK'
  PROVE  IInv'
<1> USE DEF IInv
<1>1. q \in Callers /\ Worker \in Callers /\ q # Worker
  BY WorkerAssumption DEF Callers
<1>2. call' \in [Callers -> Call] /\ call'[Worker] = call[Worker]
  BY <1>1 DEF TypeOK, CallIs
<1>3. TypeOK'
  BY <1>2 DEF TypeOK
<1>4. TokensOK'
  <2>1. CASE call' = call
    BY <2>1 DEF TokensOK
  <2>2. CASE \E t \in {"none", "token"}, a \in {0, 1}, k \in Tokens \cup {0} : CallIs(q, t, a, k)
    BY <1>1, <2>2, TokensKept
  <2>3. QED
    BY <2>1, <2>2
<1>5. CacheOK'
  BY DEF CacheOK
<1>6. WorkerOK'
  BY <1>2 DEF WorkerOK, Asks, Returned, Client!Returned, Client!At
<1>7. RestOK'
  BY DEF RestOK
<1>8. SlotsCoverSent'
  <2>1. HoldsSlot' => HoldsSlot
    BY <1>2 DEF HoldsSlot
  <2>2. QED
    BY <2>1, CoverKept
<1>9. SlotsLimited'
  BY LimitedKept
<1>10. QED
  BY <1>3, <1>4, <1>5, <1>6, <1>7, <1>8, <1>9

LEMMA RequestKeeps ==
  ASSUME IInv, NEW q \in Requests,
         Subscribe(q) \/ ClaimFails(q) \/ Claim(q) \/ Confirmed(q)
  PROVE  IInv'
<1>1. TypeOK /\ q \in Callers /\ faults \in Nat /\ ClaimOK
  BY DEF IInv, TypeOK, Callers
<1>2. CASE Subscribe(q)
  <2>1. ClaimOK'
    BY <1>1, <1>2 DEF ClaimOK, Subscribe, Chats!Subscribe, historyVars
  <2>2. QED
    BY <1>1, <1>2, <2>1, RequestStepKeeps DEF Subscribe, rateVars, clientVars, historyVars
<1>3. CASE ClaimFails(q)
  <2>1. ClaimOK'
    BY <1>1, <1>3 DEF ClaimOK, ClaimFails, Chats!ClaimFails, historyVars
  <2>2. QED
    BY <1>1, <1>3, <2>1, RequestStepKeeps
    DEF ClaimFails, rateVars, clientVars, historyVars, Faulty
<1>4. CASE Claim(q)
  <2>1. claimed' = TRUE /\ confirmations' = (IF claimed THEN confirmations ELSE confirmations + 1)
    BY <1>4 DEF Claim, Chats!Claim, Chats!Wins
  <2>2. ClaimOK'
    BY <1>1, <2>1 DEF ClaimOK
  <2>3. \/ call' = call
        \/ \E s \in {"none", "token"}, a \in {0, 1}, k \in Tokens \cup {0} : CallIs(q, s, a, k)
    <3>1. CASE Client!Begin(q)
      BY <1>1, <3>1, BeginEffect, CallFields
    <3>2. CASE ~Client!Begin(q)
      BY <1>4, <3>2 DEF Claim, clientVars
    <3>3. QED
      BY <3>1, <3>2
  <2>4. token' = token /\ tokenLeft' = tokenLeft /\ accepted' = accepted
    BY <1>4 DEF Claim, clientVars, Client!Begin, Client!cacheVars
  <2>5. QED
    BY <1>1, <1>4, <2>2, <2>3, <2>4, RequestStepKeeps DEF Claim, rateVars
<1>5. CASE Confirmed(q)
  <2>1. ClaimOK'
    BY <1>1, <1>5 DEF ClaimOK, Confirmed, Chats!Confirmed
  <2>2. /\ CallIs(q, "none", 0, 0)
        /\ token' = token /\ tokenLeft' = tokenLeft /\ accepted' = accepted
    BY <1>1, <1>5, EndEffect DEF Confirmed
  <2>3. QED
    BY <1>1, <1>5, <2>1, <2>2, RequestStepKeeps DEF Confirmed, rateVars
<1>6. QED
  BY <1>2, <1>3, <1>4, <1>5

LEMMA CallStepKeeps ==
  ASSUME IInv, NEW c \in Callers, CallStep(c)
  PROVE  IInv'
<1> USE DEF IInv
<1>1. CallEffect(c)
  BY CallStepEffect
<1>2. /\ rate' = rate /\ cooldown' = cooldown /\ claimed' = claimed /\ worker' = worker
      /\ rest' = rest /\ confirmations' = confirmations /\ faults' = faults
      /\ revoked' = revoked \cap Client!InUse'
  BY DEF CallStep, rateVars, chatVars
<1>3. Worker \in Callers
  BY DEF Callers
<1>4. 0 \in SentAges /\ sent \in [SentAges -> Nat] /\ token \in Tokens \cup {0} /\ 0 \notin Tokens
  BY Bounds, TokensAssumption DEF TypeOK
<1>5. Expire \in Nat /\ Latency \in Nat
  BY LatencyAssumption
<1>6. call \in [Callers -> Call] /\ call' \in [Callers -> Call]
  BY <1>1 DEF TypeOK, CallEffect
<1>7. TypeOK'
  <2>1. sent' \in [SentAges -> Nat]
    BY <1>1, <1>4 DEF CallEffect
  <2>2. token' \in Tokens \cup {0} /\ tokenLeft' \in Nat
    BY <1>1, <1>5 DEF CallEffect, TypeOK
  <2>3. QED
    BY <1>1, <1>2, <1>6, <2>1, <2>2 DEF TypeOK, CallEffect
<1>8. TokensOK'
  <2> SUFFICES ASSUME NEW d \in Callers
               PROVE  /\ call'[d].step \in {"send", "refused"} => call'[d].token \in Tokens
                      /\ call'[d].step = "refused" => accepted'[call'[d].token] = 0
                      /\ call'[d].step = "fetch" => call'[d].token = 0
    BY DEF TokensOK
  <2>1. \A k \in Tokens \cap Client!InUse : accepted'[k] = accepted[k]
    BY <1>1 DEF CallEffect
  <2>2. call[d].token \in Client!InUse /\ call[c].token \in Client!InUse
    BY DEF Client!InUse
  <2>3. CASE d = c
    BY <1>1, <2>1, <2>2, <2>3 DEF CallEffect
  <2>4. CASE d # c
    <3>1. call'[d] = call[d]
      BY <1>1, <2>4 DEF CallEffect
    <3>2. QED
      BY <2>1, <2>2, <3>1 DEF TokensOK
  <2>5. QED
    BY <2>3, <2>4
<1>9. CacheOK'
  <2> SUFFICES ASSUME token' # 0, token' \notin revoked'
               PROVE  accepted'[token'] >= tokenLeft' - Latency
    BY DEF CacheOK
  <2>1. token' \in Client!InUse'
    BY DEF Client!InUse
  <2>2. token' \notin revoked
    BY <1>2, <2>1
  <2>3. CASE token' = token /\ tokenLeft' = tokenLeft
    <3>1. token \in Tokens \cap Client!InUse
      BY <1>4, <2>3 DEF Client!InUse
    <3>2. accepted'[token] = accepted[token]
      BY <1>1, <3>1 DEF CallEffect
    <3>3. QED
      BY <2>2, <2>3, <3>2 DEF CacheOK
  <2>4. CASE accepted'[token'] >= tokenLeft' - Latency
    BY <2>4
  <2>5. QED
    BY <1>1, <2>3, <2>4 DEF CallEffect
<1>10. WorkerOK'
  <2>1. call'[Worker].step # "none" => worker'.step = "call"
    BY <1>1, <1>2, <1>3 DEF WorkerOK, CallEffect
  <2>2. CASE c = Worker
    <3>1. worker.step = "call" /\ ~Returned
      BY <1>1, <2>2 DEF WorkerOK, CallEffect, Returned, Client!Returned, Client!At
    <3>2. worker.lag = 0
      BY <3>1, WorkerFields DEF WorkerOK, Asks
    <3>3. QED
      BY <1>2, <2>1, <3>2, Bounds DEF WorkerOK, SentAges
  <2>3. CASE c # Worker
    <3>1. call'[Worker] = call[Worker] /\ sent' = sent
      BY <1>1, <1>3, <2>3 DEF CallEffect
    <3>2. QED
      BY <1>2, <3>1 DEF WorkerOK, Asks, Returned, Client!Returned, Client!At
  <2>4. QED
    BY <2>2, <2>3
<1>11. RestOK'
  BY <1>2 DEF RestOK
<1>12. ClaimOK'
  BY <1>2 DEF ClaimOK
<1>13. SlotsLimited'
  BY <1>2, LimitedKept
<1>14. HoldsSlot' => HoldsSlot
  BY <1>1, <1>2, <1>3 DEF CallEffect, HoldsSlot
<1>15. CASE sent' = sent
  <2>1. SlotsCoverSent'
    BY <1>2, <1>14, <1>15, CoverKept
  <2>2. QED
    BY <1>7, <1>8, <1>9, <1>10, <1>11, <1>12, <1>13, <2>1
<1>16. CASE sent' # sent
  <2>1. /\ c = Worker /\ ~worker.slotless /\ call[c].attempt = 0 /\ call[c].step = "send"
        /\ call'[c].step \notin {"token", "fetch", "send"}
        /\ sent' = [sent EXCEPT ![0] = @ + 1]
    BY <1>1, <1>16 DEF CallEffect
  <2>2. HoldsSlot /\ ~HoldsSlot'
    BY <2>1 DEF HoldsSlot, WorkerOK
  <2>3. SlotsCoverSent'
    <3> SUFFICES ASSUME NEW w \in 0..Minute
                 PROVE  Cardinality(SentWithin(w))' + (IF HoldsSlot' THEN 1 ELSE 0)
                          <= Cardinality(Slots(w))' + 1
      BY DEF SlotsCoverSent
    <3> DEFINE n == Minute - 1
               m == PerMinute + 2
    <3>1. Cardinality(SentWithin(w)) + 1 <= Cardinality(Slots(w)) + 1
      BY <2>2 DEF SlotsCoverSent
    <3>2. Cardinality(Slots(w))' = Cardinality(Slots(w))
      BY <1>2 DEF Slots, Rate!Recent
    <3>3. SentWithin(w) = Marks(n, m, sent, w)
      BY SentAreMarks
    <3>4. SentWithin(w)' = Marks(n, m, [sent EXCEPT ![0] = @ + 1], w)
      BY <2>1 DEF SentWithin, SentAges, Marks
    <3>5. n \in Nat /\ m \in Nat /\ 0 \in 0..n /\ sent \in [0..n -> Nat] /\ w \in Int
      BY <1>4, Bounds
    <3> HIDE DEF n, m
    <3>6. Cardinality(SentWithin(w))' <= Cardinality(SentWithin(w)) + 1
      BY <3>3, <3>4, <3>5, MarksAdd
    <3>7. /\ Cardinality(SentWithin(w)) \in Nat /\ Cardinality(Slots(w)) \in Nat
          /\ Cardinality(SentWithin(w))' \in Nat
      BY <3>3, <3>4, <3>5, MarksFinite, RecentFinite DEF Slots
    <3>8. QED
      BY <2>2, <3>1, <3>2, <3>6, <3>7
  <2>4. QED
    BY <1>7, <1>8, <1>9, <1>10, <1>11, <1>12, <1>13, <2>3
<1>17. QED
  BY <1>15, <1>16

LEMMA RevokeKeeps ==
  ASSUME IInv, NEW k \in Tokens, Revoke(k)
  PROVE  IInv'
<1> USE DEF IInv
<1>1. /\ rate' = rate /\ cooldown' = cooldown /\ claimed' = claimed /\ worker' = worker
      /\ rest' = rest /\ confirmations' = confirmations /\ faults' = faults + 1
      /\ sent' = sent /\ call' = call /\ token' = token /\ tokenLeft' = tokenLeft
      /\ accepted' = [accepted EXCEPT ![k] = 0] /\ revoked' = revoked \cup {k}
  BY DEF Revoke, Client!Revoke, Faulty, rateVars, chatVars, Client!cacheVars
<1>2. /\ accepted \in [Tokens -> Nat] /\ token \in Tokens \cup {0}
      /\ accepted' \in [Tokens -> Nat] /\ accepted'[k] = 0
      /\ \A t \in Tokens \ {k} : accepted'[t] = accepted[t]
  BY <1>1 DEF TypeOK
<1>3. TypeOK'
  BY <1>1, <1>2 DEF TypeOK
<1>4. TokensOK'
  BY <1>1, <1>2 DEF TokensOK
<1>5. CacheOK'
  BY <1>1, <1>2 DEF CacheOK
<1>6. WorkerOK'
  BY <1>1 DEF WorkerOK, Asks, Returned, Client!Returned, Client!At
<1>7. RestOK' /\ ClaimOK'
  BY <1>1 DEF RestOK, ClaimOK
<1>8. HoldsSlot' => HoldsSlot
  BY <1>1 DEF HoldsSlot
<1>9. SlotsCoverSent' /\ SlotsLimited'
  BY <1>1, <1>8, CoverKept, LimitedKept
<1>10. QED
  BY <1>3, <1>4, <1>5, <1>6, <1>7, <1>9

LEMMA TickKeeps ==
  ASSUME IInv, Tick
  PROVE  IInv'
<1> USE DEF IInv
<1>1. /\ claimed' = claimed /\ revoked' = revoked /\ confirmations' = confirmations
      /\ faults' = faults /\ token' = token /\ call' = call
      /\ tokenLeft' = (IF tokenLeft > 0 THEN tokenLeft - 1 ELSE 0)
      /\ rest' = (IF rest > 0 THEN rest - 1 ELSE 0)
      /\ cooldown' = (IF cooldown = Rate!NoCooldown THEN Rate!NoCooldown ELSE cooldown - 1)
      /\ accepted' = [k \in Tokens |-> IF accepted[k] > 0 THEN accepted[k] - 1 ELSE 0]
      /\ rate' = [a \in Rate!Ages |-> IF a = 0 THEN 0 ELSE rate[a - 1]]
      /\ sent' = [a \in SentAges |-> IF a = 0 THEN 0 ELSE sent[a - 1]]
  BY DEF Tick, Rate!Age, Client!Age, chatVars
<1>2. NextLag \in 0..LagBound /\ NextLag <= worker.lag + 1
  BY Bounds, WorkerFields DEF NextLag
<1> DEFINE w == IF worker.wait > 0 THEN worker.wait - 1 ELSE 0
<1>3. w \in Nat
  BY WorkerFields
<1>4. WorkerIs(worker.step, NextLag, w, worker.slotless)
  <2>1. worker' = [worker EXCEPT !.lag = NextLag, !.wait = w]
    BY DEF Tick
  <2> HIDE DEF w
  <2>2. QED
    BY <2>1, WorkerFields DEF WorkerIs
<1>5. /\ worker' \in WorkerState /\ worker'.step = worker.step /\ worker'.lag = NextLag
      /\ worker'.wait = w /\ worker'.slotless = worker.slotless
  <2> HIDE DEF w
  <2>1. worker.step \in {"idle", "call", "stopped"} /\ worker.slotless \in BOOLEAN
    BY WorkerFields
  <2>2. QED
    BY <1>2, <1>3, <1>4, <2>1, WorkerIsType
<1>6. /\ cooldown \in Int /\ rest \in Nat /\ tokenLeft \in Nat /\ accepted \in [Tokens -> Nat]
      /\ token \in Tokens \cup {0} /\ rate \in [Rate!Ages -> 0..PerMinute]
      /\ sent \in [SentAges -> Nat]
  BY DEF TypeOK
<1>7. \A k \in Tokens : accepted'[k] = IF accepted[k] > 0 THEN accepted[k] - 1 ELSE 0
  BY <1>1
<1>8. \A a \in SentAges : sent'[a] = IF a = 0 THEN 0 ELSE sent[a - 1]
  BY <1>1
<1>9. \A a \in SentAges : a # 0 => a - 1 \in SentAges
  BY Bounds
<1>10. \A a \in Rate!Ages : a # 0 => a - 1 \in Rate!Ages
  BY Bounds
<1>11. Rate!NoCooldown \in Int /\ Rate!NoCooldown <= 0
  BY Bounds DEF Rate!NoCooldown
<1>12. TypeOK'
  <2>1. accepted' \in [Tokens -> Nat] /\ tokenLeft' \in Nat /\ rest' \in Nat
    BY <1>1, <1>6
  <2>2. rate' \in [Rate!Ages -> 0..PerMinute]
    BY <1>1, <1>6, <1>10, Bounds
  <2>3. sent' \in [SentAges -> Nat]
    BY <1>1, <1>6, <1>9
  <2>4. cooldown' \in Int
    BY <1>1, <1>6, <1>11
  <2>5. QED
    BY <1>1, <1>5, <2>1, <2>2, <2>3, <2>4 DEF TypeOK
<1>13. TokensOK'
  BY <1>1, <1>7 DEF TokensOK
<1>14. CacheOK'
  <2> SUFFICES ASSUME token # 0, token \notin revoked
               PROVE  accepted'[token] >= tokenLeft' - Latency
    BY <1>1 DEF CacheOK
  <2>1. accepted[token] >= tokenLeft - Latency /\ token \in Tokens
    BY <1>6 DEF CacheOK
  <2>2. accepted[token] \in Nat /\ Latency \in Nat
    BY <1>6, <2>1, LatencyAssumption
  <2>3. QED
    BY <1>1, <1>6, <1>7, <2>1, <2>2
<1>15. WorkerOK'
  <2>1. call'[Worker].step # "none" => worker'.step = "call"
    BY <1>1, <1>5 DEF WorkerOK
  <2>2. worker'.lag > 0 => Asks' \/ Returned'
    <3>1. worker'.lag > 0 => Asks \/ Returned
      BY <1>5 DEF NextLag
    <3>2. (Asks => Asks') /\ (Returned => Returned')
      BY <1>1, <1>5 DEF Asks, Returned, Client!Returned, Client!At
    <3>3. QED
      BY <3>1, <3>2
  <2>3. \A a \in SentAges : a < worker'.lag => sent'[a] = 0
    <3> SUFFICES ASSUME NEW a \in SentAges, a < NextLag, a # 0 PROVE sent[a - 1] = 0
      BY <1>5, <1>8
    <3>1. a - 1 \in SentAges /\ a \in Int
      BY <1>9, Bounds
    <3>2. a - 1 < worker.lag
      BY <1>2, <3>1, WorkerFields, Bounds
    <3>3. QED
      BY <3>1, <3>2 DEF WorkerOK
  <2>4. QED
    BY <2>1, <2>2, <2>3 DEF WorkerOK
<1>16. RestOK'
  BY <1>1, <1>5, <1>6, <1>11 DEF RestOK
<1>17. ClaimOK'
  BY <1>1 DEF ClaimOK
<1>18. HoldsSlot' <=> HoldsSlot
  BY <1>1, <1>5 DEF HoldsSlot
<1>19. ASSUME NEW v \in 1..Minute
       PROVE  /\ Cardinality(Slots(v))' = Cardinality(Slots(v - 1))
              /\ Cardinality(SentWithin(v))' = Cardinality(SentWithin(v - 1))
  <2> DEFINE n == Minute - 1 + LagBound
             g == [a \in 0..n |-> IF a = 0 THEN 0 ELSE rate[a - 1]]
             k == Minute - 1
             l == PerMinute + 2
             h == [a \in 0..k |-> IF a = 0 THEN 0 ELSE sent[a - 1]]
  <2>1. /\ n \in Nat /\ v \in 0..(n + 1) /\ rate \in [0..n -> Nat] /\ PerMinute \in Nat
        /\ k \in Nat /\ l \in Nat /\ v \in 0..(k + 1) /\ sent \in [0..k -> Nat]
    BY <1>6, Bounds
  <2>2. /\ Slots(v)' = Marks(n, PerMinute, g, v) /\ Slots(v - 1) = Marks(n, PerMinute, rate, v - 1)
    BY <1>1 DEF Slots, Rate!Recent, Rate!Ages, Marks
  <2>3. /\ SentWithin(v)' = Marks(k, l, h, v) /\ SentWithin(v - 1) = Marks(k, l, sent, v - 1)
    BY <1>1 DEF SentWithin, SentAges, Marks
  <2> HIDE DEF n, k, l
  <2>4. Cardinality(Marks(n, PerMinute, g, v)) = Cardinality(Marks(n, PerMinute, rate, v - 1))
    BY <2>1, MarksShift
  <2>5. Cardinality(Marks(k, l, h, v)) = Cardinality(Marks(k, l, sent, v - 1))
    BY <2>1, MarksShift
  <2> HIDE DEF g, h
  <2>6. QED
    BY <2>2, <2>3, <2>4, <2>5
<1>20. SlotsCoverSent'
  <2> SUFFICES ASSUME NEW v \in 0..Minute
               PROVE  Cardinality(SentWithin(v))' + (IF HoldsSlot' THEN 1 ELSE 0)
                        <= Cardinality(Slots(v))' + 1
    BY DEF SlotsCoverSent
  <2>1. CASE v = 0
    <3>1. SentWithin(v)' = {}
      BY <2>1, Bounds DEF SentWithin
    <3>2. Cardinality(SentWithin(v)') = 0
      BY <3>1, FS_EmptySet
    <3>3. Slots(v)' = {}
      BY <2>1, Bounds DEF Slots, Rate!Recent
    <3>4. Cardinality(Slots(v)') = 0
      BY <3>3, FS_EmptySet
    <3>5. QED
      BY <3>2, <3>4
  <2>2. CASE v # 0
    <3>1. v \in 1..Minute /\ v - 1 \in 0..Minute
      BY <2>2, Bounds
    <3>2. Cardinality(SentWithin(v - 1)) + (IF HoldsSlot THEN 1 ELSE 0)
            <= Cardinality(Slots(v - 1)) + 1
      BY <3>1 DEF SlotsCoverSent
    <3>3. QED
      BY <1>18, <1>19, <3>1, <3>2
  <2>3. QED
    BY <2>1, <2>2
<1>21. SlotsLimited'
  <2>1. ASSUME NEW v \in 1..Minute PROVE Cardinality(Slots(v))' <= Cardinality(Slots(v))
    <3> DEFINE n == Minute - 1 + LagBound
    <3>1. n \in Nat /\ rate \in [0..n -> Nat] /\ v - 1 \in Int /\ v \in Int /\ v - 1 <= v
          /\ PerMinute \in Nat
      BY <1>6, Bounds
    <3>2. Slots(v - 1) = Marks(n, PerMinute, rate, v - 1) /\ Slots(v) = Marks(n, PerMinute, rate, v)
      BY DEF Slots, Rate!Recent, Rate!Ages, Marks
    <3> HIDE DEF n
    <3>3. Cardinality(Slots(v - 1)) <= Cardinality(Slots(v))
      BY <3>1, <3>2, MarksGrow
    <3>4. QED
      BY <1>19, <3>3
  <2>2. Second \in 1..Minute /\ Minute \in 1..Minute
    BY Bounds
  <2>3. /\ Cardinality(Slots(Second))' <= Cardinality(Slots(Second))
        /\ Cardinality(Slots(Minute))' <= Cardinality(Slots(Minute))
    BY <2>1, <2>2
  <2>4. /\ Cardinality(Slots(Second)) \in Nat /\ Cardinality(Slots(Minute)) \in Nat
        /\ Cardinality(Slots(Second))' \in Nat /\ Cardinality(Slots(Minute))' \in Nat
    <3>1. /\ Cardinality(Slots(Second)) \in Nat /\ Cardinality(Slots(Minute)) \in Nat
      BY RecentFinite DEF Slots
    <3>2. /\ Cardinality(Slots(Second - 1)) \in Nat /\ Cardinality(Slots(Minute - 1)) \in Nat
      BY RecentFinite DEF Slots
    <3>3. QED
      BY <1>19, <2>2, <3>1, <3>2
  <2>5. QED
    BY <2>3, <2>4, Bounds DEF SlotsLimited
<1>22. QED
  BY <1>12, <1>13, <1>14, <1>15, <1>16, <1>17, <1>20, <1>21

LEMMA CrashKeeps ==
  ASSUME IInv, Crash
  PROVE  IInv'
<1> USE DEF IInv
<1>1. /\ rate' = rate /\ cooldown' = cooldown /\ claimed' = claimed /\ accepted' = accepted
      /\ rest' = rest /\ confirmations' = confirmations /\ faults' = faults + 1
      /\ sent' = sent /\ token' = 0 /\ tokenLeft' = 0
      /\ call' = [c \in Callers |-> Client!NoCall]
  BY DEF Crash, Client!Crash, Chats!Crash, rateVars, Faulty
<1>2. WorkerIs("idle", 0, 0, FALSE)
  BY DEF Crash, IdleWorker, WorkerIs
<1>3. 0 \in 0..LagBound /\ 0 \in Nat
  BY Bounds
<1>4. /\ worker' \in WorkerState
      /\ worker'.step = "idle" /\ worker'.lag = 0 /\ worker'.wait = 0 /\ ~worker'.slotless
  BY <1>2, <1>3, WorkerIsType
<1>5. \A c \in Callers : call'[c] = [step |-> "none", attempt |-> 0, token |-> 0]
  BY <1>1 DEF Client!NoCall
<1>6. call' \in [Callers -> Call]
  BY <1>1 DEF Client!NoCall, Call, CallSteps
<1>7. TypeOK'
  BY <1>1, <1>4, <1>6 DEF TypeOK
<1>8. TokensOK' /\ CacheOK'
  BY <1>1, <1>5 DEF TokensOK, CacheOK
<1>9. WorkerOK'
  BY <1>4, <1>5, Bounds DEF WorkerOK, SentAges, Callers
<1>10. RestOK' /\ ClaimOK'
  BY <1>1, <1>4 DEF RestOK, ClaimOK
<1>11. ~HoldsSlot'
  BY <1>4 DEF HoldsSlot
<1>12. SlotsCoverSent' /\ SlotsLimited'
  BY <1>1, <1>11, CoverKept, LimitedKept
<1>13. QED
  BY <1>7, <1>8, <1>9, <1>10, <1>12

LEMMA InitIInv == Init => IInv
<1> SUFFICES ASSUME Init PROVE IInv
  OBVIOUS
<1>1. /\ rate = [a \in Rate!Ages |-> 0] /\ cooldown = -LagBound
      /\ token = 0 /\ tokenLeft = 0 /\ accepted = [k \in Tokens |-> 0]
      /\ call = [c \in Callers |-> [step |-> "none", attempt |-> 0, token |-> 0]]
      /\ worker = [step |-> "idle", lag |-> 0, wait |-> 0, slotless |-> FALSE]
      /\ sent = [a \in SentAges |-> 0] /\ rest = 0 /\ revoked = {}
      /\ confirmations = 0 /\ faults = 0
  BY DEF Init, Rate!Init, Rate!NoSlots, Rate!NoCooldown, Client!Init, Client!NoCall, IdleWorker
<1>2. worker \in WorkerState
  BY <1>1, Bounds DEF WorkerState
<1>3. call \in [Callers -> Call]
  BY <1>1 DEF Call, CallSteps
<1>4. TypeOK
  BY <1>1, <1>2, <1>3, Bounds DEF TypeOK
<1>5. TokensOK /\ CacheOK /\ RestOK /\ ClaimOK
  BY <1>1 DEF TokensOK, CacheOK, RestOK, ClaimOK
<1>6. WorkerOK
  BY <1>1, Bounds DEF WorkerOK, SentAges, Callers
<1>7. \A w : SentWithin(w) = {} /\ Slots(w) = {}
  <2>1. \A a \in SentAges : sent[a] = 0
    BY <1>1
  <2>2. \A a \in Rate!Ages : rate[a] = 0
    BY <1>1
  <2>3. QED
    BY <2>1, <2>2, Bounds DEF SentWithin, Slots, Rate!Recent
<1>8. Cardinality({}) = 0
  BY FS_EmptySet
<1>9. SlotsCoverSent /\ SlotsLimited
  <2>1. ~HoldsSlot
    BY <1>1 DEF HoldsSlot
  <2>2. \A w : Cardinality(SentWithin(w)) = 0 /\ Cardinality(Slots(w)) = 0
    BY <1>7, <1>8
  <2>3. SlotsCoverSent
    BY <2>1, <2>2 DEF SlotsCoverSent
  <2>4. SlotsLimited
    BY <2>2, Bounds DEF SlotsLimited
  <2>5. QED
    BY <2>3, <2>4
<1>10. QED
  BY <1>4, <1>5, <1>6, <1>9 DEF IInv

LEMMA StutterKeeps ==
  ASSUME IInv, UNCHANGED vars
  PROVE  IInv'
<1> USE DEF IInv, vars, rateVars, clientVars, chatVars, historyVars
<1>1. TypeOK' /\ TokensOK' /\ CacheOK'
  BY DEF TypeOK, TokensOK, CacheOK
<1>2. WorkerOK'
  BY DEF WorkerOK, Asks, Returned, Client!Returned, Client!At
<1>3. RestOK' /\ ClaimOK'
  BY DEF RestOK, ClaimOK
<1>4. SlotsCoverSent' /\ SlotsLimited'
  BY CoverKept, LimitedKept DEF HoldsSlot
<1>5. QED
  BY <1>1, <1>2, <1>3, <1>4

LEMMA NextIInv == IInv /\ [Next]_vars => IInv'
<1> SUFFICES ASSUME IInv, [Next]_vars PROVE IInv'
  OBVIOUS
<1>1. ASSUME NEW q \in Requests, Subscribe(q) \/ ClaimFails(q) \/ Claim(q) \/ Confirmed(q)
      PROVE  IInv'
  BY <1>1, RequestKeeps
<1>2. ASSUME NEW c \in Callers, CallStep(c) PROVE IInv'
  BY <1>2, CallStepKeeps
<1>3. ASSUME NEW k \in Tokens, Revoke(k) PROVE IInv'
  BY <1>3, RevokeKeeps
<1>4. QED
  BY <1>1, <1>2, <1>3, ReserveKeeps, MustWaitKeeps, ReportKeeps, ReserveFailsKeeps,
     ReportFailsKeeps, TickKeeps, CrashKeeps, StutterKeeps DEF Next

(***************************************************************************)
(* The results.                                                            *)
(***************************************************************************)
(* The invariant holds always: slots, cooldown, cached token and claim of   *)
(* the store and the client agree with what was sent and what Lark knows.   *)
THEOREM OutboundInvariant == Spec => []IInv
<1>1. QED
  BY InitIInv, NextIInv, PTL DEF Spec

(* Calls made under a slot stay within the limits of the store's windows,   *)
(* but for the one whose request was under way: ReserveRequest gives out a  *)
(* slot only where both windows have room.                                  *)
THEOREM OutboundWithinLimits == Spec => []WithinLimits
<1>1. IInv => WithinLimits
  <2> SUFFICES ASSUME IInv PROVE WithinLimits
    OBVIOUS
  <2>1. ASSUME NEW w \in 0..Minute
        PROVE  Cardinality(SentWithin(w)) <= Cardinality(Slots(w)) + 1
    <3>1. Cardinality(SentWithin(w)) \in Nat /\ Cardinality(Slots(w)) \in Nat
      BY Bounds, SentAreMarks, MarksFinite, RecentFinite DEF Slots
    <3>2. QED
      BY <3>1 DEF IInv, SlotsCoverSent
  <2>2. Second \in 0..Minute /\ Minute \in 0..Minute
    BY Bounds
  <2>3. /\ Cardinality(Slots(Second)) \in Nat /\ Cardinality(Slots(Minute)) \in Nat
        /\ Cardinality(SentWithin(Second)) \in Nat /\ Cardinality(SentWithin(Minute)) \in Nat
    BY Bounds, SentAreMarks, MarksFinite, RecentFinite DEF Slots
  <2>4. /\ Cardinality(SentWithin(Second)) <= Cardinality(Slots(Second)) + 1
        /\ Cardinality(SentWithin(Minute)) <= Cardinality(Slots(Minute)) + 1
    BY <2>1, <2>2
  <2>5. QED
    BY <2>3, <2>4, Bounds DEF IInv, SlotsLimited, WithinLimits
<1>2. QED
  BY <1>1, OutboundInvariant, PTL

(* A command gets one confirmation at most: whoever begins one has taken    *)
(* the claim, which nothing gives back (ClaimSubscriptionReply).            *)
THEOREM OutboundRepliesOnce == Spec => []RepliesOnce
<1>1. IInv => RepliesOnce
  BY DEF IInv, ClaimOK, RepliesOnce
<1>2. QED
  BY <1>1, OutboundInvariant, PTL

(* What the steps other than those of calls and the clock do not count.     *)
LEMMA OnlyCallsCount ==
  ASSUME [Next]_vars
  PROVE  sent' = sent \/ Tick \/ \E c \in Callers : CallStep(c)
BY DEF Next, vars, historyVars, Reserve, MustWait, Report, ReserveFails, ReportFails,
       Subscribe, ClaimFails, Claim, Confirmed, Revoke, Crash

(* No call is made under a slot while a recorded Retry-After has not        *)
(* passed: ReserveRequest refuses while the cooldown lasts.                 *)
THEOREM OutboundRests == Spec => RestsDuringCooldown
<1>1. IInv /\ [Next]_vars => [sent'[0] > sent[0] => rest = 0]_vars
  <2> SUFFICES ASSUME IInv, [Next]_vars, sent'[0] > sent[0] PROVE rest = 0
    OBVIOUS
  <2>1. TypeOK /\ 0 \in SentAges /\ sent[0] \in Nat
    BY Bounds DEF IInv, TypeOK
  <2>2. CASE sent' = sent
    BY <2>1, <2>2
  <2>3. CASE Tick
    BY <2>1, <2>3 DEF Tick
  <2>4. ASSUME NEW c \in Callers, CallStep(c), sent' # sent PROVE rest = 0
    <3>1. CallEffect(c)
      BY <2>1, <2>4, CallStepEffect DEF IInv
    <3>2. c = Worker /\ ~worker.slotless /\ call[c].step = "send"
      BY <2>4, <3>1 DEF CallEffect
    <3>3. QED
      BY <3>2 DEF IInv, WorkerOK, RestOK
  <2>5. QED
    BY <2>2, <2>3, <2>4, OnlyCallsCount
<1>2. QED
  BY <1>1, OutboundInvariant, PTL DEF Spec, RestsDuringCooldown

(* A call takes a token from the cache only if Lark still accepts it or     *)
(* has withdrawn it: the margin outweighs the late note of the expiry.      *)
THEOREM OutboundCachedTokenIsGood == Spec => CachedTokenIsGood
<1>1. IInv /\ [Next]_vars =>
        [\A c \in Callers : Client!At(c, "token") /\ Client!At(c, "send")' =>
           accepted[token] > 0 \/ token \in revoked]_vars
  <2> SUFFICES ASSUME IInv, [Next]_vars, NEW c \in Callers,
                      call[c].step = "token", call'[c].step = "send"
               PROVE  accepted[token] > 0 \/ token \in revoked
    BY DEF Client!At
  <2>1. TypeOK /\ c \in Callers
    BY DEF IInv
  <2>2. Client!Usable(c)
    <3>1. CASE \E d \in Callers : CallStep(d)
      <4>1. PICK d \in Callers : CallEffect(d)
        BY <2>1, <3>1, CallStepEffect DEF IInv
      <4>2. d = c
        BY <2>1, <4>1 DEF CallEffect
      <4>3. QED
        BY <4>1, <4>2 DEF CallEffect
    <3>2. CASE call' = call
      BY <3>2
    <3>3. ASSUME NEW d \in Callers, Client!Begin(d) PROVE FALSE
      <4>1. CallIs(d, "token", call[d].attempt, call[d].token)
        BY <2>1, <3>3, BeginEffect
      <4>2. QED
        BY <2>1, <4>1 DEF CallIs
    <3>4. ASSUME NEW d \in Callers, Client!End(d) PROVE FALSE
      <4>1. CallIs(d, "none", 0, 0)
        BY <2>1, <3>4, EndEffect
      <4>2. QED
        BY <2>1, <4>1 DEF CallIs
    <3>5. CASE Crash
      BY <2>1, <3>5 DEF Crash, Client!Crash, Client!NoCall
    <3>6. Worker \in Callers /\ \A q \in Requests : q \in Callers
      BY DEF Callers
    <3>7. \/ \E d \in Callers : CallStep(d) \/ Client!Begin(d) \/ Client!End(d)
          \/ call' = call \/ Crash
      BY <3>6 DEF Next, vars, clientVars, Reserve, MustWait, Report, ReserveFails, ReportFails,
           Subscribe, ClaimFails, Claim, Confirmed, Revoke, Client!Revoke, Tick, Client!Age
    <3>8. QED
      BY <3>1, <3>2, <3>3, <3>4, <3>5, <3>7
  <2>3. token # 0 /\ tokenLeft > Margin /\ token \in Tokens /\ tokenLeft \in Nat
        /\ accepted \in [Tokens -> Nat]
    BY <2>1, <2>2 DEF Client!Usable, TypeOK
  <2>4. token \notin revoked => accepted[token] >= tokenLeft - Latency
    BY <2>3 DEF IInv, CacheOK
  <2>5. QED
    BY <2>3, <2>4, LatencyAssumption
<1>2. QED
  BY <1>1, OutboundInvariant, PTL DEF Spec, CachedTokenIsGood

(* A token that Lark accepts is dropped from the cache by no refusal of     *)
(* another one: invalidateToken compares, and a refused token stays so.     *)
THEOREM OutboundGoodTokenIsKept == Spec => GoodTokenIsKept
<1>1. IInv /\ [Next]_vars =>
        [token # 0 /\ token' = 0 => accepted[token] = 0 \/ faults' > faults]_vars
  <2> SUFFICES ASSUME IInv, [Next]_vars, token # 0, token' = 0
               PROVE  accepted[token] = 0 \/ faults' > faults
    OBVIOUS
  <2>1. TypeOK /\ faults \in Nat /\ 0 \notin Tokens
    BY TokensAssumption DEF IInv, TypeOK
  <2>2. CASE Crash
    BY <2>1, <2>2 DEF Crash, Faulty
  <2>3. ASSUME NEW c \in Callers, CallStep(c) PROVE accepted[token] = 0
    BY <2>1, <2>3, CallStepEffect DEF IInv, CallEffect
  <2>4. \/ Crash \/ \E c \in Callers : CallStep(c)
    BY DEF Next, vars, clientVars, Reserve, MustWait, Report, ReserveFails, ReportFails,
           Subscribe, ClaimFails, Claim, Confirmed, Revoke, Client!Revoke, Client!cacheVars,
           Tick, Client!Age, Client!Begin, Client!End
  <2>5. QED
    BY <2>2, <2>3, <2>4
<1>2. QED
  BY <1>1, OutboundInvariant, PTL DEF Spec, GoodTokenIsKept
==============================================================================
