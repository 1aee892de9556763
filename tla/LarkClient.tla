------------------------------ MODULE LarkClient ------------------------------
(***************************************************************************)
(* The Lark API client (internal/lark/client.go): calls of several         *)
(* goroutines over one cached tenant token, fetched under a mutex, dropped *)
(* when Lark refuses it, and the one repetition with a fresh token.        *)
(*                                                                         *)
(* Tokens are numbers that are used again when nobody holds them.  Times   *)
(* are what remains: of the expiry the client noted, and of Lark's own.    *)
(***************************************************************************)
EXTENDS Integers

CONSTANTS
  Callers,        (* goroutines that call the API                            *)
  Tokens,         (* token values; 0 is no token                             *)
  Expire,         (* validity of a new token, in ticks                       *)
  Margin,         (* the minute before expiry a token is renewed in          *)
  Latency         (* how long the answer with a token may be on its way      *)

VARIABLES
  token,          (* the cached token, 0 for none                            *)
  tokenLeft,      (* until tokenExp, as the client noted it                  *)
  tokenMu,        (* who holds tokenMu during a fetch, {} for nobody         *)
  accepted,       (* Lark: accepted[k]: how long it goes on accepting k      *)
  call            (* call[c]: the API call of c                              *)

cacheVars == <<token, tokenLeft, tokenMu>>

NoCall == [step |-> "none", attempt |-> 0, token |-> 0]

Init ==
  /\ token = 0 /\ tokenLeft = 0 /\ tokenMu = {}
  /\ accepted = [k \in Tokens |-> 0]
  /\ call = [c \in Callers |-> NoCall]

At(c, step) == call[c].step = step

Goto(c, changed) ==
  call' = [call EXCEPT ![c] = [f \in DOMAIN @ |-> IF f \in DOMAIN changed THEN changed[f] ELSE @[f]]]

(* The call returns to its caller: "limited" with an error that bears a     *)
(* Retry-After, "done" with any other result.                               *)
Return(c, step) == call' = [call EXCEPT ![c] = [NoCall EXCEPT !.step = step]]

Returned(c) == At(c, "done") \/ At(c, "limited")

Begin(c) ==
  /\ At(c, "none")
  /\ Goto(c, [step |-> "token"])
  /\ UNCHANGED <<cacheVars, accepted>>

(***************************************************************************)
(* tenantToken.                                                            *)
(***************************************************************************)
(* Mutant: the token is used up to its noted expiry. *)
UsableToTheEnd(c) == call[c].attempt = 0 /\ token # 0 /\ tokenLeft > 0

(* The cached token will do; the second attempt insists on a new one.       *)
Usable(c) == call[c].attempt = 0 /\ token # 0 /\ tokenLeft > Margin

TakeCached(c) ==
  /\ At(c, "token") /\ tokenMu = {}
  /\ Usable(c)
  /\ Goto(c, [step |-> "send", token |-> token])
  /\ UNCHANGED <<cacheVars, accepted>>

Fetch(c) ==
  /\ At(c, "token") /\ tokenMu = {}
  /\ ~Usable(c)
  /\ tokenMu' = {c}
  /\ Goto(c, [step |-> "fetch", token |-> 0])
  /\ UNCHANGED <<token, tokenLeft, accepted>>

InUse == {token} \cup {call[c].token : c \in Callers}

(* Tokens are only compared: any free number will do for a new one.         *)
Fresh == CHOOSE k \in Tokens : k \notin InUse

(* The expiry is noted when the answer arrives, late ticks after Lark has   *)
(* issued the token.                                                        *)
Fetched(c) ==
  /\ At(c, "fetch")
  /\ \E late \in 0..Latency :
       accepted' = [k \in Tokens |-> IF k = Fresh THEN Expire - late
                                     ELSE IF k \in InUse THEN accepted[k] ELSE 0]
  /\ token' = Fresh /\ tokenLeft' = Expire
  /\ Goto(c, [step |-> "send", token |-> Fresh])
  /\ tokenMu' = {}

FetchFails(c) ==
  /\ At(c, "fetch")
  /\ tokenMu' = {}
  /\ Return(c, "done") \/ Return(c, "limited")
  /\ UNCHANGED <<token, tokenLeft, accepted>>

(***************************************************************************)
(* do, and call's repetition.                                              *)
(***************************************************************************)
(* Lark takes the request and answers, rejects it with or without a         *)
(* Retry-After, or the answer is lost.                                      *)
Answered(c) ==
  /\ At(c, "send") /\ accepted[call[c].token] > 0
  /\ Return(c, "done") \/ Return(c, "limited")
  /\ UNCHANGED <<cacheVars, accepted>>

(* Lark does not accept the token. *)
Refused(c) ==
  /\ At(c, "send") /\ accepted[call[c].token] = 0
  /\ IF call[c].attempt = 0 THEN Goto(c, [step |-> "refused"])
     ELSE Return(c, "done")
  /\ UNCHANGED <<cacheVars, accepted>>

(* Mutant: whatever is cached is dropped. *)
DropsAny(c) == TRUE

Drops(c) == token = call[c].token

(* invalidateToken, then the second attempt. *)
InvalidateToken(c) ==
  /\ At(c, "refused") /\ tokenMu = {}
  /\ token' = IF Drops(c) THEN 0 ELSE token
  /\ tokenLeft' = IF Drops(c) THEN 0 ELSE tokenLeft
  /\ Goto(c, [step |-> "token", attempt |-> 1, token |-> 0])
  /\ UNCHANGED <<tokenMu, accepted>>

(* The caller has the result. *)
End(c) ==
  /\ Returned(c)
  /\ call' = [call EXCEPT ![c] = NoCall]
  /\ UNCHANGED <<cacheVars, accepted>>

(* Lark withdraws a token before its time. *)
Revoke(k) ==
  /\ accepted[k] > 0
  /\ accepted' = [accepted EXCEPT ![k] = 0]
  /\ UNCHANGED <<cacheVars, call>>

(* The process dies. *)
Crash ==
  /\ token' = 0 /\ tokenLeft' = 0 /\ tokenMu' = {}
  /\ call' = [c \in Callers |-> NoCall]
  /\ UNCHANGED accepted

(* A tick passes. *)
Age ==
  /\ tokenLeft' = IF tokenLeft > 0 THEN tokenLeft - 1 ELSE 0
  /\ accepted' = [k \in Tokens |-> IF accepted[k] > 0 THEN accepted[k] - 1 ELSE 0]
  /\ UNCHANGED <<token, tokenMu, call>>
==============================================================================
