------------------------------ MODULE RateLimit ------------------------------
(***************************************************************************)
(* The request slots of the store (store.ReserveRequest, and the cooldown  *)
(* HandleFailure records): two sliding windows over the slots given out    *)
(* and a time before which none is given, both kept over restarts.         *)
(*                                                                         *)
(* Times are counted back from the present: a slot has an age, the         *)
(* cooldown a remaining time.  The caller reads the clock before it waits  *)
(* for the transaction: lag is how long ago.  A slot older than the long   *)
(* window is forgotten at once; the code deletes it when it is met.        *)
(***************************************************************************)
EXTENDS Integers, FiniteSets

CONSTANTS
  Second,         (* the short window, in ticks                              *)
  PerSecond,      (* slots in it: 5                                          *)
  Minute,         (* the long window, in ticks                               *)
  PerMinute,      (* slots in it: 100                                        *)
  LagBound        (* bound of the model: the time a caller waits for its     *)
                  (* transaction                                             *)

VARIABLES
  rate,           (* rate[a]: slots given out a ticks ago                    *)
  cooldown        (* what remains of the cooldown; below 0 when it is over   *)

Ages == 0 .. (Minute - 1 + LagBound)
NoSlots == [a \in Ages |-> 0]
NoCooldown == -LagBound

Init == rate = NoSlots /\ cooldown = NoCooldown

(* The slots inside a window that ended lag ticks ago. *)
Recent(window, lag) ==
  {s \in Ages \X (1..PerMinute) : s[1] < window + lag /\ s[2] <= rate[s[1]]}

Oldest(window, lag) ==
  CHOOSE a \in Ages : /\ \E s \in Recent(window, lag) : s[1] = a
                      /\ \A s \in Recent(window, lag) : s[1] <= a

(* Mutant: one slot more than allowed. *)
ClosedAbove(window, limit, lag) == Cardinality(Recent(window, lag)) > limit

Closed(window, limit, lag) == Cardinality(Recent(window, lag)) >= limit

Cooling(lag) == cooldown + lag > 0

(* How long the caller has to wait before it asks again; 0: a slot is free. *)
Wait(lag) ==
  CASE Cooling(lag) -> cooldown + lag
    [] ~Cooling(lag) /\ Closed(Second, PerSecond, lag) -> Second + lag - Oldest(Second, lag)
    [] ~Cooling(lag) /\ ~Closed(Second, PerSecond, lag) /\ Closed(Minute, PerMinute, lag) ->
         Minute + lag - Oldest(Minute, lag)
    [] OTHER -> 0

(* ReserveRequest with a free slot: it bears the time the caller read. *)
Reserve(lag) ==
  /\ Wait(lag) = 0
  /\ rate' = [rate EXCEPT ![lag] = @ + 1]
  /\ UNCHANGED cooldown

(* Mutant: a shorter Retry-After ends a longer one early. *)
CoolReplacing(rest) == cooldown' = rest /\ UNCHANGED rate

(* HandleFailure: a Retry-After prolongs the cooldown, never shortens it.   *)
Cool(rest) ==
  /\ cooldown' = IF rest > cooldown THEN rest ELSE cooldown
  /\ UNCHANGED rate

(* A tick passes. *)
Age ==
  /\ rate' = [a \in Ages |-> IF a = 0 THEN 0 ELSE rate[a - 1]]
  /\ cooldown' = IF cooldown = NoCooldown THEN NoCooldown ELSE cooldown - 1
==============================================================================
