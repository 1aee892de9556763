---------------------------- MODULE DurableInbox -----------------------------
(***************************************************************************)
(* What the service promises the senders of deliveries (README, "How it    *)
(* works"): a delivery is answered with 202, or passed on to Lark, only    *)
(* when it is retained for good with the payload it was sent with; a       *)
(* delivery has one payload.  Crashes, power losses, I/O errors, retries   *)
(* and the recovery of interrupted admissions do not show.                 *)
(***************************************************************************)
CONSTANTS Deliveries, Payloads

VARIABLES
  recorded,     (* pairs <<d, p>>: d is permanently known with payload p    *)
  retained,     (* deliveries whose payload survives a power loss           *)
  acked,        (* pairs <<d, p>>: a sender was told that p was accepted    *)
  done          (* deliveries that reached every chat                       *)

vars == <<recorded, retained, acked, done>>

Init == recorded = {} /\ retained = {} /\ acked = {} /\ done = {}

Record(d, p) ==
  /\ \A q \in Payloads : <<d, q>> \notin recorded
  /\ recorded' = recorded \cup {<<d, p>>}
  /\ UNCHANGED <<retained, acked, done>>

Retain(d) ==
  /\ \E p \in Payloads : <<d, p>> \in recorded
  /\ retained' = retained \cup {d}
  /\ UNCHANGED <<recorded, acked, done>>

(* The recheck of a duplicate may retain and confirm at once. *)
Confirm(d, p) ==
  /\ <<d, p>> \in recorded
  /\ retained' = retained \cup {d}
  /\ acked' = acked \cup {<<d, p>>}
  /\ UNCHANGED <<recorded, done>>

Pass(d) ==
  /\ d \in retained
  /\ done' = done \cup {d}
  /\ UNCHANGED <<recorded, retained, acked>>

Next ==
  \/ \E d \in Deliveries, p \in Payloads : Record(d, p) \/ Confirm(d, p)
  \/ \E d \in Deliveries : Retain(d) \/ Pass(d)

Spec == Init /\ [][Next]_vars
==============================================================================
