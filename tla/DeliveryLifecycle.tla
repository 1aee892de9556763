-------------------------- MODULE DeliveryLifecycle --------------------------
(***************************************************************************)
(* What the delivery store promises, with no buckets, sequence numbers,    *)
(* counters or byte budgets: every delivery has one phase, one content,    *)
(* and a set of targets that have not been served yet.                     *)
(*                                                                         *)
(*   new ----> queued <----> dead                                          *)
(*    |          |                                                         *)
(*    |          +---------> delivered                                     *)
(*    +------------------------------> archive_only                        *)
(***************************************************************************)
EXTENDS FiniteSets

CONSTANTS
  Deliveries,   (* delivery identities (X-GitHub-Delivery, UUID, ...)       *)
  Payloads,     (* what a delivery carries: its event and its body          *)
  Targets       (* the chats an event may have to reach                     *)

VARIABLES
  phase,        (* phase[d]: where the delivery is in its life              *)
  content,      (* pairs <<d, p>>: d was accepted, or retained, as p        *)
  todo          (* todo[d]: targets that still have to be served            *)

vars == <<phase, content, todo>>

Phases == {"new", "queued", "dead", "delivered", "archive_only"}

Init ==
  /\ phase = [d \in Deliveries |-> "new"]
  /\ content = {}
  /\ todo = [d \in Deliveries |-> {}]

(* A new delivery is queued for a non-empty set of targets. *)
Accept(d, p, T) ==
  /\ phase[d] = "new"
  /\ T # {}
  /\ phase' = [phase EXCEPT ![d] = "queued"]
  /\ content' = content \cup {<<d, p>>}
  /\ todo' = [todo EXCEPT ![d] = T]

(* A new delivery is kept in the archive and never forwarded. *)
Retain(d, p) ==
  /\ phase[d] = "new"
  /\ phase' = [phase EXCEPT ![d] = "archive_only"]
  /\ content' = content \cup {<<d, p>>}
  /\ UNCHANGED todo

(* The deliveries in D were sent to target t; those with no target left are *)
(* delivered, for good.                                                     *)
Serve(D, t) ==
  /\ \A d \in D : phase[d] = "queued" /\ t \in todo[d]
  /\ todo' = [d \in Deliveries |-> IF d \in D THEN todo[d] \ {t} ELSE todo[d]]
  /\ phase' = [d \in Deliveries |->
                 IF d \in D /\ todo[d] = {t} THEN "delivered" ELSE phase[d]]
  /\ UNCHANGED content

(* The deliveries in D are given up; what they still owe is remembered. *)
Bury(D) ==
  /\ \A d \in D : phase[d] = "queued"
  /\ phase' = [d \in Deliveries |-> IF d \in D THEN "dead" ELSE phase[d]]
  /\ UNCHANGED <<content, todo>>

(* An operator puts one dead delivery back. *)
Revive(d) ==
  /\ phase[d] = "dead"
  /\ phase' = [phase EXCEPT ![d] = "queued"]
  /\ UNCHANGED <<content, todo>>

Next ==
  \/ \E d \in Deliveries, p \in Payloads, T \in SUBSET Targets : Accept(d, p, T)
  \/ \E d \in Deliveries, p \in Payloads : Retain(d, p)
  \/ \E D \in SUBSET Deliveries, t \in Targets : Serve(D, t)
  \/ \E D \in SUBSET Deliveries : Bury(D)
  \/ \E d \in Deliveries : Revive(d)

Spec == Init /\ [][Next]_vars
==============================================================================
