--------------------------- MODULE MCDeliveryStore ---------------------------
(***************************************************************************)
(* Instance of DeliveryStore for TLC.                                      *)
(***************************************************************************)
EXTENDS DeliveryStore, TLC

CONSTANTS d1, d2, d3, p1, p2, c1, c2

(* p2 is the larger payload: with it a byte limit can bind before the item  *)
(* limit does.                                                              *)
MCPayloadBytes == (p1 :> 1) @@ (p2 :> 3)

(* Deliveries and chats are interchangeable, payloads are not. *)
MCSymmetry == Permutations(Deliveries) \cup Permutations(Chats)
==============================================================================
