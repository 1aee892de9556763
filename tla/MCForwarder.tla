----------------------------- MODULE MCForwarder -----------------------------
(***************************************************************************)
(* Instances of Forwarder for TLC.                                         *)
(***************************************************************************)
EXTENDS Forwarder, TLC

CONSTANTS d1, d2, p1, p2

MCBytes == [p \in Payloads |-> 1]

(* The line of p2 fills a message. *)
MCLines == (p1 :> 1) @@ (p2 :> 2)

MCSymmetry == Permutations(Deliveries)
==============================================================================
