------------------------------ MODULE MCOutbound ------------------------------
(***************************************************************************)
(* An instance of Outbound for TLC.                                        *)
(***************************************************************************)
EXTENDS Outbound, TLC

(* The two deliveries of the command are interchangeable. *)
MCSymmetry == Permutations(Requests)
==============================================================================
