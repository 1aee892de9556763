----------------------------- MODULE MCOnboarding -----------------------------
(***************************************************************************)
(* Instances of Onboarding for TLC.                                        *)
(***************************************************************************)
EXTENDS Onboarding, TLC

CONSTANTS r1, r2, first, second

(* One user submits a login and later another one. *)
TwoLogins == (first :> "octocat") @@ (second :> "hubot")

(* A login and a submission that is not one. *)
OneMalformed == (first :> "octocat") @@ (second :> "")

Slots == Permutations({r1, r2})
==============================================================================
