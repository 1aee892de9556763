----------------------------- MODULE MCAdmission -----------------------------
(***************************************************************************)
(* Instances of Admission for TLC.                                         *)
(***************************************************************************)
EXTENDS Admission, TLC

CONSTANTS p1, p2, w1, w2

(* Delivery 1 comes from a webhook, delivery 2 from the audit log. *)
GithubAndAudit == (1 :> "github") @@ (2 :> "audit")

(* A GitHub and a GitLab webhook. *)
GithubAndGitlab == (1 :> "github") @@ (2 :> "gitlab")

MCPayloadBytes == [p \in Payloads |-> 1]
==============================================================================
