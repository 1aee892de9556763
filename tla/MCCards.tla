------------------------------- MODULE MCCards -------------------------------
(***************************************************************************)
(* Instances of Cards for TLC.                                             *)
(***************************************************************************)
EXTENDS Cards, Sequences

(* A run that fails, the check it ran, and its rerun that succeeds. *)
Rerun ==
  [gitlab |-> FALSE, chats |-> {1}, events |->
    << RunEvent(1, "completed", "failure", 3, 1),
       CheckEvent("build", "completed", "failure", 2),
       RunEvent(2, "queued", "", 5, 5),
       RunEvent(2, "completed", "success", 8, 5) >>]

(* A pipeline that fails, is retried and then succeeds. *)
Pipeline ==
  [gitlab |-> TRUE, chats |-> {1}, events |->
    << PipelineEvent("pending", 1), PipelineEvent("running", 1), PipelineEvent("failed", 4),
       PipelineEvent("success", 9) >>]

(* A pipeline that is cancelled and, retried, succeeds. *)
Cancelled ==
  [gitlab |-> TRUE, chats |-> {1}, events |->
    << PipelineEvent("running", 1), PipelineEvent("canceling", 1), PipelineEvent("canceled", 5),
       PipelineEvent("success", 9) >>]

(* A run with a check that ends after a run event which may come late. *)
Checked ==
  [gitlab |-> FALSE, chats |-> {1}, events |->
    << RunEvent(1, "queued", "", 1, 1), CheckEvent("build", "completed", "success", 5),
       RunEvent(1, "in_progress", "", 4, 1), RunEvent(1, "completed", "success", 5, 1) >>]

(* A run that succeeds, fails and succeeds. *)
Flaky ==
  [gitlab |-> FALSE, chats |-> {1}, events |->
    << RunEvent(1, "completed", "success", 2, 1), RunEvent(2, "completed", "failure", 4, 3),
       RunEvent(3, "completed", "success", 6, 5) >>]

(* Their beginnings and ends, in two chats. *)
TwoChats ==
  {[Rerun EXCEPT !.chats = {1, 2}, !.events = <<@[1], @[4]>>],
   [Pipeline EXCEPT !.chats = {1, 2}, !.events = <<@[2], @[4]>>]}

AllHistories == {Rerun, Checked, Flaky, Pipeline, Cancelled} \cup TwoChats

(* For the counterexamples: the beginning and the end of a pipeline, and a  *)
(* rerun that has not ended.                                                *)
PipelineEnds == {[Pipeline EXCEPT !.events = <<@[1], @[4]>>]}

RerunBegins == {[Rerun EXCEPT !.events = SubSeq(@, 1, 3)]}
==============================================================================
