------------------------------ MODULE Workflows ------------------------------
(***************************************************************************)
(* The durable state of one status card and how an event changes it:       *)
(* store.UpsertWorkflow, shared by GitHub workflow runs and check runs and *)
(* by GitLab pipelines, and the rank test GitLab events pass first.        *)
(*                                                                         *)
(* Times are numbers, 0 is the zero time.  Names, URLs, branch and commit  *)
(* are left out: they follow the status.                                   *)
(***************************************************************************)
EXTENDS Integers

(* store.WorkflowCheck; at is workflowCheckTime. *)
NoCheck == [id |-> "", status |-> "", conclusion |-> "", at |-> 0]

(* store.WorkflowUpdate, as workflowUpdate builds it for the two events. *)
RunEvent(attempt, status, conclusion, at, started) ==
  [attempt |-> attempt, status |-> status, conclusion |-> conclusion,
   at |-> at, started |-> started, check |-> NoCheck]

CheckEvent(id, status, conclusion, at) ==
  [attempt |-> 0, status |-> "", conclusion |-> "", at |-> at, started |-> 0,
   check |-> [id |-> id, status |-> status, conclusion |-> conclusion, at |-> at]]

(* gitlabPipelineUpdate: finished_at for a terminal status, else created_at. *)
PipelineTerminal == {"success", "failed", "canceled", "skipped"}

PipelineEvent(status, at) ==
  RunEvent(0, status, IF status \in PipelineTerminal THEN status ELSE "", at, 0)

(* store.WorkflowState; message: a Lark message is recorded; reaction: the  *)
(* recorded reaction, "" for none.                                          *)
NoState == [known |-> FALSE, attempt |-> 0, status |-> "", conclusion |-> "", at |-> 0,
            started |-> 0, checks |-> [i \in {} |-> NoCheck], message |-> FALSE, reaction |-> ""]

IsTerminal(r) == r.status = "completed" \/ r.conclusion # ""

(* Mutant: every update of the stored attempt is taken. *)
AcceptsSameAttempt(state, u) == u.attempt >= state.attempt

(* Whether the status part of an update is taken over. *)
Accepts(state, u) ==
  \/ u.attempt > state.attempt
  \/ u.at # 0 /\ u.at >= state.at
  \/ u.at = 0 /\ ~(IsTerminal(state) /\ ~IsTerminal(u))

(* A new attempt starts over, but keeps the checks of a card that has seen  *)
(* no run event yet.                                                        *)
WithAttempt(state, u) ==
  IF u.attempt <= state.attempt THEN state
  ELSE [state EXCEPT !.attempt = u.attempt,
                     !.started = IF u.started # 0 THEN u.started ELSE u.at,
                     !.checks = IF state.attempt > 0 THEN NoState.checks ELSE @,
                     !.conclusion = ""]

WithStatus(state, u) ==
  [state EXCEPT !.status = IF u.status # "" THEN u.status ELSE @,
                !.conclusion = IF u.conclusion # "" \/ u.status = "completed"
                               THEN u.conclusion ELSE @,
                !.at = IF u.at # 0 THEN u.at ELSE @]

(* A check without an attempt of its own belongs to the current one only if *)
(* it is not older than its start.                                          *)
ValidCheck(state, c) ==
  /\ ~(state.attempt > 1 /\ c.at = 0)
  /\ ~(c.at # 0 /\ state.started # 0 /\ c.at < state.started)

NewerCheck(state, c) ==
  \/ c.id \notin DOMAIN state.checks
  \/ c.at # 0 /\ c.at >= state.checks[c.id].at
  \/ ~IsTerminal(state.checks[c.id]) /\ IsTerminal(c)

WithCheck(state, c) ==
  IF c.id # "" /\ ValidCheck(state, c) /\ NewerCheck(state, c)
  THEN [state EXCEPT !.checks =
          [i \in DOMAIN @ \cup {c.id} |-> IF i = c.id THEN c ELSE @[i]]]
  ELSE state

UpsertWorkflow(state, u) ==
  LET taken == IF Accepts(state, u) THEN WithStatus(WithAttempt(state, u), u) ELSE state
  IN  [WithCheck(taken, u.check) EXCEPT !.known = TRUE]

(***************************************************************************)
(* GitLab pipelines.                                                       *)
(***************************************************************************)
StatusRank ==
  [created |-> 0, waiting_for_resource |-> 1, preparing |-> 2, waiting_for_callback |-> 3,
   pending |-> 4, scheduled |-> 4, manual |-> 4, running |-> 5, canceling |-> 6,
   success |-> 7, failed |-> 7, skipped |-> 7, canceled |-> 8]

(* Mutants: a later status of the same rank is stale; time alone decides. *)
PipelineAdvancesByRank(state, u) ==
  state.status = "" \/ StatusRank[u.status] > StatusRank[state.status]

PipelineAdvancesByTime(state, u) == u.at >= state.at

(* gitlabPipelineAdvances, for the statuses GitLab documents. *)
PipelineAdvances(state, u) ==
  \/ state.status = "" \/ state.at = 0
  \/ StatusRank[u.status] > StatusRank[state.status]
  \/ StatusRank[u.status] = StatusRank[state.status] /\ u.at > state.at

(* The status that the card shows, the card, and the reaction it gets. *)
Label(r) == IF r.conclusion # "" THEN r.conclusion ELSE r.status

CardOf(state) == [attempt |-> state.attempt, checks |-> state.checks, status |-> Label(state)]

Reaction(conclusion) ==
  CASE conclusion = "success" -> {"DONE"}
    [] conclusion \in {"failure", "failed", "timed_out", "action_required"} -> {"ERROR"}
    [] conclusion \in {"cancelled", "canceled", "skipped", "neutral", "stale"} -> {"CrossMark"}
    [] OTHER -> {}
==============================================================================
