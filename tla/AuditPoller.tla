----------------------------- MODULE AuditPoller -----------------------------
(***************************************************************************)
(* The poller of the organization's audit log (internal/audit): a durable  *)
(* checkpoint, a query that reaches back over it, pages of a log that      *)
(* grows while it is read and shows some records late, and the admission   *)
(* of every record before the checkpoint moves, with failing requests,     *)
(* failing admissions and crashes between any two steps.                   *)
(*                                                                         *)
(* Records are numbered in the order of their creation, which is the order *)
(* of the API (order=asc), and have a _document_id.  GitHub's clock and    *)
(* the local one are one clock; what they differ by belongs to             *)
(* VisibilityLag.  Admission itself, with the archive lock and other       *)
(* requests, is module Admission; here a record goes through its three     *)
(* durable steps.                                                          *)
(***************************************************************************)
EXTENDS Integers, FiniteSets

CONSTANTS
  RecordBound,     (* bound of the model: records that are ever created      *)
  Horizon,         (* bound of the model: the clock stops here               *)
  Overlap,         (* auditQueryOverlap (5 minutes)                          *)
  VisibilityLag,   (* a record is listed this long after its time at most    *)
  PageSize,        (* per_page (100)                                         *)
  OddityBound,     (* bound of the model: records that cannot be admitted    *)
  FaultBound       (* bound of the model: failing steps and crashes          *)

ASSUME BoundAssumption ==
  RecordBound \in Nat /\ Horizon \in Nat /\ OddityBound \in Nat /\ FaultBound \in Nat

ASSUME PageAssumption == PageSize \in Nat \ {0}

(* The overlap is there to cover what the log shows late.                    *)
ASSUME OverlapAssumption ==
  Overlap \in Nat /\ VisibilityLag \in Nat /\ VisibilityLag <= Overlap

VARIABLES
  clock,
  created,         (* created[r]: the time record r carries                  *)
  visible,         (* records the API lists                                  *)
  undated,         (* records without a timestamp that can be parsed         *)
  amended,         (* records whose content changed after they were admitted *)
  checkpoint,      (* audit_checkpoint bucket: {} or the singleton of a time *)
  bootstrap,       (* audit_bootstrap bucket, likewise                       *)
  stage,           (* stage[r]: how far the admission of r has come          *)
  step,            (* what the poller does next                              *)
  from,            (* the checkpoint PollOnce has read                       *)
  started,         (* pollStarted                                            *)
  cursor,          (* the last record of the pages read so far               *)
  records,         (* fetched and not yet dealt with                         *)
  faults           (* history: failing steps and crashes so far              *)

logVars == <<clock, created, visible, undated, amended>>
durableVars == <<checkpoint, bootstrap, stage>>
pollVars == <<step, from, started, cursor, records>>
vars == <<logVars, durableVars, pollVars, faults>>

Records == 1..RecordBound
Occurred == DOMAIN created

Init ==
  /\ clock = 0
  /\ created = [r \in {} |-> 0]
  /\ visible = {} /\ undated = {} /\ amended = {}
  /\ checkpoint = {} /\ bootstrap = {}
  /\ stage = [r \in Records |-> "new"]
  /\ step = "down"
  /\ from = {} /\ started = 0 /\ cursor = 0 /\ records = {}
  /\ faults = 0

(***************************************************************************)
(* The audit log.                                                          *)
(***************************************************************************)
Tick ==
  /\ clock < Horizon
  /\ \A r \in Occurred \ visible : clock < created[r] + VisibilityLag
  /\ clock' = clock + 1
  /\ UNCHANGED <<created, visible, undated, amended, durableVars, pollVars, faults>>

OddityLeft == Cardinality(undated \cup amended) < OddityBound

Occur(dated) ==
  LET r == Cardinality(Occurred) + 1 IN
  /\ r \in Records
  /\ dated \/ OddityLeft
  /\ created' = [q \in Occurred \cup {r} |-> IF q = r THEN clock ELSE created[q]]
  /\ undated' = IF dated THEN undated ELSE undated \cup {r}
  /\ UNCHANGED <<clock, visible, amended, durableVars, pollVars, faults>>

Appear(r) ==
  /\ r \in Occurred \ visible
  /\ visible' = visible \cup {r}
  /\ UNCHANGED <<clock, created, undated, amended, durableVars, pollVars, faults>>

(* The API describes a record differently than when it was admitted. *)
Amend(r) ==
  /\ stage[r] # "new" /\ r \notin amended \cup undated
  /\ OddityLeft
  /\ amended' = amended \cup {r}
  /\ UNCHANGED <<clock, created, visible, undated, durableVars, pollVars, faults>>

(***************************************************************************)
(* PollOnce.                                                               *)
(***************************************************************************)
(* The poll is over, well or not; poll or Run calls PollOnce again later.    *)
EndPoll ==
  /\ step' = "idle"
  /\ from' = {} /\ started' = 0 /\ cursor' = 0 /\ records' = {}

(* time.Now() is the caller's, before the checkpoint is read. *)
Begin ==
  /\ step = "idle"
  /\ from' = checkpoint
  /\ started' = clock
  /\ step' = IF checkpoint = {} THEN "initialize" ELSE "fetch"
  /\ UNCHANGED <<logVars, durableVars, cursor, records, faults>>

(* Mutant: the bootstrap time is not stored with the checkpoint. *)
InitializeCheckpointOnly ==
  /\ step = "initialize"
  /\ checkpoint' = {started}
  /\ EndPoll
  /\ UNCHANGED <<logVars, bootstrap, stage, faults>>

(* InitializeAuditCheckpoint. *)
InitializeAuditCheckpoint ==
  /\ step = "initialize"
  /\ checkpoint' = {started}
  /\ bootstrap' = {started}
  /\ EndPoll
  /\ UNCHANGED <<logVars, stage, faults>>

(* Mutant: the query starts at the checkpoint. *)
ListedWithoutOverlap == {r \in visible : \A c \in from : created[r] >= c}

(* What the query created:>= checkpoint - overlap lists at this moment. *)
Listed == {r \in visible : \A c \in from : created[r] >= c - Overlap}

(* A page: the next PageSize records behind the cursor; the last one links  *)
(* to no other.                                                             *)
Rest == {r \in Listed : r > cursor}
Page == {r \in Rest : Cardinality({q \in Rest : q <= r}) <= PageSize}

(* Mutant: the link to the next page is not followed. *)
LastPageAlways == TRUE

LastPage == Page = Rest

LastOf(page) == CHOOSE r \in page : \A q \in page : q <= r

FetchPage ==
  /\ step = "fetch"
  /\ records' = records \cup Page
  /\ cursor' = IF Page = {} THEN cursor ELSE LastOf(Page)
  /\ step' = IF LastPage THEN "admit" ELSE "fetch"
  /\ UNCHANGED <<logVars, durableVars, from, started, faults>>

First == CHOOSE r \in records : \A q \in records : r <= q

(* createdAfter, for a record whose timestamp can be parsed. *)
Predates(r) == \E b \in bootstrap : created[r] <= b

(* Errors that come back at every poll: errBootstrapTimestamp, and          *)
(* ErrDeliveryConflict from the lookup of an admitted record.               *)
Unfit(r) ==
  \/ r \in undated /\ bootstrap # {}
  \/ r \in amended

Done(r) == records' = records \ {r} /\ UNCHANGED <<step, from, started, cursor>>

(* Older than the bootstrap, or admitted and archived by an earlier poll.   *)
Skip ==
  /\ step = "admit" /\ records # {}
  /\ ~Unfit(First)
  /\ Predates(First) \/ stage[First] = "archived"
  /\ Done(First)
  /\ UNCHANGED <<logVars, durableVars, faults>>

(* admit: Admit, Store and FinalizeArchive; each finds what an earlier      *)
(* attempt left.                                                            *)
Progress(r) ==
  /\ stage[r] # "archived"
  /\ stage' = [stage EXCEPT ![r] =
       CASE @ = "new" -> "recorded" [] @ = "recorded" -> "published" [] OTHER -> "archived"]

Admit ==
  /\ step = "admit" /\ records # {}
  /\ ~Unfit(First) /\ ~Predates(First)
  /\ Progress(First)
  /\ IF stage'[First] = "archived" THEN Done(First) ELSE UNCHANGED pollVars
  /\ UNCHANGED <<logVars, checkpoint, bootstrap, faults>>

(* An unfit record ends the poll with the checkpoint where it was. *)
Refuse ==
  /\ step = "admit" /\ records # {}
  /\ Unfit(First)
  /\ EndPoll
  /\ UNCHANGED <<logVars, durableVars, faults>>

SetAuditCheckpoint ==
  /\ step = "admit" /\ records = {}
  /\ checkpoint' = {started}
  /\ EndPoll
  /\ UNCHANGED <<logVars, bootstrap, stage, faults>>

Fault == faults < FaultBound /\ faults' = faults + 1

(* Any other error ends the poll too: of a page, which loses the pages      *)
(* before it, a full queue, no space, failing I/O, a failing transaction.   *)
PollFails ==
  /\ step \in {"initialize", "fetch", "admit"}
  /\ Fault
  /\ EndPoll
  /\ UNCHANGED <<logVars, durableVars>>

(***************************************************************************)
(* The process.                                                            *)
(***************************************************************************)
Start ==
  /\ step = "down"
  /\ step' = "idle"
  /\ UNCHANGED <<logVars, durableVars, from, started, cursor, records, faults>>

Crash ==
  /\ step # "down"
  /\ Fault
  /\ step' = "down"
  /\ from' = {} /\ started' = 0 /\ cursor' = 0 /\ records' = {}
  /\ UNCHANGED <<logVars, durableVars>>

(* recoverPending completes what a poll has begun. *)
Recover(r) ==
  /\ step # "down"
  /\ stage[r] \in {"recorded", "published"}
  /\ Progress(r)
  /\ UNCHANGED <<logVars, checkpoint, bootstrap, pollVars, faults>>

PollStep ==
  \/ Begin \/ InitializeAuditCheckpoint \/ FetchPage
  \/ Skip \/ Admit \/ Refuse \/ SetAuditCheckpoint

Next ==
  \/ Tick
  \/ \E dated \in BOOLEAN : Occur(dated)
  \/ \E r \in Records : Appear(r) \/ Amend(r) \/ Recover(r)
  \/ PollStep
  \/ PollFails
  \/ Start \/ Crash

(* The log shows its records; the ticker and the retry timer come back, a    *)
(* poll that has begun goes on, and the supervisor restarts the process.     *)
Fairness ==
  /\ \A r \in Records : WF_vars(Appear(r))
  /\ WF_vars(PollStep)
  /\ WF_vars(Start)

Spec == Init /\ [][Next]_vars
LiveSpec == Spec /\ Fairness
------------------------------------------------------------------------------
(***************************************************************************)
(* Properties.                                                             *)
(***************************************************************************)
(* Nothing is admitted before monitoring begins, and nothing that was       *)
(* created before that ever, although every query reaches back behind the   *)
(* checkpoint, however many polls, failures and restarts there are.         *)
NoReplay ==
  \A r \in Occurred :
    stage[r] # "new" => bootstrap # {} /\ \A b \in bootstrap : created[r] > b

(* The checkpoint never leaves a record behind: one that no later query can *)
(* list any more has been archived, whenever it became visible, whatever    *)
(* page it was on and however often polls failed on the way.                *)
NothingMissed ==
  \A r \in Occurred, c \in checkpoint :
    (~Predates(r) /\ created[r] < c - Overlap) => stage[r] = "archived"

(* Every record of the log is admitted in the end, although any poll may     *)
(* fail; only a record that cannot be admitted holds up those behind it,     *)
(* for as long as the query lists it.                                        *)
Blocked(r) ==
  \E q \in visible, c \in checkpoint : q <= r /\ Unfit(q) /\ created[q] >= c - Overlap

EventuallyAdmitted ==
  \A r \in Records :
    (r \in visible /\ checkpoint # {} /\ ~Predates(r))
      ~> (stage[r] = "archived" \/ Blocked(r))
==============================================================================
