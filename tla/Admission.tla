------------------------------ MODULE Admission ------------------------------
(***************************************************************************)
(* How a delivery enters the service: the GitHub and GitLab webhook        *)
(* handlers and the audit poller's admit, all driving the delivery store   *)
(* and the archive, next to the recovery of interrupted admissions, with   *)
(* process crashes, power losses and failing I/O between any two steps.    *)
(*                                                                         *)
(* A request takes the steps lookup -> verify -> finalise a known          *)
(* delivery, or lookup -> reserve (archive lock) -> admit -> publish ->    *)
(* sync -> finalise.  One worker w is one request in flight; the size of   *)
(* Workers is the in-flight limit.                                         *)
(***************************************************************************)
EXTENDS Integers, FiniteSets

CONSTANTS
  Deliveries, Payloads, Chats, NoChat, MaxItems, MaxBytes, DeadMaxItems, DeadMaxBytes,
  MaxAttempts, PayloadBytes, ChatBytes, SequenceBound, AttemptBound,   (* DeliveryStore *)
  Nobody,          (* Archive                                                *)
  Workers,         (* requests that can be in flight                         *)
  Source,          (* Source[d]: who sends delivery d                        *)
  ArchiveOnly,     (* payloads whose event is archived and not forwarded     *)
  Recovery,        (* recoverPending as a holder of the archive lock         *)
  RecoveryBatch,   (* the limit of PendingArchives (100)                     *)
  FaultBound       (* bound of the model: I/O errors and crashes             *)

ASSUME SourceAssumption == Source \in [Deliveries -> {"github", "gitlab", "audit"}]

(* Deliveries are numbered in the order of their keys in bbolt.              *)
ASSUME KeyAssumption == Deliveries \subseteq Nat

ASSUME FaultAssumption == FaultBound \in Nat

ASSUME WorkerAssumption == Recovery \notin Workers /\ Nobody \notin Workers \cup {Recovery}

VARIABLES
  states, queue, dead, next, count, bytes, deadCount, deadBytes, cooldown,
  files, synced, lock,
  mode,            (* the process: "down", "starting" or "serving"           *)
  step,            (* step[w]: what worker w does next, or "idle"            *)
  request,         (* request[w]: the delivery and payload it handles        *)
  pending,         (* deliveries left in the current recovery pass           *)
  recovery,        (* what recoverPending does next, or "idle"               *)
  acked,           (* history: pairs <<d, p>> that were answered with 202    *)
  faults           (* faults that have happened                              *)

Store == INSTANCE DeliveryStore
Files == INSTANCE Archive

storeVars == <<states, queue, dead, next, count, bytes, deadCount, deadBytes, cooldown>>
archiveVars == <<files, synced, lock>>
processVars == <<mode, step, request, pending, recovery>>
historyVars == <<acked, faults>>
vars == <<storeVars, archiveVars, processVars, historyVars>>

(* seen is state.Archived as the lookup read it. *)
Request == [id : Deliveries, payload : Payloads, seen : BOOLEAN]
NoRequest == [id |-> 0, payload |-> 0, seen |-> FALSE]

Init ==
  /\ Store!Init
  /\ Files!Init
  /\ mode = "down"
  /\ step = [w \in Workers |-> "idle"]
  /\ request = [w \in Workers |-> NoRequest]
  /\ pending = {}
  /\ recovery = "idle"
  /\ acked = {}
  /\ faults = 0

(***************************************************************************)
(* Requests.                                                               *)
(***************************************************************************)
GoTo(w, s) == step' = [step EXCEPT ![w] = s] /\ UNCHANGED request

(* The handler returns: its deferred calls release the reservation. *)
Return(w) ==
  /\ step' = [step EXCEPT ![w] = "idle"]
  /\ request' = [request EXCEPT ![w] = NoRequest]
  /\ lock' = IF lock = w THEN Nobody ELSE lock

Accepted(w) ==
  /\ Return(w)
  /\ acked' = acked \cup {<<request[w].id, request[w].payload>>}

(* Queued for the chats of a webhook event; audit records have no ChatIDs.   *)
Targets(d) == IF Source[d] = "audit" THEN {{}} ELSE SUBSET Chats \ {{}}

IsArchiveOnly(d, p) == Source[d] # "audit" /\ p \in ArchiveOnly

(* A request arrives and looks its delivery up; a known delivery with       *)
(* another payload is refused at once (409).                                *)
Lookup(w, d, p) ==
  /\ mode = "serving"
  /\ step[w] = "idle"
  /\ ~Store!Conflicts(d, p)
  /\ step' = [step EXCEPT ![w] = IF Store!Known(d) THEN "verify" ELSE "reserve"]
  /\ request' = [request EXCEPT ![w] =
       [id |-> d, payload |-> p, seen |-> Store!Known(d) /\ states[d].archived]]
  /\ UNCHANGED <<storeVars, archiveVars, mode, pending, recovery, historyVars>>

(* Mutant: the payload that was found is not made durable. *)
VerifyWithoutSync(w) ==
  LET d == request[w].id  p == request[w].payload IN
  /\ step[w] = "verify"
  /\ lock = Nobody
  /\ \/ ~Files!Holds(d, p) /\ GoTo(w, "reserve") /\ UNCHANGED <<lock, acked>>
     \/ Files!Holds(d, p) /\ GoTo(w, "finalize") /\ UNCHANGED <<lock, acked>>
  /\ UNCHANGED <<storeVars, files, synced, mode, pending, recovery, faults>>

(* VerifyExisting, for a delivery that was known at the lookup. *)
Verify(w) ==
  LET d == request[w].id  p == request[w].payload IN
  /\ step[w] = "verify"
  /\ lock = Nobody
  /\ \/ /\ Files!Absent(d)
        /\ GoTo(w, "reserve")
        /\ UNCHANGED <<archiveVars, acked>>
     \/ /\ Files!Holds(d, p)
        /\ Files!SyncDir(d)
        /\ IF request[w].seen THEN Accepted(w)
                              ELSE GoTo(w, "finalize") /\ UNCHANGED <<lock, acked>>
     \/ /\ Files!Differs(d, p)
        /\ Return(w)
        /\ UNCHANGED <<files, synced, acked>>
  /\ UNCHANGED <<storeVars, mode, pending, recovery, faults>>

(* Mutant: admissions are not serialised. *)
ReserveUnlocked(w) ==
  /\ step[w] = "reserve"
  /\ lock' = w
  /\ GoTo(w, "admit")
  /\ UNCHANGED <<storeVars, files, synced, mode, pending, recovery, historyVars>>

(* The space check of Reserve can refuse: see Fail. *)
Reserve(w) ==
  /\ step[w] = "reserve"
  /\ lock = Nobody
  /\ lock' = w
  /\ GoTo(w, "admit")
  /\ UNCHANGED <<storeVars, files, synced, mode, pending, recovery, historyVars>>

(* AdmitToChats, Admit or AdmitArchiveOnly. *)
AdmitDelivery(w) ==
  LET d == request[w].id  p == request[w].payload IN
  /\ step[w] = "admit"
  /\ \/ Store!Known(d) /\ states[d].payload = p /\ UNCHANGED storeVars
     \/ IsArchiveOnly(d, p) /\ Store!AdmitArchiveOnly(d, p)
     \/ ~IsArchiveOnly(d, p) /\ \E C \in Targets(d) : Store!Admit(d, p, C)
  /\ GoTo(w, "publish")
  /\ UNCHANGED <<archiveVars, mode, pending, recovery, historyVars>>

(* The errors of the admission. *)
Refused(d, p) ==
  \/ Store!Conflicts(d, p)
  \/ ~IsArchiveOnly(d, p) /\ \E C \in Targets(d) : Store!QueueFull(d, p, C)

(* Mutant: every handler loses the error. *)
LosesEveryError(d, p) == ~IsArchiveOnly(d, p)

(* The GitLab handler declares targets and err anew in the block that calls *)
(* AdmitToChats, so the error of that call never reaches its check.         *)
LosesError(d, p) == Source[d] = "gitlab" /\ ~IsArchiveOnly(d, p)

RefuseDelivery(w) ==
  LET d == request[w].id  p == request[w].payload IN
  /\ step[w] = "admit"
  /\ Refused(d, p)
  /\ IF LosesError(d, p) THEN GoTo(w, "publish") /\ UNCHANGED lock ELSE Return(w)
  /\ UNCHANGED <<storeVars, files, synced, mode, pending, recovery, historyVars>>

(* Mutant: the directory is not synced after the link. *)
PublishWithoutSync(w) ==
  LET d == request[w].id  p == request[w].payload IN
  /\ step[w] = "publish"
  /\ \/ Files!Holds(d, p) /\ GoTo(w, "finalize") /\ UNCHANGED <<files, synced, lock>>
     \/ Files!Differs(d, p) /\ Return(w) /\ UNCHANGED <<files, synced>>
     \/ Files!Link(d, p) /\ GoTo(w, "finalize") /\ UNCHANGED lock
  /\ UNCHANGED <<storeVars, mode, pending, recovery, historyVars>>

(* Reservation.Store up to the link of the payload file. *)
Publish(w) ==
  LET d == request[w].id  p == request[w].payload IN
  /\ step[w] = "publish"
  /\ \/ /\ Files!Holds(d, p)
        /\ Files!SyncDir(d)
        /\ GoTo(w, "finalize")
        /\ UNCHANGED lock
     \/ /\ Files!Differs(d, p)
        /\ Return(w)
        /\ UNCHANGED <<files, synced>>
     \/ /\ Files!Link(d, p)
        /\ GoTo(w, "sync")
        /\ UNCHANGED lock
  /\ UNCHANGED <<storeVars, mode, pending, recovery, historyVars>>

Sync(w) ==
  /\ step[w] = "sync"
  /\ Files!SyncDir(request[w].id)
  /\ GoTo(w, "finalize")
  /\ UNCHANGED <<storeVars, lock, mode, pending, recovery, historyVars>>

(* FinalizeArchive: a no-op for an archived delivery, ErrNotFound (503) for *)
(* one that was never recorded.                                             *)
Finalize(w) ==
  LET d == request[w].id IN
  /\ step[w] = "finalize"
  /\ IF Store!Known(d) THEN Accepted(w) ELSE Return(w) /\ UNCHANGED acked
  /\ \/ Store!FinalizeArchive(d)
     \/ (Store!Known(d) => states[d].archived) /\ UNCHANGED storeVars
  /\ UNCHANGED <<files, synced, mode, pending, recovery, faults>>

(* The read, write, sync or transaction of the step fails: 503. *)
Fail(w) ==
  LET d == request[w].id  p == request[w].payload IN
  /\ step[w] # "idle"
  /\ faults < FaultBound
  /\ faults' = faults + 1
  /\ \/ Return(w)
     \/ step[w] = "admit" /\ LosesError(d, p) /\ GoTo(w, "publish") /\ UNCHANGED lock
  /\ UNCHANGED <<storeVars, files, synced, mode, pending, recovery, acked>>

(***************************************************************************)
(* recoverPending, at startup and then from a ticker.                      *)
(***************************************************************************)
(* Mutant: archive-only deliveries are not looked for. *)
PendingQueuedOnly ==
  LET unarchived == {d \in DOMAIN states : ~states[d].archived /\ states[d].status = "queued"}
  IN  {d \in unarchived : Cardinality({e \in unarchived : e < d}) < RecoveryBatch}

(* The first RecoveryBatch unarchived deliveries in key order. *)
PendingArchives ==
  LET unarchived == {d \in DOMAIN states : ~states[d].archived}
  IN  {d \in unarchived : Cardinality({e \in unarchived : e < d}) < RecoveryBatch}

FirstPending == CHOOSE d \in pending : \A e \in pending : d <= e

(* A pass ends well: at startup the servers are opened then. *)
PassDone == recovery' = "idle" /\ pending' = {} /\ mode' = "serving"

(* A pass ends with its first error: at startup main exits. *)
PassFails ==
  /\ recovery' = "idle"
  /\ pending' = {}
  /\ mode' = IF mode = "starting" THEN "down" ELSE mode

TakePending ==
  /\ mode # "down"
  /\ recovery = "idle"
  /\ IF PendingArchives = {}
     THEN mode = "starting" /\ PassDone
     ELSE pending' = PendingArchives /\ recovery' = "store" /\ UNCHANGED mode
  /\ UNCHANGED <<storeVars, archiveVars, step, request, historyVars>>

(* Mutant: a payload that is already there is always a conflict. *)
RecoverStoreOnce ==
  LET d == FirstPending  p == states[d].payload IN
  /\ recovery = "store"
  /\ lock = Nobody
  /\ \/ /\ Files!Link(d, p)
        /\ lock' = Recovery
        /\ recovery' = "sync"
        /\ UNCHANGED <<pending, mode>>
     \/ /\ ~Files!Absent(d)
        /\ PassFails
        /\ UNCHANGED archiveVars
  /\ UNCHANGED <<storeVars, step, request, historyVars>>

(* Archive.Store of the first delivery, up to the link. *)
RecoverStore ==
  LET d == FirstPending  p == states[d].payload IN
  /\ recovery = "store"
  /\ lock = Nobody
  /\ \/ /\ Files!Holds(d, p)
        /\ Files!SyncDir(d)
        /\ recovery' = "finalize"
        /\ UNCHANGED <<lock, pending, mode>>
     \/ /\ Files!Link(d, p)
        /\ lock' = Recovery
        /\ recovery' = "sync"
        /\ UNCHANGED <<pending, mode>>
     \/ /\ Files!Differs(d, p)
        /\ PassFails
        /\ UNCHANGED archiveVars
  /\ UNCHANGED <<storeVars, step, request, historyVars>>

RecoverSync ==
  /\ recovery = "sync"
  /\ Files!SyncDir(FirstPending)
  /\ lock' = Nobody
  /\ recovery' = "finalize"
  /\ UNCHANGED <<storeVars, mode, step, request, pending, historyVars>>

RecoverFinalize ==
  LET d == FirstPending IN
  /\ recovery = "finalize"
  /\ \/ Store!FinalizeArchive(d)
     \/ states[d].archived /\ UNCHANGED storeVars
  /\ IF pending = {d}
     THEN PassDone
     ELSE pending' = pending \ {d} /\ recovery' = "store" /\ UNCHANGED mode
  /\ UNCHANGED <<archiveVars, step, request, historyVars>>

RecoverFail ==
  /\ recovery # "idle"
  /\ faults < FaultBound
  /\ faults' = faults + 1
  /\ PassFails
  /\ lock' = IF lock = Recovery THEN Nobody ELSE lock
  /\ UNCHANGED <<storeVars, files, synced, step, request, acked>>

(***************************************************************************)
(* The process and its surroundings.                                       *)
(***************************************************************************)
Start ==
  /\ mode = "down"
  /\ Store!Open
  /\ mode' = "starting"
  /\ UNCHANGED <<archiveVars, step, request, pending, recovery, historyVars>>

(* The process, or the machine under it, dies; a shutdown in good order is  *)
(* the case in which no request and no recovery is under way.               *)
Crash(lost) ==
  /\ mode # "down"
  /\ faults < FaultBound
  /\ faults' = faults + 1
  /\ Files!Lose(lost)
  /\ mode' = "down"
  /\ step' = [w \in Workers |-> "idle"]
  /\ request' = [w \in Workers |-> NoRequest]
  /\ pending' = {}
  /\ recovery' = "idle"
  /\ UNCHANGED <<storeVars, acked>>

(* The forwarder, seen from here: it completes an item that Due handed out. *)
Forward(s, t) ==
  /\ mode = "serving"
  /\ Store!HasTarget(queue[s], t)
  /\ Store!CompleteChatDelivery({s}, t)
  /\ UNCHANGED <<archiveVars, processVars, historyVars>>

WorkerStep(w) ==
  \/ Verify(w) \/ Reserve(w) \/ AdmitDelivery(w) \/ RefuseDelivery(w)
  \/ Publish(w) \/ Sync(w) \/ Finalize(w)

RecoveryStep == TakePending \/ RecoverStore \/ RecoverSync \/ RecoverFinalize

Next ==
  \/ \E w \in Workers, d \in Deliveries, p \in Payloads : Lookup(w, d, p)
  \/ \E w \in Workers : WorkerStep(w) \/ Fail(w)
  \/ RecoveryStep \/ RecoverFail
  \/ Start
  \/ \E lost \in SUBSET DOMAIN files : Crash(lost)
  \/ \E s \in Store!Sendable, t \in Chats \cup {NoChat} : Forward(s, t)

(* A handler that has begun goes on; the ticker and the supervisor          *)
(* (Restart=on-failure) come back; whoever waits for the archive lock gets  *)
(* it in turn (receivers of a Go channel are served first come, first       *)
(* served).  Nothing makes a request arrive or an item be forwarded.        *)
Fairness ==
  /\ \A w \in Workers : SF_vars(WorkerStep(w))
  /\ SF_vars(RecoveryStep)
  /\ WF_vars(Start)

Spec == Init /\ [][Next]_vars
LiveSpec == Spec /\ Fairness
------------------------------------------------------------------------------
(***************************************************************************)
(* Properties.                                                             *)
(***************************************************************************)
Steps == {"idle", "verify", "reserve", "admit", "publish", "sync", "finalize"}

(* Every variable of the composition has its type, and whoever is inside a  *)
(* reservation or in the middle of a publication holds the archive lock.    *)
TypeOK ==
  /\ Store!TypeOK
  /\ DOMAIN files \subseteq Deliveries
  /\ \A d \in DOMAIN files : files[d] \in Payloads
  /\ synced \subseteq DOMAIN files
  /\ lock \in Workers \cup {Recovery, Nobody}
  /\ mode \in {"down", "starting", "serving"}
  /\ step \in [Workers -> Steps]
  /\ \A w \in Workers : step[w] # "idle" => request[w] \in Request
  /\ pending \subseteq DOMAIN states
  /\ recovery \in {"idle", "store", "sync", "finalize"}
  /\ recovery = "idle" <=> pending = {}
  /\ acked \subseteq Deliveries \X Payloads
  /\ faults \in 0..FaultBound
  /\ \A w \in Workers : step[w] \in {"admit", "publish", "sync"} => lock = w
  /\ \A w \in Workers : lock = w => step[w] \in {"admit", "publish", "sync", "finalize"}
  /\ recovery = "sync" <=> lock = Recovery

(* What a sender was told is accepted survives every later power loss, and  *)
(* no other payload is ever kept in its place.                              *)
AckedIsDurable ==
  \A d \in Deliveries, p \in Payloads :
    <<d, p>> \in acked => d \in synced /\ files[d] = p

(* The archived flag, which lets the worker send and drops the raw copy, is *)
(* only set when the same payload is in the archive for good.               *)
ArchivedIsDurable ==
  \A d \in DOMAIN states :
    states[d].archived => d \in synced /\ files[d] = states[d].payload

(* Whatever is in the archive is the payload its delivery is permanently    *)
(* known by: a conflicting payload is never kept, nor answered with 202, and *)
(* nobody has put another one where recovery must store what it finds.       *)
FilesAreRecorded == \A d \in DOMAIN files : Store!Known(d) /\ states[d].payload = files[d]

(* An interrupted admission is completed by recovery, whatever its sender   *)
(* does: no delivery that was recorded stays unsendable for ever.           *)
EventuallyArchived ==
  \A d \in Deliveries : Store!Known(d) ~> (Store!Known(d) /\ states[d].archived)

(* Once faults stop the service comes back and stays. *)
EventuallyServing == <>[](mode = "serving")

Inbox == INSTANCE DurableInbox WITH
  recorded <- {<<d, states[d].payload>> : d \in DOMAIN states},
  retained <- {d \in DOMAIN states : d \in synced /\ files[d] = states[d].payload},
  done     <- {d \in DOMAIN states : states[d].status = "delivered"}

(* Handlers, poller, recovery, crashes and power losses together implement  *)
(* the promise to the senders.                                              *)
InboxSpec == Inbox!Spec
==============================================================================
