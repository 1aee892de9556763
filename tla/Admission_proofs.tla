-------------------------- MODULE Admission_proofs ---------------------------
(***************************************************************************)
(* Proofs about the admission of deliveries: whatever was answered with    *)
(* 202 is in the archive for good, the archive and the store agree on the  *)
(* payload of every delivery whose handler heeds the errors of the         *)
(* admission, and where all of them do the service implements DurableInbox.*)
(*                                                                         *)
(* IInv adds to the properties what a step of a request, or of recovery,   *)
(* may rely on when it is taken (RequestOK, RecoveryOK): the check an      *)
(* earlier step made still holds, whatever other requests, recovery and    *)
(* the forwarder have done in between.                                     *)
(***************************************************************************)
EXTENDS Admission, FiniteLemmas

(***************************************************************************)
(* The store as the admissions use it: every item of the queue belongs to  *)
(* a known delivery, which has no other item; there are no dead letters.   *)
(***************************************************************************)
ItemOwned(s) ==
  LET d == queue[s].id IN
  /\ d \in DOMAIN states
  /\ states[d].seq = s /\ states[d].archived = queue[s].archived

StoreOK ==
  /\ Store!TypeOK
  /\ DOMAIN dead = {}
  /\ \A s \in DOMAIN queue : ItemOwned(s)
  /\ \A d \in DOMAIN states :
       /\ states[d].seq <= next
       /\ states[d].seq \in DOMAIN queue => queue[states[d].seq].id = d

(* What the transactions mean for the archive. *)
Recorded(d, p) ==
  /\ d \notin DOMAIN states /\ DOMAIN states' = DOMAIN states \cup {d}
  /\ states'[d].payload = p /\ ~states'[d].archived /\ states'[d].status # "delivered"
  /\ \A e \in DOMAIN states : states'[e] = states[e]

Finalized(d) ==
  /\ d \in DOMAIN states /\ DOMAIN states' = DOMAIN states
  /\ states'[d].archived /\ states'[d].payload = states[d].payload
  /\ states'[d].status = states[d].status
  /\ \A e \in DOMAIN states : e # d => states'[e] = states[e]

(* The delivery of item s has reached its last chat, or another one is left.*)
Forwarded(s) ==
  /\ DOMAIN states' = DOMAIN states
  /\ \A e \in DOMAIN states :
       /\ states'[e].payload = states[e].payload /\ states'[e].archived = states[e].archived
       /\ e # queue[s].id => states'[e].status = states[e].status
       /\ states'[e].status \in {states[e].status, "delivered"}

LEMMA StoreCardinality == \A S : Store!Cardinality(S) = Cardinality(S)
BY DEF Store!Cardinality, Cardinality

LEMMA TypedFunction ==
  ASSUME NEW f, NEW T, f = [x \in DOMAIN f |-> f[x]], \A x \in DOMAIN f : f[x] \in T
  PROVE  f \in [DOMAIN f -> T]
OBVIOUS

LEMMA FiniteKeys ==
  ASSUME NEW keys, NEW n \in Nat, keys \subseteq 1..n
  PROVE  IsFiniteSet(keys) /\ Cardinality(keys) \in Nat
<1>1. IsFiniteSet(1..n)
  BY FS_Interval
<1>2. IsFiniteSet(keys)
  BY <1>1, FS_Subset
<1>3. QED
  BY <1>2, FS_CardinalityType

LEMMA AdmitRecords ==
  ASSUME StoreOK, NEW d \in Deliveries, NEW p \in Payloads, NEW C \in SUBSET Chats,
         Store!Admit(d, p, C)
  PROVE  StoreOK' /\ Recorded(d, p)
<1> PICK n : n = next + 1
  OBVIOUS
<1> DEFINE item == Store!NewItem(d, p, C)
           state == Store!NewState(p, n, "queued")
<1>1. /\ d \notin DOMAIN states
      /\ next' = n
      /\ queue' = Store!Put(queue, n, item)
      /\ states' = Store!Put(states, d, state)
      /\ dead' = dead /\ deadCount' = deadCount /\ cooldown' = cooldown
      /\ count' = count + 1
  BY DEF Store!Admit, Store!Known
<1>2. /\ item \in Store!Item /\ item.id = d /\ item.payload = p
      /\ item.archived = FALSE
  BY DEF Store!NewItem, Store!Item
<1>3. /\ next \in Nat /\ n = next + 1 /\ state \in Store!DeliveryState
      /\ state.seq = n /\ state.status = "queued" /\ state.payload = p
      /\ state.archived = FALSE
  BY DEF Store!NewState, Store!DeliveryState, Store!Statuses, StoreOK, Store!TypeOK
<1> HIDE DEF item, state
<1>4. /\ DOMAIN queue' = DOMAIN queue \cup {n}
      /\ queue'[n] = item
      /\ \A s \in DOMAIN queue : s # n /\ queue'[s] = queue[s]
  BY <1>1, <1>3 DEF Store!Put, StoreOK, Store!TypeOK
<1>5. /\ DOMAIN states' = DOMAIN states \cup {d}
      /\ states'[d] = state
      /\ \A e \in DOMAIN states : e # d /\ states'[e] = states[e]
      /\ states' = [e \in DOMAIN states' |-> states'[e]]
  BY <1>1 DEF Store!Put
<1>6. Store!TypeOK'
  <2>1. states' \in [DOMAIN states' -> Store!DeliveryState]
    BY <1>3, <1>5, TypedFunction DEF StoreOK, Store!TypeOK
  <2>2. QED
    BY <1>1, <1>2, <1>3, <1>4, <1>5, <2>1 DEF StoreOK, Store!TypeOK
<1>7. \A s \in DOMAIN queue' : ItemOwned(s)'
  <2>1. ItemOwned(n)'
    BY <1>2, <1>3, <1>4, <1>5 DEF ItemOwned
  <2>2. ASSUME NEW s \in DOMAIN queue PROVE ItemOwned(s)'
    BY <1>4, <1>5 DEF StoreOK, ItemOwned
  <2>3. QED
    BY <1>4, <2>1, <2>2
<1>8. \A e \in DOMAIN states' :
        /\ states'[e].seq <= next'
        /\ states'[e].seq \in DOMAIN queue' => queue'[states'[e].seq].id = e
  <2> SUFFICES ASSUME NEW e \in DOMAIN states'
      PROVE /\ states'[e].seq <= next'
            /\ states'[e].seq \in DOMAIN queue' => queue'[states'[e].seq].id = e
    OBVIOUS
  <2>1. CASE e = d
    BY <1>1, <1>2, <1>3, <1>4, <1>5, <2>1
  <2>2. CASE e # d
    <3>1. e \in DOMAIN states /\ states'[e] = states[e] /\ states[e].seq \in Nat
      BY <1>5, <2>2 DEF StoreOK, Store!TypeOK, Store!DeliveryState
    <3>2. states[e].seq <= next /\ (states[e].seq \in DOMAIN queue => queue[states[e].seq].id = e)
      BY <3>1 DEF StoreOK
    <3>3. QED
      BY <1>1, <1>3, <1>4, <3>1, <3>2
  <2>3. QED
    BY <2>1, <2>2
<1>9. QED
  BY <1>1, <1>3, <1>5, <1>6, <1>7, <1>8 DEF StoreOK, Recorded

LEMMA ArchiveOnlyRecords ==
  ASSUME StoreOK, NEW d \in Deliveries, NEW p \in Payloads, Store!AdmitArchiveOnly(d, p)
  PROVE  StoreOK' /\ Recorded(d, p)
<1> DEFINE state == Store!NewState(p, 0, "archive_only")
<1>1. /\ d \notin DOMAIN states
      /\ states' = Store!Put(states, d, state)
      /\ queue' = queue /\ dead' = dead /\ next' = next /\ cooldown' = cooldown
      /\ count' = count /\ deadCount' = deadCount
  BY DEF Store!AdmitArchiveOnly, Store!Known, Store!counters
<1>2. /\ state \in Store!DeliveryState
      /\ state.status = "archive_only" /\ state.seq = 0 /\ state.payload = p
      /\ state.archived = FALSE
  BY DEF Store!NewState, Store!DeliveryState, Store!Statuses
<1> HIDE DEF state
<1>3. /\ DOMAIN states' = DOMAIN states \cup {d}
      /\ states'[d] = state
      /\ \A e \in DOMAIN states : e # d /\ states'[e] = states[e]
      /\ states' = [e \in DOMAIN states' |-> states'[e]]
  BY <1>1 DEF Store!Put
<1>4. Store!TypeOK'
  <2>1. states' \in [DOMAIN states' -> Store!DeliveryState]
    BY <1>2, <1>3, TypedFunction DEF StoreOK, Store!TypeOK
  <2>2. QED
    BY <1>1, <1>3, <2>1 DEF StoreOK, Store!TypeOK
<1>5. \A s \in DOMAIN queue' : ItemOwned(s)'
  BY <1>1, <1>3 DEF StoreOK, ItemOwned
<1>6. \A e \in DOMAIN states' :
        /\ states'[e].seq <= next'
        /\ states'[e].seq \in DOMAIN queue' => queue'[states'[e].seq].id = e
  <2>1. next \in Nat /\ 0 \notin DOMAIN queue
    BY DEF StoreOK, Store!TypeOK
  <2>2. QED
    BY <1>1, <1>2, <1>3, <2>1 DEF StoreOK
<1>7. QED
  BY <1>1, <1>2, <1>3, <1>4, <1>5, <1>6 DEF StoreOK, Recorded

LEMMA FinalizeFinalizes ==
  ASSUME StoreOK, NEW d, Store!FinalizeArchive(d)
  PROVE  StoreOK' /\ Finalized(d)
<1>1. /\ d \in DOMAIN states
      /\ dead' = dead /\ next' = next /\ cooldown' = cooldown
      /\ count' = count /\ deadCount' = deadCount
  BY DEF Store!FinalizeArchive, Store!Known, Store!counters
<1>2. /\ DOMAIN states' = DOMAIN states
      /\ states'[d] = [states[d] EXCEPT !.archived = TRUE, !.raw = FALSE]
      /\ \A e \in DOMAIN states : e # d => states'[e] = states[e]
      /\ states' = [e \in DOMAIN states' |-> states'[e]]
  BY <1>1 DEF Store!FinalizeArchive
<1>3. /\ states'[d] \in Store!DeliveryState
      /\ states'[d].payload = states[d].payload /\ states'[d].seq = states[d].seq
      /\ states'[d].status = states[d].status
      /\ states'[d].archived = TRUE
  <2>1. states[d] \in Store!DeliveryState
    BY <1>1 DEF StoreOK, Store!TypeOK
  <2>2. QED
    BY <1>2, <2>1 DEF Store!DeliveryState
<1>4. /\ DOMAIN queue' = DOMAIN queue
      /\ \A s \in DOMAIN queue :
           queue'[s] = IF s = states[d].seq THEN [queue[s] EXCEPT !.archived = TRUE]
                                            ELSE queue[s]
  BY DEF Store!FinalizeArchive
<1>5. ASSUME NEW s \in DOMAIN queue
      PROVE  /\ queue'[s] \in Store!Item
             /\ queue'[s].id = queue[s].id
             /\ s = states[d].seq => queue'[s].archived = TRUE
             /\ s # states[d].seq => queue'[s] = queue[s]
  <2>1. queue[s] \in Store!Item
    BY DEF StoreOK, Store!TypeOK
  <2>2. CASE s = states[d].seq
    BY <1>4, <2>1, <2>2 DEF Store!Item
  <2>3. CASE s # states[d].seq
    BY <1>4, <2>1, <2>3
  <2>4. QED
    BY <2>2, <2>3
<1>6. Store!TypeOK'
  <2>1. states' \in [DOMAIN states' -> Store!DeliveryState]
    BY <1>2, <1>3, TypedFunction DEF StoreOK, Store!TypeOK
  <2>2. QED
    BY <1>1, <1>2, <1>4, <1>5, <2>1 DEF StoreOK, Store!TypeOK
<1>7. \A s \in DOMAIN queue' : ItemOwned(s)'
  <2> SUFFICES ASSUME NEW s \in DOMAIN queue PROVE ItemOwned(s)'
    BY <1>4
  <2>1. ItemOwned(s)
    BY DEF StoreOK
  <2>2. CASE s = states[d].seq
    <3>1. queue[s].id = d
      BY <1>1, <2>2 DEF StoreOK
    <3>2. QED
      BY <1>1, <1>2, <1>3, <1>5, <2>2, <3>1 DEF ItemOwned
  <2>3. CASE s # states[d].seq
    BY <1>1, <1>2, <1>3, <1>5, <2>1, <2>3 DEF ItemOwned
  <2>4. QED
    BY <2>2, <2>3
<1>8. \A e \in DOMAIN states : states'[e].seq = states[e].seq
  BY <1>2, <1>3
<1>9. \A e \in DOMAIN states' :
        /\ states'[e].seq <= next'
        /\ states'[e].seq \in DOMAIN queue' => queue'[states'[e].seq].id = e
  <2>1. \A s \in DOMAIN queue : queue'[s].id = queue[s].id
    BY <1>5
  <2>2. DOMAIN queue' = DOMAIN queue /\ DOMAIN states' = DOMAIN states /\ next' = next
    BY <1>1, <1>2, <1>4
  <2>3. QED
    BY <1>8, <2>1, <2>2 DEF StoreOK
<1>10. QED
  BY <1>1, <1>2, <1>3, <1>6, <1>7, <1>9 DEF StoreOK, Finalized

(* Nothing is missing when the process starts. *)
LEMMA OpenKeeps ==
  ASSUME StoreOK, Store!Open
  PROVE  StoreOK' /\ states' = states
<1>1. /\ queue' = queue /\ dead' = dead /\ next' = next /\ cooldown' = cooldown
      /\ count' = Cardinality(DOMAIN queue) /\ deadCount' = Cardinality(DOMAIN dead)
  BY StoreCardinality DEF Store!Open
<1>2. {queue[s].id : s \in DOMAIN queue} \ DOMAIN states = {}
  BY DEF StoreOK, ItemOwned
<1>3. \A known : {dead[s].id : s \in DOMAIN dead} \ known = {}
  BY DEF StoreOK
<1>4. DOMAIN Store!Rebuilt(queue, "queued", DOMAIN states) = {}
  BY <1>2 DEF Store!Rebuilt
<1>5. \A known : DOMAIN Store!Rebuilt(dead, "dead", known) = {}
  BY <1>3 DEF Store!Rebuilt
<1>6. ASSUME NEW f, NEW g, DOMAIN g = {} PROVE Store!Merge(f, g) = [x \in DOMAIN f |-> f[x]]
  BY <1>6 DEF Store!Merge
<1>7. states = [x \in DOMAIN states |-> states[x]]
  BY DEF StoreOK, Store!TypeOK
<1>8. Store!Merge(states, Store!Rebuilt(queue, "queued", DOMAIN states)) = states
  BY <1>4, <1>6, <1>7
<1>9. states' = states
  <2>1. states' = Store!Merge(states, Store!Rebuilt(dead, "dead", DOMAIN states))
    BY <1>8 DEF Store!Open
  <2>2. QED
    BY <1>5, <1>6, <1>7, <2>1
<1>10. Cardinality(DOMAIN queue) \in Nat /\ Cardinality(DOMAIN dead) \in Nat
  BY FiniteKeys DEF StoreOK, Store!TypeOK
<1>11. QED
  BY <1>1, <1>9, <1>10 DEF StoreOK, Store!TypeOK, ItemOwned

LEMMA ForwardForwards ==
  ASSUME StoreOK, NEW s \in DOMAIN queue, NEW t, Store!CompleteChatDelivery({s}, t)
  PROVE  StoreOK' /\ Forwarded(s)
<1> DEFINE hit  == {r \in {s} \cap DOMAIN queue : Store!HasTarget(queue[r], t)}
           gone == {r \in hit : queue[r].chats \subseteq {t}}
<1>1. /\ DOMAIN queue' = DOMAIN queue \ gone
      /\ \A r \in DOMAIN queue \ gone :
           queue'[r] = IF r \in hit THEN [queue[r] EXCEPT !.chats = @ \ {t}] ELSE queue[r]
      /\ states' = Store!WithStatus(gone, "delivered")
      /\ count' = Cardinality(DOMAIN queue')
      /\ dead' = dead /\ next' = next /\ deadCount' = deadCount /\ cooldown' = cooldown
  BY StoreCardinality DEF Store!CompleteChatDelivery
<1>2. gone \subseteq {s}
  OBVIOUS
<1> HIDE DEF hit, gone
<1> DEFINE ids == {queue[r].id : r \in gone}
<1>3. /\ DOMAIN states' = DOMAIN states /\ states' = [e \in DOMAIN states' |-> states'[e]]
      /\ \A e \in DOMAIN states :
           states'[e] = IF e \in ids THEN [states[e] EXCEPT !.status = "delivered"] ELSE states[e]
  BY <1>1 DEF Store!WithStatus
<1>4. \A e \in ids : e = queue[s].id
  BY <1>2
<1> HIDE DEF ids
<1>5. ASSUME NEW e \in DOMAIN states
      PROVE  /\ states'[e] \in Store!DeliveryState
             /\ states'[e].payload = states[e].payload /\ states'[e].seq = states[e].seq
             /\ states'[e].archived = states[e].archived
             /\ e # queue[s].id => states'[e].status = states[e].status
             /\ states'[e].status \in {states[e].status, "delivered"}
  <2>1. states[e] \in Store!DeliveryState
    BY DEF StoreOK, Store!TypeOK
  <2>2. CASE e \in ids
    <3>1. states'[e] = [states[e] EXCEPT !.status = "delivered"] /\ e = queue[s].id
      BY <1>3, <1>4, <2>2
    <3>2. QED
      BY <2>1, <3>1 DEF Store!DeliveryState, Store!Statuses
  <2>3. CASE e \notin ids
    BY <1>3, <2>1, <2>3
  <2>4. QED
    BY <2>2, <2>3
<1>6. ASSUME NEW r \in DOMAIN queue'
      PROVE  /\ queue'[r] \in Store!Item
             /\ queue'[r].id = queue[r].id /\ queue'[r].archived = queue[r].archived
  <2>1. r \in DOMAIN queue \ gone /\ queue[r] \in Store!Item
    BY <1>1 DEF StoreOK, Store!TypeOK
  <2>2. CASE r \in hit
    <3>1. queue'[r] = [queue[r] EXCEPT !.chats = @ \ {t}]
      BY <1>1, <2>1, <2>2
    <3>2. QED
      BY <2>1, <3>1 DEF Store!Item
  <2>3. CASE r \notin hit
    BY <1>1, <2>1, <2>3
  <2>4. QED
    BY <2>2, <2>3
<1>7. Store!TypeOK'
  <2>1. states' \in [DOMAIN states' -> Store!DeliveryState]
    BY <1>3, <1>5, TypedFunction
  <2>2. DOMAIN queue' \subseteq 1..next' /\ next' \in Nat
    BY <1>1 DEF StoreOK, Store!TypeOK
  <2>3. count' \in Nat
    BY <1>1, <2>2, FiniteKeys
  <2>4. QED
    BY <1>1, <1>3, <1>6, <2>1, <2>2, <2>3 DEF StoreOK, Store!TypeOK
<1>8. \A r \in DOMAIN queue' : ItemOwned(r)'
  BY <1>1, <1>3, <1>5, <1>6 DEF StoreOK, ItemOwned
<1>9. \A e \in DOMAIN states' :
        /\ states'[e].seq <= next'
        /\ states'[e].seq \in DOMAIN queue' => queue'[states'[e].seq].id = e
  BY <1>1, <1>3, <1>5, <1>6 DEF StoreOK
<1>10. QED
  BY <1>1, <1>3, <1>5, <1>7, <1>8, <1>9 DEF StoreOK, Forwarded
------------------------------------------------------------------------------
(***************************************************************************)
(* The inductive invariant.                                                *)
(***************************************************************************)
(* Deliveries whose handler heeds every error of the admission. *)
Kept == {d \in Deliveries : \A p \in Payloads : ~LosesError(d, p)}

FilesTyped ==
  /\ DOMAIN files \subseteq Deliveries
  /\ \A d \in DOMAIN files : files[d] \in Payloads
  /\ synced \subseteq DOMAIN files

WorkersTyped ==
  /\ lock \in Workers \cup {Recovery, Nobody}
  /\ mode \in {"down", "starting", "serving"}
  /\ step \in [Workers -> Steps]
  /\ request \in [Workers -> Request \cup {NoRequest}]
  /\ \A w \in Workers : step[w] # "idle" => request[w] \in Request

RecoveryTyped ==
  /\ pending \subseteq DOMAIN states
  /\ recovery \in {"idle", "store", "sync", "finalize"}
  /\ recovery = "idle" <=> pending = {}

HistoryTyped == acked \subseteq Deliveries \X Payloads /\ faults \in 0..FaultBound

LockOK ==
  /\ \A w \in Workers : step[w] \in {"admit", "publish", "sync"} => lock = w
  /\ \A w \in Workers : lock = w => step[w] \in {"admit", "publish", "sync", "finalize"}
  /\ recovery = "sync" <=> lock = Recovery

(* What a request relies on has been made sure of by an earlier step of it, *)
(* and nothing that went on since has undone it.                            *)
RequestOK(w) ==
  LET d == request[w].id  p == request[w].payload IN
  /\ step[w] = "verify" \/ (d \in Kept /\ step[w] \in {"publish", "sync", "finalize"}) =>
       d \in DOMAIN states /\ states[d].payload = p
  /\ step[w] \in {"sync", "finalize"} => Files!Holds(d, p)
  /\ step[w] = "finalize" => d \in synced

RequestsOK == \A w \in Workers : RequestOK(w)

(* So does recovery. *)
RecoveryOK ==
  /\ recovery \in {"sync", "finalize"} => Files!Holds(FirstPending, states[FirstPending].payload)
  /\ recovery = "finalize" => FirstPending \in synced

(* The archive holds what the store knows. *)
DeliveryKept(d) ==
  /\ d \in DOMAIN files => d \in DOMAIN states /\ states[d].payload = files[d]
  /\ d \in DOMAIN states /\ states[d].archived => d \in synced /\ files[d] = states[d].payload

KeptOK == \A d \in Kept : DeliveryKept(d)

IInv ==
  /\ StoreOK /\ FilesTyped /\ WorkersTyped /\ RecoveryTyped /\ HistoryTyped /\ LockOK
  /\ RequestsOK /\ RecoveryOK /\ AckedIsDurable /\ KeptOK

(***************************************************************************)
(* What is kept when the store or the archive grows.                       *)
(***************************************************************************)
StatesGrow ==
  \A d \in DOMAIN states : d \in DOMAIN states' /\ states'[d].payload = states[d].payload

FilesGrow ==
  /\ \A d \in DOMAIN files : d \in DOMAIN files' /\ files'[d] = files[d]
  /\ synced \subseteq synced'

LEMMA FirstIsPending ==
  ASSUME StoreOK, RecoveryTyped, recovery # "idle"
  PROVE  FirstPending \in pending /\ FirstPending \in DOMAIN states
<1>1. pending \in SUBSET Nat /\ pending # {}
  BY KeyAssumption DEF StoreOK, Store!TypeOK, RecoveryTyped
<1>2. \E d \in pending : \A e \in pending : d <= e
  BY <1>1, LeastNatural
<1>3. QED
  BY <1>2 DEF FirstPending, RecoveryTyped

LEMMA RequestKept ==
  ASSUME NEW w \in Workers, RequestOK(w), step'[w] = step[w], request'[w] = request[w],
         StatesGrow, FilesGrow
  PROVE  RequestOK(w)'
BY DEF RequestOK, StatesGrow, FilesGrow, Files!Holds

LEMMA RecoveryKept ==
  ASSUME StoreOK, RecoveryTyped, RecoveryOK, pending' = pending, recovery' = recovery,
         StatesGrow, FilesGrow
  PROVE  RecoveryTyped' /\ RecoveryOK'
<1>1. FirstPending' = FirstPending
  BY DEF FirstPending
<1>2. recovery # "idle" => FirstPending \in DOMAIN states
  BY FirstIsPending
<1>3. RecoveryTyped'
  BY DEF RecoveryTyped, StatesGrow
<1>4. RecoveryOK'
  <2> DEFINE d == FirstPending
  <2>1. recovery \in {"sync", "finalize"} =>
          d \in DOMAIN states /\ d \in DOMAIN files /\ files[d] = states[d].payload
    BY <1>2 DEF RecoveryOK, Files!Holds
  <2>2. recovery = "finalize" => d \in synced
    BY DEF RecoveryOK
  <2> HIDE DEF d
  <2>3. recovery' \in {"sync", "finalize"} => d \in DOMAIN files' /\ files'[d] = states'[d].payload
    BY <2>1 DEF StatesGrow, FilesGrow
  <2>4. recovery' = "finalize" => d \in synced'
    BY <2>2 DEF FilesGrow
  <2>5. QED
    BY <1>1, <2>3, <2>4 DEF RecoveryOK, Files!Holds, d
<1>5. QED
  BY <1>3, <1>4

LEMMA AckedKept ==
  ASSUME FilesTyped, AckedIsDurable, FilesGrow, acked' = acked
  PROVE  AckedIsDurable'
BY DEF AckedIsDurable, FilesGrow, FilesTyped

(* Files are lost, or synced, but not changed. *)
LEMMA KeptFiles ==
  ASSUME KeptOK, FilesTyped, states' = states,
         \A d \in DOMAIN files' : d \in DOMAIN files /\ files'[d] = files[d],
         synced \subseteq synced', synced' \subseteq DOMAIN files'
  PROVE  KeptOK'
<1> SUFFICES ASSUME NEW d \in Kept PROVE DeliveryKept(d)'
  BY DEF KeptOK, Kept, LosesError, IsArchiveOnly
<1>1. DeliveryKept(d)
  BY DEF KeptOK
<1>2. d \in synced => d \in DOMAIN files' /\ d \in synced'
  OBVIOUS
<1>3. QED
  BY <1>1, <1>2 DEF DeliveryKept

LEMMA KeptLink ==
  ASSUME KeptOK, FilesTyped, states' = states, NEW d \in Deliveries, NEW p, Files!Link(d, p),
         d \in Kept => d \in DOMAIN states /\ states[d].payload = p
  PROVE  KeptOK'
<1> SUFFICES ASSUME NEW e \in Kept PROVE DeliveryKept(e)'
  BY DEF KeptOK, Kept, LosesError, IsArchiveOnly
<1>1. DeliveryKept(e)
  BY DEF KeptOK
<1>2. /\ d \notin DOMAIN files /\ DOMAIN files' = DOMAIN files \cup {d} /\ files'[d] = p
      /\ \A x \in DOMAIN files : files'[x] = files[x]
      /\ synced' = synced
  BY DEF Files!Link, Files!Absent
<1>3. QED
  BY <1>1, <1>2 DEF DeliveryKept, FilesTyped

LEMMA KeptStates ==
  ASSUME KeptOK, FilesTyped, files' = files, synced' = synced, NEW d,
         \/ \E p : Recorded(d, p)
         \/ Finalized(d) /\ (d \in Kept => d \in synced /\ files[d] = states[d].payload)
         \/ Forwarded(d)
  PROVE  KeptOK'
<1> SUFFICES ASSUME NEW e \in Kept PROVE DeliveryKept(e)'
  BY DEF KeptOK, Kept, LosesError, IsArchiveOnly
<1>1. DeliveryKept(e)
  BY DEF KeptOK
<1>2. CASE \E p : Recorded(d, p)
  BY <1>1, <1>2 DEF DeliveryKept, Recorded
<1>3. CASE Finalized(d) /\ (d \in Kept => d \in synced /\ files[d] = states[d].payload)
  BY <1>1, <1>3 DEF DeliveryKept, Finalized
<1>4. CASE Forwarded(d)
  BY <1>1, <1>4 DEF DeliveryKept, Forwarded
<1>5. QED
  BY <1>2, <1>3, <1>4

LEMMA StatesGrowWhen ==
  ASSUME NEW d,
         \/ states' = states
         \/ \E p : Recorded(d, p)
         \/ Finalized(d)
         \/ Forwarded(d)
  PROVE  StatesGrow
<1>1. CASE states' = states
  BY <1>1 DEF StatesGrow
<1>2. CASE \E p : Recorded(d, p)
  BY <1>2 DEF StatesGrow, Recorded
<1>3. CASE Finalized(d)
  BY <1>3 DEF StatesGrow, Finalized
<1>4. CASE Forwarded(d)
  BY <1>4 DEF StatesGrow, Forwarded
<1>5. QED
  BY <1>1, <1>2, <1>3, <1>4

(* The store does nothing. *)
LEMMA StoreKept ==
  ASSUME StoreOK, UNCHANGED storeVars
  PROVE  StoreOK' /\ states' = states
BY DEF storeVars, StoreOK, Store!TypeOK, ItemOwned

(* A directory that holds a payload is synced. *)
LEMMA SyncGrows ==
  ASSUME FilesTyped, NEW d \in DOMAIN files, Files!SyncDir(d)
  PROVE  /\ FilesTyped' /\ FilesGrow /\ d \in synced' /\ files' = files
         /\ synced' = synced \cup {d}
BY DEF FilesTyped, FilesGrow, Files!SyncDir

LEMMA LinkGrows ==
  ASSUME FilesTyped, NEW d \in Deliveries, NEW p \in Payloads, Files!Link(d, p)
  PROVE  /\ FilesTyped' /\ FilesGrow /\ synced' = synced
         /\ d \in DOMAIN files' /\ files'[d] = p
         /\ d \notin synced
BY DEF FilesTyped, FilesGrow, Files!Link, Files!Absent

(***************************************************************************)
(* The steps of a request.                                                 *)
(***************************************************************************)
(* A worker goes to another step, with or without the lock. *)
WorkerTo(w, s, r) ==
  step' = [step EXCEPT ![w] = s] /\ request' = [request EXCEPT ![w] = r]

LEMMA WorkerGoes ==
  ASSUME WorkersTyped, LockOK, NEW w \in Workers, NEW s \in Steps,
         NEW r \in Request \cup {NoRequest}, s # "idle" => r \in Request,
         WorkerTo(w, s, r), mode' = mode, recovery' = recovery,
         \/ lock' = lock /\ (lock = w <=> s \in {"admit", "publish", "sync"})
         \/ lock' = lock /\ s = "finalize"
         \/ lock = Nobody /\ lock' = w /\ s = "admit"
         \/ lock = w /\ lock' = Nobody /\ s = "idle"
  PROVE  /\ WorkersTyped' /\ LockOK'
         /\ step'[w] = s /\ request'[w] = r
         /\ \A v \in Workers \ {w} : step'[v] = step[v] /\ request'[v] = request[v]
<1>1. /\ step' \in [Workers -> Steps] /\ request' \in [Workers -> Request \cup {NoRequest}]
      /\ step'[w] = s /\ request'[w] = r
      /\ \A v \in Workers \ {w} : step'[v] = step[v] /\ request'[v] = request[v]
  BY DEF WorkerTo, WorkersTyped
<1>2. lock' \in Workers \cup {Recovery, Nobody}
  BY DEF WorkersTyped
<1>3. WorkersTyped'
  BY <1>1, <1>2 DEF WorkersTyped
<1>4. /\ Recovery # Nobody
      /\ \A v \in Workers : v # Recovery /\ v # Nobody
  BY WorkerAssumption
<1>5. recovery' = "sync" <=> lock' = Recovery
  BY <1>4 DEF LockOK
<1>6. ASSUME NEW v \in Workers
      PROVE  /\ step'[v] \in {"admit", "publish", "sync"} => lock' = v
             /\ lock' = v => step'[v] \in {"admit", "publish", "sync", "finalize"}
  <2>1. /\ step[v] \in {"admit", "publish", "sync"} => lock = v
        /\ lock = v => step[v] \in {"admit", "publish", "sync", "finalize"}
    BY DEF LockOK
  <2>2. CASE v = w
    BY <1>1, <1>4, <2>1, <2>2
  <2>3. CASE v # w
    BY <1>1, <1>4, <2>1, <2>3
  <2>4. QED
    BY <2>2, <2>3
<1>7. LockOK'
  BY <1>5, <1>6 DEF LockOK
<1>8. QED
  BY <1>1, <1>3, <1>7
------------------------------------------------------------------------------
LEMMA WorkerKeeps ==
  ASSUME IInv, NEW w \in Workers, NEW s \in Steps,
         NEW r \in Request \cup {NoRequest}, s # "idle" => r \in Request,
         WorkerTo(w, s, r), mode' = mode, recovery' = recovery, pending' = pending,
         \/ lock' = lock /\ (lock = w <=> s \in {"admit", "publish", "sync"})
         \/ lock' = lock /\ s = "finalize"
         \/ lock = Nobody /\ lock' = w /\ s = "admit"
         \/ lock = w /\ lock' = Nobody /\ s = "idle",
         StoreOK', StatesGrow, FilesTyped', FilesGrow, KeptOK',
         HistoryTyped', AckedIsDurable',
         /\ s = "verify" \/ (r.id \in Kept /\ s \in {"publish", "sync", "finalize"}) =>
              r.id \in DOMAIN states' /\ states'[r.id].payload = r.payload
         /\ s \in {"sync", "finalize"} => r.id \in DOMAIN files' /\ files'[r.id] = r.payload
         /\ s = "finalize" => r.id \in synced'
  PROVE  IInv'
<1> USE DEF IInv
<1>1. /\ WorkersTyped' /\ LockOK'
      /\ step'[w] = s /\ request'[w] = r
      /\ \A v \in Workers \ {w} : step'[v] = step[v] /\ request'[v] = request[v]
  BY WorkerGoes
<1>2. RecoveryTyped' /\ RecoveryOK'
  BY RecoveryKept
<1>3. RequestsOK'
  <2> SUFFICES ASSUME NEW v \in Workers PROVE RequestOK(v)'
    BY DEF RequestsOK
  <2>1. CASE v = w
    <3>1. \A d : (d \in Kept)' <=> d \in Kept
      BY DEF Kept, LosesError, IsArchiveOnly
    <3>2. QED
      BY <1>1, <2>1, <3>1 DEF RequestOK, Files!Holds
  <2>2. CASE v # w
    BY <1>1, <2>2, RequestKept DEF RequestsOK
  <2>3. QED
    BY <2>1, <2>2
<1>4. QED
  BY <1>1, <1>2, <1>3

(* The handler leaves: it gives the lock back if it has it. *)
LEMMA ReturnGoes ==
  ASSUME NEW w \in Workers, Return(w)
  PROVE  /\ WorkerTo(w, "idle", NoRequest)
         /\ \/ lock' = lock /\ (lock = w <=> "idle" \in {"admit", "publish", "sync"})
            \/ lock = w /\ lock' = Nobody
BY DEF Return, WorkerTo

LEMMA GoToGoes ==
  ASSUME WorkersTyped, NEW w \in Workers, NEW s, GoTo(w, s)
  PROVE  WorkerTo(w, s, request[w])
<1>1. request = [request EXCEPT ![w] = request[w]]
  BY DEF WorkersTyped
<1>2. QED
  BY <1>1 DEF GoTo, WorkerTo

LEMMA RequestFields ==
  ASSUME WorkersTyped, NEW w \in Workers, step[w] # "idle"
  PROVE  /\ request[w] \in Request /\ request[w].id \in Deliveries
         /\ request[w].payload \in Payloads /\ request[w].seen \in BOOLEAN
BY DEF WorkersTyped, Request

(* Steps of a request that write nothing but its own place. *)
LEMMA ReturnKeeps ==
  ASSUME IInv, NEW w \in Workers, Return(w),
         UNCHANGED <<storeVars, files, mode, recovery, pending>>,
         FilesTyped', FilesGrow, KeptOK', HistoryTyped', AckedIsDurable'
  PROVE  IInv'
<1>1. NoRequest \in Request \cup {NoRequest} /\ "idle" \in Steps
  BY DEF Steps
<1>2. StoreOK' /\ states' = states
  BY StoreKept DEF IInv
<1>3. StatesGrow
  BY <1>2 DEF StatesGrow
<1>4. /\ WorkerTo(w, "idle", NoRequest)
      /\ \/ lock' = lock /\ (lock = w <=> "idle" \in {"admit", "publish", "sync"})
         \/ lock = w /\ lock' = Nobody
  BY ReturnGoes
<1>5. QED
  BY <1>1, <1>2, <1>3, <1>4, WorkerKeeps

(* Nothing but the worker's place changes. *)
LEMMA PlaceKeeps ==
  ASSUME IInv, UNCHANGED <<states, files, synced, acked>>, faults' \in 0..FaultBound
  PROVE  FilesTyped' /\ FilesGrow /\ KeptOK' /\ HistoryTyped' /\ AckedIsDurable'
<1>1. FilesTyped' /\ FilesGrow /\ HistoryTyped'
  BY DEF IInv, FilesTyped, FilesGrow, HistoryTyped
<1>2. AckedIsDurable'
  BY DEF IInv, AckedIsDurable
<1>3. KeptOK'
  BY KeptFiles DEF IInv, FilesTyped
<1>4. QED
  BY <1>1, <1>2, <1>3

LEMMA LookupKeeps ==
  ASSUME IInv, NEW w \in Workers, NEW d \in Deliveries, NEW p \in Payloads, Lookup(w, d, p)
  PROVE  IInv'
<1> DEFINE s == IF Store!Known(d) THEN "verify" ELSE "reserve"
           r == [id |-> d, payload |-> p, seen |-> Store!Known(d) /\ states[d].archived]
<1>1. WorkerTo(w, s, r)
  BY DEF Lookup, WorkerTo
<1>2. r \in Request /\ r.id = d /\ r.payload = p /\ s \in {"verify", "reserve"}
  BY DEF Request
<1>3. s = "verify" => d \in DOMAIN states /\ states[d].payload = p
  BY DEF Lookup, Store!Known, Store!Conflicts
<1>4. lock # w
  BY DEF IInv, LockOK, Lookup
<1>5. /\ UNCHANGED storeVars /\ states' = states /\ files' = files /\ synced' = synced
      /\ lock' = lock /\ acked' = acked /\ faults' = faults /\ mode' = mode
      /\ recovery' = recovery /\ pending' = pending
  BY DEF Lookup, storeVars, archiveVars, historyVars
<1>6. StoreOK' /\ StatesGrow
  BY <1>5, StoreKept DEF IInv, StatesGrow
<1>7. FilesTyped' /\ FilesGrow /\ KeptOK' /\ HistoryTyped' /\ AckedIsDurable'
  BY <1>5, PlaceKeeps DEF IInv, HistoryTyped
<1> HIDE DEF s, r
<1>8. s \in Steps
  BY <1>2 DEF Steps
<1>9. QED
  BY <1>1, <1>2, <1>3, <1>4, <1>5, <1>6, <1>7, <1>8, WorkerKeeps

LEMMA VerifyKeeps ==
  ASSUME IInv, NEW w \in Workers, Verify(w)
  PROVE  IInv'
<1> DEFINE d == request[w].id
           p == request[w].payload
<1>1. /\ step[w] = "verify" /\ lock = Nobody /\ lock # w
      /\ UNCHANGED storeVars /\ mode' = mode /\ recovery' = recovery /\ pending' = pending
      /\ faults' = faults /\ faults \in 0..FaultBound
  BY WorkerAssumption DEF Verify, IInv, HistoryTyped
<1>2. /\ d \in Deliveries /\ p \in Payloads /\ request[w] \in Request
      /\ d \in DOMAIN states /\ states[d].payload = p
  BY <1>1, RequestFields DEF IInv, RequestsOK, RequestOK
<1>3. StoreOK' /\ states' = states /\ StatesGrow
  BY <1>1, StoreKept DEF IInv, StatesGrow
<1>4. {"reserve", "finalize", "idle"} \subseteq Steps
  BY DEF Steps
<1>5. CASE GoTo(w, "reserve") /\ UNCHANGED <<archiveVars, acked>>
  <2>1. WorkerTo(w, "reserve", request[w])
    BY <1>5, GoToGoes DEF IInv
  <2>2. files' = files /\ synced' = synced /\ lock' = lock /\ acked' = acked
    BY <1>5 DEF archiveVars
  <2>3. FilesTyped' /\ FilesGrow /\ KeptOK' /\ HistoryTyped' /\ AckedIsDurable'
    BY <1>1, <1>3, <2>2, PlaceKeeps
  <2>4. QED
    BY <1>1, <1>2, <1>3, <1>4, <2>1, <2>2, <2>3, WorkerKeeps
<1>6. CASE /\ Files!Holds(d, p) /\ Files!SyncDir(d)
           /\ IF request[w].seen THEN Accepted(w)
                                 ELSE GoTo(w, "finalize") /\ UNCHANGED <<lock, acked>>
  <2>1. d \in DOMAIN files /\ files[d] = p
    BY <1>6 DEF Files!Holds
  <2>2. /\ FilesTyped' /\ FilesGrow /\ d \in synced' /\ files' = files
        /\ synced' = synced \cup {d}
    BY <1>6, <2>1, SyncGrows DEF IInv
  <2>3. KeptOK'
    BY <1>3, <2>2, KeptFiles DEF IInv, FilesTyped
  <2>4. CASE Accepted(w)
    <3>1. Return(w) /\ acked' = acked \cup {<<d, p>>}
      BY <2>4 DEF Accepted
    <3>2. HistoryTyped'
      BY <1>1, <1>2, <3>1 DEF IInv, HistoryTyped
    <3>3. AckedIsDurable'
      BY <2>1, <2>2, <3>1 DEF IInv, AckedIsDurable
    <3>4. UNCHANGED <<storeVars, files, mode, recovery, pending>>
      BY <1>1, <2>2
    <3>5. QED
      BY <2>2, <2>3, <3>1, <3>2, <3>3, <3>4, ReturnKeeps
  <2>5. CASE GoTo(w, "finalize") /\ UNCHANGED <<lock, acked>>
    <3>1. WorkerTo(w, "finalize", request[w])
      BY <2>5, GoToGoes DEF IInv
    <3>2. HistoryTyped' /\ AckedIsDurable'
      BY <1>1, <2>2, <2>5, AckedKept DEF IInv, HistoryTyped
    <3>3. d \in DOMAIN files' /\ files'[d] = p
      BY <2>1, <2>2
    <3>4. QED
      BY <1>1, <1>2, <1>3, <1>4, <2>2, <2>3, <2>5, <3>1, <3>2, <3>3, WorkerKeeps
  <2>6. QED
    BY <1>6, <2>4, <2>5
<1>7. CASE Return(w) /\ UNCHANGED <<files, synced, acked>>
  <2>1. FilesTyped' /\ FilesGrow /\ KeptOK' /\ HistoryTyped' /\ AckedIsDurable'
    BY <1>1, <1>3, <1>7, PlaceKeeps
  <2>2. QED
    BY <1>1, <1>7, <2>1, ReturnKeeps
<1>8. QED
  BY <1>5, <1>6, <1>7 DEF Verify

LEMMA ReserveKeeps ==
  ASSUME IInv, NEW w \in Workers, Reserve(w)
  PROVE  IInv'
<1>1. /\ step[w] = "reserve" /\ lock = Nobody /\ lock' = w /\ GoTo(w, "admit")
      /\ UNCHANGED storeVars /\ mode' = mode /\ recovery' = recovery /\ pending' = pending
      /\ files' = files /\ synced' = synced /\ acked' = acked /\ faults' = faults
  BY DEF Reserve, historyVars
<1>2. WorkerTo(w, "admit", request[w]) /\ request[w] \in Request
  BY <1>1, GoToGoes, RequestFields DEF IInv
<1>3. StoreOK' /\ states' = states /\ StatesGrow
  BY <1>1, StoreKept DEF IInv, StatesGrow
<1>4. FilesTyped' /\ FilesGrow /\ KeptOK' /\ HistoryTyped' /\ AckedIsDurable'
  BY <1>1, <1>3, PlaceKeeps DEF IInv, HistoryTyped
<1>5. QED
  BY <1>1, <1>2, <1>3, <1>4, WorkerKeeps DEF Steps

LEMMA AdmitKeeps ==
  ASSUME IInv, NEW w \in Workers, AdmitDelivery(w)
  PROVE  IInv'
<1> DEFINE d == request[w].id
           p == request[w].payload
<1>1. /\ step[w] = "admit" /\ GoTo(w, "publish")
      /\ mode' = mode /\ recovery' = recovery /\ pending' = pending
      /\ files' = files /\ synced' = synced /\ lock' = lock /\ acked' = acked /\ faults' = faults
  BY DEF AdmitDelivery, archiveVars, historyVars
<1>2. lock = w
  BY <1>1 DEF IInv, LockOK
<1>3. /\ d \in Deliveries /\ p \in Payloads /\ request[w] \in Request
      /\ WorkerTo(w, "publish", request[w])
  BY <1>1, GoToGoes, RequestFields DEF IInv
<1>4. /\ StoreOK'
      /\ \/ states' = states /\ d \in DOMAIN states /\ states[d].payload = p
         \/ Recorded(d, p)
  <2>1. CASE Store!Known(d) /\ states[d].payload = p /\ UNCHANGED storeVars
    BY <2>1, StoreKept DEF IInv, Store!Known
  <2>2. CASE Store!AdmitArchiveOnly(d, p)
    BY <1>3, <2>2, ArchiveOnlyRecords DEF IInv
  <2>3. ASSUME NEW C \in Targets(d), Store!Admit(d, p, C)
        PROVE  StoreOK' /\ Recorded(d, p)
    <3>1. C \in SUBSET Chats
      BY DEF Targets
    <3>2. QED
      BY <1>3, <2>3, <3>1, AdmitRecords DEF IInv
  <2>4. QED
    BY <2>1, <2>2, <2>3 DEF AdmitDelivery
<1>5. d \in DOMAIN states' /\ states'[d].payload = p
  BY <1>4 DEF Recorded
<1>6. StatesGrow
  BY <1>4, StatesGrowWhen
<1>7. FilesTyped' /\ FilesGrow /\ HistoryTyped' /\ AckedIsDurable'
  BY <1>1 DEF IInv, FilesTyped, FilesGrow, HistoryTyped, AckedIsDurable
<1>8. KeptOK'
  <2>1. CASE states' = states
    BY <1>1, <2>1, KeptFiles DEF IInv, FilesTyped
  <2>2. CASE Recorded(d, p)
    BY <1>1, <2>2, KeptStates DEF IInv
  <2>3. QED
    BY <1>4, <2>1, <2>2
<1> HIDE DEF d, p
<1>9. QED
  BY <1>1, <1>2, <1>3, <1>4, <1>5, <1>6, <1>7, <1>8, WorkerKeeps DEF Steps, d, p

LEMMA RefuseKeeps ==
  ASSUME IInv, NEW w \in Workers, RefuseDelivery(w)
  PROVE  IInv'
<1> DEFINE d == request[w].id
           p == request[w].payload
<1>1. /\ step[w] = "admit"
      /\ UNCHANGED storeVars /\ mode' = mode /\ recovery' = recovery /\ pending' = pending
      /\ files' = files /\ synced' = synced /\ acked' = acked /\ faults' = faults
  BY DEF RefuseDelivery, historyVars
<1>2. StoreOK' /\ states' = states /\ StatesGrow
  BY <1>1, StoreKept DEF IInv, StatesGrow
<1>3. FilesTyped' /\ FilesGrow /\ KeptOK' /\ HistoryTyped' /\ AckedIsDurable'
  BY <1>1, <1>2, PlaceKeeps DEF IInv, HistoryTyped
<1>4. CASE Return(w)
  BY <1>1, <1>3, <1>4, ReturnKeeps
<1>5. CASE LosesError(d, p) /\ GoTo(w, "publish") /\ UNCHANGED lock
  <2>1. WorkerTo(w, "publish", request[w]) /\ request[w] \in Request /\ p \in Payloads
    BY <1>1, <1>5, GoToGoes, RequestFields DEF IInv
  <2>2. lock = w /\ d \notin Kept
    BY <1>1, <1>5, <2>1 DEF IInv, LockOK, Kept
  <2>3. QED
    BY <1>1, <1>2, <1>3, <1>5, <2>1, <2>2, WorkerKeeps DEF Steps
<1>6. QED
  BY <1>4, <1>5 DEF RefuseDelivery
------------------------------------------------------------------------------
LEMMA PublishKeeps ==
  ASSUME IInv, NEW w \in Workers, Publish(w)
  PROVE  IInv'
<1> DEFINE d == request[w].id
           p == request[w].payload
<1>1. /\ step[w] = "publish"
      /\ UNCHANGED storeVars /\ mode' = mode /\ recovery' = recovery /\ pending' = pending
      /\ acked' = acked /\ faults' = faults
  BY DEF Publish, historyVars
<1>2. StoreOK' /\ states' = states /\ StatesGrow
  BY <1>1, StoreKept DEF IInv, StatesGrow
<1>3. /\ d \in Deliveries /\ p \in Payloads /\ request[w] \in Request /\ lock = w
      /\ (d \in Kept => d \in DOMAIN states /\ states[d].payload = p)
  BY <1>1, RequestFields DEF IInv, LockOK, RequestsOK, RequestOK
<1>4. HistoryTyped'
  BY <1>1 DEF IInv, HistoryTyped
<1>5. {"sync", "finalize"} \subseteq Steps
  BY DEF Steps
<1>6. CASE Files!Holds(d, p) /\ Files!SyncDir(d) /\ GoTo(w, "finalize") /\ UNCHANGED lock
  <2>1. d \in DOMAIN files /\ files[d] = p
    BY <1>6 DEF Files!Holds
  <2>2. /\ FilesTyped' /\ FilesGrow /\ d \in synced' /\ files' = files
        /\ synced' = synced \cup {d}
    BY <1>6, <2>1, SyncGrows DEF IInv
  <2>3. KeptOK'
    BY <1>2, <2>2, KeptFiles DEF IInv, FilesTyped
  <2>4. WorkerTo(w, "finalize", request[w])
    BY <1>6, GoToGoes DEF IInv
  <2>5. AckedIsDurable'
    BY <1>1, <2>2, AckedKept DEF IInv
  <2>6. QED
    BY <1>1, <1>2, <1>3, <1>4, <1>5, <1>6, <2>1, <2>2, <2>3, <2>4, <2>5, WorkerKeeps
<1>7. CASE Return(w) /\ UNCHANGED <<files, synced>>
  <2>1. FilesTyped' /\ FilesGrow /\ KeptOK' /\ HistoryTyped' /\ AckedIsDurable'
    BY <1>1, <1>2, <1>7, PlaceKeeps DEF IInv, HistoryTyped
  <2>2. QED
    BY <1>1, <1>7, <2>1, ReturnKeeps
<1>8. CASE Files!Link(d, p) /\ GoTo(w, "sync") /\ UNCHANGED lock
  <2>1. /\ FilesTyped' /\ FilesGrow /\ d \in DOMAIN files' /\ files'[d] = p
    BY <1>3, <1>8, LinkGrows DEF IInv
  <2>2. KeptOK'
    BY <1>2, <1>3, <1>8, KeptLink DEF IInv
  <2>3. WorkerTo(w, "sync", request[w])
    BY <1>8, GoToGoes DEF IInv
  <2>4. AckedIsDurable'
    BY <1>1, <2>1, AckedKept DEF IInv
  <2>5. QED
    BY <1>1, <1>2, <1>3, <1>4, <1>5, <1>8, <2>1, <2>2, <2>3, <2>4, WorkerKeeps
<1>9. QED
  BY <1>6, <1>7, <1>8 DEF Publish

LEMMA SyncKeeps ==
  ASSUME IInv, NEW w \in Workers, Sync(w)
  PROVE  IInv'
<1> DEFINE d == request[w].id
           p == request[w].payload
<1>1. /\ step[w] = "sync" /\ Files!SyncDir(d) /\ GoTo(w, "finalize") /\ lock' = lock
      /\ UNCHANGED storeVars /\ mode' = mode /\ recovery' = recovery /\ pending' = pending
      /\ acked' = acked /\ faults' = faults
  BY DEF Sync, historyVars
<1>2. StoreOK' /\ states' = states /\ StatesGrow
  BY <1>1, StoreKept DEF IInv, StatesGrow
<1>3. /\ request[w] \in Request /\ d \in DOMAIN files /\ files[d] = p
      /\ (d \in Kept => d \in DOMAIN states /\ states[d].payload = p)
  BY <1>1, RequestFields DEF IInv, RequestsOK, RequestOK, Files!Holds
<1>4. /\ FilesTyped' /\ FilesGrow /\ d \in synced' /\ files' = files
      /\ synced' = synced \cup {d}
  BY <1>1, <1>3, SyncGrows DEF IInv
<1>5. KeptOK'
  BY <1>2, <1>4, KeptFiles DEF IInv, FilesTyped
<1>6. WorkerTo(w, "finalize", request[w])
  BY <1>1, GoToGoes DEF IInv
<1>7. HistoryTyped' /\ AckedIsDurable'
  BY <1>1, <1>4, AckedKept DEF IInv, HistoryTyped
<1>8. QED
  BY <1>1, <1>2, <1>3, <1>4, <1>5, <1>6, <1>7, WorkerKeeps DEF Steps

LEMMA FinalizeKeeps ==
  ASSUME IInv, NEW w \in Workers, Finalize(w)
  PROVE  IInv'
<1> DEFINE d == request[w].id
           p == request[w].payload
<1>1. /\ step[w] = "finalize" /\ Return(w)
      /\ mode' = mode /\ recovery' = recovery /\ pending' = pending
      /\ files' = files /\ synced' = synced /\ faults' = faults
      /\ acked' = acked \/ acked' = acked \cup {<<d, p>>}
  BY DEF Finalize, Accepted
<1>2. /\ d \in Deliveries /\ p \in Payloads /\ d \in synced /\ d \in DOMAIN files /\ files[d] = p
      /\ (d \in Kept => states[d].payload = p)
  BY <1>1, RequestFields DEF IInv, RequestsOK, RequestOK, Files!Holds
<1>3. StoreOK' /\ (states' = states \/ Finalized(d))
  <2>1. CASE Store!FinalizeArchive(d)
    BY <2>1, FinalizeFinalizes DEF IInv
  <2>2. CASE UNCHANGED storeVars
    BY <2>2, StoreKept DEF IInv
  <2>3. QED
    BY <2>1, <2>2 DEF Finalize
<1>4. StatesGrow
  BY <1>3, StatesGrowWhen
<1>5. FilesTyped' /\ FilesGrow /\ HistoryTyped'
  BY <1>1, <1>2 DEF IInv, FilesTyped, FilesGrow, HistoryTyped
<1>6. AckedIsDurable'
  BY <1>1, <1>2 DEF IInv, AckedIsDurable
<1>7. KeptOK'
  <2>1. CASE states' = states
    BY <1>1, <2>1, KeptFiles DEF IInv, FilesTyped
  <2>2. CASE Finalized(d)
    BY <1>1, <1>2, <2>2, KeptStates DEF IInv
  <2>3. QED
    BY <1>3, <2>1, <2>2
<1>8. /\ WorkerTo(w, "idle", NoRequest)
      /\ \/ lock' = lock /\ (lock = w <=> "idle" \in {"admit", "publish", "sync"})
         \/ lock = w /\ lock' = Nobody
  BY <1>1, ReturnGoes
<1> HIDE DEF d, p
<1>9. QED
  BY <1>1, <1>3, <1>4, <1>5, <1>6, <1>7, <1>8, WorkerKeeps DEF Steps

LEMMA FailKeeps ==
  ASSUME IInv, NEW w \in Workers, Fail(w)
  PROVE  IInv'
<1> DEFINE d == request[w].id
           p == request[w].payload
<1>1. /\ step[w] # "idle"
      /\ UNCHANGED storeVars /\ mode' = mode /\ recovery' = recovery /\ pending' = pending
      /\ files' = files /\ synced' = synced /\ acked' = acked
  BY DEF Fail
<1>2. faults' \in 0..FaultBound
  BY FaultAssumption DEF Fail, IInv, HistoryTyped
<1>3. StoreOK' /\ states' = states /\ StatesGrow
  BY <1>1, StoreKept DEF IInv, StatesGrow
<1>4. FilesTyped' /\ FilesGrow /\ KeptOK' /\ HistoryTyped' /\ AckedIsDurable'
  BY <1>1, <1>2, <1>3, PlaceKeeps
<1>5. CASE Return(w)
  BY <1>1, <1>4, <1>5, ReturnKeeps
<1>6. CASE step[w] = "admit" /\ LosesError(d, p) /\ GoTo(w, "publish") /\ UNCHANGED lock
  <2>1. WorkerTo(w, "publish", request[w]) /\ request[w] \in Request /\ p \in Payloads
    BY <1>6, GoToGoes, RequestFields DEF IInv
  <2>2. lock = w /\ d \notin Kept
    BY <1>6, <2>1 DEF IInv, LockOK, Kept
  <2>3. QED
    BY <1>1, <1>3, <1>4, <1>6, <2>1, <2>2, WorkerKeeps DEF Steps
<1>7. QED
  BY <1>5, <1>6 DEF Fail

(***************************************************************************)
(* The steps of recovery.                                                  *)
(***************************************************************************)
LEMMA RecoveryStepKeeps ==
  ASSUME IInv, step' = step, request' = request, StoreOK', StatesGrow,
         FilesTyped', FilesGrow, KeptOK', HistoryTyped', acked' = acked,
         mode' \in {"down", "starting", "serving"},
         \/ lock' = lock /\ (recovery' = "sync" <=> recovery = "sync")
         \/ lock = Nobody /\ lock' = Recovery /\ recovery' = "sync"
         \/ lock = Recovery /\ lock' = Nobody /\ recovery' # "sync",
         RecoveryTyped', RecoveryOK'
  PROVE  IInv'
<1> USE DEF IInv
<1>1. Recovery # Nobody /\ \A v \in Workers : v # Recovery /\ v # Nobody
  BY WorkerAssumption
<1>2. WorkersTyped'
  BY DEF WorkersTyped
<1>3. LockOK'
  BY <1>1 DEF LockOK
<1>4. RequestsOK'
  BY RequestKept DEF RequestsOK
<1>5. AckedIsDurable'
  BY AckedKept
<1>6. QED
  BY <1>2, <1>3, <1>4, <1>5

LEMMA TakePendingKeeps ==
  ASSUME IInv, TakePending
  PROVE  IInv'
<1>1. /\ recovery = "idle" /\ step' = step /\ request' = request
      /\ UNCHANGED storeVars /\ files' = files /\ synced' = synced /\ lock' = lock
      /\ acked' = acked /\ faults' = faults
  BY DEF TakePending, archiveVars, historyVars
<1>2. StoreOK' /\ states' = states /\ StatesGrow
  BY <1>1, StoreKept DEF IInv, StatesGrow
<1>3. FilesTyped' /\ FilesGrow /\ KeptOK' /\ HistoryTyped'
  BY <1>1, <1>2, PlaceKeeps DEF IInv, HistoryTyped
<1>4. PendingArchives \subseteq DOMAIN states
  BY DEF PendingArchives
<1>5. /\ RecoveryTyped' /\ recovery' \in {"idle", "store"} /\ mode' \in {"down", "starting", "serving"}
  BY <1>2, <1>4 DEF TakePending, PassDone, RecoveryTyped, IInv, WorkersTyped
<1>6. RecoveryOK'
  BY <1>5 DEF RecoveryOK
<1>7. QED
  BY <1>1, <1>2, <1>3, <1>5, <1>6, RecoveryStepKeeps

LEMMA RecoverStoreKeeps ==
  ASSUME IInv, RecoverStore
  PROVE  IInv'
<1> DEFINE d == FirstPending
           p == states[d].payload
<1>1. /\ recovery = "store" /\ lock = Nobody /\ step' = step /\ request' = request
      /\ UNCHANGED storeVars /\ acked' = acked /\ faults' = faults
  BY DEF RecoverStore, historyVars
<1>2. StoreOK' /\ states' = states /\ StatesGrow
  BY <1>1, StoreKept DEF IInv, StatesGrow
<1>3. d \in pending /\ d \in DOMAIN states /\ d \in Deliveries /\ p \in Payloads
  BY <1>1, FirstIsPending DEF IInv, StoreOK, Store!TypeOK, Store!DeliveryState
<1>4. HistoryTyped' /\ mode \in {"down", "starting", "serving"}
  BY <1>1 DEF IInv, HistoryTyped, WorkersTyped
<1>5. pending' = pending => FirstPending' = d
  BY DEF FirstPending
<1>6. CASE /\ Files!Holds(d, p) /\ Files!SyncDir(d) /\ recovery' = "finalize"
           /\ UNCHANGED <<lock, pending, mode>>
  <2>1. d \in DOMAIN files /\ files[d] = p
    BY <1>6 DEF Files!Holds
  <2>2. /\ FilesTyped' /\ FilesGrow /\ d \in synced' /\ files' = files
        /\ synced' = synced \cup {d}
    BY <1>6, <2>1, SyncGrows DEF IInv
  <2>3. KeptOK'
    BY <1>2, <2>2, KeptFiles DEF IInv, FilesTyped
  <2>4. RecoveryTyped' /\ RecoveryOK'
    BY <1>1, <1>2, <1>5, <1>6, <2>1, <2>2 DEF IInv, RecoveryTyped, RecoveryOK, Files!Holds
  <2>5. QED
    BY <1>1, <1>2, <1>4, <1>6, <2>2, <2>3, <2>4, RecoveryStepKeeps
<1>7. CASE Files!Link(d, p) /\ lock' = Recovery /\ recovery' = "sync" /\ UNCHANGED <<pending, mode>>
  <2>1. /\ FilesTyped' /\ FilesGrow /\ d \in DOMAIN files' /\ files'[d] = p
    BY <1>3, <1>7, LinkGrows DEF IInv
  <2>2. KeptOK'
    BY <1>2, <1>3, <1>7, KeptLink DEF IInv
  <2>3. RecoveryTyped' /\ RecoveryOK'
    BY <1>1, <1>2, <1>5, <1>7, <2>1 DEF IInv, RecoveryTyped, RecoveryOK, Files!Holds
  <2>4. QED
    BY <1>1, <1>2, <1>4, <1>7, <2>1, <2>2, <2>3, RecoveryStepKeeps
<1>8. CASE PassFails /\ UNCHANGED archiveVars
  <2>1. /\ files' = files /\ synced' = synced /\ lock' = lock /\ recovery' = "idle" /\ pending' = {}
        /\ mode' \in {"down", "starting", "serving"}
    BY <1>4, <1>8 DEF PassFails, archiveVars
  <2>2. FilesTyped' /\ FilesGrow /\ KeptOK' /\ HistoryTyped'
    BY <1>1, <1>2, <2>1, PlaceKeeps DEF IInv, HistoryTyped
  <2>3. RecoveryTyped' /\ RecoveryOK'
    BY <2>1 DEF RecoveryTyped, RecoveryOK
  <2>4. QED
    BY <1>1, <1>2, <2>1, <2>2, <2>3, RecoveryStepKeeps
<1>9. QED
  BY <1>6, <1>7, <1>8 DEF RecoverStore

LEMMA RecoverSyncKeeps ==
  ASSUME IInv, RecoverSync
  PROVE  IInv'
<1> DEFINE d == FirstPending
<1>1. /\ recovery = "sync" /\ Files!SyncDir(d) /\ lock' = Nobody /\ recovery' = "finalize"
      /\ UNCHANGED storeVars /\ mode' = mode /\ step' = step /\ request' = request
      /\ pending' = pending /\ acked' = acked /\ faults' = faults
  BY DEF RecoverSync, historyVars
<1>2. StoreOK' /\ states' = states /\ StatesGrow
  BY <1>1, StoreKept DEF IInv, StatesGrow
<1>3. d \in DOMAIN files /\ files[d] = states[d].payload
  BY <1>1 DEF IInv, RecoveryOK, Files!Holds
<1>4. /\ FilesTyped' /\ FilesGrow /\ d \in synced' /\ files' = files
      /\ synced' = synced \cup {d}
  BY <1>1, <1>3, SyncGrows DEF IInv
<1>5. KeptOK'
  BY <1>2, <1>4, KeptFiles DEF IInv, FilesTyped
<1>6. FirstPending' = d
  BY <1>1 DEF FirstPending
<1>7. RecoveryTyped' /\ RecoveryOK' /\ HistoryTyped'
  BY <1>1, <1>2, <1>3, <1>4, <1>6
  DEF IInv, RecoveryTyped, RecoveryOK, Files!Holds, HistoryTyped
<1>8. lock = Recovery /\ mode' \in {"down", "starting", "serving"}
  BY <1>1 DEF IInv, LockOK, WorkersTyped
<1>9. QED
  BY <1>1, <1>2, <1>4, <1>5, <1>7, <1>8, RecoveryStepKeeps

LEMMA RecoverFinalizeKeeps ==
  ASSUME IInv, RecoverFinalize
  PROVE  IInv'
<1> DEFINE d == FirstPending
<1>1. /\ recovery = "finalize" /\ files' = files /\ synced' = synced /\ lock' = lock
      /\ step' = step /\ request' = request /\ acked' = acked /\ faults' = faults
  BY DEF RecoverFinalize, archiveVars, historyVars
<1>2. d \in pending /\ d \in synced /\ d \in DOMAIN files /\ files[d] = states[d].payload
  BY <1>1, FirstIsPending DEF IInv, RecoveryOK, Files!Holds
<1>3. StoreOK' /\ (states' = states \/ Finalized(d))
  <2>1. CASE Store!FinalizeArchive(d)
    BY <2>1, FinalizeFinalizes DEF IInv
  <2>2. CASE UNCHANGED storeVars
    BY <2>2, StoreKept DEF IInv
  <2>3. QED
    BY <2>1, <2>2 DEF RecoverFinalize
<1>4. StatesGrow
  BY <1>3, StatesGrowWhen
<1>5. FilesTyped' /\ FilesGrow /\ HistoryTyped'
  BY <1>1 DEF IInv, FilesTyped, FilesGrow, HistoryTyped
<1>6. KeptOK'
  <2>1. CASE states' = states
    BY <1>1, <2>1, KeptFiles DEF IInv, FilesTyped
  <2>2. CASE Finalized(d)
    BY <1>1, <1>2, <2>2, KeptStates DEF IInv
  <2>3. QED
    BY <1>3, <2>1, <2>2
<1>7. /\ mode' \in {"down", "starting", "serving"}
      /\ \/ recovery' = "idle" /\ pending' = {}
         \/ recovery' = "store" /\ pending' # {} /\ pending' \subseteq pending
  BY <1>2 DEF RecoverFinalize, PassDone, IInv, WorkersTyped
<1>8. RecoveryTyped' /\ RecoveryOK'
  BY <1>4, <1>7 DEF IInv, RecoveryTyped, RecoveryOK, StatesGrow
<1> HIDE DEF d
<1>9. QED
  BY <1>1, <1>3, <1>4, <1>5, <1>6, <1>7, <1>8, RecoveryStepKeeps

LEMMA RecoverFailKeeps ==
  ASSUME IInv, RecoverFail
  PROVE  IInv'
<1>1. /\ recovery' = "idle" /\ pending' = {} /\ mode' \in {"down", "starting", "serving"}
      /\ UNCHANGED storeVars /\ files' = files /\ synced' = synced
      /\ step' = step /\ request' = request /\ acked' = acked
  BY DEF RecoverFail, PassFails, IInv, WorkersTyped
<1>2. faults' \in 0..FaultBound
  BY FaultAssumption DEF RecoverFail, IInv, HistoryTyped
<1>3. StoreOK' /\ states' = states /\ StatesGrow
  BY <1>1, StoreKept DEF IInv, StatesGrow
<1>4. FilesTyped' /\ FilesGrow /\ KeptOK' /\ HistoryTyped'
  BY <1>1, <1>2, <1>3, PlaceKeeps
<1>5. RecoveryTyped' /\ RecoveryOK'
  BY <1>1 DEF RecoveryTyped, RecoveryOK
<1>6. \/ lock' = lock /\ (recovery' = "sync" <=> recovery = "sync")
      \/ lock = Recovery /\ lock' = Nobody /\ recovery' # "sync"
  BY <1>1 DEF RecoverFail, IInv, LockOK
<1>7. QED
  BY <1>1, <1>3, <1>4, <1>5, <1>6, RecoveryStepKeeps
------------------------------------------------------------------------------
(***************************************************************************)
(* The process and its surroundings.                                       *)
(***************************************************************************)
LEMMA StartKeeps ==
  ASSUME IInv, Start
  PROVE  IInv'
<1>1. /\ mode' = "starting" /\ step' = step /\ request' = request
      /\ pending' = pending /\ recovery' = recovery
      /\ files' = files /\ synced' = synced /\ lock' = lock
      /\ acked' = acked /\ faults' = faults
  BY DEF Start, archiveVars, historyVars
<1>2. StoreOK' /\ states' = states /\ StatesGrow
  BY OpenKeeps DEF Start, IInv, StatesGrow
<1>3. FilesTyped' /\ FilesGrow /\ KeptOK' /\ HistoryTyped'
  BY <1>1, <1>2, PlaceKeeps DEF IInv, HistoryTyped
<1>4. RecoveryTyped' /\ RecoveryOK'
  BY <1>1, <1>2, <1>3, RecoveryKept DEF IInv
<1>5. QED
  BY <1>1, <1>2, <1>3, <1>4, RecoveryStepKeeps

(* What a crash loses was not synced: neither a request that was answered   *)
(* nor a delivery that was archived relies on it.                           *)
LEMMA CrashKeeps ==
  ASSUME IInv, NEW lost, Crash(lost)
  PROVE  IInv'
<1>1. /\ mode' = "down" /\ step' = [w \in Workers |-> "idle"]
      /\ request' = [w \in Workers |-> NoRequest]
      /\ pending' = {} /\ recovery' = "idle" /\ lock' = Nobody
      /\ UNCHANGED storeVars /\ acked' = acked /\ synced' = synced
  BY DEF Crash, Files!Lose
<1>2. /\ DOMAIN files' = DOMAIN files \ lost /\ lost \cap synced = {}
      /\ \A d \in DOMAIN files' : d \in DOMAIN files /\ files'[d] = files[d]
  BY DEF Crash, Files!Lose
<1>3. faults' \in 0..FaultBound
  BY FaultAssumption DEF Crash, IInv, HistoryTyped
<1>4. StoreOK' /\ states' = states
  BY <1>1, StoreKept DEF IInv
<1>5. FilesTyped' /\ HistoryTyped'
  BY <1>1, <1>2, <1>3 DEF IInv, FilesTyped, HistoryTyped
<1>6. KeptOK'
  BY <1>1, <1>2, <1>4, <1>5, KeptFiles DEF IInv, FilesTyped
<1>7. AckedIsDurable'
  <2>1. \A d \in synced : files'[d] = files[d]
    BY <1>2 DEF IInv, FilesTyped
  <2>2. QED
    BY <1>1, <2>1 DEF IInv, AckedIsDurable
<1>8. WorkersTyped' /\ LockOK' /\ RequestsOK'
  BY <1>1, WorkerAssumption DEF WorkersTyped, LockOK, RequestsOK, RequestOK, Steps
<1>9. RecoveryTyped' /\ RecoveryOK'
  BY <1>1 DEF RecoveryTyped, RecoveryOK
<1>10. QED
  BY <1>4, <1>5, <1>6, <1>7, <1>8, <1>9 DEF IInv

LEMMA ForwardKeeps ==
  ASSUME IInv, NEW s \in Store!Sendable, NEW t, Forward(s, t)
  PROVE  IInv'
<1>1. /\ mode' = mode /\ step' = step /\ request' = request
      /\ pending' = pending /\ recovery' = recovery
      /\ files' = files /\ synced' = synced /\ lock' = lock
      /\ acked' = acked /\ faults' = faults
  BY DEF Forward, archiveVars, processVars, historyVars
<1>2. StoreOK' /\ Forwarded(s)
  BY ForwardForwards DEF Forward, IInv, Store!Sendable
<1>3. StatesGrow
  BY <1>2, StatesGrowWhen
<1>4. FilesTyped' /\ FilesGrow /\ HistoryTyped'
  BY <1>1 DEF IInv, FilesTyped, FilesGrow, HistoryTyped
<1>5. KeptOK'
  BY <1>1, <1>2, KeptStates DEF IInv
<1>6. RecoveryTyped' /\ RecoveryOK'
  BY <1>1, <1>3, <1>4, RecoveryKept DEF IInv
<1>7. mode' \in {"down", "starting", "serving"}
  BY <1>1 DEF IInv, WorkersTyped
<1>8. QED
  BY <1>1, <1>2, <1>3, <1>4, <1>5, <1>6, <1>7, RecoveryStepKeeps

LEMMA StutterKeeps ==
  ASSUME IInv, UNCHANGED vars
  PROVE  IInv'
<1>1. /\ UNCHANGED storeVars /\ files' = files /\ synced' = synced /\ lock' = lock
      /\ mode' = mode /\ step' = step /\ request' = request
      /\ pending' = pending /\ recovery' = recovery /\ acked' = acked /\ faults' = faults
  BY DEF vars, archiveVars, processVars, historyVars
<1>2. StoreOK' /\ states' = states /\ StatesGrow
  BY <1>1, StoreKept DEF IInv, StatesGrow
<1>3. FilesTyped' /\ FilesGrow /\ KeptOK' /\ HistoryTyped'
  BY <1>1, <1>2, PlaceKeeps DEF IInv, HistoryTyped
<1>4. RecoveryTyped' /\ RecoveryOK'
  BY <1>1, <1>2, <1>3, RecoveryKept DEF IInv
<1>5. mode' \in {"down", "starting", "serving"}
  BY <1>1 DEF IInv, WorkersTyped
<1>6. QED
  BY <1>1, <1>2, <1>3, <1>4, <1>5, RecoveryStepKeeps

LEMMA InitIInv == Init => IInv
<1> SUFFICES ASSUME Init PROVE IInv
  OBVIOUS
<1>1. /\ DOMAIN states = {} /\ DOMAIN queue = {} /\ DOMAIN dead = {}
      /\ next = 0 /\ count = 0 /\ deadCount = 0 /\ cooldown = FALSE
      /\ states = [d \in {} |-> {}]
      /\ DOMAIN files = {} /\ synced = {} /\ lock = Nobody
  BY DEF Init, Store!Init, Files!Init
<1>2. StoreOK
  BY <1>1 DEF StoreOK, Store!TypeOK
<1>3. FilesTyped /\ RecoveryTyped /\ RecoveryOK
  BY <1>1 DEF Init, FilesTyped, RecoveryTyped, RecoveryOK
<1>4. WorkersTyped /\ LockOK /\ RequestsOK
  BY <1>1, WorkerAssumption
  DEF Init, WorkersTyped, LockOK, RequestsOK, RequestOK, Steps
<1>5. HistoryTyped /\ AckedIsDurable
  BY FaultAssumption DEF Init, HistoryTyped, AckedIsDurable
<1>6. KeptOK
  BY <1>1 DEF KeptOK, DeliveryKept
<1>7. QED
  BY <1>2, <1>3, <1>4, <1>5, <1>6 DEF IInv

LEMMA NextIInv == IInv /\ [Next]_vars => IInv'
<1> SUFFICES ASSUME IInv, [Next]_vars PROVE IInv'
  OBVIOUS
<1>1. ASSUME NEW w \in Workers, WorkerStep(w) \/ Fail(w) PROVE IInv'
  BY <1>1, VerifyKeeps, ReserveKeeps, AdmitKeeps, RefuseKeeps, PublishKeeps, SyncKeeps,
     FinalizeKeeps, FailKeeps DEF WorkerStep
<1>2. ASSUME RecoveryStep \/ RecoverFail PROVE IInv'
  BY <1>2, TakePendingKeeps, RecoverStoreKeeps, RecoverSyncKeeps, RecoverFinalizeKeeps,
     RecoverFailKeeps DEF RecoveryStep
<1>3. QED
  BY <1>1, <1>2, LookupKeeps, StartKeeps, CrashKeeps, ForwardKeeps, StutterKeeps DEF Next

(***************************************************************************)
(* The theorems.                                                           *)
(***************************************************************************)
(* The inductive invariant holds in every reachable state. *)
THEOREM AdmissionInvariant == Spec => []IInv
BY InitIInv, NextIInv, PTL DEF Spec

(* Type correctness, and the discipline of the archive lock. *)
THEOREM AdmissionTypeOK == Spec => []TypeOK
<1>1. IInv => TypeOK
  BY DEF IInv, StoreOK, FilesTyped, WorkersTyped, RecoveryTyped, HistoryTyped, LockOK, TypeOK
<1>2. QED
  BY <1>1, AdmissionInvariant, PTL

(* A delivery that was answered with 202 is on disk with that payload,      *)
(* through every crash, power loss, failing step and retry, whoever sent it.*)
THEOREM AdmissionAckedIsDurable == Spec => []AckedIsDurable
<1>1. IInv => AckedIsDurable
  BY DEF IInv
<1>2. QED
  BY <1>1, AdmissionInvariant, PTL

(* Delivery by delivery: if the handler of d heeds the errors of the        *)
(* admission, the archive holds nothing else than what d is known by, and d *)
(* is archived only when that is durable - whatever the requests of other   *)
(* deliveries, whose handler loses them, do.                                *)
THEOREM AdmissionKeepsDeliveries == Spec => []KeptOK
<1>1. IInv => KeptOK
  BY DEF IInv
<1>2. QED
  BY <1>1, AdmissionInvariant, PTL

(* The hypothesis of the theorems that speak of all deliveries: none is     *)
(* sent to the GitLab handler's AdmitToChats, whose error is lost (the run  *)
(* GitlabRecovery shows what comes of it).                                  *)
EveryErrorHeeded == \A d \in Deliveries, p \in Payloads : ~LosesError(d, p)

(* The archived flag, which lets the worker send, means what it says.       *)
THEOREM AdmissionArchivedIsDurable ==
  ASSUME EveryErrorHeeded
  PROVE  Spec => []ArchivedIsDurable
<1>1. IInv => ArchivedIsDurable
  BY DEF EveryErrorHeeded, IInv, StoreOK, Store!TypeOK, Kept, KeptOK, DeliveryKept, ArchivedIsDurable
<1>2. QED
  BY <1>1, AdmissionInvariant, PTL

(* A conflicting payload is never kept in the archive. *)
THEOREM AdmissionFilesAreRecorded ==
  ASSUME EveryErrorHeeded
  PROVE  Spec => []FilesAreRecorded
<1>1. IInv => FilesAreRecorded
  BY DEF EveryErrorHeeded, IInv, FilesTyped, Kept, KeptOK, DeliveryKept, FilesAreRecorded, Store!Known
<1>2. QED
  BY <1>1, AdmissionInvariant, PTL
------------------------------------------------------------------------------
(***************************************************************************)
(* The service implements the promise to the senders.                      *)
(***************************************************************************)
RecordedOf == {<<d, states[d].payload>> : d \in DOMAIN states}
RetainedOf == {d \in DOMAIN states : d \in synced /\ files[d] = states[d].payload}
DoneOf == {d \in DOMAIN states : states[d].status = "delivered"}

InboxVars == <<RecordedOf, RetainedOf, acked, DoneOf>>

(* What the archive has on disk is what the inbox retains. *)
LEMMA RetainedIsSynced ==
  ASSUME EveryErrorHeeded, IInv
  PROVE  /\ RetainedOf = synced
         /\ \A d \in DOMAIN states : states[d].archived => d \in RetainedOf
         /\ \A d \in Deliveries : d \in Kept
         /\ DOMAIN states \subseteq Deliveries
         /\ \A d \in DOMAIN states : states[d].payload \in Payloads
<1>1. \A d \in Deliveries : d \in Kept /\ DeliveryKept(d)
  BY DEF EveryErrorHeeded, Kept, IInv, KeptOK
<1>2. /\ DOMAIN states \subseteq Deliveries
      /\ \A d \in DOMAIN states : states[d].payload \in Payloads
  BY DEF IInv, StoreOK, Store!TypeOK, Store!DeliveryState
<1>3. RetainedOf = synced
  BY <1>1 DEF DeliveryKept, RetainedOf, IInv, FilesTyped
<1>4. \A d \in DOMAIN states : states[d].archived => d \in RetainedOf
  BY <1>1, <1>2 DEF DeliveryKept, RetainedOf
<1>5. QED
  BY <1>1, <1>2, <1>3, <1>4

LEMMA RetainedIsSyncedThen ==
  ASSUME EveryErrorHeeded, IInv'
  PROVE  RetainedOf' = synced'
<1>1. \A d \in Deliveries : DeliveryKept(d)'
  BY DEF EveryErrorHeeded, Kept, LosesError, IsArchiveOnly, IInv, KeptOK
<1>2. QED
  BY <1>1 DEF DeliveryKept, RetainedOf, IInv, FilesTyped

LEMMA RecordedSame ==
  ASSUME DOMAIN states' = DOMAIN states,
         \A d \in DOMAIN states : states'[d].payload = states[d].payload
  PROVE  RecordedOf' = RecordedOf
BY DEF RecordedOf

LEMMA FinalizedView ==
  ASSUME NEW d, states' = states \/ Finalized(d)
  PROVE  RecordedOf' = RecordedOf /\ DoneOf' = DoneOf
<1>1. /\ DOMAIN states' = DOMAIN states
      /\ \A e \in DOMAIN states :
           states'[e].payload = states[e].payload /\ states'[e].status = states[e].status
  BY DEF Finalized
<1>2. RecordedOf' = RecordedOf
  BY <1>1, RecordedSame
<1>3. DoneOf' = DoneOf
  BY <1>1 DEF DoneOf
<1>4. QED
  BY <1>2, <1>3

(* What a step has to look like from outside. *)
InboxStep == [Inbox!Next]_InboxVars

(* Nothing shows of the archived flag. *)
LEMMA ViewStays ==
  ASSUME EveryErrorHeeded, IInv, IInv', acked' = acked, synced' = synced,
         NEW d, states' = states \/ Finalized(d)
  PROVE  InboxStep
<1>1. RecordedOf' = RecordedOf /\ DoneOf' = DoneOf
  BY FinalizedView
<1>2. RetainedOf = synced
  BY RetainedIsSynced
<1>3. RetainedOf' = synced'
  BY RetainedIsSyncedThen
<1>4. QED
  BY <1>1, <1>2, <1>3 DEF InboxStep, InboxVars

(* A delivery is recorded. *)
LEMMA ViewRecords ==
  ASSUME EveryErrorHeeded, IInv, IInv', acked' = acked, synced' = synced,
         NEW d \in Deliveries, NEW p \in Payloads, Recorded(d, p)
  PROVE  InboxStep
<1>1. /\ d \notin DOMAIN states /\ DOMAIN states' = DOMAIN states \cup {d}
      /\ states'[d].payload = p /\ states'[d].status # "delivered"
      /\ \A e \in DOMAIN states : states'[e] = states[e]
  BY DEF Recorded
<1>2. RecordedOf' = RecordedOf \cup {<<d, p>>}
  BY <1>1 DEF RecordedOf
<1>3. \A q \in Payloads : <<d, q>> \notin RecordedOf
  BY <1>1 DEF RecordedOf
<1>4. DoneOf' = DoneOf
  BY <1>1 DEF DoneOf
<1>5. RetainedOf = synced
  BY RetainedIsSynced
<1>6. RetainedOf' = synced'
  BY RetainedIsSyncedThen
<1>7. Inbox!Record(d, p)
  BY <1>2, <1>3, <1>4, <1>5, <1>6 DEF Inbox!Record, RecordedOf, RetainedOf, DoneOf
<1>8. QED
  BY <1>7 DEF InboxStep, Inbox!Next

(* A payload becomes durable, by whatever hand. *)
LEMMA ViewRetains ==
  ASSUME EveryErrorHeeded, IInv, IInv', acked' = acked,
         NEW d \in Deliveries, d \in DOMAIN states, states' = states, synced' = synced \cup {d}
  PROVE  InboxStep
<1>1. RecordedOf' = RecordedOf /\ DoneOf' = DoneOf
  BY DEF RecordedOf, DoneOf
<1>2. RetainedOf = synced
  BY RetainedIsSynced
<1>3. RetainedOf' = synced'
  BY RetainedIsSyncedThen
<1>4. <<d, states[d].payload>> \in RecordedOf /\ states[d].payload \in Payloads
  BY RetainedIsSynced DEF RecordedOf
<1>5. Inbox!Retain(d)
  BY <1>1, <1>2, <1>3, <1>4 DEF Inbox!Retain, RecordedOf, RetainedOf, DoneOf
<1>6. QED
  BY <1>5 DEF InboxStep, Inbox!Next

(* A sender is answered. *)
LEMMA ViewConfirms ==
  ASSUME EveryErrorHeeded, IInv, IInv', NEW d \in Deliveries, NEW p \in Payloads,
         d \in DOMAIN states, states[d].payload = p,
         states' = states \/ Finalized(d),
         acked' = acked \cup {<<d, p>>}, synced' = synced \cup {d}
  PROVE  InboxStep
<1>1. RecordedOf' = RecordedOf /\ DoneOf' = DoneOf
  BY FinalizedView
<1>2. RetainedOf = synced
  BY RetainedIsSynced
<1>3. RetainedOf' = synced'
  BY RetainedIsSyncedThen
<1>4. <<d, p>> \in RecordedOf
  BY DEF RecordedOf
<1>5. Inbox!Confirm(d, p)
  BY <1>1, <1>2, <1>3, <1>4 DEF Inbox!Confirm, RecordedOf, RetainedOf, DoneOf
<1>6. QED
  BY <1>5 DEF InboxStep, Inbox!Next

(* Only an archived item is sent: its delivery is retained. *)
LEMMA ViewPasses ==
  ASSUME EveryErrorHeeded, IInv, IInv', acked' = acked, synced' = synced,
         NEW s \in Store!Sendable, Forwarded(s)
  PROVE  InboxStep
<1> PICK d : d = queue[s].id
  OBVIOUS
<1>1. d \in DOMAIN states /\ states[d].archived = TRUE
  BY DEF IInv, StoreOK, ItemOwned, Store!Sendable
<1>2. d \in RetainedOf /\ d \in Deliveries
  BY <1>1, RetainedIsSynced
<1>3. /\ DOMAIN states' = DOMAIN states
      /\ \A e \in DOMAIN states :
           /\ states'[e].payload = states[e].payload
           /\ e # d => states'[e].status = states[e].status
           /\ states'[e].status \in {states[e].status, "delivered"}
  BY DEF Forwarded
<1>4. RecordedOf' = RecordedOf
  BY <1>3, RecordedSame
<1>5. RetainedOf = synced
  BY RetainedIsSynced
<1>6. RetainedOf' = synced'
  BY RetainedIsSyncedThen
<1>7. DoneOf' = DoneOf \/ DoneOf' = DoneOf \cup {d}
  <2>1. CASE states'[d].status = states[d].status
    BY <1>3, <2>1 DEF DoneOf
  <2>2. CASE states'[d].status = "delivered"
    BY <1>1, <1>3, <2>2 DEF DoneOf
  <2>3. QED
    BY <1>1, <1>3, <2>1, <2>2
<1>8. CASE DoneOf' = DoneOf
  BY <1>4, <1>5, <1>6, <1>8 DEF InboxStep, InboxVars
<1>9. CASE DoneOf' = DoneOf \cup {d}
  <2>1. Inbox!Pass(d)
    BY <1>2, <1>4, <1>5, <1>6, <1>9 DEF Inbox!Pass, RecordedOf, RetainedOf, DoneOf
  <2>2. QED
    BY <1>2, <2>1 DEF InboxStep, Inbox!Next
<1>10. QED
  BY <1>7, <1>8, <1>9

(* Each worker step is one of these. *)
LEMMA WorkerView ==
  ASSUME EveryErrorHeeded, IInv, IInv', NEW w \in Workers, WorkerStep(w) \/ Fail(w)
  PROVE  InboxStep
<1> DEFINE d == request[w].id
           p == request[w].payload
<1>1. step[w] # "idle"
  BY DEF WorkerStep, Verify, Reserve, AdmitDelivery, RefuseDelivery, Publish, Sync, Finalize, Fail
<1>2. d \in Deliveries /\ p \in Payloads
  BY <1>1, RequestFields DEF IInv
<1>3. step[w] \in {"verify", "publish", "sync", "finalize"} =>
        d \in DOMAIN states /\ states[d].payload = p
  BY <1>2, RetainedIsSynced DEF IInv, RequestsOK, RequestOK
<1>4. step[w] = "finalize" => d \in synced
  BY DEF IInv, RequestsOK, RequestOK
<1> HIDE DEF d, p
<1>5. CASE Verify(w)
  <2>1. step[w] = "verify" /\ UNCHANGED storeVars
    BY <1>5 DEF Verify
  <2>2. states' = states
    BY <2>1 DEF storeVars
  <2>3. CASE synced' = synced /\ acked' = acked
    BY <2>2, <2>3, ViewStays
  <2>4. CASE synced' = synced \cup {d} /\ acked' = acked
    BY <1>2, <1>3, <2>1, <2>2, <2>4, ViewRetains
  <2>5. CASE synced' = synced \cup {d} /\ acked' = acked \cup {<<d, p>>}
    BY <1>2, <1>3, <2>1, <2>2, <2>5, ViewConfirms
  <2>6. QED
    BY <1>5, <2>3, <2>4, <2>5 DEF Verify, Accepted, archiveVars, Files!SyncDir, d, p
<1>6. CASE Reserve(w) \/ RefuseDelivery(w) \/ Fail(w)
  <2>1. states' = states /\ synced' = synced /\ acked' = acked
    BY <1>6 DEF Reserve, RefuseDelivery, Fail, storeVars, historyVars
  <2>2. QED
    BY <2>1, ViewStays
<1>7. CASE AdmitDelivery(w)
  <2>1. synced' = synced /\ acked' = acked
    BY <1>7 DEF AdmitDelivery, archiveVars, historyVars
  <2>2. states' = states \/ Recorded(d, p)
    <3>1. CASE UNCHANGED storeVars
      BY <3>1 DEF storeVars
    <3>2. CASE Store!AdmitArchiveOnly(d, p)
      BY <1>2, <3>2, ArchiveOnlyRecords DEF IInv
    <3>3. ASSUME NEW C \in Targets(d), Store!Admit(d, p, C) PROVE Recorded(d, p)
      <4>1. C \in SUBSET Chats
        BY DEF Targets
      <4>2. QED
        BY <1>2, <3>3, <4>1, AdmitRecords DEF IInv
    <3>4. QED
      BY <1>7, <3>1, <3>2, <3>3 DEF AdmitDelivery, d, p
  <2>3. QED
    BY <1>2, <2>1, <2>2, ViewStays, ViewRecords
<1>8. CASE Publish(w) \/ Sync(w)
  <2>1. states' = states /\ acked' = acked /\ step[w] \in {"publish", "sync"}
    BY <1>8 DEF Publish, Sync, storeVars, historyVars
  <2>2. synced' = synced \/ synced' = synced \cup {d}
    BY <1>8 DEF Publish, Sync, Files!SyncDir, Files!Link, d
  <2>3. QED
    BY <1>2, <1>3, <2>1, <2>2, ViewStays, ViewRetains
<1>9. CASE Finalize(w)
  <2>1. step[w] = "finalize" /\ synced' = synced
    BY <1>9 DEF Finalize
  <2>2. synced' = synced \cup {d} /\ d \in DOMAIN states /\ states[d].payload = p
    BY <1>3, <1>4, <2>1
  <2>3. acked' = acked \cup {<<d, p>>}
    BY <1>9, <2>2 DEF Finalize, Accepted, Store!Known, d, p
  <2>4. states' = states \/ Finalized(d)
    <3>1. CASE Store!FinalizeArchive(d)
      BY <3>1, FinalizeFinalizes DEF IInv
    <3>2. CASE UNCHANGED storeVars
      BY <3>2 DEF storeVars
    <3>3. QED
      BY <1>9, <3>1, <3>2 DEF Finalize, d
  <2>5. QED
    BY <1>2, <2>2, <2>3, <2>4, ViewConfirms
<1>10. QED
  BY <1>5, <1>6, <1>7, <1>8, <1>9 DEF WorkerStep

LEMMA RecoveryView ==
  ASSUME EveryErrorHeeded, IInv, IInv', RecoveryStep \/ RecoverFail
  PROVE  InboxStep
<1> DEFINE d == FirstPending
<1>1. recovery # "idle" => d \in DOMAIN states /\ d \in Deliveries
  BY FirstIsPending, RetainedIsSynced DEF IInv
<1> HIDE DEF d
<1>2. CASE TakePending \/ RecoverFail
  <2>1. states' = states /\ synced' = synced /\ acked' = acked
    BY <1>2 DEF TakePending, RecoverFail, storeVars, archiveVars, historyVars
  <2>2. QED
    BY <2>1, ViewStays
<1>3. CASE RecoverStore \/ RecoverSync
  <2>1. states' = states /\ acked' = acked /\ recovery \in {"store", "sync"}
    BY <1>3 DEF RecoverStore, RecoverSync, storeVars, historyVars
  <2>2. synced' = synced \/ synced' = synced \cup {d}
    BY <1>3 DEF RecoverStore, RecoverSync, Files!SyncDir, Files!Link, archiveVars, d
  <2>3. QED
    BY <1>1, <2>1, <2>2, ViewStays, ViewRetains
<1>4. CASE RecoverFinalize
  <2>1. synced' = synced /\ acked' = acked
    BY <1>4 DEF RecoverFinalize, archiveVars, historyVars
  <2>2. states' = states \/ Finalized(d)
    <3>1. CASE Store!FinalizeArchive(d)
      BY <3>1, FinalizeFinalizes DEF IInv
    <3>2. CASE UNCHANGED storeVars
      BY <3>2 DEF storeVars
    <3>3. QED
      BY <1>4, <3>1, <3>2 DEF RecoverFinalize, d
  <2>3. QED
    BY <2>1, <2>2, ViewStays
<1>5. QED
  BY <1>2, <1>3, <1>4 DEF RecoveryStep

LEMMA NextInbox ==
  ASSUME EveryErrorHeeded, IInv, IInv', [Next]_vars
  PROVE  InboxStep
<1>1. CASE Start
  <2>1. states' = states
    BY <1>1, OpenKeeps DEF Start, IInv
  <2>2. synced' = synced /\ acked' = acked
    BY <1>1 DEF Start, archiveVars, historyVars
  <2>3. QED
    BY <2>1, <2>2, ViewStays
<1>2. ASSUME NEW s \in Store!Sendable, NEW t, Forward(s, t) PROVE InboxStep
  <2>1. Forwarded(s)
    BY <1>2, ForwardForwards DEF Forward, IInv, Store!Sendable
  <2>2. synced' = synced /\ acked' = acked
    BY <1>2 DEF Forward, archiveVars, historyVars
  <2>3. QED
    BY <2>1, <2>2, ViewPasses
<1>3. ASSUME \/ \E w \in Workers, d \in Deliveries, p \in Payloads : Lookup(w, d, p)
             \/ \E lost \in SUBSET DOMAIN files : Crash(lost)
             \/ UNCHANGED vars
      PROVE  InboxStep
  <2>1. states' = states /\ synced' = synced /\ acked' = acked
    BY <1>3 DEF Lookup, Crash, Files!Lose, vars, storeVars, archiveVars, historyVars
  <2>2. QED
    BY <2>1, ViewStays
<1>4. QED
  BY <1>1, <1>2, <1>3, WorkerView, RecoveryView DEF Next

LEMMA InitInbox == Init => Inbox!Init
<1> SUFFICES ASSUME Init PROVE Inbox!Init
  OBVIOUS
<1>1. DOMAIN states = {} /\ acked = {}
  BY DEF Init, Store!Init
<1>2. QED
  BY <1>1 DEF Inbox!Init

(* Handlers, poller, recovery, crashes and power losses implement the       *)
(* promise to the senders.                                                  *)
THEOREM AdmissionImplementsInbox ==
  ASSUME EveryErrorHeeded
  PROVE  Spec => InboxSpec
<1>1. IInv /\ IInv' /\ [Next]_vars => [Inbox!Next]_(Inbox!vars)
  BY NextInbox DEF InboxStep, InboxVars, Inbox!vars, RecordedOf, RetainedOf, DoneOf
<1>2. QED
  BY InitInbox, <1>1, AdmissionInvariant, PTL DEF Spec, InboxSpec, Inbox!Spec
==============================================================================
