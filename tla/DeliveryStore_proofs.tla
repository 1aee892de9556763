------------------------ MODULE DeliveryStore_proofs ------------------------
(***************************************************************************)
(* Proofs about DeliveryStore, for every value of its constants.           *)
(***************************************************************************)
EXTENDS DeliveryStore, FiniteLemmas

(* The three invariants support one another: the typing keeps fresh        *)
(* sequence numbers fresh, the agreement of the buckets carries the        *)
(* archived flag from the queue to the delivery that is being completed.   *)
IInv == TypeOK /\ RecordsAgree /\ RawUntilArchived

LEMMA TypedFunction ==
  ASSUME NEW f, NEW T, f = [x \in DOMAIN f |-> f[x]], \A x \in DOMAIN f : f[x] \in T
  PROVE  f \in [DOMAIN f -> T]
OBVIOUS

(* The flags of typed records are Booleans. *)
LEMMA Flags ==
  ASSUME TypeOK
  PROVE  /\ \A d \in DOMAIN states : /\ states[d].archived \in BOOLEAN
                                     /\ states[d].raw \in BOOLEAN
                                     /\ states[d].status \in Statuses
         /\ \A s \in DOMAIN queue : queue[s].archived \in BOOLEAN
         /\ \A s \in DOMAIN dead : dead[s].archived \in BOOLEAN
BY DEF TypeOK, DeliveryState, Item

LEMMA InitIInv == Init => IInv
<1> SUFFICES ASSUME Init PROVE IInv
  OBVIOUS
<1>1. DOMAIN states = {} /\ DOMAIN queue = {} /\ DOMAIN dead = {}
  BY DEF Init
<1>2. next = 0 /\ count = 0 /\ deadCount = 0 /\ cooldown = FALSE
  BY DEF Init
<1>3. TypeOK
  <2>1. states \in [DOMAIN states -> DeliveryState]
    BY <1>1 DEF Init
  <2>2. QED
    BY <1>1, <1>2, <2>1 DEF TypeOK
<1>4. RecordsAgree /\ RawUntilArchived
  BY <1>1 DEF RecordsAgree, QueueOwned, DeadOwned, EntryPresent, OnePlace, NeverQueued,
         RawUntilArchived
<1>5. QED
  BY <1>3, <1>4 DEF IInv

LEMMA AdmitIInv ==
  ASSUME IInv, NEW d \in Deliveries, NEW p \in Payloads, NEW C \in SUBSET Chats,
         Admit(d, p, C)
  PROVE  IInv'
<1> PICK n : n = next + 1
  OBVIOUS
<1> DEFINE item == NewItem(d, p, C)
           state == NewState(p, n, "queued")
<1>1. /\ d \notin DOMAIN states
      /\ next' = n
      /\ queue' = Put(queue, n, item)
      /\ states' = Put(states, d, state)
      /\ dead' = dead /\ deadCount' = deadCount /\ cooldown' = cooldown
      /\ count' = count + 1
  BY DEF Admit, Known
<1>2. /\ item \in Item /\ item.id = d /\ item.payload = p
      /\ item.archived = FALSE
  BY DEF NewItem, Item
<1>3. /\ next \in Nat /\ n = next + 1 /\ state \in DeliveryState
      /\ state.seq = n /\ state.status = "queued" /\ state.payload = p
      /\ state.archived = FALSE /\ state.raw = TRUE
  BY DEF NewState, DeliveryState, Statuses, IInv, TypeOK
<1> HIDE DEF item, state
<1>4. /\ DOMAIN queue' = DOMAIN queue \cup {n}
      /\ queue'[n] = item
      /\ \A s \in DOMAIN queue : s # n /\ queue'[s] = queue[s]
  BY <1>1, <1>3 DEF Put, IInv, TypeOK
<1>5. /\ DOMAIN states' = DOMAIN states \cup {d}
      /\ states'[d] = state
      /\ \A e \in DOMAIN states : e # d /\ states'[e] = states[e]
      /\ states' = [e \in DOMAIN states' |-> states'[e]]
  BY <1>1 DEF Put
<1>6. TypeOK'
  <2>1. states' \in [DOMAIN states' -> DeliveryState]
    BY <1>3, <1>5, TypedFunction DEF IInv, TypeOK
  <2>2. QED
    BY <1>1, <1>2, <1>3, <1>4, <1>5, <2>1 DEF IInv, TypeOK
<1>7. RecordsAgree'
  <2>1. QueueOwned'
    <3>1. EntryOwned(queue, n, "queued")'
      BY <1>2, <1>3, <1>4, <1>5 DEF EntryOwned
    <3>2. ASSUME NEW s \in DOMAIN queue
          PROVE  EntryOwned(queue, s, "queued")'
      BY <1>4, <1>5 DEF IInv, RecordsAgree, QueueOwned, EntryOwned
    <3>3. QED
      BY <1>4, <3>1, <3>2 DEF QueueOwned
  <2>2. DeadOwned'
    BY <1>1, <1>5 DEF IInv, RecordsAgree, DeadOwned, EntryOwned
  <2>3. EntryPresent(queue, "queued")'
    BY <1>2, <1>3, <1>4, <1>5 DEF IInv, RecordsAgree, EntryPresent
  <2>4. EntryPresent(dead, "dead")'
    BY <1>1, <1>3, <1>5 DEF IInv, RecordsAgree, EntryPresent
  <2>5. OnePlace'
    BY <1>1, <1>3, <1>4 DEF IInv, TypeOK, RecordsAgree, OnePlace
  <2>6. NeverQueued'
    BY <1>3, <1>5 DEF IInv, RecordsAgree, NeverQueued
  <2>7. QED
    BY <2>1, <2>2, <2>3, <2>4, <2>5, <2>6 DEF RecordsAgree
<1>8. RawUntilArchived'
  BY <1>3, <1>5 DEF IInv, RawUntilArchived
<1>9. QED
  BY <1>6, <1>7, <1>8 DEF IInv

LEMMA AdmitArchiveOnlyIInv ==
  ASSUME IInv, NEW d \in Deliveries, NEW p \in Payloads, AdmitArchiveOnly(d, p)
  PROVE  IInv'
<1> DEFINE state == NewState(p, 0, "archive_only")
<1>1. /\ d \notin DOMAIN states
      /\ states' = Put(states, d, state)
      /\ queue' = queue /\ dead' = dead /\ next' = next /\ cooldown' = cooldown
      /\ count' = count /\ deadCount' = deadCount
  BY DEF AdmitArchiveOnly, Known, counters
<1>2. /\ state \in DeliveryState
      /\ state.status = "archive_only" /\ state.seq = 0
      /\ state.archived = FALSE /\ state.raw = TRUE
  BY DEF NewState, DeliveryState, Statuses
<1> HIDE DEF state
<1>3. /\ DOMAIN states' = DOMAIN states \cup {d}
      /\ states'[d] = state
      /\ \A e \in DOMAIN states : e # d /\ states'[e] = states[e]
      /\ states' = [e \in DOMAIN states' |-> states'[e]]
  BY <1>1 DEF Put
<1>4. TypeOK'
  <2>1. states' \in [DOMAIN states' -> DeliveryState]
    BY <1>2, <1>3, TypedFunction DEF IInv, TypeOK
  <2>2. QED
    BY <1>1, <1>3, <2>1 DEF IInv, TypeOK
<1>5. QueueOwned' /\ DeadOwned'
  BY <1>1, <1>3 DEF IInv, RecordsAgree, QueueOwned, DeadOwned, EntryOwned
<1>6. EntryPresent(queue, "queued")' /\ EntryPresent(dead, "dead")'
  BY <1>1, <1>2, <1>3 DEF IInv, RecordsAgree, EntryPresent
<1>7. OnePlace' /\ NeverQueued' /\ RawUntilArchived'
  BY <1>1, <1>2, <1>3 DEF IInv, RecordsAgree, OnePlace, NeverQueued, RawUntilArchived
<1>8. QED
  BY <1>4, <1>5, <1>6, <1>7 DEF IInv, RecordsAgree

LEMMA FinalizeArchiveIInv ==
  ASSUME IInv, NEW d \in Deliveries, FinalizeArchive(d)
  PROVE  IInv'
<1>1. /\ d \in DOMAIN states
      /\ dead' = dead /\ next' = next /\ cooldown' = cooldown
      /\ count' = count /\ deadCount' = deadCount
  BY DEF FinalizeArchive, Known, counters
<1>2. /\ DOMAIN states' = DOMAIN states
      /\ states'[d] = [states[d] EXCEPT !.archived = TRUE, !.raw = FALSE]
      /\ \A e \in DOMAIN states : e # d => states'[e] = states[e]
      /\ states' = [e \in DOMAIN states' |-> states'[e]]
  BY <1>1 DEF FinalizeArchive
<1>3. /\ states'[d] \in DeliveryState
      /\ states'[d].payload = states[d].payload /\ states'[d].seq = states[d].seq
      /\ states'[d].status = states[d].status
      /\ states'[d].archived = TRUE /\ states'[d].raw = FALSE
  <2>1. states[d] \in DeliveryState
    BY <1>1 DEF IInv, TypeOK
  <2>2. QED
    BY <1>2, <2>1 DEF DeliveryState
<1>4. /\ DOMAIN queue' = DOMAIN queue
      /\ \A s \in DOMAIN queue :
           queue'[s] = IF s = states[d].seq THEN [queue[s] EXCEPT !.archived = TRUE]
                                            ELSE queue[s]
  BY DEF FinalizeArchive
<1>5. ASSUME NEW s \in DOMAIN queue
      PROVE  /\ queue'[s] \in Item
             /\ queue'[s].id = queue[s].id /\ queue'[s].payload = queue[s].payload
             /\ s = states[d].seq => queue'[s].archived = TRUE
             /\ s # states[d].seq => queue'[s] = queue[s]
  <2>1. queue[s] \in Item
    BY DEF IInv, TypeOK
  <2>2. CASE s = states[d].seq
    BY <1>4, <2>1, <2>2 DEF Item
  <2>3. CASE s # states[d].seq
    BY <1>4, <2>1, <2>3
  <2>4. QED
    BY <2>2, <2>3
<1>6. TypeOK'
  <2>1. states' \in [DOMAIN states' -> DeliveryState]
    BY <1>2, <1>3, TypedFunction DEF IInv, TypeOK
  <2>2. QED
    BY <1>1, <1>2, <1>4, <1>5, <2>1 DEF IInv, TypeOK
<1>7. QueueOwned'
  <2> SUFFICES ASSUME NEW s \in DOMAIN queue
               PROVE  EntryOwned(queue, s, "queued")'
    BY <1>4 DEF QueueOwned
  <2>1. EntryOwned(queue, s, "queued")
    BY DEF IInv, RecordsAgree, QueueOwned
  <2>2. CASE queue[s].id = d
    <3>1. s = states[d].seq /\ queue'[s].id = d
      BY <2>1, <2>2, <1>5 DEF EntryOwned
    <3>2. queue'[s].archived = states'[d].archived
      BY <3>1, <1>3, <1>5
    <3>3. queue'[s].payload = states'[d].payload /\ states'[d].status = "queued"
      BY <2>1, <2>2, <1>3, <1>5 DEF EntryOwned
    <3>4. QED
      BY <3>1, <3>2, <3>3, <1>1, <1>2, <1>3 DEF EntryOwned
  <2>3. CASE queue[s].id # d
    <3>1. s # states[d].seq
      <4> SUFFICES ASSUME s = states[d].seq PROVE FALSE
        OBVIOUS
      <4>1. s # 0
        BY DEF IInv, TypeOK
      <4>2. states[d].status = "queued"
        BY <1>1, <4>1 DEF IInv, TypeOK, DeliveryState, Statuses, RecordsAgree,
                          NeverQueued, RawUntilArchived, FinalizeArchive
      <4>3. QED
        BY <1>1, <2>3, <4>2 DEF IInv, RecordsAgree, EntryPresent
    <3>2. QED
      BY <3>1, <2>1, <2>3, <1>2, <1>5 DEF EntryOwned
  <2>4. QED
    BY <2>2, <2>3
<1>8. DeadOwned'
  <2> SUFFICES ASSUME NEW s \in DOMAIN dead
               PROVE  EntryOwned(dead, s, "dead")' /\ dead'[s].archived
    BY <1>1 DEF DeadOwned
  <2>1. EntryOwned(dead, s, "dead") /\ dead[s].archived
    BY DEF IInv, RecordsAgree, DeadOwned
  <2>2. dead[s].id # d
    BY <2>1, Flags DEF IInv, EntryOwned, FinalizeArchive
  <2>3. QED
    BY <2>1, <2>2, <1>1, <1>2 DEF EntryOwned
<1>9. \A e \in DOMAIN states : /\ states'[e].seq = states[e].seq
                              /\ states'[e].status = states[e].status
  BY <1>2, <1>3
<1>10. /\ EntryPresent(queue, "queued")' /\ EntryPresent(dead, "dead")'
       /\ OnePlace' /\ NeverQueued'
  <2>1. \A s \in DOMAIN queue : queue'[s].id = queue[s].id
    BY <1>5
  <2>2. EntryPresent(queue, "queued")'
    BY <1>2, <1>4, <1>9, <2>1 DEF IInv, RecordsAgree, EntryPresent
  <2>3. EntryPresent(dead, "dead")'
    BY <1>1, <1>2, <1>9 DEF IInv, RecordsAgree, EntryPresent
  <2>4. OnePlace' /\ NeverQueued'
    BY <1>1, <1>2, <1>4, <1>9 DEF IInv, RecordsAgree, OnePlace, NeverQueued
  <2>5. QED
    BY <2>2, <2>3, <2>4
<1>11. RawUntilArchived'
  <2> SUFFICES ASSUME NEW e \in DOMAIN states
               PROVE  /\ states'[e].raw <=> ~states'[e].archived
                      /\ states'[e].status \in {"delivered", "dead"} => states'[e].archived
    BY <1>2 DEF RawUntilArchived
  <2>1. CASE e = d
    BY <2>1, <1>3
  <2>2. CASE e # d
    BY <2>2, <1>2 DEF IInv, RawUntilArchived
  <2>3. QED
    BY <2>1, <2>2
<1>12. QED
  BY <1>6, <1>7, <1>8, <1>10, <1>11 DEF IInv, RecordsAgree

(* An item leaves the queue for a status: the delivery that owned it has    *)
(* the status, every other record is as before.                             *)
LEMMA WithStatusValue ==
  ASSUME IInv, NEW keys \in SUBSET DOMAIN queue, NEW status \in Statuses
  PROVE  LET new == WithStatus(keys, status)
             Moved(d) == states[d].status = "queued" /\ states[d].seq \in keys
         IN  /\ new \in [DOMAIN states -> DeliveryState]
             /\ \A d \in DOMAIN states :
                  /\ new[d].payload = states[d].payload /\ new[d].seq = states[d].seq
                  /\ new[d].archived = states[d].archived /\ new[d].raw = states[d].raw
                  /\ Moved(d) => new[d].status = status
                  /\ ~Moved(d) => new[d] = states[d]
<1> DEFINE new == WithStatus(keys, status)
           Moved(d) == states[d].status = "queued" /\ states[d].seq \in keys
           ids == {queue[s].id : s \in keys}
<1>1. ASSUME NEW d \in DOMAIN states
      PROVE  d \in ids <=> Moved(d)
  <2>1. ASSUME d \in ids PROVE Moved(d)
    <3>1. PICK s \in keys : queue[s].id = d
      BY <2>1
    <3>2. EntryOwned(queue, s, "queued")
      BY DEF IInv, RecordsAgree, QueueOwned
    <3>3. QED
      BY <3>1, <3>2 DEF EntryOwned
  <2>2. ASSUME Moved(d) PROVE d \in ids
    BY <2>2 DEF IInv, RecordsAgree, EntryPresent
  <2>3. QED
    BY <2>1, <2>2
<1>2. /\ DOMAIN new = DOMAIN states /\ new = [d \in DOMAIN new |-> new[d]]
      /\ \A d \in DOMAIN states :
           new[d] = IF d \in ids THEN [states[d] EXCEPT !.status = status] ELSE states[d]
  BY DEF WithStatus
<1> HIDE DEF new, Moved, ids
<1>3. ASSUME NEW d \in DOMAIN states
      PROVE  /\ new[d] \in DeliveryState
             /\ new[d].payload = states[d].payload /\ new[d].seq = states[d].seq
             /\ new[d].archived = states[d].archived /\ new[d].raw = states[d].raw
             /\ Moved(d) => new[d].status = status
             /\ ~Moved(d) => new[d] = states[d]
  <2>1. states[d] \in DeliveryState
    BY DEF IInv, TypeOK
  <2>2. CASE Moved(d)
    <3>1. new[d] = [states[d] EXCEPT !.status = status]
      BY <1>1, <1>2, <2>2
    <3>2. QED
      BY <2>1, <2>2, <3>1 DEF DeliveryState
  <2>3. CASE ~Moved(d)
    BY <1>1, <1>2, <2>1, <2>3
  <2>4. QED
    BY <2>2, <2>3
<1>4. new \in [DOMAIN states -> DeliveryState]
  BY <1>2, <1>3, TypedFunction
<1>5. QED
  BY <1>3, <1>4 DEF new, Moved

(* Buckets are finite, so their sizes are numbers. *)
LEMMA FiniteBuckets ==
  ASSUME NEW keys, NEW n \in Nat, keys \subseteq 1..n
  PROVE  IsFiniteSet(keys) /\ Cardinality(keys) \in Nat
<1>1. IsFiniteSet(1..n)
  BY FS_Interval
<1>2. IsFiniteSet(keys)
  BY <1>1, FS_Subset
<1>3. QED
  BY <1>2, FS_CardinalityType

SameOwner(new, old) ==
  new.id = old.id /\ new.payload = old.payload /\ new.archived = old.archived

(* CompleteChatDelivery, Delete and HandleFailure have one shape: archived  *)
(* items leave the queue for "delivered" or for the dead letters, the       *)
(* others stay with their owner.                                            *)
LEMMA LeaveQueueIInv ==
  ASSUME IInv,
         NEW gone \in SUBSET Sendable, NEW status \in {"delivered", "dead"},
         states' = WithStatus(gone, status),
         next' = next,
         DOMAIN queue' = DOMAIN queue \ gone,
         \A s \in DOMAIN queue \ gone : queue'[s] \in Item /\ SameOwner(queue'[s], queue[s]),
         status = "delivered" => dead' = dead,
         status = "dead" =>
           /\ DOMAIN dead' = DOMAIN dead \cup gone
           /\ \A s \in gone : dead'[s] \in Item /\ SameOwner(dead'[s], queue[s])
           /\ \A s \in DOMAIN dead \ gone : dead'[s] = dead[s],
         count' \in Nat, deadCount' \in Nat, cooldown' \in BOOLEAN
  PROVE  IInv'
<1> DEFINE Moved(d) == states[d].status = "queued" /\ states[d].seq \in gone
<1>1. gone \subseteq DOMAIN queue /\ \A s \in gone : queue[s].archived
  BY DEF Sendable
<1>2. /\ DOMAIN states' = DOMAIN states /\ states' \in [DOMAIN states' -> DeliveryState]
      /\ \A d \in DOMAIN states :
           /\ states'[d].payload = states[d].payload /\ states'[d].seq = states[d].seq
           /\ states'[d].archived = states[d].archived /\ states'[d].raw = states[d].raw
           /\ Moved(d) => states'[d].status = status
           /\ ~Moved(d) => states'[d] = states[d]
  BY <1>1, WithStatusValue DEF Statuses
<1>3. ASSUME NEW s \in DOMAIN queue
      PROVE  /\ queue[s].id \in DOMAIN states
             /\ states[queue[s].id].seq = s
             /\ states[queue[s].id].status = "queued"
             /\ states[queue[s].id].payload = queue[s].payload
             /\ states[queue[s].id].archived = queue[s].archived
             /\ Moved(queue[s].id) <=> s \in gone
  BY DEF IInv, RecordsAgree, QueueOwned, EntryOwned
<1>4. ASSUME NEW s \in DOMAIN dead
      PROVE  /\ dead[s].id \in DOMAIN states
             /\ EntryOwned(dead, s, "dead")
             /\ ~Moved(dead[s].id)
             /\ s \notin gone
  <2>1. EntryOwned(dead, s, "dead")
    BY DEF IInv, RecordsAgree, DeadOwned
  <2>2. dead[s].id \in DOMAIN states /\ states[dead[s].id].status = "dead"
    BY <2>1 DEF EntryOwned
  <2>3. s \notin gone
    BY <1>1 DEF IInv, RecordsAgree, OnePlace
  <2>4. QED
    BY <2>1, <2>2, <2>3
<1> HIDE DEF Moved
<1>5. TypeOK'
  <2>1. next \in Nat /\ DOMAIN queue' \subseteq 1..next' /\ DOMAIN dead' \subseteq 1..next'
    BY <1>1 DEF IInv, TypeOK
  <2>2. \A s \in DOMAIN dead' : dead'[s] \in Item
    BY <1>1 DEF IInv, TypeOK
  <2>3. QED
    BY <1>2, <2>1, <2>2 DEF IInv, TypeOK
<1>6. QueueOwned'
  <2> SUFFICES ASSUME NEW s \in DOMAIN queue \ gone
               PROVE  EntryOwned(queue, s, "queued")'
    BY DEF QueueOwned
  <2>1. queue'[s].id = queue[s].id /\ states'[queue[s].id] = states[queue[s].id]
    BY <1>2, <1>3 DEF SameOwner
  <2>2. QED
    BY <1>2, <1>3, <2>1 DEF EntryOwned, SameOwner
<1>7. DeadOwned'
  <2> SUFFICES ASSUME NEW s \in DOMAIN dead'
               PROVE  EntryOwned(dead, s, "dead")' /\ dead'[s].archived
    BY DEF DeadOwned
  <2>1. CASE s \in gone
    <3>1. status = "dead"
      BY <1>4, <2>1
    <3>2. dead'[s].id = queue[s].id /\ states'[queue[s].id].status = "dead"
      BY <1>1, <1>2, <1>3, <2>1, <3>1 DEF SameOwner
    <3>3. dead'[s].archived
      BY <1>1, <2>1, <3>1 DEF SameOwner
    <3>4. EntryOwned(dead, s, "dead")'
      BY <1>1, <1>2, <1>3, <2>1, <3>1, <3>2 DEF EntryOwned, SameOwner
    <3>5. QED
      BY <3>3, <3>4
  <2>2. CASE s \notin gone
    <3>1. s \in DOMAIN dead /\ dead'[s] = dead[s]
      BY <1>4, <2>2
    <3>2. states'[dead[s].id] = states[dead[s].id]
      BY <1>2, <1>4, <3>1
    <3>3. QED
      BY <1>2, <1>4, <3>1, <3>2 DEF EntryOwned, IInv, RecordsAgree, DeadOwned
  <2>3. QED
    BY <2>1, <2>2
<1>8. EntryPresent(queue, "queued")'
  <2> SUFFICES ASSUME NEW d \in DOMAIN states, states'[d].status = "queued"
               PROVE  states'[d].seq \in DOMAIN queue' /\ queue'[states'[d].seq].id = d
    BY <1>2 DEF EntryPresent
  <2>1. ~Moved(d) /\ states'[d] = states[d]
    BY <1>2
  <2>2. states[d].seq \in DOMAIN queue \ gone /\ queue[states[d].seq].id = d
    BY <2>1 DEF IInv, RecordsAgree, EntryPresent, Moved
  <2>3. QED
    BY <2>1, <2>2 DEF SameOwner
<1>9. EntryPresent(dead, "dead")'
  <2> SUFFICES ASSUME NEW d \in DOMAIN states, states'[d].status = "dead"
               PROVE  states'[d].seq \in DOMAIN dead' /\ dead'[states'[d].seq].id = d
    BY <1>2 DEF EntryPresent
  <2>1. CASE Moved(d)
    <3>1. status = "dead" /\ states'[d].seq = states[d].seq /\ states[d].seq \in gone
      BY <1>2, <2>1 DEF Moved
    <3>2. queue[states[d].seq].id = d
      BY <2>1 DEF IInv, RecordsAgree, EntryPresent, Moved
    <3>3. QED
      BY <3>1, <3>2 DEF SameOwner
  <2>2. CASE ~Moved(d)
    <3>1. states'[d] = states[d]
      BY <1>2, <2>2
    <3>2. states[d].seq \in DOMAIN dead /\ dead[states[d].seq].id = d
      BY <3>1 DEF IInv, RecordsAgree, EntryPresent
    <3>3. QED
      BY <1>4, <3>1, <3>2
  <2>3. QED
    BY <2>1, <2>2
<1>10. OnePlace' /\ NeverQueued'
  <2>1. OnePlace'
    BY <1>1 DEF IInv, RecordsAgree, OnePlace
  <2>2. NeverQueued'
    BY <1>2 DEF IInv, RecordsAgree, NeverQueued
  <2>3. QED
    BY <2>1, <2>2
<1>11. RawUntilArchived'
  <2> SUFFICES ASSUME NEW d \in DOMAIN states
               PROVE  /\ states'[d].raw <=> ~states'[d].archived
                      /\ states'[d].status \in {"delivered", "dead"} => states'[d].archived
    BY <1>2 DEF RawUntilArchived
  <2>1. CASE Moved(d)
    <3>1. states[d].seq \in gone /\ queue[states[d].seq].id = d
      BY <2>1 DEF IInv, RecordsAgree, EntryPresent, Moved
    <3>2. states[d].archived
      BY <1>1, <1>3, <3>1
    <3>3. QED
      BY <1>2, <3>2 DEF IInv, RawUntilArchived
  <2>2. CASE ~Moved(d)
    BY <1>2, <2>2 DEF IInv, RawUntilArchived
  <2>3. QED
    BY <2>1, <2>2
<1>12. QED
  BY <1>5, <1>6, <1>7, <1>8, <1>9, <1>10, <1>11 DEF IInv, RecordsAgree

LEMMA CompleteChatDeliveryIInv ==
  ASSUME IInv, NEW S \in SUBSET Sendable, NEW t \in Chats \cup {NoChat},
         CompleteChatDelivery(S, t)
  PROVE  IInv'
<1> DEFINE hit  == {s \in S \cap DOMAIN queue : HasTarget(queue[s], t)}
           gone == {s \in hit : queue[s].chats \subseteq {t}}
<1>1. gone \in SUBSET Sendable
  OBVIOUS
<1>2. /\ states' = WithStatus(gone, "delivered")
      /\ DOMAIN queue' = DOMAIN queue \ gone
      /\ \A s \in DOMAIN queue \ gone :
           queue'[s] = IF s \in hit THEN [queue[s] EXCEPT !.chats = @ \ {t}] ELSE queue[s]
      /\ count' = Cardinality(DOMAIN queue')
      /\ dead' = dead /\ next' = next /\ deadCount' = deadCount /\ cooldown' = cooldown
  BY DEF CompleteChatDelivery
<1>3. ASSUME NEW s \in DOMAIN queue \ gone
      PROVE  queue'[s] \in Item /\ SameOwner(queue'[s], queue[s])
  <2>1. queue[s] \in Item
    BY DEF IInv, TypeOK
  <2>2. CASE s \in hit
    <3>1. queue'[s] = [queue[s] EXCEPT !.chats = @ \ {t}]
      BY <1>2, <2>2
    <3>2. QED
      BY <2>1, <3>1 DEF Item, SameOwner
  <2>3. CASE s \notin hit
    BY <1>2, <2>1, <2>3 DEF SameOwner
  <2>4. QED
    BY <2>2, <2>3
<1>4. count' \in Nat /\ deadCount' \in Nat /\ cooldown' \in BOOLEAN
  BY <1>2, FiniteBuckets DEF IInv, TypeOK
<1> HIDE DEF hit, gone
<1>5. QED
  BY <1>1, <1>2, <1>3, <1>4, LeaveQueueIInv

LEMMA DeleteIInv ==
  ASSUME IInv, ItemAccounting, NEW s \in Sendable, Delete(s)
  PROVE  IInv'
<1>1. /\ states' = WithStatus({s}, "delivered")
      /\ DOMAIN queue' = DOMAIN queue \ {s}
      /\ \A k \in DOMAIN queue \ {s} : queue'[k] = queue[k]
      /\ count' = count - 1
      /\ dead' = dead /\ next' = next /\ deadCount' = deadCount /\ cooldown' = cooldown
  BY DEF Delete, Without
<1>2. \A k \in DOMAIN queue \ {s} : queue'[k] \in Item /\ SameOwner(queue'[k], queue[k])
  BY <1>1 DEF IInv, TypeOK, SameOwner
<1>3. count' \in Nat
  <2>1. IsFiniteSet(DOMAIN queue) /\ s \in DOMAIN queue
    BY FiniteBuckets DEF IInv, TypeOK, Sendable
  <2>2. Cardinality(DOMAIN queue) # 0 /\ Cardinality(DOMAIN queue) \in Nat
    BY <2>1, FS_EmptySet, FS_CardinalityType
  <2>3. QED
    BY <1>1, <2>2 DEF ItemAccounting
<1>4. deadCount' \in Nat /\ cooldown' \in BOOLEAN
  BY <1>1 DEF IInv, TypeOK
<1>5. QED
  BY <1>1, <1>2, <1>3, <1>4, LeaveQueueIInv

LEMMA HandleFailureIInv ==
  ASSUME IInv, NEW S \in SUBSET Sendable, NEW permanent \in BOOLEAN, NEW limited \in BOOLEAN,
         HandleFailure(S, permanent, limited)
  PROVE  IInv'
<1> DEFINE hit   == S \cap DOMAIN queue
           spent == {s \in hit : Spent(s, permanent)}
           gone  == IF DeadRoom(spent) THEN spent ELSE {}
           Failed(s) == [queue[s] EXCEPT !.attempts = @ + 1]
<1>1. gone \in SUBSET Sendable /\ gone \in SUBSET hit
  OBVIOUS
<1>2. /\ states' = WithStatus(gone, "dead")
      /\ DOMAIN queue' = DOMAIN queue \ gone
      /\ \A s \in DOMAIN queue \ gone :
           queue'[s] = IF s \in hit THEN [Failed(s) EXCEPT !.due = FALSE] ELSE queue[s]
      /\ DOMAIN dead' = DOMAIN dead \cup gone
      /\ \A s \in DOMAIN dead \cup gone :
           dead'[s] = IF s \in gone THEN Failed(s) ELSE dead[s]
      /\ count' = Cardinality(DOMAIN queue') /\ deadCount' = Cardinality(DOMAIN dead')
      /\ next' = next /\ cooldown' = (cooldown \/ limited)
  BY DEF HandleFailure
<1> HIDE DEF gone
<1>3. ASSUME NEW s \in hit
      PROVE  Failed(s) \in Item /\ SameOwner(Failed(s), queue[s])
  BY DEF IInv, TypeOK, Item, SameOwner
<1>4. ASSUME NEW s \in DOMAIN queue \ gone
      PROVE  queue'[s] \in Item /\ SameOwner(queue'[s], queue[s])
  <2>1. CASE s \in hit
    <3>1. queue'[s] = [Failed(s) EXCEPT !.due = FALSE]
      BY <1>2, <2>1
    <3> HIDE DEF Failed
    <3>2. QED
      BY <1>3, <2>1, <3>1 DEF Item, SameOwner
  <2>2. CASE s \notin hit
    BY <1>2, <2>2 DEF IInv, TypeOK, SameOwner
  <2>3. QED
    BY <2>1, <2>2
<1>5. \A s \in gone : dead'[s] \in Item /\ SameOwner(dead'[s], queue[s])
  BY <1>1, <1>2, <1>3
<1>6. \A s \in DOMAIN dead \ gone : dead'[s] = dead[s]
  BY <1>2
<1>7. count' \in Nat /\ deadCount' \in Nat /\ cooldown' \in BOOLEAN
  <2>1. DOMAIN queue' \subseteq 1..next /\ DOMAIN dead' \subseteq 1..next /\ next \in Nat
    BY <1>1, <1>2 DEF IInv, TypeOK
  <2>2. QED
    BY <1>2, <2>1, FiniteBuckets DEF IInv, TypeOK
<1> HIDE DEF hit, spent, Failed
<1>8. QED
  BY <1>1, <1>2, <1>4, <1>5, <1>6, <1>7, LeaveQueueIInv

LEMMA RequeueDeadLetterIInv ==
  ASSUME IInv, NEW s \in DOMAIN dead, RequeueDeadLetter(s)
  PROVE  IInv'
<1> DEFINE id == dead[s].id
           item == [dead[s] EXCEPT !.attempts = 0, !.due = TRUE]
           state == [states[id] EXCEPT !.seq = s, !.status = "queued",
                                       !.archived = TRUE, !.raw = FALSE]
<1>1. /\ id \in DOMAIN states /\ states[id].seq = s /\ states[id].status = "dead"
      /\ states[id].payload = dead[s].payload /\ dead[s].archived
      /\ dead[s] \in Item /\ states[id] \in DeliveryState
      /\ s \in 1..next /\ s \notin DOMAIN queue
  BY DEF IInv, TypeOK, RecordsAgree, DeadOwned, EntryOwned, OnePlace
<1>2. /\ item \in Item /\ item.id = id /\ item.payload = dead[s].payload
      /\ item.archived = TRUE
  BY <1>1 DEF Item
<1>3. /\ state \in DeliveryState /\ state.seq = s /\ state.status = "queued"
      /\ state.payload = dead[s].payload /\ state.archived = TRUE /\ state.raw = FALSE
  BY <1>1 DEF DeliveryState, Statuses
<1>4. /\ queue' = Put(queue, s, item)
      /\ dead' = Without(dead, {s})
      /\ states' = [d \in DOMAIN states |-> IF d = id THEN state ELSE states[d]]
      /\ count' = Cardinality(DOMAIN queue') /\ deadCount' = Cardinality(DOMAIN dead')
      /\ next' = next /\ cooldown' = cooldown
  BY DEF RequeueDeadLetter
<1>5. PICK i : i = id
  OBVIOUS
<1> HIDE DEF id, item, state
<1>6. /\ DOMAIN queue' = DOMAIN queue \cup {s} /\ queue'[s] = item
      /\ \A k \in DOMAIN queue : k # s /\ queue'[k] = queue[k]
  BY <1>1, <1>4 DEF Put
<1>7. DOMAIN dead' = DOMAIN dead \ {s} /\ \A k \in DOMAIN dead \ {s} : dead'[k] = dead[k]
  BY <1>4 DEF Without
<1>8. /\ DOMAIN states' = DOMAIN states /\ states'[i] = state
      /\ states' = [d \in DOMAIN states' |-> states'[d]]
      /\ \A d \in DOMAIN states : d # i => states'[d] = states[d]
  BY <1>1, <1>4, <1>5
<1>9. TypeOK'
  <2>1. /\ DOMAIN queue' \subseteq 1..next' /\ DOMAIN dead' \subseteq 1..next'
        /\ next' \in Nat
    BY <1>1, <1>4, <1>6, <1>7 DEF IInv, TypeOK
  <2>2. count' \in Nat /\ deadCount' \in Nat /\ cooldown' \in BOOLEAN
    BY <2>1, <1>4, FiniteBuckets DEF IInv, TypeOK
  <2>3. \A k \in DOMAIN queue' : queue'[k] \in Item
    BY <1>2, <1>6 DEF IInv, TypeOK
  <2>4. \A k \in DOMAIN dead' : dead'[k] \in Item
    BY <1>7 DEF IInv, TypeOK
  <2>5. DOMAIN states' \subseteq Deliveries /\ states' \in [DOMAIN states' -> DeliveryState]
    BY <1>3, <1>8, TypedFunction DEF IInv, TypeOK
  <2>6. QED
    BY <2>1, <2>2, <2>3, <2>4, <2>5 DEF TypeOK
<1>10. QueueOwned'
  <2>1. EntryOwned(queue, s, "queued")'
    BY <1>1, <1>2, <1>3, <1>5, <1>6, <1>8 DEF EntryOwned
  <2>2. ASSUME NEW k \in DOMAIN queue
        PROVE  EntryOwned(queue, k, "queued")'
    <3>1. EntryOwned(queue, k, "queued")
      BY DEF IInv, RecordsAgree, QueueOwned
    <3>2. queue[k].id # i
      BY <1>1, <1>5, <3>1 DEF EntryOwned
    <3>3. QED
      BY <1>6, <1>8, <3>1, <3>2 DEF EntryOwned
  <2>3. QED
    BY <1>6, <2>1, <2>2 DEF QueueOwned
<1>11. DeadOwned'
  <2> SUFFICES ASSUME NEW k \in DOMAIN dead \ {s}
               PROVE  EntryOwned(dead, k, "dead")' /\ dead'[k].archived
    BY <1>7 DEF DeadOwned
  <2>1. EntryOwned(dead, k, "dead") /\ dead[k].archived
    BY DEF IInv, RecordsAgree, DeadOwned
  <2>2. dead[k].id # i
    BY <1>1, <1>5, <2>1 DEF EntryOwned
  <2>3. QED
    BY <1>7, <1>8, <2>1, <2>2 DEF EntryOwned
<1>12. EntryPresent(queue, "queued")' /\ EntryPresent(dead, "dead")' /\ NeverQueued'
  <2> SUFFICES ASSUME NEW d \in DOMAIN states
               PROVE  /\ states'[d].status = "queued" =>
                            states'[d].seq \in DOMAIN queue' /\ queue'[states'[d].seq].id = d
                      /\ states'[d].status = "dead" =>
                            states'[d].seq \in DOMAIN dead' /\ dead'[states'[d].seq].id = d
                      /\ states'[d].status = "archive_only" => states'[d].seq = 0
    BY <1>8 DEF EntryPresent, NeverQueued
  <2>1. CASE d = i
    BY <1>2, <1>3, <1>5, <1>6, <1>8, <2>1
  <2>2. CASE d # i
    <3>1. states'[d] = states[d]
      BY <1>8, <2>2
    <3>2. states[d].status = "dead" => states[d].seq # s
      BY <1>5, <2>2 DEF IInv, RecordsAgree, EntryPresent, id
    <3>3. QED
      BY <1>6, <1>7, <3>1, <3>2 DEF IInv, RecordsAgree, EntryPresent, NeverQueued
  <2>3. QED
    BY <2>1, <2>2
<1>13. OnePlace'
  BY <1>6, <1>7 DEF IInv, RecordsAgree, OnePlace
<1>14. RawUntilArchived'
  <2> SUFFICES ASSUME NEW d \in DOMAIN states
               PROVE  /\ states'[d].raw <=> ~states'[d].archived
                      /\ states'[d].status \in {"delivered", "dead"} => states'[d].archived
    BY <1>8 DEF RawUntilArchived
  <2>1. CASE d = i
    BY <1>3, <1>8, <2>1
  <2>2. CASE d # i
    BY <1>8, <2>2 DEF IInv, RawUntilArchived
  <2>3. QED
    BY <2>1, <2>2
<1>15. QED
  BY <1>9, <1>10, <1>11, <1>12, <1>13, <1>14 DEF IInv, RecordsAgree

(* No delivery of a bucket is unknown, so Open adds no state. *)
LEMMA OpenAddsNothing ==
  ASSUME IInv, Open
  PROVE  states' = states
<1>1. {queue[s].id : s \in DOMAIN queue} \ DOMAIN states = {}
  BY DEF IInv, RecordsAgree, QueueOwned, EntryOwned
<1>2. {dead[s].id : s \in DOMAIN dead} \ DOMAIN states = {}
  BY DEF IInv, RecordsAgree, DeadOwned, EntryOwned
<1> DEFINE f == Rebuilt(queue, "queued", DOMAIN states)
           m == Merge(states, f)
<1>3. DOMAIN f = {}
  BY <1>1 DEF Rebuilt
<1>4. states = [d \in DOMAIN states |-> states[d]]
  BY DEF IInv, TypeOK
<1>5. m = states
  BY <1>3, <1>4 DEF Merge
<1>6. states' = Merge(states, Rebuilt(dead, "dead", DOMAIN states))
  BY <1>5 DEF Open
<1>7. DOMAIN Rebuilt(dead, "dead", DOMAIN states) = {}
  BY <1>2 DEF Rebuilt
<1>8. QED
  BY <1>4, <1>6, <1>7 DEF Merge

LEMMA OpenIInv ==
  ASSUME IInv, Open
  PROVE  IInv'
<1>1. /\ states' = states /\ queue' = queue /\ dead' = dead /\ next' = next
      /\ cooldown' = cooldown
      /\ count' = Cardinality(DOMAIN queue) /\ deadCount' = Cardinality(DOMAIN dead)
  BY OpenAddsNothing DEF Open
<1>2. count' \in Nat /\ deadCount' \in Nat
  BY <1>1, FiniteBuckets DEF IInv, TypeOK
<1>3. TypeOK'
  BY <1>1, <1>2 DEF IInv, TypeOK
<1>4. RecordsAgree' /\ RawUntilArchived'
  BY <1>1 DEF IInv, RecordsAgree, QueueOwned, DeadOwned, EntryOwned, EntryPresent,
              OnePlace, NeverQueued, RawUntilArchived
<1>5. QED
  BY <1>3, <1>4 DEF IInv

LEMMA ElapseIInv ==
  ASSUME IInv, CooldownEnds \/ \E s \in DOMAIN queue : BecomeDue(s)
  PROVE  IInv'
<1>1. CASE CooldownEnds
  BY <1>1 DEF CooldownEnds, counters, IInv, TypeOK, RecordsAgree, QueueOwned, DeadOwned,
              EntryOwned, EntryPresent, OnePlace, NeverQueued, RawUntilArchived
<1>2. ASSUME NEW s \in DOMAIN queue, BecomeDue(s)
      PROVE  IInv'
  <2>1. /\ states' = states /\ dead' = dead /\ next' = next /\ cooldown' = cooldown
        /\ count' = count /\ deadCount' = deadCount
        /\ DOMAIN queue' = DOMAIN queue
        /\ queue'[s] = [queue[s] EXCEPT !.due = TRUE]
        /\ \A k \in DOMAIN queue : k # s => queue'[k] = queue[k]
    BY <1>2 DEF BecomeDue, counters
  <2>2. queue[s] \in Item
    BY DEF IInv, TypeOK
  <2>3. queue'[s] \in Item /\ SameOwner(queue'[s], queue[s])
    BY <2>1, <2>2 DEF Item, SameOwner
  <2>4. \A k \in DOMAIN queue : queue'[k] \in Item /\ SameOwner(queue'[k], queue[k])
    BY <2>1, <2>3 DEF IInv, TypeOK, SameOwner
  <2>5. TypeOK'
    BY <2>1, <2>4 DEF IInv, TypeOK
  <2>6. QueueOwned' /\ EntryPresent(queue, "queued")'
    BY <2>1, <2>4 DEF IInv, RecordsAgree, QueueOwned, EntryOwned, EntryPresent, SameOwner
  <2>7. DeadOwned' /\ EntryPresent(dead, "dead")' /\ OnePlace' /\ NeverQueued'
    BY <2>1 DEF IInv, RecordsAgree, DeadOwned, EntryOwned, EntryPresent, OnePlace, NeverQueued
  <2>8. RawUntilArchived'
    BY <2>1 DEF IInv, RawUntilArchived
  <2>9. QED
    BY <2>5, <2>6, <2>7, <2>8 DEF IInv, RecordsAgree
<1>3. QED
  BY <1>1, <1>2

LEMMA NextIInv ==
  ASSUME IInv, ItemAccounting, [Next]_storeVars
  PROVE  IInv'
<1>1. CASE \E d \in Deliveries, p \in Payloads, C \in SUBSET Chats : Admit(d, p, C)
  BY <1>1, AdmitIInv
<1>2. CASE \E d \in Deliveries, p \in Payloads : AdmitArchiveOnly(d, p)
  BY <1>2, AdmitArchiveOnlyIInv
<1>3. CASE \E d \in Deliveries : FinalizeArchive(d)
  BY <1>3, FinalizeArchiveIInv
<1>4. CASE \E S \in SUBSET Sendable, t \in Chats \cup {NoChat} : CompleteChatDelivery(S, t)
  BY <1>4, CompleteChatDeliveryIInv
<1>5. CASE \E s \in Sendable : queue[s].chats = {} /\ Delete(s)
  BY <1>5, DeleteIInv
<1>6. CASE \E S \in SUBSET Sendable, permanent, limited \in BOOLEAN :
             HandleFailure(S, permanent, limited)
  BY <1>6, HandleFailureIInv
<1>7. CASE \E s \in DOMAIN dead : RequeueDeadLetter(s)
  BY <1>7, RequeueDeadLetterIInv
<1>8. CASE Open
  BY <1>8, OpenIInv
<1>9. CASE CooldownEnds \/ \E s \in DOMAIN queue : BecomeDue(s)
  BY <1>9, ElapseIInv
<1>10. CASE UNCHANGED storeVars
  BY <1>10 DEF storeVars, IInv, TypeOK, RecordsAgree, QueueOwned, DeadOwned,
               EntryOwned, EntryPresent, OnePlace, NeverQueued, RawUntilArchived
<1>11. QED
  BY <1>1, <1>2, <1>3, <1>4, <1>5, <1>6, <1>7, <1>8, <1>9, <1>10 DEF Next
------------------------------------------------------------------------------
(* Item accounting: what every action adds to and takes from the buckets.   *)
LEMMA NextItemAccounting ==
  ASSUME IInv, ItemAccounting, [Next]_storeVars
  PROVE  ItemAccounting'
<1>1. /\ IsFiniteSet(DOMAIN queue) /\ Cardinality(DOMAIN queue) \in Nat
      /\ IsFiniteSet(DOMAIN dead) /\ Cardinality(DOMAIN dead) \in Nat
  BY FiniteBuckets DEF IInv, TypeOK
<1>2. ASSUME NEW d \in Deliveries, NEW p \in Payloads, NEW C \in SUBSET Chats, Admit(d, p, C)
      PROVE  ItemAccounting'
  <2>1. /\ DOMAIN queue' = DOMAIN queue \cup {next + 1} /\ count < MaxItems
        /\ count' = count + 1 /\ dead' = dead /\ deadCount' = deadCount
    BY <1>2 DEF Admit, FitsQueue, Put
  <2>2. next + 1 \notin DOMAIN queue
    BY DEF IInv, TypeOK
  <2>3. QED
    BY <1>1, <2>1, <2>2, FS_AddElement, LimitsAssumption DEF ItemAccounting
<1>3. ASSUME NEW S \in SUBSET Sendable, NEW t \in Chats \cup {NoChat}, CompleteChatDelivery(S, t)
      PROVE  ItemAccounting'
  <2>1. /\ DOMAIN queue' \subseteq DOMAIN queue /\ count' = Cardinality(DOMAIN queue')
        /\ dead' = dead /\ deadCount' = deadCount
    BY <1>3 DEF CompleteChatDelivery
  <2>2. Cardinality(DOMAIN queue') \in Nat /\ Cardinality(DOMAIN queue') <= Cardinality(DOMAIN queue)
    BY <1>1, <2>1, FS_Subset, FS_CardinalityType
  <2>3. QED
    BY <1>1, <2>1, <2>2, LimitsAssumption DEF ItemAccounting
<1>4. ASSUME NEW s \in Sendable, Delete(s)
      PROVE  ItemAccounting'
  <2>1. /\ s \in DOMAIN queue /\ DOMAIN queue' = DOMAIN queue \ {s}
        /\ count' = count - 1 /\ dead' = dead /\ deadCount' = deadCount
    BY <1>4 DEF Delete, Without
  <2>2. QED
    BY <1>1, <2>1, FS_RemoveElement, LimitsAssumption DEF ItemAccounting
<1>5. ASSUME NEW S \in SUBSET Sendable, NEW permanent \in BOOLEAN, NEW limited \in BOOLEAN,
             HandleFailure(S, permanent, limited)
      PROVE  ItemAccounting'
  <2> DEFINE spent == {s \in S \cap DOMAIN queue : Spent(s, permanent)}
             gone  == IF DeadRoom(spent) THEN spent ELSE {}
  <2>1. /\ DOMAIN queue' = DOMAIN queue \ gone /\ count' = Cardinality(DOMAIN queue')
        /\ DOMAIN dead' = DOMAIN dead \cup gone /\ deadCount' = Cardinality(DOMAIN dead')
    BY <1>5 DEF HandleFailure
  <2>2. gone = {} \/ deadCount + Cardinality(gone) <= DeadMaxItems
    BY DEF DeadRoom
  <2>3. gone \subseteq DOMAIN queue /\ DOMAIN dead \cap gone = {}
    BY DEF IInv, RecordsAgree, OnePlace
  <2> HIDE DEF gone
  <2>4. IsFiniteSet(gone) /\ Cardinality(gone) \in Nat
    BY <1>1, <2>3, FS_Subset, FS_CardinalityType
  <2>5. Cardinality(DOMAIN dead') = Cardinality(DOMAIN dead) + Cardinality(gone)
    <3>1. Cardinality(DOMAIN dead \cap gone) = 0
      BY <2>3, FS_EmptySet
    <3>2. Cardinality(DOMAIN dead \cup gone) =
            Cardinality(DOMAIN dead) + Cardinality(gone) - Cardinality(DOMAIN dead \cap gone)
      BY <1>1, <2>4, FS_Union
    <3>3. QED
      BY <1>1, <2>1, <2>4, <3>1, <3>2
  <2>6. Cardinality(DOMAIN queue') \in Nat /\ Cardinality(DOMAIN queue') <= Cardinality(DOMAIN queue)
    BY <1>1, <2>1, FS_Subset, FS_CardinalityType
  <2>7. gone = {} => Cardinality(gone) = 0
    BY FS_EmptySet
  <2>8. QED
    BY <1>1, <2>1, <2>2, <2>4, <2>5, <2>6, <2>7, LimitsAssumption DEF ItemAccounting
<1>6. ASSUME NEW s \in DOMAIN dead, RequeueDeadLetter(s)
      PROVE  ItemAccounting'
  <2>1. /\ DOMAIN queue' = DOMAIN queue \cup {s} /\ count' = Cardinality(DOMAIN queue')
        /\ DOMAIN dead' = DOMAIN dead \ {s} /\ deadCount' = Cardinality(DOMAIN dead')
        /\ count < MaxItems
    BY <1>6 DEF RequeueDeadLetter, FitsQueue, Put, Without
  <2>2. s \notin DOMAIN queue
    BY DEF IInv, RecordsAgree, OnePlace
  <2>3. Cardinality(DOMAIN queue') = Cardinality(DOMAIN queue) + 1
    BY <1>1, <2>1, <2>2, FS_AddElement
  <2>4. Cardinality(DOMAIN dead') = Cardinality(DOMAIN dead) - 1
    BY <1>1, <2>1, FS_RemoveElement
  <2>5. QED
    BY <1>1, <2>1, <2>3, <2>4, LimitsAssumption DEF ItemAccounting
<1>7. ASSUME /\ count' = count \/ count' = Cardinality(DOMAIN queue)
             /\ deadCount' = deadCount \/ deadCount' = Cardinality(DOMAIN dead)
             /\ DOMAIN queue' = DOMAIN queue /\ DOMAIN dead' = DOMAIN dead
      PROVE  ItemAccounting'
  BY <1>7 DEF ItemAccounting
<1>8. QED
  BY <1>2, <1>3, <1>4, <1>5, <1>6, <1>7
  DEF Next, storeVars, counters, AdmitArchiveOnly, FinalizeArchive, Open, BecomeDue, CooldownEnds

------------------------------------------------------------------------------
(***************************************************************************)
(* Byte accounting: the sum of the sizes in a bucket.                      *)
(***************************************************************************)
LEMMA ItemBytesNatural ==
  ASSUME NEW item \in Item
  PROVE  ItemBytes(item) \in Nat
<1>1. IsFiniteSet(item.chats) /\ item.payload \in Payloads
  <2>1. item.chats \in SUBSET Chats /\ item.payload \in Payloads
    BY DEF Item
  <2>2. QED
    BY <2>1, ChatAssumption, FS_Subset
<1>2. Cardinality(item.chats) \in Nat
  BY <1>1, FS_CardinalityType
<1>3. PayloadBytes[item.payload] \in Nat /\ ChatBytes \in Nat
  BY <1>1, SizeAssumption
<1>4. ChatBytes * Cardinality(item.chats) \in Nat
  BY <1>2, <1>3
<1>5. QED
  BY <1>3, <1>4 DEF ItemBytes

Bucket(b) == IsFiniteSet(DOMAIN b) /\ \A s \in DOMAIN b : ItemBytes(b[s]) \in Nat

(* Whatever function gives the sizes of a bucket, its sum is BucketBytes.   *)
LEMMA BucketBytesIs ==
  ASSUME NEW b, Bucket(b), NEW f, \A s \in DOMAIN b : f[s] = ItemBytes(b[s])
  PROVE  /\ BucketBytes(b) = SumFunctionOnSet(f, DOMAIN b)
         /\ BucketBytes(b) \in Nat
<1> DEFINE g == [s \in DOMAIN b |-> ItemBytes(b[s])]
<1>1. BucketBytes(b) = SumFunctionOnSet(g, DOMAIN b)
  BY DEF BucketBytes, SumFunction
<1>2. \A s \in DOMAIN b : g[s] \in Nat /\ f[s] = g[s]
  BY DEF Bucket
<1> HIDE DEF g
<1>3. SumFunctionOnSet(g, DOMAIN b) = SumFunctionOnSet(f, DOMAIN b)
  BY <1>2, SumSame DEF Bucket
<1>4. SumFunctionOnSet(g, DOMAIN b) \in Nat
  BY <1>2, SumNatural DEF Bucket
<1>5. QED
  BY <1>1, <1>3, <1>4

(* Two buckets side by side weigh what they weigh together. *)
LEMMA BucketBytesJoin ==
  ASSUME NEW a, NEW b, NEW c, Bucket(a), Bucket(b),
         DOMAIN a \cap DOMAIN b = {}, DOMAIN c = DOMAIN a \cup DOMAIN b,
         \A s \in DOMAIN a : ItemBytes(c[s]) = ItemBytes(a[s]),
         \A s \in DOMAIN b : ItemBytes(c[s]) = ItemBytes(b[s])
  PROVE  Bucket(c) /\ BucketBytes(c) = BucketBytes(a) + BucketBytes(b)
<1> DEFINE f == [s \in DOMAIN c |-> ItemBytes(c[s])]
<1>1. \A s \in DOMAIN c : f[s] = ItemBytes(c[s]) /\ f[s] \in Nat
  BY DEF Bucket
<1>2. /\ \A s \in DOMAIN a : f[s] = ItemBytes(a[s])
      /\ \A s \in DOMAIN b : f[s] = ItemBytes(b[s])
  OBVIOUS
<1> HIDE DEF f
<1>3. Bucket(c)
  BY <1>1, FS_Union DEF Bucket
<1>4. SumFunctionOnSet(f, DOMAIN c) = SumFunctionOnSet(f, DOMAIN a) + SumFunctionOnSet(f, DOMAIN b)
  BY <1>1, SumUnion DEF Bucket
<1>5. QED
  BY <1>1, <1>2, <1>3, <1>4, BucketBytesIs

(* One more item. *)
LEMMA BucketBytesPut ==
  ASSUME NEW b, NEW c, Bucket(b), NEW s, s \notin DOMAIN b,
         DOMAIN c = DOMAIN b \cup {s}, ItemBytes(c[s]) \in Nat,
         \A k \in DOMAIN b : ItemBytes(c[k]) = ItemBytes(b[k])
  PROVE  Bucket(c) /\ BucketBytes(c) = BucketBytes(b) + ItemBytes(c[s])
<1> DEFINE f == [k \in DOMAIN c |-> ItemBytes(c[k])]
<1>1. \A k \in DOMAIN c : f[k] = ItemBytes(c[k]) /\ f[k] \in Nat
  BY DEF Bucket
<1>2. \A k \in DOMAIN b : f[k] = ItemBytes(b[k])
  OBVIOUS
<1> HIDE DEF f
<1>3. Bucket(c)
  BY <1>1, FS_AddElement DEF Bucket
<1>4. DOMAIN c \ {s} = DOMAIN b /\ s \in DOMAIN c
  OBVIOUS
<1>5. SumFunctionOnSet(f, DOMAIN c) = f[s] + SumFunctionOnSet(f, DOMAIN b)
  BY <1>1, <1>3, <1>4, SumRemove DEF Bucket
<1>6. /\ BucketBytes(c) = SumFunctionOnSet(f, DOMAIN c)
      /\ BucketBytes(b) = SumFunctionOnSet(f, DOMAIN b) /\ BucketBytes(b) \in Nat
  BY <1>1, <1>2, <1>3, BucketBytesIs
<1>7. QED
  BY <1>1, <1>3, <1>4, <1>5, <1>6

(* Fewer and smaller items weigh less. *)
LEMMA BucketBytesShrink ==
  ASSUME NEW b, NEW c, Bucket(b), DOMAIN c \subseteq DOMAIN b,
         \A k \in DOMAIN c : /\ ItemBytes(c[k]) \in Nat
                             /\ ItemBytes(c[k]) <= ItemBytes(b[k])
  PROVE  Bucket(c) /\ BucketBytes(c) <= BucketBytes(b)
<1> DEFINE f == [k \in DOMAIN b |-> ItemBytes(b[k])]
           g == [k \in DOMAIN c |-> ItemBytes(c[k])]
           gone == DOMAIN b \ DOMAIN c
<1>1. Bucket(c) /\ IsFiniteSet(gone)
  BY FS_Subset DEF Bucket
<1>2. \A k \in DOMAIN b : f[k] = ItemBytes(b[k]) /\ f[k] \in Nat
  BY DEF Bucket
<1>3. \A k \in DOMAIN c : g[k] = ItemBytes(c[k]) /\ g[k] \in Nat /\ f[k] \in Nat /\ g[k] <= f[k]
  BY DEF Bucket
<1> HIDE DEF f, g
<1>4. SumFunctionOnSet(g, DOMAIN c) <= SumFunctionOnSet(f, DOMAIN c)
  BY <1>1, <1>3, SumMonotone DEF Bucket
<1>5. SumFunctionOnSet(f, DOMAIN b) = SumFunctionOnSet(f, DOMAIN c) + SumFunctionOnSet(f, gone)
  <2>1. DOMAIN b = DOMAIN c \cup gone /\ DOMAIN c \cap gone = {}
    OBVIOUS
  <2>2. QED
    BY <1>1, <1>2, <2>1, SumUnion DEF Bucket
<1>6. SumFunctionOnSet(f, gone) \in Nat /\ SumFunctionOnSet(f, DOMAIN c) \in Nat
  BY <1>1, <1>2, <1>3, SumNatural DEF Bucket
<1>7. /\ BucketBytes(b) = SumFunctionOnSet(f, DOMAIN b)
      /\ BucketBytes(c) = SumFunctionOnSet(g, DOMAIN c) /\ BucketBytes(c) \in Nat
  BY <1>1, <1>2, <1>3, BucketBytesIs
<1>8. QED
  BY <1>1, <1>4, <1>5, <1>6, <1>7

LEMMA BucketBytesSame ==
  ASSUME NEW b, NEW c, Bucket(b), DOMAIN c = DOMAIN b,
         \A k \in DOMAIN b : ItemBytes(c[k]) = ItemBytes(b[k])
  PROVE  BucketBytes(c) = BucketBytes(b)
<1> DEFINE f == [k \in DOMAIN b |-> ItemBytes(b[k])]
<1>1. \A k \in DOMAIN b : f[k] = ItemBytes(b[k]) /\ f[k] = ItemBytes(c[k])
  OBVIOUS
<1>2. Bucket(c)
  BY DEF Bucket
<1> HIDE DEF f
<1>3. QED
  BY <1>1, <1>2, BucketBytesIs

LEMMA StoreBuckets ==
  ASSUME TypeOK
  PROVE  Bucket(queue) /\ Bucket(dead)
<1>1. IsFiniteSet(DOMAIN queue) /\ IsFiniteSet(DOMAIN dead)
  BY FiniteBuckets DEF TypeOK
<1>2. QED
  BY <1>1, ItemBytesNatural DEF TypeOK, Bucket

(* Byte accounting: what every action adds to and takes from the buckets.   *)
LEMMA NextByteAccounting ==
  ASSUME IInv, IInv', ByteAccounting, [Next]_storeVars
  PROVE  ByteAccounting'
<1>1. /\ Bucket(queue) /\ Bucket(dead)
      /\ \A s \in DOMAIN queue : queue[s] \in Item /\ ItemBytes(queue[s]) \in Nat
      /\ \A s \in DOMAIN dead : dead[s] \in Item /\ ItemBytes(dead[s]) \in Nat
  BY StoreBuckets, ItemBytesNatural DEF IInv, TypeOK
<1>2. /\ Bucket(queue') /\ Bucket(dead')
      /\ \A s \in DOMAIN queue' : ItemBytes(queue'[s]) \in Nat
      /\ \A s \in DOMAIN dead' : ItemBytes(dead'[s]) \in Nat
  <2>1. TypeOK'
    BY DEF IInv
  <2>2. IsFiniteSet(DOMAIN queue') /\ IsFiniteSet(DOMAIN dead')
    BY <2>1, FiniteBuckets DEF TypeOK
  <2>3. QED
    BY <2>1, <2>2, ItemBytesNatural DEF TypeOK, Bucket
<1>3. /\ BucketBytes(queue) \in Nat /\ BucketBytes(queue') \in Nat
      /\ BucketBytes(dead) \in Nat /\ BucketBytes(dead') \in Nat
  <2>1. ASSUME NEW b, Bucket(b) PROVE BucketBytes(b) \in Nat
    <3> DEFINE f == [s \in DOMAIN b |-> ItemBytes(b[s])]
    <3>1. \A s \in DOMAIN b : f[s] = ItemBytes(b[s])
      OBVIOUS
    <3> HIDE DEF f
    <3>2. QED
      BY <2>1, <3>1, BucketBytesIs
  <2>2. QED
    BY <1>1, <1>2, <2>1
<1>4. ASSUME NEW d \in Deliveries, NEW p \in Payloads, NEW C \in SUBSET Chats, Admit(d, p, C)
      PROVE  ByteAccounting'
  <2> DEFINE item == NewItem(d, p, C)
  <2>1. /\ queue' = Put(queue, next + 1, item) /\ bytes' = bytes + ItemBytes(item)
        /\ bytes + ItemBytes(item) <= MaxBytes
        /\ dead' = dead /\ deadBytes' = deadBytes
    BY <1>4 DEF Admit, FitsQueue
  <2> HIDE DEF item
  <2>2. next + 1 \notin DOMAIN queue
    BY DEF IInv, TypeOK
  <2>3. /\ DOMAIN queue' = DOMAIN queue \cup {next + 1} /\ queue'[next + 1] = item
        /\ \A s \in DOMAIN queue : queue'[s] = queue[s]
    BY <2>1, <2>2 DEF Put
  <2>4. BucketBytes(queue') = BucketBytes(queue) + ItemBytes(item)
    BY <1>1, <1>2, <2>2, <2>3, BucketBytesPut
  <2>5. QED
    BY <2>1, <2>4 DEF ByteAccounting
<1>5. ASSUME NEW S \in SUBSET Sendable, NEW t \in Chats \cup {NoChat}, CompleteChatDelivery(S, t)
      PROVE  ByteAccounting'
  <2> DEFINE hit  == {s \in S \cap DOMAIN queue : HasTarget(queue[s], t)}
             gone == {s \in hit : queue[s].chats \subseteq {t}}
  <2>1. /\ DOMAIN queue' = DOMAIN queue \ gone
        /\ \A s \in DOMAIN queue \ gone :
             queue'[s] = IF s \in hit THEN [queue[s] EXCEPT !.chats = @ \ {t}] ELSE queue[s]
        /\ bytes' = BucketBytes(queue') /\ dead' = dead /\ deadBytes' = deadBytes
    BY <1>5 DEF CompleteChatDelivery
  <2> HIDE DEF hit, gone
  <2>2. ASSUME NEW s \in DOMAIN queue'
        PROVE  s \in DOMAIN queue /\ ItemBytes(queue'[s]) <= ItemBytes(queue[s])
    <3>1. s \in DOMAIN queue /\ s \notin gone /\ queue[s] \in Item
      BY <1>1, <2>1
    <3>2. CASE s \in hit
      <4>1. /\ queue'[s].payload = queue[s].payload
            /\ queue'[s].chats = queue[s].chats \ {t}
            /\ queue[s].chats \in SUBSET Chats /\ queue[s].payload \in Payloads
        BY <2>1, <3>1, <3>2 DEF Item
      <4>2. /\ IsFiniteSet(queue[s].chats)
            /\ queue[s].chats \ {t} \in SUBSET queue[s].chats
        BY <4>1, ChatAssumption, FS_Subset
      <4>3. /\ Cardinality(queue[s].chats \ {t}) <= Cardinality(queue[s].chats)
            /\ Cardinality(queue[s].chats \ {t}) \in Nat
            /\ Cardinality(queue[s].chats) \in Nat
        BY <4>2, FS_Subset, FS_CardinalityType
      <4>4. ChatBytes \in Nat /\ PayloadBytes[queue[s].payload] \in Nat
        BY <4>1, SizeAssumption
      <4>5. ASSUME NEW m \in Nat, NEW n \in Nat, m <= n, NEW k \in Nat
            PROVE  k * m <= k * n
        BY <4>5, SMTT(30)
      <4>6. QED
        BY <3>1, <4>1, <4>3, <4>4, <4>5 DEF ItemBytes
    <3>3. CASE s \notin hit
      BY <1>1, <2>1, <3>1, <3>3
    <3>4. QED
      BY <3>1, <3>2, <3>3
  <2>3. BucketBytes(queue') <= BucketBytes(queue)
    BY <1>1, <1>2, <2>2, BucketBytesShrink
  <2>4. QED
    BY <1>3, <2>1, <2>3, SizeAssumption DEF ByteAccounting
<1>6. ASSUME NEW s \in Sendable, Delete(s)
      PROVE  ByteAccounting'
  <2>1. /\ s \in DOMAIN queue /\ DOMAIN queue' = DOMAIN queue \ {s}
        /\ \A k \in DOMAIN queue \ {s} : queue'[k] = queue[k]
        /\ bytes' = bytes - ItemBytes(queue[s]) /\ dead' = dead /\ deadBytes' = deadBytes
    BY <1>6 DEF Delete, Without
  <2>2. s \notin DOMAIN queue' /\ DOMAIN queue = DOMAIN queue' \cup {s}
    BY <2>1
  <2>3. \A k \in DOMAIN queue' : ItemBytes(queue[k]) = ItemBytes(queue'[k])
    BY <2>1
  <2>4. BucketBytes(queue) = BucketBytes(queue') + ItemBytes(queue[s])
    BY <1>1, <1>2, <2>1, <2>2, <2>3, BucketBytesPut
  <2>5. QED
    BY <1>1, <1>3, <2>1, <2>4, SizeAssumption DEF ByteAccounting
<1>7. ASSUME NEW S \in SUBSET Sendable, NEW permanent \in BOOLEAN, NEW limited \in BOOLEAN,
             HandleFailure(S, permanent, limited)
      PROVE  ByteAccounting'
  <2> DEFINE hit   == S \cap DOMAIN queue
             spent == {s \in hit : Spent(s, permanent)}
             gone  == IF DeadRoom(spent) THEN spent ELSE {}
             moved == Restrict(queue, gone)
             Failed(s) == [queue[s] EXCEPT !.attempts = @ + 1]
  <2>1. /\ DOMAIN queue' = DOMAIN queue \ gone
        /\ \A s \in DOMAIN queue \ gone :
             queue'[s] = IF s \in hit THEN [Failed(s) EXCEPT !.due = FALSE] ELSE queue[s]
        /\ DOMAIN dead' = DOMAIN dead \cup gone
        /\ \A s \in DOMAIN dead \cup gone :
             dead'[s] = IF s \in gone THEN Failed(s) ELSE dead[s]
        /\ bytes' = BucketBytes(queue') /\ deadBytes' = BucketBytes(dead')
    BY <1>7 DEF HandleFailure
  <2>2. gone = {} \/ deadBytes + BucketBytes(moved) <= DeadMaxBytes
    BY DEF DeadRoom
  <2>3. gone \subseteq DOMAIN queue /\ DOMAIN dead \cap gone = {}
    BY DEF IInv, RecordsAgree, OnePlace
  <2>4. ASSUME NEW s \in DOMAIN queue
        PROVE  /\ ItemBytes(Failed(s)) = ItemBytes(queue[s])
               /\ ItemBytes([Failed(s) EXCEPT !.due = FALSE]) = ItemBytes(queue[s])
    <3>1. queue[s] \in Item
      BY <1>1
    <3>2. /\ Failed(s).payload = queue[s].payload /\ Failed(s).chats = queue[s].chats
          /\ [Failed(s) EXCEPT !.due = FALSE].payload = queue[s].payload
          /\ [Failed(s) EXCEPT !.due = FALSE].chats = queue[s].chats
      BY <3>1 DEF Item
    <3> HIDE DEF Failed
    <3>3. QED
      BY <3>2 DEF ItemBytes
  <2> HIDE DEF Failed, spent
  <2>5. \A s \in DOMAIN queue' : s \in DOMAIN queue /\ ItemBytes(queue'[s]) = ItemBytes(queue[s])
    BY <2>1, <2>4
  <2>6. BucketBytes(queue') <= BucketBytes(queue)
    BY <1>1, <1>2, <2>5, BucketBytesShrink
  <2>7. DOMAIN moved = gone /\ \A s \in gone : moved[s] = queue[s]
    BY <2>3 DEF Restrict
  <2> HIDE DEF moved, gone
  <2>8. Bucket(moved)
    BY <1>1, <2>3, <2>7, FS_Subset DEF Bucket
  <2>9. BucketBytes(dead') = BucketBytes(dead) + BucketBytes(moved)
    <3>1. \A s \in DOMAIN dead : ItemBytes(dead'[s]) = ItemBytes(dead[s])
      BY <2>1, <2>3
    <3>2. \A s \in DOMAIN moved : ItemBytes(dead'[s]) = ItemBytes(moved[s])
      BY <2>1, <2>3, <2>4, <2>7
    <3>3. DOMAIN dead \cap DOMAIN moved = {} /\ DOMAIN dead' = DOMAIN dead \cup DOMAIN moved
      BY <2>1, <2>3, <2>7
    <3>4. QED
      BY <1>1, <2>8, <3>1, <3>2, <3>3, BucketBytesJoin
  <2>10. BucketBytes(dead') <= DeadMaxBytes
    <3>1. CASE gone = {}
      <4>1. \A s \in DOMAIN dead : dead'[s] = dead[s]
        BY <2>1, <3>1
      <4>2. BucketBytes(dead') = BucketBytes(dead)
        BY <1>1, <2>1, <3>1, <4>1, BucketBytesSame
      <4>3. QED
        BY <4>2 DEF ByteAccounting
    <3>2. CASE gone # {}
      BY <2>2, <2>9, <3>2 DEF ByteAccounting
    <3>3. QED
      BY <3>1, <3>2
  <2>11. QED
    BY <1>3, <2>1, <2>6, <2>10, SizeAssumption DEF ByteAccounting
<1>8. ASSUME NEW s \in DOMAIN dead, RequeueDeadLetter(s)
      PROVE  ByteAccounting'
  <2> DEFINE item == [dead[s] EXCEPT !.attempts = 0, !.due = TRUE]
  <2>1. /\ queue' = Put(queue, s, item) /\ dead' = Without(dead, {s})
        /\ bytes' = BucketBytes(queue') /\ deadBytes' = BucketBytes(dead')
        /\ bytes + ItemBytes(dead[s]) <= MaxBytes
    BY <1>8 DEF RequeueDeadLetter, FitsQueue
  <2>2. ItemBytes(item) = ItemBytes(dead[s])
    <3>1. item.payload = dead[s].payload /\ item.chats = dead[s].chats
      BY <1>1 DEF Item
    <3> HIDE DEF item
    <3>2. QED
      BY <3>1 DEF ItemBytes
  <2> HIDE DEF item
  <2>3. s \notin DOMAIN queue
    BY DEF IInv, RecordsAgree, OnePlace
  <2>4. /\ DOMAIN queue' = DOMAIN queue \cup {s} /\ queue'[s] = item
        /\ \A k \in DOMAIN queue : queue'[k] = queue[k]
    BY <2>1, <2>3 DEF Put
  <2>5. BucketBytes(queue') = BucketBytes(queue) + ItemBytes(dead[s])
    BY <1>1, <1>2, <2>2, <2>3, <2>4, BucketBytesPut
  <2>6. DOMAIN dead' \subseteq DOMAIN dead /\ \A k \in DOMAIN dead' : dead'[k] = dead[k]
    BY <2>1 DEF Without
  <2>7. BucketBytes(dead') <= BucketBytes(dead)
    BY <1>1, <1>2, <2>6, BucketBytesShrink
  <2>8. QED
    BY <1>3, <2>1, <2>5, <2>7, SizeAssumption DEF ByteAccounting
<1>9. ASSUME /\ bytes' = bytes \/ bytes' = BucketBytes(queue)
             /\ deadBytes' = deadBytes \/ deadBytes' = BucketBytes(dead)
             /\ DOMAIN queue' = DOMAIN queue /\ dead' = dead
             /\ \A s \in DOMAIN queue : ItemBytes(queue'[s]) = ItemBytes(queue[s])
      PROVE  ByteAccounting'
  BY <1>1, <1>9, BucketBytesSame DEF ByteAccounting
<1>10. ASSUME NEW d \in Deliveries, FinalizeArchive(d)
       PROVE  ByteAccounting'
  <2>1. ASSUME NEW s \in DOMAIN queue
        PROVE  ItemBytes(queue'[s]) = ItemBytes(queue[s])
    <3>1. queue[s] \in Item
      BY <1>1
    <3>2. queue'[s] = [queue[s] EXCEPT !.archived = TRUE] \/ queue'[s] = queue[s]
      BY <1>10 DEF FinalizeArchive
    <3>3. queue'[s].payload = queue[s].payload /\ queue'[s].chats = queue[s].chats
      BY <3>1, <3>2 DEF Item
    <3>4. QED
      BY <3>3 DEF ItemBytes
  <2>2. QED
    BY <1>9, <1>10, <2>1 DEF FinalizeArchive, counters
<1>11. ASSUME NEW k \in DOMAIN queue, BecomeDue(k)
       PROVE  ByteAccounting'
  <2>1. ASSUME NEW s \in DOMAIN queue
        PROVE  ItemBytes(queue'[s]) = ItemBytes(queue[s])
    <3>1. queue[s] \in Item
      BY <1>1
    <3>2. queue'[s] = [queue[s] EXCEPT !.due = TRUE] \/ queue'[s] = queue[s]
      BY <1>11 DEF BecomeDue
    <3>3. queue'[s].payload = queue[s].payload /\ queue'[s].chats = queue[s].chats
      BY <3>1, <3>2 DEF Item
    <3>4. QED
      BY <3>3 DEF ItemBytes
  <2>2. QED
    BY <1>9, <1>11, <2>1 DEF BecomeDue, counters
<1>12. CASE \/ Open \/ CooldownEnds \/ UNCHANGED storeVars
            \/ \E d \in Deliveries, p \in Payloads : AdmitArchiveOnly(d, p)
  BY <1>9, <1>12 DEF Open, CooldownEnds, storeVars, AdmitArchiveOnly, counters
<1>13. QED
  BY <1>4, <1>5, <1>6, <1>7, <1>8, <1>10, <1>11, <1>12 DEF Next
------------------------------------------------------------------------------
Inv == IInv /\ ItemAccounting /\ ByteAccounting

LEMMA InitInv == Init => Inv
<1>1. Init => ItemAccounting
  BY FS_EmptySet, LimitsAssumption DEF Init, ItemAccounting
<1>2. Init => ByteAccounting
  <2> SUFFICES ASSUME Init PROVE ByteAccounting
    OBVIOUS
  <2>1. DOMAIN queue = {} /\ DOMAIN dead = {} /\ bytes = 0 /\ deadBytes = 0
    BY DEF Init
  <2>2. ASSUME NEW b, DOMAIN b = {} PROVE BucketBytes(b) = 0
    BY <2>2, SumEmpty DEF BucketBytes, SumFunction
  <2>3. QED
    BY <2>1, <2>2, SizeAssumption DEF ByteAccounting
<1>3. QED
  BY <1>1, <1>2, InitIInv DEF Inv

(* The buckets stay well-typed, tell one story about every delivery, keep   *)
(* the raw body as long as recovery needs it, and the item and byte         *)
(* counters behind admission control are exact and within their limits: for *)
(* any number of deliveries, payloads and chats and any configuration.      *)
THEOREM StoreInvariant == Spec => []Inv
<1>1. Inv /\ [Next]_storeVars => Inv'
  BY NextIInv, NextItemAccounting, NextByteAccounting DEF Inv
<1>2. QED
  BY InitInv, <1>1, PTL DEF Spec

(* Type correctness of the store. *)
THEOREM StoreTypeOK == Spec => []TypeOK
<1>1. Inv => TypeOK
  BY DEF Inv, IInv
<1>2. QED
  BY StoreInvariant, <1>1, PTL

(* No interleaving of transactions, partial success, dead-lettering and     *)
(* requeueing leaves the buckets contradicting each other.                  *)
THEOREM StoreRecordsAgree == Spec => []RecordsAgree
<1>1. Inv => RecordsAgree
  BY DEF Inv, IInv
<1>2. QED
  BY StoreInvariant, <1>1, PTL

(* Recovery finds the raw body of every delivery that is not archived.      *)
THEOREM StoreRawUntilArchived == Spec => []RawUntilArchived
<1>1. Inv => RawUntilArchived
  BY DEF Inv, IInv
<1>2. QED
  BY StoreInvariant, <1>1, PTL

(* The persisted item counters are exact and within the configured limits.  *)
THEOREM StoreItemAccounting == Spec => []ItemAccounting
<1>1. Inv => ItemAccounting
  BY DEF Inv
<1>2. QED
  BY StoreInvariant, <1>1, PTL

(* So are the byte counters, whichever methods adjust them and whichever    *)
(* compute them anew, through partial success on several chats and partial  *)
(* dead-lettering of a batch.                                               *)
THEOREM StoreByteAccounting == Spec => []ByteAccounting
<1>1. Inv => ByteAccounting
  BY DEF Inv
<1>2. QED
  BY StoreInvariant, <1>1, PTL
------------------------------------------------------------------------------
(***************************************************************************)
(* The store implements the delivery life cycle.                           *)
(***************************************************************************)
PhaseOf == [d \in Deliveries |-> Phase(d)]
ContentOf == {<<d, states[d].payload>> : d \in DOMAIN states}
TodoOf == [d \in Deliveries |-> Todo(d)]

LEMMA InitLifecycle == Init => Lifecycle!Init
<1> SUFFICES ASSUME Init PROVE Lifecycle!Init
  OBVIOUS
<1>1. DOMAIN states = {}
  BY DEF Init
<1>2. \A d \in Deliveries : Phase(d) = "new" /\ Todo(d) = {}
  BY <1>1 DEF Phase, Todo, Known
<1>3. QED
  BY <1>1, <1>2 DEF Lifecycle!Init

(* A queued delivery owes what its queue item lists, a dead one what its    *)
(* dead letter lists.                                                       *)
LEMMA OpenItems ==
  ASSUME IInv, NEW d \in DOMAIN states
  PROVE  /\ Phase(d) = states[d].status
         /\ states[d].status = "queued" =>
              /\ states[d].seq \in DOMAIN queue /\ queue[states[d].seq].id = d
              /\ Todo(d) = OpenTargets(queue[states[d].seq])
         /\ states[d].status = "dead" =>
              /\ states[d].seq \in DOMAIN dead /\ dead[states[d].seq].id = d
              /\ Todo(d) = OpenTargets(dead[states[d].seq])
         /\ states[d].status \notin {"queued", "dead"} => Todo(d) = {}
BY DEF Phase, Todo, Known, IInv, RecordsAgree, EntryPresent

LEMMA AdmitLifecycle ==
  ASSUME IInv, NEW d \in Deliveries, NEW p \in Payloads, NEW C \in SUBSET Chats,
         Admit(d, p, C)
  PROVE  Lifecycle!Next
<1> DEFINE T == OpenTargets(NewItem(d, p, C))
<1> PICK n : n = next + 1
  OBVIOUS
<1>1. /\ d \notin DOMAIN states /\ n \notin DOMAIN queue
      /\ queue' = Put(queue, n, NewItem(d, p, C))
      /\ states' = Put(states, d, NewState(p, n, "queued"))
      /\ dead' = dead
  BY DEF Admit, Known, IInv, TypeOK
<1>2. /\ DOMAIN states' = DOMAIN states \cup {d}
      /\ states'[d].status = "queued" /\ states'[d].seq = n /\ states'[d].payload = p
      /\ \A e \in DOMAIN states : states'[e] = states[e]
      /\ queue'[n] = NewItem(d, p, C)
      /\ \A s \in DOMAIN queue : queue'[s] = queue[s]
  BY <1>1 DEF Put, NewState
<1>3. T # {} /\ T \in SUBSET (Chats \cup {NoChat})
  BY DEF OpenTargets, NewItem
<1>4. Phase(d) = "new" /\ Phase(d)' = "queued" /\ Todo(d)' = T
  BY <1>1, <1>2 DEF Phase, Todo, Known
<1>5. ASSUME NEW e \in Deliveries, e # d
      PROVE  Phase(e)' = Phase(e) /\ Todo(e)' = Todo(e)
  <2>1. CASE e \in DOMAIN states
    BY <1>1, <1>2, <2>1, OpenItems DEF Phase, Todo, Known
  <2>2. CASE e \notin DOMAIN states
    BY <1>2, <1>5, <2>2 DEF Phase, Todo, Known
  <2>3. QED
    BY <2>1, <2>2
<1>6. ContentOf' = ContentOf \cup {<<d, p>>}
  BY <1>2, <1>1 DEF ContentOf
<1>7. Lifecycle!Accept(d, p, T)
  BY <1>3, <1>4, <1>5, <1>6 DEF Lifecycle!Accept, ContentOf
<1>8. QED
  BY <1>3, <1>7 DEF Lifecycle!Next

LEMMA AdmitArchiveOnlyLifecycle ==
  ASSUME IInv, NEW d \in Deliveries, NEW p \in Payloads, AdmitArchiveOnly(d, p)
  PROVE  Lifecycle!Next
<1>1. /\ d \notin DOMAIN states
      /\ states' = Put(states, d, NewState(p, 0, "archive_only"))
      /\ queue' = queue /\ dead' = dead
  BY DEF AdmitArchiveOnly, Known
<1>2. /\ DOMAIN states' = DOMAIN states \cup {d}
      /\ states'[d].status = "archive_only" /\ states'[d].payload = p
      /\ \A e \in DOMAIN states : states'[e] = states[e]
  BY <1>1 DEF Put, NewState
<1>3. Phase(d) = "new" /\ Phase(d)' = "archive_only" /\ Todo(d) = {} /\ Todo(d)' = {}
  BY <1>1, <1>2 DEF Phase, Todo, Known
<1>4. ASSUME NEW e \in Deliveries, e # d
      PROVE  Phase(e)' = Phase(e) /\ Todo(e)' = Todo(e)
  BY <1>1, <1>2, <1>4 DEF Phase, Todo, Known
<1>5. ContentOf' = ContentOf \cup {<<d, p>>}
  BY <1>1, <1>2 DEF ContentOf
<1>6. TodoOf' = TodoOf
  BY <1>3, <1>4 DEF TodoOf
<1>7. Lifecycle!Retain(d, p)
  BY <1>3, <1>4, <1>5, <1>6 DEF Lifecycle!Retain, ContentOf, TodoOf
<1>8. QED
  BY <1>7 DEF Lifecycle!Next

(* Steps that neither move a delivery nor touch its targets are stutters.   *)
LEMMA StutterLifecycle ==
  ASSUME IInv,
         DOMAIN states' = DOMAIN states,
         \A d \in DOMAIN states : /\ states'[d].seq = states[d].seq
                                 /\ states'[d].status = states[d].status
                                 /\ states'[d].payload = states[d].payload,
         \A s \in DOMAIN queue : queue'[s].chats = queue[s].chats,
         dead' = dead
  PROVE  UNCHANGED Lifecycle!vars
<1>1. ASSUME NEW d \in Deliveries
      PROVE  Phase(d)' = Phase(d) /\ Todo(d)' = Todo(d)
  <2>1. CASE d \in DOMAIN states
    BY <2>1, OpenItems DEF Phase, Todo, Known, OpenTargets
  <2>2. CASE d \notin DOMAIN states
    BY <2>2 DEF Phase, Todo, Known
  <2>3. QED
    BY <2>1, <2>2
<1>2. ContentOf' = ContentOf
  BY DEF ContentOf
<1>3. PhaseOf' = PhaseOf /\ TodoOf' = TodoOf
  BY <1>1 DEF PhaseOf, TodoOf
<1>4. QED
  BY <1>2, <1>3 DEF Lifecycle!vars, PhaseOf, ContentOf, TodoOf

LEMMA FinalizeArchiveLifecycle ==
  ASSUME IInv, NEW d \in Deliveries, FinalizeArchive(d)
  PROVE  UNCHANGED Lifecycle!vars
<1>1. dead' = dead /\ DOMAIN states' = DOMAIN states
  BY DEF FinalizeArchive
<1>2. ASSUME NEW e \in DOMAIN states
      PROVE  /\ states'[e].seq = states[e].seq
             /\ states'[e].status = states[e].status
             /\ states'[e].payload = states[e].payload
  <2>1. states[e] \in DeliveryState
    BY DEF IInv, TypeOK
  <2>2. states'[e] = states[e] \/ states'[e] = [states[e] EXCEPT !.archived = TRUE, !.raw = FALSE]
    BY DEF FinalizeArchive, Known
  <2>3. QED
    BY <2>1, <2>2 DEF DeliveryState
<1>3. ASSUME NEW s \in DOMAIN queue
      PROVE  queue'[s].chats = queue[s].chats
  <2>1. queue[s] \in Item
    BY DEF IInv, TypeOK
  <2>2. queue'[s] = queue[s] \/ queue'[s] = [queue[s] EXCEPT !.archived = TRUE]
    BY DEF FinalizeArchive
  <2>3. QED
    BY <2>1, <2>2 DEF Item
<1>4. QED
  BY <1>1, <1>2, <1>3, StutterLifecycle

LEMMA BecomeDueLifecycle ==
  ASSUME IInv, NEW s \in DOMAIN queue, BecomeDue(s)
  PROVE  UNCHANGED Lifecycle!vars
<1>1. dead' = dead /\ states' = states
  BY DEF BecomeDue
<1>2. ASSUME NEW k \in DOMAIN queue
      PROVE  queue'[k].chats = queue[k].chats
  <2>1. queue[k] \in Item
    BY DEF IInv, TypeOK
  <2>2. queue'[k] = queue[k] \/ queue'[k] = [queue[k] EXCEPT !.due = TRUE]
    BY DEF BecomeDue
  <2>3. QED
    BY <2>1, <2>2 DEF Item
<1>3. QED
  BY <1>1, <1>2, StutterLifecycle

(* Items that leave the queue: phases after WithStatus.                     *)
LEMMA MovedPhase ==
  ASSUME IInv, NEW gone \in SUBSET DOMAIN queue, NEW status \in {"delivered", "dead"},
         states' = WithStatus(gone, status)
  PROVE  LET D == {queue[s].id : s \in gone} IN
         /\ DOMAIN states' = DOMAIN states
         /\ \A d \in DOMAIN states :
              states'[d].payload = states[d].payload /\ states'[d].seq = states[d].seq
         /\ D \subseteq DOMAIN states
         /\ \A d \in DOMAIN states :
              /\ d \in D <=> states[d].status = "queued" /\ states[d].seq \in gone
              /\ d \in D => Phase(d) = "queued" /\ Phase(d)' = status
              /\ d \notin D => Phase(d)' = Phase(d)
         /\ \A d \in Deliveries \ DOMAIN states : Phase(d)' = Phase(d)
<1> DEFINE D == {queue[s].id : s \in gone}
           Moved(d) == states[d].status = "queued" /\ states[d].seq \in gone
<1>1. /\ states' \in [DOMAIN states -> DeliveryState]
      /\ \A d \in DOMAIN states :
           /\ states'[d].payload = states[d].payload /\ states'[d].seq = states[d].seq
           /\ Moved(d) => states'[d].status = status
           /\ ~Moved(d) => states'[d] = states[d]
  BY WithStatusValue DEF Statuses
<1>2. ASSUME NEW s \in gone
      PROVE  queue[s].id \in DOMAIN states /\ Moved(queue[s].id)
  BY DEF IInv, RecordsAgree, QueueOwned, EntryOwned
<1>3. ASSUME NEW d \in DOMAIN states
      PROVE  d \in D <=> Moved(d)
  BY <1>2 DEF IInv, RecordsAgree, EntryPresent
<1> HIDE DEF D
<1>4. ASSUME NEW d \in DOMAIN states
      PROVE  /\ d \in D => Phase(d) = "queued" /\ Phase(d)' = status
             /\ d \notin D => Phase(d)' = Phase(d)
  BY <1>1, <1>3 DEF Phase, Known
<1>5. \A d \in Deliveries \ DOMAIN states : Phase(d)' = Phase(d)
  BY <1>1 DEF Phase, Known
<1>6. D \subseteq DOMAIN states
  BY <1>2 DEF D
<1>7. QED
  BY <1>1, <1>3, <1>4, <1>5, <1>6 DEF D

LEMMA CompleteChatDeliveryLifecycle ==
  ASSUME IInv, NEW S \in SUBSET Sendable, NEW t \in Chats \cup {NoChat},
         CompleteChatDelivery(S, t)
  PROVE  Lifecycle!Next
<1> DEFINE hit  == {s \in S \cap DOMAIN queue : HasTarget(queue[s], t)}
           gone == {s \in hit : queue[s].chats \subseteq {t}}
           D    == {queue[s].id : s \in hit}
           G    == {queue[s].id : s \in gone}
<1>1. /\ states' = WithStatus(gone, "delivered") /\ dead' = dead
      /\ \A s \in DOMAIN queue \ gone :
           queue'[s] = IF s \in hit THEN [queue[s] EXCEPT !.chats = @ \ {t}] ELSE queue[s]
  BY DEF CompleteChatDelivery
<1>2. gone \subseteq hit /\ hit \subseteq DOMAIN queue /\ G \subseteq D
  OBVIOUS
<1>3. ASSUME NEW s \in hit
      PROVE  /\ queue[s].id \in DOMAIN states /\ states[queue[s].id].seq = s
             /\ states[queue[s].id].status = "queued"
  BY DEF IInv, RecordsAgree, QueueOwned, EntryOwned
<1>4. ASSUME NEW s \in hit
      PROVE  /\ t \in OpenTargets(queue[s])
             /\ s \in gone <=> OpenTargets(queue[s]) = {t}
             /\ s \notin gone => OpenTargets(queue'[s]) = OpenTargets(queue[s]) \ {t}
  <2>1. queue[s] \in Item
    BY DEF IInv, TypeOK
  <2>2. t \in OpenTargets(queue[s]) /\ (s \in gone <=> OpenTargets(queue[s]) = {t})
    BY DEF HasTarget, OpenTargets
  <2>3. CASE s \notin gone
    <3>1. queue'[s].chats = queue[s].chats \ {t}
      BY <1>1, <2>1, <2>3 DEF Item
    <3>2. queue[s].chats # {} /\ queue[s].chats \ {t} # {}
      BY <2>3
    <3>3. QED
      BY <2>2, <3>1, <3>2 DEF OpenTargets
  <2>4. QED
    BY <2>2, <2>3
<1>5. \A s \in DOMAIN queue \ hit : queue'[s] = queue[s]
  BY <1>1
<1> HIDE DEF hit, gone
<1>6. /\ DOMAIN states' = DOMAIN states
      /\ \A d \in DOMAIN states :
           states'[d].payload = states[d].payload /\ states'[d].seq = states[d].seq
      /\ \A d \in DOMAIN states :
           /\ d \in G <=> states[d].status = "queued" /\ states[d].seq \in gone
           /\ d \in G => Phase(d) = "queued" /\ Phase(d)' = "delivered"
           /\ d \notin G => Phase(d)' = Phase(d)
      /\ \A d \in Deliveries \ DOMAIN states : Phase(d)' = Phase(d)
  BY <1>1, <1>2, MovedPhase
<1>7. D \subseteq DOMAIN states /\ D \in SUBSET Deliveries
  BY <1>3 DEF IInv, TypeOK
<1>8. ASSUME NEW d \in D
      PROVE  /\ Phase(d) = "queued" /\ t \in Todo(d)
             /\ Todo(d)' = Todo(d) \ {t}
             /\ Phase(d)' = IF Todo(d) = {t} THEN "delivered" ELSE Phase(d)
  <2>1. PICK s \in hit : queue[s].id = d
    OBVIOUS
  <2>2. Phase(d) = "queued" /\ Todo(d) = OpenTargets(queue[s]) /\ states[d].seq = s
    BY <1>3, <2>1, OpenItems
  <2>3. CASE s \in gone
    BY <1>3, <1>4, <1>6, <2>1, <2>2, <2>3 DEF Todo
  <2>4. CASE s \notin gone
    <3>1. d \notin G /\ Phase(d)' = "queued"
      BY <1>3, <1>6, <2>1, <2>2, <2>4
    <3>2. Todo(d)' = OpenTargets(queue'[s])
      BY <1>3, <1>6, <2>1, <2>2, <3>1 DEF Todo, OpenTargets
    <3>3. QED
      BY <1>4, <2>2, <2>4, <3>1, <3>2
  <2>5. QED
    BY <1>4, <2>2, <2>3, <2>4
<1>9. ASSUME NEW d \in Deliveries \ D
      PROVE  Phase(d)' = Phase(d) /\ Todo(d)' = Todo(d)
  <2>1. Phase(d)' = Phase(d)
    BY <1>2, <1>6
  <2>2. CASE Phase(d) = "queued"
    <3>1. d \in DOMAIN states /\ states[d].status = "queued"
      BY <2>2 DEF Phase, Known
    <3>2. /\ Todo(d) = OpenTargets(queue[states[d].seq]) /\ states[d].seq \in DOMAIN queue
          /\ queue[states[d].seq].id = d
      BY <3>1, OpenItems
    <3>3. states[d].seq \notin hit
      BY <3>2
    <3>4. QED
      BY <1>5, <1>6, <2>1, <2>2, <3>1, <3>2, <3>3 DEF Todo, OpenTargets
  <2>3. CASE Phase(d) # "queued"
    BY <1>1, <1>6, <2>1, <2>3 DEF Todo, Phase, Known, OpenTargets
  <2>4. QED
    BY <2>1, <2>2, <2>3
<1>10. ContentOf' = ContentOf
  BY <1>6 DEF ContentOf
<1> HIDE DEF D
<1>11. PhaseOf' = [d \in Deliveries |->
                    IF d \in D /\ TodoOf[d] = {t} THEN "delivered" ELSE PhaseOf[d]]
  BY <1>7, <1>8, <1>9 DEF PhaseOf, TodoOf
<1>12. TodoOf' = [d \in Deliveries |-> IF d \in D THEN TodoOf[d] \ {t} ELSE TodoOf[d]]
  BY <1>7, <1>8, <1>9 DEF TodoOf
<1>13. \A d \in D : PhaseOf[d] = "queued" /\ t \in TodoOf[d]
  BY <1>7, <1>8 DEF PhaseOf, TodoOf
<1>14. Lifecycle!Serve(D, t)
  BY <1>10, <1>11, <1>12, <1>13 DEF Lifecycle!Serve, PhaseOf, TodoOf, ContentOf
<1>15. QED
  BY <1>7, <1>14 DEF Lifecycle!Next

LEMMA DeleteLifecycle ==
  ASSUME IInv, NEW s \in Sendable, queue[s].chats = {}, Delete(s)
  PROVE  Lifecycle!Next
<1> DEFINE id == queue[s].id
<1>1. /\ s \in DOMAIN queue /\ states' = WithStatus({s}, "delivered") /\ dead' = dead
      /\ \A k \in DOMAIN queue \ {s} : queue'[k] = queue[k]
  BY DEF Delete, Without
<1>2. id \in DOMAIN states /\ id \in Deliveries /\ states[id].seq = s /\ states[id].status = "queued"
  BY <1>1 DEF IInv, TypeOK, RecordsAgree, QueueOwned, EntryOwned
<1>3. Phase(id) = "queued" /\ Todo(id) = {NoChat}
  BY <1>2, OpenItems DEF OpenTargets
<1>4. {queue[k].id : k \in {s}} = {id}
  OBVIOUS
<1>5. PICK i : i = id
  OBVIOUS
<1> HIDE DEF id
<1>6. /\ DOMAIN states' = DOMAIN states
      /\ \A d \in DOMAIN states :
           states'[d].payload = states[d].payload /\ states'[d].seq = states[d].seq
      /\ Phase(i)' = "delivered"
      /\ \A d \in Deliveries \ {i} : Phase(d)' = Phase(d)
  <2> DEFINE D == {queue[k].id : k \in {s}}
  <2>1. /\ DOMAIN states' = DOMAIN states
        /\ \A d \in DOMAIN states :
             states'[d].payload = states[d].payload /\ states'[d].seq = states[d].seq
        /\ \A d \in DOMAIN states :
             /\ d \in D => Phase(d)' = "delivered"
             /\ d \notin D => Phase(d)' = Phase(d)
        /\ \A d \in Deliveries \ DOMAIN states : Phase(d)' = Phase(d)
    <3>1. {s} \in SUBSET DOMAIN queue
      BY <1>1
    <3>2. states' = WithStatus({s}, "delivered")
      BY <1>1
    <3>3. QED
      BY <3>1, <3>2, MovedPhase
  <2>2. D = {i}
    BY <1>4, <1>5
  <2> HIDE DEF D
  <2>3. i \in DOMAIN states
    BY <1>2, <1>5
  <2>4. QED
    BY <2>1, <2>2, <2>3
<1>7. Todo(i)' = {}
  BY <1>6 DEF Todo
<1>8. ASSUME NEW d \in Deliveries \ {i}
      PROVE  Todo(d)' = Todo(d)
  <2>1. CASE Phase(d) = "queued"
    <3>1. d \in DOMAIN states /\ states[d].status = "queued"
      BY <2>1 DEF Phase, Known
    <3>2. /\ Todo(d) = OpenTargets(queue[states[d].seq]) /\ states[d].seq \in DOMAIN queue
          /\ states[d].seq # s
      BY <1>5, <3>1, OpenItems DEF id
    <3>3. QED
      BY <1>1, <1>6, <2>1, <3>1, <3>2 DEF Todo, OpenTargets
  <2>2. CASE Phase(d) # "queued"
    BY <1>1, <1>6, <2>2 DEF Todo, Phase, Known, OpenTargets
  <2>3. QED
    BY <2>1, <2>2
<1>9. ContentOf' = ContentOf
  BY <1>6 DEF ContentOf
<1>10. Lifecycle!Serve({i}, NoChat)
  <2>1. \A d \in {i} : PhaseOf[d] = "queued" /\ NoChat \in TodoOf[d]
    BY <1>2, <1>3, <1>5 DEF PhaseOf, TodoOf
  <2>2. TodoOf' = [d \in Deliveries |-> IF d \in {i} THEN TodoOf[d] \ {NoChat} ELSE TodoOf[d]]
    BY <1>2, <1>3, <1>5, <1>7, <1>8 DEF TodoOf
  <2>3. PhaseOf' = [d \in Deliveries |->
                     IF d \in {i} /\ TodoOf[d] = {NoChat} THEN "delivered" ELSE PhaseOf[d]]
    BY <1>2, <1>3, <1>5, <1>6 DEF PhaseOf, TodoOf
  <2>4. QED
    BY <1>9, <2>1, <2>2, <2>3 DEF Lifecycle!Serve, PhaseOf, TodoOf, ContentOf
<1>11. QED
  BY <1>2, <1>5, <1>10 DEF Lifecycle!Next

LEMMA HandleFailureLifecycle ==
  ASSUME IInv, NEW S \in SUBSET Sendable, NEW permanent \in BOOLEAN, NEW limited \in BOOLEAN,
         HandleFailure(S, permanent, limited)
  PROVE  Lifecycle!Next
<1> DEFINE hit   == S \cap DOMAIN queue
           spent == {s \in hit : Spent(s, permanent)}
           gone  == IF DeadRoom(spent) THEN spent ELSE {}
           Failed(s) == [queue[s] EXCEPT !.attempts = @ + 1]
           G     == {queue[s].id : s \in gone}
<1>1. /\ states' = WithStatus(gone, "dead") /\ gone \in SUBSET DOMAIN queue
      /\ \A s \in DOMAIN queue \ gone :
           queue'[s] = IF s \in hit THEN [Failed(s) EXCEPT !.due = FALSE] ELSE queue[s]
      /\ \A s \in DOMAIN dead \cup gone :
           dead'[s] = IF s \in gone THEN Failed(s) ELSE dead[s]
  BY DEF HandleFailure
<1> HIDE DEF gone
<1>2. /\ \A s \in DOMAIN queue \ gone : queue'[s].chats = queue[s].chats
      /\ \A s \in gone : dead'[s].chats = queue[s].chats
  <2>1. ASSUME NEW s \in DOMAIN queue
        PROVE  queue[s] \in Item /\ Failed(s) \in Item /\ Failed(s).chats = queue[s].chats
    BY DEF IInv, TypeOK, Item
  <2>2. ASSUME NEW s \in DOMAIN queue
        PROVE  [Failed(s) EXCEPT !.due = FALSE].chats = queue[s].chats
    <3> HIDE DEF Failed
    <3>1. QED
      BY <2>1 DEF Item
  <2> HIDE DEF Failed
  <2>3. QED
    BY <1>1, <2>1, <2>2
<1>3. \A s \in DOMAIN dead : dead'[s] = dead[s]
  BY <1>1 DEF IInv, RecordsAgree, OnePlace
<1>4. /\ DOMAIN states' = DOMAIN states
      /\ \A d \in DOMAIN states :
           states'[d].payload = states[d].payload /\ states'[d].seq = states[d].seq
      /\ G \subseteq DOMAIN states
      /\ \A d \in DOMAIN states :
           /\ d \in G <=> states[d].status = "queued" /\ states[d].seq \in gone
           /\ d \in G => Phase(d) = "queued" /\ Phase(d)' = "dead"
           /\ d \notin G => Phase(d)' = Phase(d)
      /\ \A d \in Deliveries \ DOMAIN states : Phase(d)' = Phase(d)
  BY <1>1, MovedPhase
<1> HIDE DEF G
<1>5. ASSUME NEW d \in Deliveries
      PROVE  Todo(d)' = Todo(d)
  <2>1. CASE d \in G
    <3>1. /\ d \in DOMAIN states /\ states[d].status = "queued" /\ states[d].seq \in gone
          /\ Phase(d)' = "dead"
      BY <1>4, <2>1
    <3>2. Todo(d)' = OpenTargets(dead'[states[d].seq])
      BY <1>4, <3>1 DEF Todo, OpenTargets
    <3>3. QED
      BY <1>2, <3>1, <3>2, OpenItems DEF OpenTargets
  <2>2. CASE d \notin G /\ Phase(d) = "queued"
    <3>1. /\ d \in DOMAIN states /\ states[d].status = "queued"
      BY <2>2 DEF Phase, Known
    <3>2. states[d].seq \in DOMAIN queue \ gone
      BY <1>4, <2>2, <3>1, OpenItems
    <3>3. Todo(d)' = OpenTargets(queue'[states[d].seq])
      BY <1>4, <2>2, <3>1 DEF Todo, OpenTargets
    <3>4. QED
      BY <1>2, <3>1, <3>2, <3>3, OpenItems DEF OpenTargets
  <2>3. CASE d \notin G /\ Phase(d) = "dead"
    <3>1. /\ d \in DOMAIN states /\ states[d].status = "dead"
      BY <2>3 DEF Phase, Known
    <3>2. states[d].seq \in DOMAIN dead /\ Todo(d) = OpenTargets(dead[states[d].seq])
      BY <3>1, OpenItems
    <3>3. Todo(d)' = OpenTargets(dead'[states[d].seq])
      BY <1>4, <2>3, <3>1 DEF Todo, OpenTargets
    <3>4. QED
      BY <1>3, <3>2, <3>3 DEF OpenTargets
  <2>4. CASE d \notin G /\ Phase(d) \notin {"queued", "dead"}
    <3>1. Phase(d)' = Phase(d)
      BY <1>4, <2>4
    <3>2. QED
      BY <2>4, <3>1 DEF Todo
  <2>5. QED
    BY <2>1, <2>2, <2>3, <2>4
<1>6. ContentOf' = ContentOf
  BY <1>4 DEF ContentOf
<1>7. G \in SUBSET Deliveries
  BY <1>4 DEF IInv, TypeOK
<1>8. PhaseOf' = [d \in Deliveries |-> IF d \in G THEN "dead" ELSE PhaseOf[d]]
  BY <1>4, <1>7 DEF PhaseOf
<1>9. \A d \in G : PhaseOf[d] = "queued"
  BY <1>4, <1>7 DEF PhaseOf
<1>10. TodoOf' = TodoOf
  BY <1>5 DEF TodoOf
<1>11. Lifecycle!Bury(G)
  BY <1>6, <1>8, <1>9, <1>10 DEF Lifecycle!Bury, PhaseOf, ContentOf, TodoOf
<1>12. QED
  BY <1>7, <1>11 DEF Lifecycle!Next

LEMMA RequeueDeadLetterLifecycle ==
  ASSUME IInv, NEW s \in DOMAIN dead, RequeueDeadLetter(s)
  PROVE  Lifecycle!Next
<1>1. PICK i : i = dead[s].id
  OBVIOUS
<1>2. /\ i \in DOMAIN states /\ i \in Deliveries /\ states[i].seq = s
      /\ states[i].status = "dead" /\ states[i] \in DeliveryState
      /\ dead[s] \in Item /\ s \notin DOMAIN queue
  BY <1>1 DEF IInv, TypeOK, RecordsAgree, DeadOwned, EntryOwned, OnePlace
<1>3. /\ queue' = Put(queue, s, [dead[s] EXCEPT !.attempts = 0, !.due = TRUE])
      /\ dead' = Without(dead, {s})
      /\ states' = [d \in DOMAIN states |->
                      IF d = i
                      THEN [states[d] EXCEPT !.seq = s, !.status = "queued",
                                             !.archived = TRUE, !.raw = FALSE]
                      ELSE states[d]]
  BY <1>1 DEF RequeueDeadLetter
<1>4. /\ DOMAIN states' = DOMAIN states
      /\ states'[i].seq = s /\ states'[i].status = "queued"
      /\ states'[i].payload = states[i].payload
      /\ \A d \in DOMAIN states \ {i} : states'[d] = states[d]
  BY <1>2, <1>3 DEF DeliveryState
<1>5. /\ queue'[s].chats = dead[s].chats
      /\ \A k \in DOMAIN queue : queue'[k] = queue[k]
      /\ \A k \in DOMAIN dead \ {s} : dead'[k] = dead[k]
  BY <1>2, <1>3 DEF Put, Without, Item
<1>6. Phase(i) = "dead" /\ Phase(i)' = "queued"
  BY <1>2, <1>4 DEF Phase, Known
<1>7. ASSUME NEW d \in Deliveries \ {i}
      PROVE  Phase(d)' = Phase(d)
  BY <1>4 DEF Phase, Known
<1>8. ASSUME NEW d \in Deliveries
      PROVE  Todo(d)' = Todo(d)
  <2>1. CASE d = i
    <3>1. Todo(i) = OpenTargets(dead[s])
      BY <1>2, OpenItems
    <3>2. Todo(i)' = OpenTargets(queue'[s])
      BY <1>4, <1>6 DEF Todo, OpenTargets
    <3>3. QED
      BY <1>5, <2>1, <3>1, <3>2 DEF OpenTargets
  <2>2. CASE d # i /\ Phase(d) = "queued"
    <3>1. d \in DOMAIN states /\ states[d].status = "queued"
      BY <2>2 DEF Phase, Known
    <3>2. Todo(d)' = OpenTargets(queue'[states[d].seq])
      BY <1>4, <1>7, <2>2, <3>1 DEF Todo, OpenTargets
    <3>3. QED
      BY <1>5, <3>1, <3>2, OpenItems DEF OpenTargets
  <2>3. CASE d # i /\ Phase(d) = "dead"
    <3>1. d \in DOMAIN states /\ states[d].status = "dead"
      BY <2>3 DEF Phase, Known
    <3>2. states[d].seq \in DOMAIN dead \ {s}
      BY <1>1, <2>3, <3>1, OpenItems
    <3>3. Todo(d)' = OpenTargets(dead'[states[d].seq])
      BY <1>4, <1>7, <2>3, <3>1 DEF Todo, OpenTargets
    <3>4. QED
      BY <1>5, <3>1, <3>2, <3>3, OpenItems DEF OpenTargets
  <2>4. CASE d # i /\ Phase(d) \notin {"queued", "dead"}
    BY <1>7, <2>4 DEF Todo
  <2>5. QED
    BY <2>1, <2>2, <2>3, <2>4
<1>9. ContentOf' = ContentOf
  BY <1>2, <1>4 DEF ContentOf
<1>10. TodoOf' = TodoOf
  BY <1>8 DEF TodoOf
<1>11. PhaseOf[i] = "dead" /\ PhaseOf' = [PhaseOf EXCEPT ![i] = "queued"]
  BY <1>2, <1>6, <1>7 DEF PhaseOf
<1>12. Lifecycle!Revive(i)
  BY <1>9, <1>10, <1>11 DEF Lifecycle!Revive, PhaseOf, ContentOf, TodoOf
<1>13. QED
  BY <1>2, <1>12 DEF Lifecycle!Next

(* Restarts, time and stuttering move nothing.                              *)
LEMMA ElapseLifecycle ==
  ASSUME IInv, Open \/ CooldownEnds \/ UNCHANGED storeVars
  PROVE  UNCHANGED Lifecycle!vars
<1>1. states' = states /\ queue' = queue /\ dead' = dead
  BY OpenAddsNothing DEF Open, CooldownEnds, storeVars
<1>2. QED
  BY <1>1, StutterLifecycle

LEMMA NextLifecycle ==
  ASSUME IInv, [Next]_storeVars
  PROVE  [Lifecycle!Next]_(Lifecycle!vars)
<1>1. CASE \E d \in Deliveries, p \in Payloads, C \in SUBSET Chats : Admit(d, p, C)
  BY <1>1, AdmitLifecycle
<1>2. CASE \E d \in Deliveries, p \in Payloads : AdmitArchiveOnly(d, p)
  BY <1>2, AdmitArchiveOnlyLifecycle
<1>3. CASE \E d \in Deliveries : FinalizeArchive(d)
  BY <1>3, FinalizeArchiveLifecycle
<1>4. CASE \E S \in SUBSET Sendable, t \in Chats \cup {NoChat} : CompleteChatDelivery(S, t)
  BY <1>4, CompleteChatDeliveryLifecycle
<1>5. CASE \E s \in Sendable : queue[s].chats = {} /\ Delete(s)
  BY <1>5, DeleteLifecycle
<1>6. CASE \E S \in SUBSET Sendable, permanent, limited \in BOOLEAN :
             HandleFailure(S, permanent, limited)
  BY <1>6, HandleFailureLifecycle
<1>7. CASE \E s \in DOMAIN dead : RequeueDeadLetter(s)
  BY <1>7, RequeueDeadLetterLifecycle
<1>8. CASE \E s \in DOMAIN queue : BecomeDue(s)
  BY <1>8, BecomeDueLifecycle
<1>9. CASE Open \/ CooldownEnds \/ UNCHANGED storeVars
  BY <1>9, ElapseLifecycle
<1>10. QED
  BY <1>1, <1>2, <1>3, <1>4, <1>5, <1>6, <1>7, <1>8, <1>9 DEF Next

(* The whole store, with its buckets, counters, retries and restarts, is an *)
(* implementation of the delivery life cycle: what a delivery was accepted  *)
(* as never changes, only recorded sends shrink what it still owes, and     *)
(* nothing comes back from delivered.                                       *)
THEOREM StoreImplementsLifecycle == Spec => LifecycleSpec
<1>1. Init => Lifecycle!Init
  BY InitLifecycle
<1>2. Inv /\ [Next]_storeVars => [Lifecycle!Next]_(Lifecycle!vars)
  BY NextLifecycle DEF Inv
<1>3. QED
  BY <1>1, <1>2, StoreInvariant, PTL DEF Spec, LifecycleSpec, Lifecycle!Spec

=============================================================================
