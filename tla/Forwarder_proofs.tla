--------------------------- MODULE Forwarder_proofs ---------------------------
(***************************************************************************)
(* Theorems about Forwarder, for any deliveries, chats, limits, sizes and  *)
(* number of disturbances.                                                 *)
(*                                                                         *)
(* The worker acts on copies of items that others go on changing.  IInv    *)
(* has the store's invariant (its theorems are used through the instance   *)
(* S), and says of every target of an item what its messages were worth    *)
(* (WorkInv).  What counts is the time between the answer to a message and *)
(* its record: an item is Taken when Lark has it and the store does not    *)
(* know yet.  A taken item was sent; one that is owed, still waiting or in *)
(* the round, and not taken was sent once for each disturbance at most.    *)
(***************************************************************************)
EXTENDS Forwarder, FiniteLemmas, TLAPS

S == INSTANCE DeliveryStore_proofs

(***************************************************************************)
(* The store of the worker is the store of the theorems.                   *)
(***************************************************************************)
LEMMA StoreAssumptions == S!ChatAssumption /\ S!LimitsAssumption /\ S!SizeAssumption
<1>1. S!ChatAssumption
  BY ChatOrderAssumption DEF S!ChatAssumption, S!IsFiniteSet, IsFiniteSet
<1>2. S!LimitsAssumption /\ S!SizeAssumption
  BY StoreAssumption DEF S!LimitsAssumption, S!SizeAssumption
<1>3. QED
  BY <1>1, <1>2

LEMMA SameInit == Store!Init => S!Init
BY DEF Store!Init, S!Init

LEMMA SameCardinality == \A x : Store!Cardinality(x) = S!Cardinality(x)
BY DEF Store!Cardinality, S!Cardinality

LEMMA SameBytes ==
  /\ \A item : Store!ItemBytes(item) = S!ItemBytes(item)
  /\ \A bucket : Store!BucketBytes(bucket) = S!BucketBytes(bucket)
<1>1. \A item : Store!ItemBytes(item) = S!ItemBytes(item)
  BY SameCardinality DEF Store!ItemBytes, S!ItemBytes
<1>2. ASSUME NEW bucket PROVE Store!BucketBytes(bucket) = S!BucketBytes(bucket)
  <2>1. [s \in DOMAIN bucket |-> Store!ItemBytes(bucket[s])]
          = [s \in DOMAIN bucket |-> S!ItemBytes(bucket[s])]
    BY <1>1
  <2>2. \A f : Store!SumFunction(f) = S!SumFunction(f)
    BY DEF Store!SumFunction, S!SumFunction, Store!SumFunctionOnSet, S!SumFunctionOnSet,
       Store!FoldFunctionOnSet, S!FoldFunctionOnSet, Store!MapThenFoldSet, S!MapThenFoldSet
  <2>3. QED
    BY <2>1, <2>2 DEF Store!BucketBytes, S!BucketBytes
<1>3. QED
  BY <1>1, <1>2

LEMMA SameAdmit == ASSUME NEW d, NEW p, NEW C, Store!Admit(d, p, C) PROVE S!Admit(d, p, C)
BY SameBytes DEF Store!Admit, S!Admit, Store!Known, S!Known, Store!FitsQueue, S!FitsQueue,
   Store!NewItem, S!NewItem, Store!Put, S!Put, Store!NewState, S!NewState

LEMMA SameFinalizeArchive == ASSUME NEW d, Store!FinalizeArchive(d) PROVE S!FinalizeArchive(d)
BY DEF Store!FinalizeArchive, S!FinalizeArchive, Store!Known, S!Known, Store!counters,
   S!counters

LEMMA SameComplete ==
  ASSUME NEW K, NEW t, Store!CompleteChatDelivery(K, t) PROVE S!CompleteChatDelivery(K, t)
BY SameBytes, SameCardinality DEF Store!CompleteChatDelivery, S!CompleteChatDelivery,
   Store!HasTarget, S!HasTarget, Store!WithStatus, S!WithStatus

LEMMA SameFailure ==
  ASSUME NEW K, NEW permanent, NEW limited, Store!HandleFailure(K, permanent, limited)
  PROVE  S!HandleFailure(K, permanent, limited)
BY SameBytes, SameCardinality DEF Store!HandleFailure, S!HandleFailure, Store!Spent, S!Spent,
   Store!DeadRoom, S!DeadRoom, Store!Restrict, S!Restrict, Store!WithStatus, S!WithStatus

LEMMA SameRequeue == ASSUME NEW s, Store!RequeueDeadLetter(s) PROVE S!RequeueDeadLetter(s)
BY SameBytes, SameCardinality DEF Store!RequeueDeadLetter, S!RequeueDeadLetter, Store!FitsQueue,
   S!FitsQueue, Store!Put, S!Put, Store!Without, S!Without

LEMMA SameOpen == ASSUME Store!Open PROVE S!Open
BY SameBytes, SameCardinality DEF Store!Open, S!Open, Store!Merge, S!Merge, Store!Rebuilt,
   S!Rebuilt

LEMMA SameElapse ==
  /\ Store!CooldownEnds => S!CooldownEnds
  /\ \A s : Store!BecomeDue(s) => S!BecomeDue(s)
BY DEF Store!CooldownEnds, S!CooldownEnds, Store!BecomeDue, S!BecomeDue, Store!counters,
   S!counters

LEMMA SameRest ==
  /\ \A d, p : Store!AdmitArchiveOnly(d, p) => S!AdmitArchiveOnly(d, p)
  /\ \A s : Store!Delete(s) => S!Delete(s)
<1>1. ASSUME NEW d, NEW p, Store!AdmitArchiveOnly(d, p) PROVE S!AdmitArchiveOnly(d, p)
  BY <1>1 DEF Store!AdmitArchiveOnly, S!AdmitArchiveOnly, Store!Known, S!Known, Store!Put,
     S!Put, Store!NewState, S!NewState, Store!counters, S!counters
<1>2. ASSUME NEW s, Store!Delete(s) PROVE S!Delete(s)
  BY <1>2, SameBytes DEF Store!Delete, S!Delete, Store!Without, S!Without, Store!WithStatus,
     S!WithStatus
<1>3. QED
  BY <1>1, <1>2

LEMMA SameNext == [Store!Next]_(Store!storeVars) => [S!Next]_(S!storeVars)
<1>1. Store!Sendable = S!Sendable
  BY DEF Store!Sendable, S!Sendable
<1>2. UNCHANGED Store!storeVars => UNCHANGED S!storeVars
  BY DEF Store!storeVars, S!storeVars
<1>3. Store!Next => S!Next
  BY <1>1, SameAdmit, SameFinalizeArchive, SameComplete, SameFailure, SameRequeue, SameOpen,
     SameElapse, SameRest DEF Store!Next, S!Next
<1>4. QED
  BY <1>2, <1>3

LEMMA SameTypeOK == S!TypeOK <=> Store!TypeOK
BY DEF S!TypeOK, Store!TypeOK, S!DeliveryState, Store!DeliveryState, S!Item, Store!Item,
       S!Statuses, Store!Statuses

LEMMA SameRecordsAgree == S!RecordsAgree <=> Store!RecordsAgree
BY DEF S!RecordsAgree, S!QueueOwned, S!DeadOwned, S!EntryOwned, S!EntryPresent, S!OnePlace,
  S!NeverQueued, Store!RecordsAgree, Store!QueueOwned, Store!DeadOwned, Store!EntryOwned,
  Store!EntryPresent, Store!OnePlace, Store!NeverQueued

LEMMA NextStoreInv == ASSUME S!Inv, [Store!Next]_(Store!storeVars) PROVE S!Inv'
<1>1. [S!Next]_(S!storeVars)
  BY SameNext
<1>2. S!IInv /\ S!ItemAccounting /\ S!ByteAccounting
  BY DEF S!Inv
<1>3. S!IInv'
  BY <1>1, <1>2, S!NextIInv, StoreAssumptions
<1>4. S!ItemAccounting'
  BY <1>1, <1>2, <1>3, S!NextItemAccounting, StoreAssumptions
<1>5. S!ByteAccounting'
  BY <1>1, <1>2, <1>3, S!NextByteAccounting, StoreAssumptions
<1>6. QED
  BY <1>3, <1>4, <1>5 DEF S!Inv

LEMMA InitStoreInv == Init => S!Inv
BY SameInit, S!InitInv, StoreAssumptions DEF Init

LEMMA OpenKeepsStates == ASSUME S!Inv, Store!Open PROVE states' = states
<1>1. S!Open
  BY SameOpen
<1>2. S!IInv
  BY DEF S!Inv
<1>3. QED
  BY <1>1, <1>2, S!OpenAddsNothing, StoreAssumptions
------------------------------------------------------------------------------
(***************************************************************************)
(* The inductive invariant.                                                *)
(***************************************************************************)
(* Items that are somewhere in the store. *)
Held == DOMAIN queue \cup DOMAIN dead

WorkerOK ==
  /\ worker \in {"idle", "reserve", "send", "record", "stopped", "down"}
  /\ round \in [Targets -> SUBSET (1..next)]
  /\ round = NoRound <=> worker \in {"idle", "stopped", "down"}
  /\ answer \in Answers \cup {"none"}
  /\ answer = "none" <=> worker # "record"

HistoryOK ==
  /\ wanted \in [Deliveries -> SUBSET Targets]
  /\ sent \in [Deliveries -> [Targets -> Nat]]
  /\ disturbances \in 0..DisturbanceBound

(* The round has archived items only, however old its copies are.          *)
RoundArchived ==
  \A c \in Targets : \A s \in round[c] : s \in DOMAIN queue => queue[s].archived

(* Lark has taken the message with item s for chat c; no record of it yet.  *)
Taken(s, c) == worker = "record" /\ answer = "ok" /\ c = Chat /\ s \in Batch

TakenIsSent == \A s \in Held, c \in Targets : Taken(s, c) => sent[ItemOf(s).id][c] >= 1

(* A dead letter counts while the round has it; later a requeue, which is a  *)
(* disturbance itself, brings it back.                                      *)
OwedIsUnsent ==
  \A s \in Held, c \in Targets :
    /\ Store!HasTarget(ItemOf(s), c)
    /\ s \in DOMAIN queue \/ s \in round[c]
    /\ ~Taken(s, c)
    => sent[ItemOf(s).id][c] <= disturbances

(* The same as t \in Todo(d), in terms of items: see TodoIsOwed.            *)
Owes(d, t) == \E s \in Held : ItemOf(s).id = d /\ Store!HasTarget(ItemOf(s), t)

WantedIsServed == \A d \in DOMAIN states : \A t \in wanted[d] : Owes(d, t) \/ sent[d][t] >= 1

UnknownIsUnsent == \A d \in Deliveries \ DOMAIN states : \A t \in Targets : sent[d][t] = 0

StoreOK == Store!TypeOK /\ Store!RecordsAgree

WorkInv ==
  /\ WorkerOK /\ HistoryOK /\ RoundIsOwed /\ RoundArchived /\ TakenIsSent /\ OwedIsUnsent
  /\ WantedIsServed /\ UnknownIsUnsent /\ DuplicatesExplained

------------------------------------------------------------------------------
(***************************************************************************)
(* Facts about items, rounds and batches.                                  *)
(***************************************************************************)
LEMMA ItemsTyped ==
  ASSUME StoreOK, NEW s \in Held
  PROVE  /\ ItemOf(s) \in Store!Item
         /\ ItemOf(s).id \in DOMAIN states /\ ItemOf(s).id \in Deliveries
         /\ ItemOf(s).payload \in Payloads
         /\ ItemOf(s).chats \subseteq Chats
         /\ states[ItemOf(s).id].seq = s
         /\ s \in 1..next
         /\ s \in DOMAIN dead => ItemOf(s) = dead[s] /\ s \notin DOMAIN queue
         /\ s \in DOMAIN queue => ItemOf(s) = queue[s] /\ s \notin DOMAIN dead
<1>1. ItemOf(s) \in Store!Item /\ s \in 1..next
  BY DEF StoreOK, Store!TypeOK, ItemOf, Held
<1>2. /\ s \in DOMAIN dead => ItemOf(s) = dead[s] /\ s \notin DOMAIN queue
      /\ s \in DOMAIN queue => ItemOf(s) = queue[s] /\ s \notin DOMAIN dead
  BY DEF StoreOK, Store!RecordsAgree, Store!OnePlace, ItemOf
<1>3. ItemOf(s).id \in DOMAIN states /\ states[ItemOf(s).id].seq = s
  BY <1>2 DEF StoreOK, Store!RecordsAgree, Store!QueueOwned, Store!DeadOwned, Store!EntryOwned,
     Held
<1>4. /\ ItemOf(s).id \in Deliveries
      /\ ItemOf(s).payload \in Payloads
      /\ ItemOf(s).chats \subseteq Chats
  BY <1>1 DEF Store!Item
<1>5. QED
  BY <1>1, <1>2, <1>3, <1>4

LEMMA OneItem ==
  ASSUME StoreOK, NEW s \in Held, NEW r \in Held, ItemOf(s).id = ItemOf(r).id
  PROVE  s = r
BY ItemsTyped

LEMMA SomeTarget ==
  ASSUME StoreOK, NEW s \in Held
  PROVE  \E c \in Targets : Store!HasTarget(ItemOf(s), c)
BY ItemsTyped DEF Store!HasTarget, Targets

LEMMA TodoIsOwed ==
  ASSUME StoreOK, NEW d \in DOMAIN states, NEW t
  PROVE  t \in Store!Todo(d) <=> Owes(d, t)
<1> DEFINE q == states[d].seq
<1>1. ASSUME NEW s \in Held, ItemOf(s).id = d PROVE s = q
  BY <1>1, ItemsTyped
<1>2. \A item : t \in Store!OpenTargets(item) <=> Store!HasTarget(item, t)
  BY DEF Store!OpenTargets, Store!HasTarget
<1>3. CASE states[d].status = "queued"
  <2>1. q \in DOMAIN queue /\ queue[q].id = d
    BY <1>3 DEF StoreOK, Store!RecordsAgree, Store!EntryPresent
  <2>2. Store!Todo(d) = Store!OpenTargets(queue[q])
    BY <1>3 DEF Store!Todo, Store!Phase, Store!Known
  <2>3. q \in Held /\ ItemOf(q) = queue[q]
    BY <2>1 DEF Held, ItemOf
  <2>4. QED
    BY <1>1, <1>2, <2>1, <2>2, <2>3 DEF Owes
<1>4. CASE states[d].status = "dead"
  <2>1. q \in DOMAIN dead /\ dead[q].id = d
    BY <1>4 DEF StoreOK, Store!RecordsAgree, Store!EntryPresent
  <2>2. Store!Todo(d) = Store!OpenTargets(dead[q])
    BY <1>4 DEF Store!Todo, Store!Phase, Store!Known
  <2>3. q \in Held /\ ItemOf(q) = dead[q]
    BY <2>1, ItemsTyped DEF Held
  <2>4. QED
    BY <1>1, <1>2, <2>1, <2>2, <2>3 DEF Owes
<1>5. CASE states[d].status \notin {"queued", "dead"}
  <2>1. Store!Todo(d) = {}
    BY <1>5 DEF Store!Todo, Store!Phase, Store!Known
  <2>2. ASSUME NEW s \in Held, ItemOf(s).id = d PROVE FALSE
    <3>1. s = q /\ (ItemOf(s) = queue[s] \/ ItemOf(s) = dead[s])
      BY <1>1, <2>2 DEF ItemOf
    <3>2. states[d].status \in {"queued", "dead"}
      BY <2>2, ItemsTyped DEF StoreOK, Store!RecordsAgree, Store!QueueOwned, Store!DeadOwned,
         Store!EntryOwned, Held
    <3>3. QED
      BY <3>2, <1>5
  <2>3. QED
    BY <2>1, <2>2 DEF Owes
<1>6. QED
  BY <1>3, <1>4, <1>5

LEMMA ChatIsTarget ==
  ASSUME round \in [Targets -> SUBSET (1..next)], round # NoRound
  PROVE  Chat \in Targets /\ round[Chat] # {}
<1> DEFINE C == {c \in Targets : round[c] # {}}
<1>1. Targets \subseteq Nat
  BY ChatOrderAssumption DEF Targets
<1>2. C # {}
  BY DEF NoRound
<1>3. PICK c \in C : \A b \in C : c <= b
  BY <1>1, <1>2, LeastNatural
<1>4. c \in Targets /\ round[c] # {} /\ \A b \in Targets : round[b] # {} => c <= b
  BY <1>3
<1>5. QED
  BY <1>4 DEF Chat, FirstChat

LEMMA BatchOfChat == Batch \subseteq round[Chat]
BY DEF Batch
------------------------------------------------------------------------------
(***************************************************************************)
(* What the store's methods do to the items.                               *)
(***************************************************************************)
ItemKept(s) ==
  /\ s \in Held'
  /\ ItemOf(s)'.id = ItemOf(s).id
  /\ ItemOf(s)'.payload = ItemOf(s).payload
  /\ ItemOf(s)'.chats = ItemOf(s).chats

ArchivedKept ==
  \A s \in DOMAIN queue \cap DOMAIN queue' : queue[s].archived => queue'[s].archived

SameItems ==
  /\ Held' = Held
  /\ DOMAIN states' = DOMAIN states
  /\ \A s \in Held : ItemKept(s)
  /\ ArchivedKept

LEMMA UnchangedItems ==
  ASSUME UNCHANGED storeVars
  PROVE  /\ Held' = Held /\ queue' = queue /\ dead' = dead /\ states' = states /\ next' = next
         /\ \A s : ItemOf(s)' = ItemOf(s)
         /\ SameItems
BY DEF storeVars, Held, ItemOf, SameItems, ItemKept, ArchivedKept

LEMMA FinalizeArchiveItems ==
  ASSUME StoreOK, NEW d, Store!FinalizeArchive(d)
  PROVE  SameItems /\ DOMAIN queue' = DOMAIN queue /\ next' = next
<1>1. /\ DOMAIN queue' = DOMAIN queue /\ dead' = dead /\ next' = next
      /\ DOMAIN states' = DOMAIN states
      /\ \A s \in DOMAIN queue :
           queue'[s] = IF s = states[d].seq THEN [queue[s] EXCEPT !.archived = TRUE] ELSE queue[s]
  BY DEF Store!FinalizeArchive, StoreOK, Store!TypeOK
<1>2. ASSUME NEW o \in Store!Item
      PROVE  LET n == [o EXCEPT !.archived = TRUE] IN
             n.id = o.id /\ n.payload = o.payload /\ n.chats = o.chats /\ n.archived = TRUE
  BY DEF Store!Item
<1>3. \A s \in DOMAIN queue :
        /\ queue'[s].id = queue[s].id /\ queue'[s].payload = queue[s].payload
        /\ queue'[s].chats = queue[s].chats
        /\ queue[s].archived => queue'[s].archived
  BY <1>1, <1>2 DEF StoreOK, Store!TypeOK
<1>4. QED
  BY <1>1, <1>3 DEF SameItems, Held, ItemKept, ItemOf, ArchivedKept

LEMMA ElapseItems ==
  ASSUME StoreOK, Store!CooldownEnds \/ \E s \in DOMAIN queue : Store!BecomeDue(s)
  PROVE  SameItems /\ DOMAIN queue' = DOMAIN queue /\ next' = next
<1>1. CASE Store!CooldownEnds
  BY <1>1 DEF Store!CooldownEnds, SameItems, Held, ItemKept, ItemOf, ArchivedKept
<1>2. ASSUME NEW k \in DOMAIN queue, Store!BecomeDue(k)
      PROVE  SameItems /\ DOMAIN queue' = DOMAIN queue /\ next' = next
  <2>1. /\ DOMAIN queue' = DOMAIN queue /\ dead' = dead /\ next' = next /\ states' = states
        /\ \A s \in DOMAIN queue :
             queue'[s] = IF s = k THEN [queue[s] EXCEPT !.due = TRUE] ELSE queue[s]
    BY <1>2 DEF Store!BecomeDue, StoreOK, Store!TypeOK
  <2>2. ASSUME NEW o \in Store!Item
        PROVE  LET n == [o EXCEPT !.due = TRUE] IN
               /\ n.id = o.id /\ n.payload = o.payload /\ n.chats = o.chats
               /\ n.archived = o.archived
    BY DEF Store!Item
  <2>3. \A s \in DOMAIN queue :
          /\ queue'[s].id = queue[s].id /\ queue'[s].payload = queue[s].payload
          /\ queue'[s].chats = queue[s].chats
          /\ queue'[s].archived = queue[s].archived
    BY <2>1, <2>2 DEF StoreOK, Store!TypeOK
  <2>4. QED
    BY <2>1, <2>3 DEF SameItems, Held, ItemKept, ItemOf, ArchivedKept
<1>3. QED
  BY <1>1, <1>2

LEMMA OpenItems ==
  ASSUME S!Inv, Store!Open
  PROVE  SameItems /\ DOMAIN queue' = DOMAIN queue /\ next' = next
BY OpenKeepsStates DEF Store!Open, SameItems, Held, ItemKept, ItemOf, ArchivedKept

LEMMA WithStatusDomain == \A K, x : DOMAIN Store!WithStatus(K, x) = DOMAIN states
BY DEF Store!WithStatus

LEMMA HandleFailureItems ==
  ASSUME StoreOK, NEW K, NEW permanent, NEW limited, Store!HandleFailure(K, permanent, limited)
  PROVE  SameItems /\ DOMAIN queue' \subseteq DOMAIN queue /\ next' = next
<1> DEFINE hit == K \cap DOMAIN queue
           spent == {s \in hit : Store!Spent(s, permanent)}
           gone == IF Store!DeadRoom(spent) THEN spent ELSE {}
           Failed(s) == [queue[s] EXCEPT !.attempts = @ + 1]
<1>1. /\ queue' = [s \in DOMAIN queue \ gone |->
                     IF s \in hit THEN [Failed(s) EXCEPT !.due = FALSE] ELSE queue[s]]
      /\ dead' = [s \in DOMAIN dead \cup gone |-> IF s \in gone THEN Failed(s) ELSE dead[s]]
      /\ states' = Store!WithStatus(gone, "dead") /\ next' = next
  BY DEF Store!HandleFailure
<1>2. gone \subseteq DOMAIN queue
  OBVIOUS
<1>3. ASSUME NEW o \in Store!Item
      PROVE  LET n == [o EXCEPT !.attempts = @ + 1]
                 m == [n EXCEPT !.due = FALSE]
             IN  /\ n.id = o.id /\ n.payload = o.payload /\ n.chats = o.chats
                 /\ m.id = o.id /\ m.payload = o.payload /\ m.chats = o.chats
                 /\ m.archived = o.archived
  BY DEF Store!Item
<1>4. \A s \in DOMAIN queue : queue[s] \in Store!Item
  BY DEF StoreOK, Store!TypeOK
<1> HIDE DEF gone
<1>5. ASSUME NEW s \in DOMAIN queue \ gone
      PROVE  /\ s \in DOMAIN queue' /\ queue'[s].id = queue[s].id
             /\ queue'[s].payload = queue[s].payload /\ queue'[s].chats = queue[s].chats
             /\ queue'[s].archived = queue[s].archived
  BY <1>1, <1>3, <1>4
<1>6. ASSUME NEW s \in gone
      PROVE  /\ s \in DOMAIN dead' /\ s \notin DOMAIN queue' /\ dead'[s].id = queue[s].id
             /\ dead'[s].payload = queue[s].payload /\ dead'[s].chats = queue[s].chats
  BY <1>1, <1>2, <1>3, <1>4
<1>7. ASSUME NEW s \in DOMAIN dead
      PROVE  /\ s \in DOMAIN dead' /\ dead'[s] = dead[s]
             /\ s \notin DOMAIN queue /\ s \notin DOMAIN queue'
  BY <1>1, <1>2 DEF StoreOK, Store!RecordsAgree, Store!OnePlace
<1>8. Held' = Held
  BY <1>1, <1>2 DEF Held
<1>9. ASSUME NEW s \in Held PROVE ItemKept(s)
  <2>1. CASE s \in DOMAIN queue \ gone
    BY <2>1, <1>5, <1>8 DEF ItemKept, ItemOf
  <2>2. CASE s \in gone
    BY <2>2, <1>2, <1>6, <1>8 DEF ItemKept, ItemOf
  <2>3. CASE s \in DOMAIN dead
    BY <2>3, <1>7, <1>8 DEF ItemKept, ItemOf
  <2>4. QED
    BY <2>1, <2>2, <2>3 DEF Held
<1>10. ArchivedKept /\ DOMAIN queue' \subseteq DOMAIN queue
  BY <1>1, <1>5 DEF ArchivedKept
<1>11. QED
  BY <1>1, <1>8, <1>9, <1>10, WithStatusDomain DEF SameItems

LEMMA RequeueItems ==
  ASSUME StoreOK, NEW k, Store!RequeueDeadLetter(k)
  PROVE  SameItems /\ next' = next
<1> DEFINE new == [dead[k] EXCEPT !.attempts = 0, !.due = TRUE]
<1>1. /\ k \in DOMAIN dead /\ next' = next /\ DOMAIN states' = DOMAIN states
      /\ queue' = [s \in DOMAIN queue \cup {k} |-> IF s = k THEN new ELSE queue[s]]
      /\ dead' = [s \in DOMAIN dead \ {k} |-> dead[s]]
  BY DEF Store!RequeueDeadLetter, Store!Put, Store!Without
<1>2. ASSUME NEW o \in Store!Item
      PROVE  LET n == [o EXCEPT !.attempts = 0, !.due = TRUE] IN
             n.id = o.id /\ n.payload = o.payload /\ n.chats = o.chats
  BY DEF Store!Item
<1>3. new.id = dead[k].id /\ new.payload = dead[k].payload /\ new.chats = dead[k].chats
  BY <1>1, <1>2 DEF StoreOK, Store!TypeOK
<1>4. DOMAIN queue \cap DOMAIN dead = {}
  BY DEF StoreOK, Store!RecordsAgree, Store!OnePlace
<1> HIDE DEF new
<1>5. Held' = Held
  BY <1>1 DEF Held
<1>6. ASSUME NEW s \in Held PROVE ItemKept(s)
  <2>1. CASE s = k
    BY <2>1, <1>1, <1>3, <1>4, <1>5 DEF ItemKept, ItemOf
  <2>2. CASE s # k
    BY <2>2, <1>1, <1>4, <1>5 DEF ItemKept, ItemOf, Held
  <2>3. QED
    BY <2>1, <2>2
<1>7. ArchivedKept
  BY <1>1, <1>4 DEF ArchivedKept
<1>8. QED
  BY <1>1, <1>5, <1>6, <1>7 DEF SameItems

LEMMA AdmitItems ==
  ASSUME StoreOK, NEW d \in Deliveries, NEW p \in Payloads, NEW C \in SUBSET Chats,
         Store!Admit(d, p, C), NEW k, k = next + 1
  PROVE  /\ d \notin DOMAIN states /\ DOMAIN states' = DOMAIN states \cup {d}
         /\ next \in Nat /\ next' = k /\ k \notin Held
         /\ Held' = Held \cup {k}
         /\ \A s \in Held : ItemKept(s) /\ (s \in DOMAIN queue' <=> s \in DOMAIN queue)
         /\ ArchivedKept
         /\ ItemOf(k)'.id = d /\ ItemOf(k)'.chats = C
<1>1. /\ d \notin DOMAIN states /\ next' = k /\ dead' = dead
      /\ queue' = [s \in DOMAIN queue \cup {k} |->
                     IF s = k THEN Store!NewItem(d, p, C) ELSE queue[s]]
      /\ DOMAIN states' = DOMAIN states \cup {d}
  BY DEF Store!Admit, Store!Known, Store!Put
<1>2. next \in Nat /\ DOMAIN queue \subseteq 1..next /\ DOMAIN dead \subseteq 1..next
  BY DEF StoreOK, Store!TypeOK
<1>3. k \notin Held /\ Held' = Held \cup {k}
  BY <1>1, <1>2 DEF Held
<1>4. Store!NewItem(d, p, C).id = d /\ Store!NewItem(d, p, C).chats = C
  BY DEF Store!NewItem
<1>5. ASSUME NEW s \in Held PROVE ItemKept(s) /\ (s \in DOMAIN queue' <=> s \in DOMAIN queue)
  <2>1. s # k
    BY <1>3
  <2>2. QED
    BY <2>1, <1>1, <1>3 DEF ItemKept, ItemOf
<1>6. ArchivedKept
  BY <1>1, <1>3 DEF ArchivedKept, Held
<1>7. ItemOf(k)'.id = d /\ ItemOf(k)'.chats = C
  BY <1>1, <1>4 DEF ItemOf
<1>8. QED
  BY <1>1, <1>2, <1>3, <1>5, <1>6, <1>7

LEMMA CompleteItems ==
  ASSUME StoreOK, NEW K, NEW t, Store!CompleteChatDelivery(K, t)
  PROVE  /\ next' = next /\ DOMAIN states' = DOMAIN states
         /\ Held' \subseteq Held /\ DOMAIN queue' \subseteq DOMAIN queue /\ ArchivedKept
         /\ \A s \in Held' :
              /\ ItemOf(s)'.id = ItemOf(s).id /\ ItemOf(s)'.payload = ItemOf(s).payload
              /\ \A u : Store!HasTarget(ItemOf(s)', u)
                          <=> Store!HasTarget(ItemOf(s), u) /\ ~(u = t /\ s \in K /\ s \in DOMAIN queue)
         /\ \A s \in Held \ Held' : \A u :
              Store!HasTarget(ItemOf(s), u) => u = t /\ s \in K /\ s \in DOMAIN queue
<1> DEFINE hit == {s \in K \cap DOMAIN queue : Store!HasTarget(queue[s], t)}
           gone == {s \in hit : queue[s].chats \subseteq {t}}
<1>1. /\ queue' = [s \in DOMAIN queue \ gone |->
                     IF s \in hit THEN [queue[s] EXCEPT !.chats = @ \ {t}] ELSE queue[s]]
      /\ states' = Store!WithStatus(gone, "delivered") /\ next' = next /\ dead' = dead
  BY DEF Store!CompleteChatDelivery
<1>2. ASSUME NEW o \in Store!Item
      PROVE  LET n == [o EXCEPT !.chats = @ \ {t}] IN
             /\ n.id = o.id /\ n.payload = o.payload /\ n.chats = o.chats \ {t}
             /\ n.archived = o.archived
  BY DEF Store!Item
<1>3. /\ \A s \in DOMAIN queue : queue[s] \in Store!Item
      /\ DOMAIN queue \cap DOMAIN dead = {}
  BY DEF StoreOK, Store!TypeOK, Store!RecordsAgree, Store!OnePlace
<1>4. gone \subseteq hit /\ hit \subseteq K \cap DOMAIN queue
  OBVIOUS
<1>5. ASSUME NEW s \in gone, NEW u, Store!HasTarget(queue[s], u) PROVE u = t
  BY <1>5 DEF Store!HasTarget
<1>6. ASSUME NEW s \in hit \ gone, NEW n, n.chats = queue[s].chats \ {t}, NEW u
      PROVE  Store!HasTarget(n, u) <=> Store!HasTarget(queue[s], u) /\ u # t
  BY <1>6 DEF Store!HasTarget
<1>7. ASSUME NEW s \in (K \cap DOMAIN queue) \ hit PROVE ~Store!HasTarget(queue[s], t)
  OBVIOUS
<1> HIDE DEF hit, gone
<1>8. ASSUME NEW s \in DOMAIN queue \ gone
      PROVE  /\ s \in DOMAIN queue'
             /\ queue'[s].id = queue[s].id /\ queue'[s].payload = queue[s].payload
             /\ queue'[s].archived = queue[s].archived
             /\ s \in hit => queue'[s].chats = queue[s].chats \ {t}
             /\ s \notin hit => queue'[s] = queue[s]
  BY <1>1, <1>2, <1>3
<1>9. /\ Held' \subseteq Held /\ DOMAIN queue' \subseteq DOMAIN queue /\ ArchivedKept
      /\ DOMAIN states' = DOMAIN states
  BY <1>1, <1>8, WithStatusDomain DEF Held, ArchivedKept
<1>10. ASSUME NEW s \in DOMAIN queue', NEW u
       PROVE  /\ ItemOf(s)'.id = ItemOf(s).id /\ ItemOf(s)'.payload = ItemOf(s).payload
              /\ Store!HasTarget(ItemOf(s)', u)
                   <=> Store!HasTarget(ItemOf(s), u) /\ ~(u = t /\ s \in K /\ s \in DOMAIN queue)
  <2>1. s \in DOMAIN queue \ gone /\ ItemOf(s)' = queue'[s] /\ ItemOf(s) = queue[s]
    BY <1>1 DEF ItemOf
  <2>2. CASE s \in hit
    <3>1. Store!HasTarget(queue'[s], u) <=> Store!HasTarget(queue[s], u) /\ u # t
      BY <2>1, <2>2, <1>6, <1>8
    <3>2. QED
      BY <3>1, <2>1, <2>2, <1>4, <1>8
  <2>3. CASE s \notin hit
    BY <2>1, <2>3, <1>7, <1>8
  <2>4. QED
    BY <2>2, <2>3
<1>11. ASSUME NEW s \in DOMAIN dead
       PROVE  ItemOf(s)' = ItemOf(s) /\ s \notin DOMAIN queue
  BY <1>1, <1>3 DEF ItemOf
<1>12. ASSUME NEW s \in Held \ Held' PROVE s \in gone /\ ItemOf(s) = queue[s]
  BY <1>1 DEF Held, ItemOf
<1>13. ASSUME NEW s \in Held'
       PROVE  /\ ItemOf(s)'.id = ItemOf(s).id /\ ItemOf(s)'.payload = ItemOf(s).payload
              /\ \A u : Store!HasTarget(ItemOf(s)', u)
                   <=> Store!HasTarget(ItemOf(s), u) /\ ~(u = t /\ s \in K /\ s \in DOMAIN queue)
  <2>1. CASE s \in DOMAIN queue'
    BY <2>1, <1>10
  <2>2. CASE s \in DOMAIN dead
    BY <2>2, <1>11
  <2>3. QED
    BY <2>1, <2>2, <1>1 DEF Held
<1>14. ASSUME NEW s \in Held \ Held', NEW u, Store!HasTarget(ItemOf(s), u)
       PROVE  u = t /\ s \in K /\ s \in DOMAIN queue
  <2>1. s \in gone /\ Store!HasTarget(queue[s], u)
    BY <1>12, <1>14
  <2>2. QED
    BY <2>1, <1>4, <1>5
<1>15. next' = next
  BY <1>1
<1>16. QED
  BY <1>9, <1>13, <1>14, <1>15

LEMMA BatchKept ==
  ASSUME WorkerOK, RoundIsOwed, UNCHANGED round, \A s \in Held : ItemKept(s)
  PROVE  Chat' = Chat /\ (round # NoRound => Batch' = Batch)
<1>1. Chat' = Chat
  BY DEF Chat, FirstChat
<1>2. ASSUME round # NoRound PROVE Batch' = Batch
  <2>1. \A s \in round[Chat] : ItemOf(s)'.payload = ItemOf(s).payload
    BY <1>2, ChatIsTarget DEF WorkerOK, RoundIsOwed, ItemKept, Held
  <2>2. ASSUME NEW T \in SUBSET round[Chat] PROVE Fits(T)' <=> Fits(T)
    <3>1. [s \in T |-> LineBytes[ItemOf(s)'.payload]] = [s \in T |-> LineBytes[ItemOf(s).payload]]
      BY <2>1
    <3>2. QED
      BY <3>1 DEF Fits
  <2> DEFINE UpTo(s) == {r \in round[Chat] : r <= s}
  <2>3. \A s \in round[Chat] : Fits(UpTo(s))' <=> Fits(UpTo(s))
    BY <2>2, <1>1
  <2>4. QED
    BY <2>3, <1>1 DEF Batch
<1>3. QED
  BY <1>1, <1>2
------------------------------------------------------------------------------
(***************************************************************************)
(* Steps of the worker that leave the store alone.                         *)
(***************************************************************************)
LEMMA CollectWork ==
  ASSUME StoreOK, WorkInv, Collect
  PROVE  WorkInv'
<1>1. UNCHANGED storeVars /\ UNCHANGED historyVars /\ answer' = answer
  BY DEF Collect
<1>2. /\ Held' = Held /\ queue' = queue /\ states' = states /\ next' = next
      /\ \A s : ItemOf(s)' = ItemOf(s)
  BY <1>1, UnchangedItems
<1>3. wanted' = wanted /\ sent' = sent /\ disturbances' = disturbances
  BY <1>1 DEF historyVars
<1>4. /\ worker = "idle" /\ worker' = "reserve" /\ Due # {}
      /\ round' = [c \in Targets |-> {s \in Due : Store!HasTarget(queue[s], c)}]
  BY DEF Collect
<1>5. \A s \in Due : s \in DOMAIN queue /\ queue[s].archived
  BY DEF Due, Store!Sendable
<1>6. ASSUME NEW c \in Targets, NEW s \in round'[c]
      PROVE  /\ s \in DOMAIN queue /\ queue[s].archived /\ s \in 1..next
             /\ Store!HasTarget(ItemOf(s), c)
  <2>1. s \in Due /\ Store!HasTarget(queue[s], c)
    BY <1>4, <1>6
  <2>2. QED
    BY <2>1, <1>5, ItemsTyped DEF ItemOf, Held
<1>7. WorkerOK'
  <2>1. round' \in [Targets -> SUBSET (1..next)]
    BY <1>4, <1>6
  <2>2. PICK s \in Due : TRUE
    BY <1>4
  <2>3. PICK c \in Targets : Store!HasTarget(queue[s], c)
    BY <1>5, SomeTarget DEF ItemOf, Held
  <2>4. s \in round'[c]
    BY <1>4, <2>3
  <2>5. round' # NoRound
    BY <2>4 DEF NoRound
  <2>6. QED
    BY <1>1, <1>2, <1>4, <2>1, <2>5 DEF WorkerOK, WorkInv
<1>8. HistoryOK' /\ DuplicatesExplained' /\ UnknownIsUnsent'
  BY <1>2, <1>3 DEF HistoryOK, DuplicatesExplained, UnknownIsUnsent, WorkInv
<1>9. RoundIsOwed'
  BY <1>2, <1>6 DEF RoundIsOwed, Held
<1>10. RoundArchived'
  BY <1>2, <1>6 DEF RoundArchived
<1>11. TakenIsSent'
  BY <1>4 DEF TakenIsSent, Taken
<1>12. OwedIsUnsent'
  <2>1. \A s, c : ~Taken(s, c)
    BY <1>4 DEF Taken
  <2>2. QED
    BY <2>1, <1>2, <1>3, <1>6 DEF OwedIsUnsent, WorkInv
<1>13. WantedIsServed'
  BY <1>2, <1>3 DEF WantedIsServed, Owes, WorkInv
<1>14. QED
  BY <1>7, <1>8, <1>9, <1>10, <1>11, <1>12, <1>13 DEF WorkInv

LEMMA RestIsPart ==
  ASSUME WorkerOK
  PROVE  /\ Rest \in [Targets -> SUBSET (1..next)]
         /\ \A c \in Targets : Rest[c] = IF c = Chat THEN round[c] \ Batch ELSE round[c]
BY DEF WorkerOK, Rest

LEMMA NoRoundTyped ==
  NoRound \in [Targets -> SUBSET (1..next)] /\ \A c \in Targets : NoRound[c] = {}
BY DEF NoRound

(* Reserve, ReserveFails, RecordFails and Crash: nothing is sent; a taken   *)
(* item is only given up with a disturbance.                                *)
LEMMA QuietWork ==
  ASSUME StoreOK, WorkInv, UNCHANGED storeVars, UNCHANGED <<wanted, sent>>,
         worker' # "record", WorkerOK', HistoryOK',
         \A c \in Targets : round'[c] \subseteq round[c],
         \/ disturbances' = disturbances /\ worker # "record"
         \/ disturbances' = disturbances + 1
  PROVE  WorkInv'
<1>1. /\ Held' = Held /\ queue' = queue /\ dead' = dead /\ states' = states /\ next' = next
      /\ \A s : ItemOf(s)' = ItemOf(s)
  BY UnchangedItems
<1>2. wanted' = wanted /\ sent' = sent
  OBVIOUS
<1>3. disturbances \in Nat /\ \A d \in Deliveries, t \in Targets : sent[d][t] \in Nat
  BY DisturbanceAssumption DEF WorkInv, HistoryOK
<1>4. disturbances' \in Nat /\ disturbances <= disturbances'
  BY <1>3
<1>5. DuplicatesExplained'
  <2>1. \A d \in Deliveries, t \in Targets : sent[d][t] <= 1 + disturbances
    BY DEF DuplicatesExplained, WorkInv
  <2>2. \A d \in Deliveries, t \in Targets : sent[d][t] <= 1 + disturbances'
    BY <1>3, <1>4, <2>1
  <2>3. QED
    BY <1>2, <2>2 DEF DuplicatesExplained
<1>6. RoundIsOwed' /\ RoundArchived'
  BY <1>1 DEF RoundIsOwed, RoundArchived, WorkInv
<1>7. TakenIsSent'
  BY DEF TakenIsSent, Taken
<1>8. OwedIsUnsent'
  <2> SUFFICES ASSUME NEW s \in Held, NEW c \in Targets, Store!HasTarget(ItemOf(s), c),
                      s \in DOMAIN queue \/ s \in round[c]
               PROVE  sent[ItemOf(s).id][c] <= disturbances'
    BY <1>1, <1>2 DEF OwedIsUnsent
  <2> ItemOf(s).id \in Deliveries
    BY ItemsTyped
  <2>1. CASE worker # "record"
    <3>1. sent[ItemOf(s).id][c] <= disturbances
      BY <2>1 DEF WorkInv, OwedIsUnsent, Taken
    <3>2. QED
      BY <3>1, <1>3, <1>4
  <2>2. CASE disturbances' = disturbances + 1
    BY <2>2, <1>3 DEF WorkInv, DuplicatesExplained
  <2>3. QED
    BY <2>1, <2>2
<1>9. WantedIsServed' /\ UnknownIsUnsent'
  BY <1>1, <1>2 DEF WantedIsServed, UnknownIsUnsent, Owes, WorkInv
<1>10. QED
  BY <1>5, <1>6, <1>7, <1>8, <1>9 DEF WorkInv

LEMMA ReserveWork ==
  ASSUME StoreOK, WorkInv, Reserve
  PROVE  WorkInv'
<1>1. /\ UNCHANGED storeVars /\ UNCHANGED <<wanted, sent>> /\ disturbances' = disturbances
      /\ worker = "reserve" /\ worker' = "send" /\ round' = round /\ answer' = answer
  BY DEF Reserve, historyVars
<1>2. next' = next
  BY <1>1 DEF storeVars
<1>3. WorkerOK' /\ HistoryOK'
  BY <1>1, <1>2 DEF WorkInv, WorkerOK, HistoryOK
<1>4. \A c \in Targets : round'[c] \subseteq round[c]
  BY <1>1
<1>5. QED
  BY <1>1, <1>3, <1>4, QuietWork

LEMMA DisturbedBounded ==
  ASSUME HistoryOK, Disturbed
  PROVE  disturbances' = disturbances + 1 /\ disturbances' \in 0..DisturbanceBound
BY DisturbanceAssumption DEF HistoryOK, Disturbed

LEMMA ReserveFailsWork ==
  ASSUME StoreOK, WorkInv, ReserveFails
  PROVE  WorkInv'
<1>1. /\ UNCHANGED storeVars /\ UNCHANGED <<wanted, sent>> /\ Disturbed
      /\ worker = "reserve" /\ answer' = answer
      /\ round' = Rest /\ worker' = IF Rest = NoRound THEN "idle" ELSE "reserve"
  BY DEF ReserveFails, NextBatch
<1>2. next' = next
  BY <1>1 DEF storeVars
<1>3. disturbances' = disturbances + 1 /\ HistoryOK'
  BY <1>1, DisturbedBounded DEF WorkInv, HistoryOK
<1>4. WorkerOK'
  BY <1>1, <1>2, RestIsPart DEF WorkInv, WorkerOK
<1>5. \A c \in Targets : round'[c] \subseteq round[c]
  BY <1>1, RestIsPart DEF WorkInv
<1>6. worker' # "record"
  BY <1>1
<1>7. QED
  BY <1>1, <1>3, <1>4, <1>5, <1>6, QuietWork

LEMMA EndOfRoundWork ==
  ASSUME StoreOK, WorkInv, RecordFails \/ Crash
  PROVE  WorkInv'
<1>1. /\ UNCHANGED storeVars /\ UNCHANGED <<wanted, sent>> /\ Disturbed
      /\ worker' \in {"down", "stopped"} /\ round' = NoRound /\ answer' = "none"
  BY DEF RecordFails, Crash, Stop
<1>2. next' = next
  BY <1>1 DEF storeVars
<1>3. disturbances' = disturbances + 1 /\ HistoryOK'
  BY <1>1, DisturbedBounded DEF WorkInv, HistoryOK
<1>4. WorkerOK'
  BY <1>1, <1>2, NoRoundTyped DEF WorkInv, WorkerOK
<1>5. \A c \in Targets : round'[c] \subseteq round[c]
  BY <1>1, NoRoundTyped
<1>6. worker' # "record"
  BY <1>1
<1>7. QED
  BY <1>1, <1>3, <1>4, <1>5, <1>6, QuietWork

(* What the messages of a batch change. *)
InBatch(d) == \E s \in Batch : ItemOf(s).id = d

LEMMA ReceivedIs ==
  ASSUME HistoryOK, Chat \in Targets
  PROVE  /\ Received \in [Deliveries -> [Targets -> Nat]]
         /\ \A d \in Deliveries, t \in Targets :
              Received[d][t] = IF InBatch(d) /\ t = Chat THEN sent[d][t] + 1 ELSE sent[d][t]
<1>1. ASSUME NEW f \in [Targets -> Nat], NEW c \in Targets
      PROVE  /\ [f EXCEPT ![c] = @ + 1] \in [Targets -> Nat]
             /\ \A t \in Targets : [f EXCEPT ![c] = @ + 1][t] = IF t = c THEN f[t] + 1 ELSE f[t]
  OBVIOUS
<1>2. ASSUME NEW d \in Deliveries
      PROVE  /\ Received[d] \in [Targets -> Nat]
             /\ \A t \in Targets :
                  Received[d][t] = IF InBatch(d) /\ t = Chat THEN sent[d][t] + 1 ELSE sent[d][t]
  <2>1. sent[d] \in [Targets -> Nat]
    BY DEF HistoryOK
  <2>2. Received[d] = IF InBatch(d) THEN [sent[d] EXCEPT ![Chat] = @ + 1] ELSE sent[d]
    BY DEF Received, InBatch
  <2>3. CASE InBatch(d)
    BY <2>1, <2>2, <2>3, <1>1
  <2>4. CASE ~InBatch(d)
    BY <2>1, <2>2, <2>4
  <2>5. QED
    BY <2>3, <2>4
<1>3. Received \in [Deliveries -> [Targets -> Nat]]
  BY <1>2 DEF Received
<1>4. QED
  BY <1>2, <1>3

LEMMA SendWork ==
  ASSUME StoreOK, WorkInv, Send \/ AnswerLost
  PROVE  WorkInv'
<1>1. /\ UNCHANGED storeVars /\ round' = round /\ wanted' = wanted
      /\ worker = "send" /\ worker' = "record" /\ answer' \in Answers
  BY DEF Send, AnswerLost, Answers
<1>2. /\ Held' = Held /\ queue' = queue /\ dead' = dead /\ states' = states /\ next' = next
      /\ \A s : ItemOf(s)' = ItemOf(s)
      /\ SameItems
  BY <1>1, UnchangedItems
<1>3. WorkerOK /\ HistoryOK /\ RoundIsOwed
  BY DEF WorkInv
<1>4. round # NoRound
  BY <1>1, <1>3 DEF WorkerOK
<1>5. Chat \in Targets /\ Chat' = Chat /\ Batch' = Batch
  BY <1>1, <1>2, <1>3, <1>4, ChatIsTarget, BatchKept DEF WorkerOK, SameItems
<1>6. \/ answer' = "ok" /\ sent' = Received /\ disturbances' = disturbances
      \/ answer' # "ok" /\ sent' = sent /\ disturbances' = disturbances
      \/ answer' # "ok" /\ sent' = Received /\ Disturbed
  BY DEF Send, AnswerLost
<1>7. \/ answer' = "ok" /\ sent' = Received /\ disturbances' = disturbances
      \/ answer' # "ok" /\ sent' = sent /\ disturbances' = disturbances
      \/ answer' # "ok" /\ sent' = Received /\ disturbances' = disturbances + 1
  BY <1>6, <1>3, DisturbedBounded
<1>8. HistoryOK'
  <2>1. sent' \in [Deliveries -> [Targets -> Nat]]
    BY <1>3, <1>5, <1>7, ReceivedIs DEF HistoryOK
  <2>2. disturbances' \in 0..DisturbanceBound
    BY <1>3, <1>6, DisturbedBounded DEF HistoryOK
  <2>3. QED
    BY <1>1, <1>3, <2>1, <2>2 DEF HistoryOK
<1>9. WorkerOK'
  BY <1>1, <1>2, <1>3 DEF WorkerOK, Answers
<1>10. ASSUME NEW d \in Deliveries, NEW t \in Targets
       PROVE  /\ sent[d][t] \in Nat /\ sent'[d][t] \in Nat
              /\ sent[d][t] <= sent'[d][t] /\ sent'[d][t] <= sent[d][t] + 1
              /\ sent'[d][t] # sent[d][t] => InBatch(d) /\ t = Chat
              /\ answer' = "ok" /\ InBatch(d) /\ t = Chat => sent'[d][t] = sent[d][t] + 1
  <2>1. sent[d][t] \in Nat
    BY <1>3 DEF HistoryOK
  <2>2. sent'[d][t] = sent[d][t]
          \/ (sent'[d][t] = IF InBatch(d) /\ t = Chat THEN sent[d][t] + 1 ELSE sent[d][t])
    BY <1>3, <1>5, <1>7, ReceivedIs
  <2>3. answer' = "ok" =>
          sent'[d][t] = IF InBatch(d) /\ t = Chat THEN sent[d][t] + 1 ELSE sent[d][t]
    BY <1>3, <1>5, <1>7, ReceivedIs
  <2>4. QED
    BY <2>1, <2>2, <2>3
<1>11. disturbances \in Nat /\ disturbances' \in Nat /\ disturbances <= disturbances'
  BY <1>3, <1>7, DisturbanceAssumption DEF HistoryOK
<1>12. ASSUME NEW s \in Batch
       PROVE  s \in Held /\ ItemOf(s).id \in Deliveries /\ sent[ItemOf(s).id][Chat] <= disturbances
  <2>1. s \in round[Chat]
    BY BatchOfChat
  <2>2. s \in Held /\ Store!HasTarget(ItemOf(s), Chat)
    BY <2>1, <1>3, <1>5 DEF RoundIsOwed, Held
  <2>3. ~Taken(s, Chat)
    BY <1>1 DEF Taken
  <2>4. QED
    BY <2>1, <2>2, <2>3, <1>5, ItemsTyped DEF WorkInv, OwedIsUnsent
<1>13. ASSUME NEW d \in Deliveries, InBatch(d) PROVE sent[d][Chat] <= disturbances
  BY <1>12, <1>13 DEF InBatch
<1>14. DuplicatesExplained'
  <2>1. ASSUME NEW d \in Deliveries, NEW t \in Targets PROVE sent'[d][t] <= 1 + disturbances'
    <3>1. CASE sent'[d][t] = sent[d][t]
      <4>1. sent[d][t] <= 1 + disturbances
        BY DEF WorkInv, DuplicatesExplained
      <4>2. QED
        BY <3>1, <4>1, <1>10, <1>11
    <3>2. CASE sent'[d][t] # sent[d][t]
      <4>1. sent[d][t] <= disturbances
        BY <3>2, <1>10, <1>13
      <4>2. QED
        BY <4>1, <1>10, <1>11
    <3>3. QED
      BY <3>1, <3>2
  <2>2. QED
    BY <2>1 DEF DuplicatesExplained
<1>15. RoundIsOwed' /\ RoundArchived'
  BY <1>1, <1>2 DEF RoundIsOwed, RoundArchived, WorkInv
<1>16. \A s, c : Taken(s, c)' <=> answer' = "ok" /\ c = Chat /\ s \in Batch
  BY <1>1, <1>5 DEF Taken
<1>17. TakenIsSent'
  <2>1. ASSUME NEW s \in Held, NEW c \in Targets, answer' = "ok", c = Chat, s \in Batch
        PROVE  sent'[ItemOf(s).id][c] >= 1
    <3>1. ItemOf(s).id \in Deliveries /\ InBatch(ItemOf(s).id)
      BY <2>1, ItemsTyped DEF InBatch
    <3>2. QED
      BY <3>1, <2>1, <1>10
  <2>2. QED
    BY <2>1, <1>2, <1>16 DEF TakenIsSent
<1>18. OwedIsUnsent'
  <2> SUFFICES ASSUME NEW s \in Held, NEW c \in Targets, Store!HasTarget(ItemOf(s), c),
                      s \in DOMAIN queue \/ s \in round[c],
                      ~(answer' = "ok" /\ c = Chat /\ s \in Batch)
               PROVE  sent'[ItemOf(s).id][c] <= disturbances'
    BY <1>1, <1>2, <1>16 DEF OwedIsUnsent
  <2> ItemOf(s).id \in Deliveries
    BY ItemsTyped
  <2>1. sent[ItemOf(s).id][c] <= disturbances
    BY <1>1 DEF WorkInv, OwedIsUnsent, Taken
  <2>2. CASE sent'[ItemOf(s).id][c] = sent[ItemOf(s).id][c]
    BY <2>1, <2>2, <1>10, <1>11
  <2>3. CASE sent'[ItemOf(s).id][c] # sent[ItemOf(s).id][c]
    <3>1. InBatch(ItemOf(s).id) /\ c = Chat
      BY <2>3, <1>10
    <3>2. s \in Batch
      BY <3>1, <1>12, OneItem DEF InBatch
    <3>3. answer' # "ok" /\ disturbances' = disturbances + 1
      BY <2>3, <3>1, <3>2, <1>7
    <3>4. QED
      BY <3>3, <2>1, <1>10, <1>11
  <2>4. QED
    BY <2>2, <2>3
<1>19. WantedIsServed'
  <2>1. \A d \in DOMAIN states : d \in Deliveries
    BY DEF StoreOK, Store!TypeOK
  <2>2. ASSUME NEW d \in DOMAIN states, NEW t \in wanted[d] PROVE Owes(d, t) \/ sent'[d][t] >= 1
    <3>1. d \in Deliveries /\ t \in Targets
      BY <2>1, <1>3 DEF HistoryOK
    <3>2. Owes(d, t) \/ sent[d][t] >= 1
      BY DEF WorkInv, WantedIsServed
    <3>3. sent[d][t] \in Nat /\ sent'[d][t] \in Nat /\ sent[d][t] <= sent'[d][t]
      BY <3>1, <1>10
    <3>4. QED
      BY <3>2, <3>3
  <2>3. \A d, t : Owes(d, t)' <=> Owes(d, t)
    BY <1>2 DEF Owes
  <2>4. QED
    BY <2>2, <2>3, <1>1, <1>2 DEF WantedIsServed
<1>20. UnknownIsUnsent'
  <2>1. ASSUME NEW d \in Deliveries \ DOMAIN states PROVE ~InBatch(d)
    BY <2>1, <1>12, ItemsTyped DEF InBatch
  <2>2. ASSUME NEW d \in Deliveries \ DOMAIN states, NEW t \in Targets PROVE sent'[d][t] = 0
    <3>1. sent[d][t] = 0
      BY DEF WorkInv, UnknownIsUnsent
    <3>2. QED
      BY <3>1, <2>1, <1>10
  <2>3. QED
    BY <2>2, <1>2 DEF UnknownIsUnsent
<1>21. QED
  BY <1>8, <1>9, <1>14, <1>15, <1>17, <1>18, <1>19, <1>20 DEF WorkInv
------------------------------------------------------------------------------
(***************************************************************************)
(* Steps that change the store.                                            *)
(***************************************************************************)
(* Items are kept, the round shrinks, nothing is taken or given up, and only *)
(* a disturbance brings items back to the queue.                            *)
LEMMA SameItemsWork ==
  ASSUME StoreOK, WorkInv, WorkerOK', HistoryOK', SameItems, UNCHANGED <<wanted, sent>>,
         \A c \in Targets : round'[c] \subseteq round[c],
         \A s \in Held, c \in Targets : Taken(s, c)' <=> Taken(s, c),
         \/ DOMAIN queue' \subseteq DOMAIN queue /\ disturbances' = disturbances
         \/ round = NoRound /\ disturbances' = disturbances + 1
  PROVE  WorkInv'
<1>1. /\ Held' = Held /\ DOMAIN states' = DOMAIN states /\ ArchivedKept
      /\ \A s \in Held : ItemOf(s)'.id = ItemOf(s).id
      /\ \A s \in Held : \A t : Store!HasTarget(ItemOf(s)', t) <=> Store!HasTarget(ItemOf(s), t)
  BY DEF SameItems, ItemKept, Store!HasTarget
<1>2. wanted' = wanted /\ sent' = sent
  OBVIOUS
<1>3. disturbances \in Nat /\ \A d \in Deliveries, t \in Targets : sent[d][t] \in Nat
  BY DisturbanceAssumption DEF WorkInv, HistoryOK
<1>4. disturbances' \in Nat /\ disturbances <= disturbances'
  BY <1>3
<1>5. DuplicatesExplained'
  <2>1. \A d \in Deliveries, t \in Targets : sent[d][t] <= 1 + disturbances
    BY DEF DuplicatesExplained, WorkInv
  <2>2. \A d \in Deliveries, t \in Targets : sent[d][t] <= 1 + disturbances'
    BY <1>3, <1>4, <2>1
  <2>3. QED
    BY <1>2, <2>2 DEF DuplicatesExplained
<1>6. RoundIsOwed'
  <2>1. ASSUME NEW c \in Targets, NEW s \in round'[c]
        PROVE  s \in Held' /\ Store!HasTarget(ItemOf(s)', c)
    <3>1. s \in Held /\ Store!HasTarget(ItemOf(s), c)
      BY <2>1 DEF WorkInv, RoundIsOwed, Held
    <3>2. QED
      BY <3>1, <1>1
  <2>2. QED
    BY <2>1 DEF RoundIsOwed, Held
<1>7. RoundArchived'
  <2>1. CASE DOMAIN queue' \subseteq DOMAIN queue
    BY <2>1, <1>1 DEF WorkInv, RoundArchived, ArchivedKept
  <2>2. CASE round = NoRound
    BY <2>2, NoRoundTyped DEF RoundArchived
  <2>3. QED
    BY <2>1, <2>2
<1>8. TakenIsSent'
  BY <1>1, <1>2 DEF WorkInv, TakenIsSent
<1>9. OwedIsUnsent'
  <2> SUFFICES ASSUME NEW s \in Held, NEW c \in Targets, Store!HasTarget(ItemOf(s), c),
                      s \in DOMAIN queue' \/ s \in round'[c], ~Taken(s, c)
               PROVE  sent[ItemOf(s).id][c] <= disturbances'
    BY <1>1, <1>2 DEF OwedIsUnsent
  <2> ItemOf(s).id \in Deliveries
    BY ItemsTyped
  <2>1. CASE DOMAIN queue' \subseteq DOMAIN queue
    <3>1. sent[ItemOf(s).id][c] <= disturbances
      BY <2>1 DEF WorkInv, OwedIsUnsent
    <3>2. QED
      BY <3>1, <1>3, <1>4
  <2>2. CASE disturbances' = disturbances + 1
    BY <2>2, <1>3 DEF WorkInv, DuplicatesExplained
  <2>3. QED
    BY <2>1, <2>2
<1>10. WantedIsServed' /\ UnknownIsUnsent'
  <2>1. \A d, t : Owes(d, t)' <=> Owes(d, t)
    BY <1>1 DEF Owes
  <2>2. QED
    BY <2>1, <1>1, <1>2 DEF WantedIsServed, UnknownIsUnsent, WorkInv
<1>11. QED
  BY <1>5, <1>6, <1>7, <1>8, <1>9, <1>10 DEF WorkInv

(* The worker is not concerned. *)
LEMMA BystanderWork ==
  ASSUME StoreOK, WorkInv, SameItems, DOMAIN queue' = DOMAIN queue, next' = next,
         UNCHANGED <<workerVars, historyVars>>
  PROVE  WorkInv'
<1>1. /\ worker' = worker /\ round' = round /\ answer' = answer /\ wanted' = wanted /\ sent' = sent
      /\ disturbances' = disturbances
  BY DEF workerVars, historyVars
<1>2. WorkerOK' /\ HistoryOK'
  BY <1>1 DEF WorkInv, WorkerOK, HistoryOK
<1>3. \A s \in Held, c \in Targets : Taken(s, c)' <=> Taken(s, c)
  <2>1. CASE worker = "record"
    <3>1. Chat' = Chat /\ Batch' = Batch
      BY <2>1, <1>1, BatchKept DEF WorkInv, WorkerOK, SameItems
    <3>2. QED
      BY <3>1, <1>1 DEF Taken
  <2>2. CASE worker # "record"
    BY <2>2, <1>1 DEF Taken
  <2>3. QED
    BY <2>1, <2>2
<1>4. QED
  BY <1>1, <1>2, <1>3, SameItemsWork

LEMMA StartWork ==
  ASSUME StoreOK, S!Inv, WorkInv, Start
  PROVE  WorkInv'
<1>1. /\ worker = "down" /\ worker' = "idle" /\ round' = round /\ answer' = answer
      /\ wanted' = wanted /\ sent' = sent /\ disturbances' = disturbances
  BY DEF Start, historyVars
<1>2. SameItems /\ DOMAIN queue' = DOMAIN queue /\ next' = next
  BY OpenItems DEF Start
<1>3. WorkerOK' /\ HistoryOK'
  BY <1>1, <1>2 DEF WorkInv, WorkerOK, HistoryOK
<1>4. \A s \in Held, c \in Targets : Taken(s, c)' <=> Taken(s, c)
  BY <1>1 DEF Taken
<1>5. \A c \in Targets : round'[c] \subseteq round[c]
  BY <1>1
<1>6. QED
  BY <1>1, <1>2, <1>3, <1>4, <1>5, SameItemsWork

LEMMA RequeueWork ==
  ASSUME StoreOK, WorkInv, NEW k, Requeue(k)
  PROVE  WorkInv'
<1>1. /\ worker = "down" /\ worker' = worker /\ round' = round /\ answer' = answer
      /\ wanted' = wanted /\ sent' = sent /\ Disturbed
  BY DEF Requeue, workerVars
<1>2. SameItems /\ next' = next
  BY RequeueItems DEF Requeue
<1>3. disturbances' = disturbances + 1 /\ WorkerOK' /\ HistoryOK'
  BY <1>1, <1>2, DisturbedBounded DEF WorkInv, WorkerOK, HistoryOK
<1>4. \A s \in Held, c \in Targets : Taken(s, c)' <=> Taken(s, c)
  BY <1>1 DEF Taken
<1>5. round = NoRound /\ \A c \in Targets : round'[c] \subseteq round[c]
  BY <1>1 DEF WorkInv, WorkerOK
<1>6. QED
  BY <1>1, <1>2, <1>3, <1>4, <1>5, SameItemsWork

LEMMA RecordWorker ==
  ASSUME WorkInv, Record, next' = next
  PROVE  /\ WorkerOK' /\ HistoryOK' /\ UNCHANGED <<wanted, sent>> /\ disturbances' = disturbances
         /\ worker = "record" /\ worker' # "record"
         /\ \A c \in Targets : round'[c] \subseteq (IF c = Chat THEN round[c] \ Batch ELSE round[c])
<1>1. /\ wanted' = wanted /\ sent' = sent /\ disturbances' = disturbances
      /\ worker = "record" /\ answer' = "none"
      /\ NextBatch(IF answer = "limited" THEN NoRound ELSE Rest)
  BY DEF Record, historyVars
<1>2. /\ round' \in [Targets -> SUBSET (1..next)]
      /\ \A c \in Targets : round'[c] \subseteq (IF c = Chat THEN round[c] \ Batch ELSE round[c])
      /\ worker' = IF round' = NoRound THEN "idle" ELSE "reserve"
  BY <1>1, NoRoundTyped, RestIsPart DEF NextBatch, WorkInv
<1>3. WorkerOK' /\ HistoryOK'
  BY <1>1, <1>2 DEF WorkInv, WorkerOK, HistoryOK, DuplicatesExplained
<1>4. QED
  BY <1>1, <1>2, <1>3

LEMMA RecordFailureWork ==
  ASSUME StoreOK, WorkInv, Record, answer # "ok"
  PROVE  WorkInv'
<1>1. PICK K, permanent, limited :
        /\ K = Batch /\ permanent = (answer = "permanent") /\ limited = (answer = "limited")
        /\ Store!HandleFailure(K, permanent, limited)
  BY DEF Record
<1>2. SameItems /\ DOMAIN queue' \subseteq DOMAIN queue /\ next' = next
  BY <1>1, HandleFailureItems
<1>3. /\ WorkerOK' /\ HistoryOK' /\ UNCHANGED <<wanted, sent>> /\ disturbances' = disturbances
      /\ worker = "record" /\ worker' # "record"
      /\ \A c \in Targets : round'[c] \subseteq round[c]
  BY <1>2, RecordWorker
<1>4. \A s \in Held, c \in Targets : Taken(s, c)' <=> Taken(s, c)
  BY <1>3 DEF Taken
<1>5. QED
  BY <1>2, <1>3, <1>4, SameItemsWork

LEMMA RecordSuccessWork ==
  ASSUME StoreOK, WorkInv, Record, answer = "ok"
  PROVE  WorkInv'
<1>1. PICK K, t : K = Batch /\ t = Chat /\ Store!CompleteChatDelivery(K, t)
  BY DEF Record
<1>2. /\ next' = next /\ DOMAIN states' = DOMAIN states
      /\ Held' \subseteq Held /\ DOMAIN queue' \subseteq DOMAIN queue /\ ArchivedKept
      /\ \A s \in Held' :
           /\ ItemOf(s)'.id = ItemOf(s).id
           /\ \A u : Store!HasTarget(ItemOf(s)', u)
                       <=> Store!HasTarget(ItemOf(s), u) /\ ~(u = t /\ s \in K /\ s \in DOMAIN queue)
      /\ \A s \in Held \ Held' : \A u :
           Store!HasTarget(ItemOf(s), u) => u = t /\ s \in K /\ s \in DOMAIN queue
  BY <1>1, CompleteItems
<1>3. /\ WorkerOK' /\ HistoryOK' /\ wanted' = wanted /\ sent' = sent
      /\ disturbances' = disturbances /\ worker = "record" /\ worker' # "record"
      /\ \A c \in Targets : round'[c] \subseteq (IF c = Chat THEN round[c] \ Batch ELSE round[c])
  BY <1>2, RecordWorker
<1>4. DuplicatesExplained' /\ UnknownIsUnsent'
  BY <1>2, <1>3 DEF WorkInv, DuplicatesExplained, UnknownIsUnsent
<1>5. ASSUME NEW c \in Targets, NEW s \in round'[c]
      PROVE  /\ s \in round[c] /\ ~(c = t /\ s \in K)
             /\ s \in Held' /\ Store!HasTarget(ItemOf(s)', c)
  <2>1. s \in round[c] /\ ~(c = t /\ s \in K)
    BY <1>1, <1>3, <1>5
  <2>2. s \in Held /\ Store!HasTarget(ItemOf(s), c)
    BY <2>1 DEF WorkInv, RoundIsOwed, Held
  <2>3. s \in Held'
    BY <1>2, <2>1, <2>2
  <2>4. QED
    BY <1>2, <2>1, <2>2, <2>3
<1>6. RoundIsOwed'
  BY <1>5 DEF RoundIsOwed, Held
<1>7. RoundArchived'
  BY <1>2, <1>5 DEF WorkInv, RoundArchived, ArchivedKept
<1>8. TakenIsSent'
  BY <1>3 DEF TakenIsSent, Taken
<1>9. \A s, c : Taken(s, c) <=> c = t /\ s \in K
  BY <1>1, <1>3 DEF Taken
<1>10. OwedIsUnsent'
  <2> SUFFICES ASSUME NEW s \in Held', NEW c \in Targets, Store!HasTarget(ItemOf(s)', c),
                      s \in DOMAIN queue' \/ s \in round'[c]
               PROVE  sent[ItemOf(s).id][c] <= disturbances
    BY <1>2, <1>3 DEF OwedIsUnsent
  <2>1. s \in Held /\ Store!HasTarget(ItemOf(s), c) /\ ~(c = t /\ s \in K /\ s \in DOMAIN queue)
    BY <1>2
  <2>2. ~Taken(s, c) /\ (s \in DOMAIN queue \/ s \in round[c])
    BY <1>2, <1>5, <1>9, <2>1
  <2>3. QED
    BY <2>1, <2>2 DEF WorkInv, OwedIsUnsent
<1>11. WantedIsServed'
  <2>1. ASSUME NEW d \in DOMAIN states, NEW u \in wanted[d] PROVE Owes(d, u)' \/ sent[d][u] >= 1
    <3>1. CASE sent[d][u] >= 1
      BY <3>1
    <3>2. CASE Owes(d, u)
      <4>1. PICK s \in Held : ItemOf(s).id = d /\ Store!HasTarget(ItemOf(s), u)
        BY <3>2 DEF Owes
      <4>2. CASE u = t /\ s \in K /\ s \in DOMAIN queue
        <5>1. d \in Deliveries /\ u \in Targets
          BY <4>1, ItemsTyped DEF WorkInv, HistoryOK
        <5>2. QED
          BY <4>1, <4>2, <5>1, <1>9 DEF WorkInv, TakenIsSent
      <4>3. CASE ~(u = t /\ s \in K /\ s \in DOMAIN queue)
        BY <4>1, <4>3, <1>2 DEF Owes
      <4>4. QED
        BY <4>2, <4>3
    <3>3. QED
      BY <3>1, <3>2 DEF WorkInv, WantedIsServed
  <2>2. QED
    BY <2>1, <1>2, <1>3 DEF WantedIsServed
<1>12. QED
  BY <1>3, <1>4, <1>6, <1>7, <1>8, <1>10, <1>11 DEF WorkInv

LEMMA ArriveWork ==
  ASSUME StoreOK, WorkInv, NEW d \in Deliveries, NEW p \in Payloads, NEW C \in SUBSET Chats,
         Arrive(d, p, C)
  PROVE  WorkInv'
<1> DEFINE targets == IF C = {} THEN {NoChat} ELSE C
<1>1. PICK k : k = next + 1
  OBVIOUS
<1>2. /\ d \notin DOMAIN states /\ DOMAIN states' = DOMAIN states \cup {d}
      /\ next \in Nat /\ next' = k /\ k \notin Held
      /\ Held' = Held \cup {k}
      /\ \A s \in Held : ItemKept(s) /\ (s \in DOMAIN queue' <=> s \in DOMAIN queue)
      /\ ArchivedKept
      /\ ItemOf(k)'.id = d /\ ItemOf(k)'.chats = C
  BY <1>1, AdmitItems DEF Arrive
<1>3. /\ worker' = worker /\ round' = round /\ answer' = answer /\ sent' = sent
      /\ disturbances' = disturbances /\ wanted' = [wanted EXCEPT ![d] = targets]
  BY DEF Arrive, workerVars
<1>4. /\ \A s \in Held : ItemOf(s)'.id = ItemOf(s).id
      /\ \A s \in Held : \A t : Store!HasTarget(ItemOf(s)', t) <=> Store!HasTarget(ItemOf(s), t)
      /\ \A t : Store!HasTarget(ItemOf(k)', t) <=> t \in targets
  BY <1>2 DEF ItemKept, Store!HasTarget
<1>5. WorkerOK /\ HistoryOK /\ RoundIsOwed
  BY DEF WorkInv
<1>6. WorkerOK'
  <2>1. 1..next \subseteq 1..next'
    BY <1>1, <1>2
  <2>2. round' \in [Targets -> SUBSET (1..next')]
    BY <1>3, <1>5, <2>1 DEF WorkerOK
  <2>3. QED
    BY <1>3, <1>5, <2>2 DEF WorkerOK
<1>7. HistoryOK'
  BY <1>3, <1>5 DEF HistoryOK, Targets
<1>8. DuplicatesExplained' /\ UnknownIsUnsent'
  BY <1>2, <1>3 DEF WorkInv, DuplicatesExplained, UnknownIsUnsent
<1>9. RoundIsOwed'
  <2>1. ASSUME NEW c \in Targets, NEW s \in round[c]
        PROVE  s \in Held' /\ Store!HasTarget(ItemOf(s)', c)
    <3>1. s \in Held /\ Store!HasTarget(ItemOf(s), c)
      BY <1>5 DEF RoundIsOwed, Held
    <3>2. QED
      BY <3>1, <1>2, <1>4
  <2>2. QED
    BY <2>1, <1>3 DEF RoundIsOwed, Held
<1>10. RoundArchived'
  <2>1. \A c \in Targets : \A s \in round[c] : s \in Held
    BY <1>5 DEF RoundIsOwed, Held
  <2>2. QED
    BY <2>1, <1>2, <1>3 DEF WorkInv, RoundArchived, ArchivedKept
<1>11. ASSUME NEW s \in Held', NEW c \in Targets
       PROVE  Taken(s, c)' <=> s \in Held /\ Taken(s, c)
  <2>1. CASE worker = "record"
    <3>1. round # NoRound
      BY <2>1, <1>5 DEF WorkerOK
    <3>2. Chat' = Chat /\ Batch' = Batch
      BY <3>1, <1>2, <1>3, <1>5, BatchKept
    <3>3. Batch \subseteq Held
      BY <3>1, <1>5, ChatIsTarget, BatchOfChat DEF RoundIsOwed, WorkerOK, Held
    <3>4. QED
      BY <3>2, <3>3, <1>3 DEF Taken
  <2>2. CASE worker # "record"
    BY <2>2, <1>3 DEF Taken
  <2>3. QED
    BY <2>1, <2>2
<1>12. TakenIsSent'
  BY <1>3, <1>4, <1>11 DEF WorkInv, TakenIsSent
<1>13. OwedIsUnsent'
  <2> SUFFICES ASSUME NEW s \in Held', NEW c \in Targets, Store!HasTarget(ItemOf(s)', c),
                      s \in DOMAIN queue' \/ s \in round[c], ~Taken(s, c)'
               PROVE  sent[ItemOf(s)'.id][c] <= disturbances
    BY <1>3 DEF OwedIsUnsent
  <2>1. CASE s = k
    BY <2>1, <1>2, <1>5, DisturbanceAssumption DEF WorkInv, UnknownIsUnsent, HistoryOK
  <2>2. CASE s \in Held
    <3>1. Store!HasTarget(ItemOf(s), c) /\ ~Taken(s, c)
      BY <2>2, <1>4, <1>11
    <3>2. s \in DOMAIN queue \/ s \in round[c]
      BY <2>2, <1>2
    <3>3. QED
      BY <2>2, <3>1, <3>2, <1>4 DEF WorkInv, OwedIsUnsent
  <2>3. QED
    BY <2>1, <2>2, <1>2
<1>14. WantedIsServed'
  <2>1. ASSUME NEW e \in DOMAIN states', NEW t \in wanted'[e] PROVE Owes(e, t)' \/ sent[e][t] >= 1
    <3>1. CASE e = d
      <4>1. t \in targets
        BY <2>1, <3>1, <1>3, <1>5 DEF HistoryOK
      <4>2. QED
        BY <3>1, <4>1, <1>2, <1>4 DEF Owes
    <3>2. CASE e # d
      <4>1. e \in DOMAIN states /\ t \in wanted[e]
        BY <2>1, <3>2, <1>2, <1>3, <1>5 DEF HistoryOK
      <4>2. Owes(e, t) \/ sent[e][t] >= 1
        BY <4>1 DEF WorkInv, WantedIsServed
      <4>3. Owes(e, t) => Owes(e, t)'
        BY <1>2, <1>4 DEF Owes
      <4>4. QED
        BY <4>2, <4>3
    <3>3. QED
      BY <3>1, <3>2
  <2>2. QED
    BY <2>1, <1>3 DEF WantedIsServed
<1>15. QED
  BY <1>6, <1>7, <1>8, <1>9, <1>10, <1>12, <1>13, <1>14 DEF WorkInv

------------------------------------------------------------------------------
(***************************************************************************)
(* The invariant, and the theorems.                                        *)
(***************************************************************************)
LEMMA InitWork == Init => WorkInv
<1> SUFFICES ASSUME Init PROVE WorkInv
  OBVIOUS
<1>1. /\ DOMAIN states = {} /\ Held = {} /\ next = 0
      /\ worker = "down" /\ round = NoRound /\ answer = "none" /\ disturbances = 0
      /\ wanted = [d \in Deliveries |-> {}]
      /\ sent = [d \in Deliveries |-> [t \in Targets |-> 0]]
  BY DEF Init, Store!Init, Held
<1>2. WorkerOK
  BY <1>1, NoRoundTyped DEF WorkerOK
<1>3. HistoryOK
  BY <1>1, DisturbanceAssumption DEF HistoryOK
<1>4. RoundIsOwed /\ RoundArchived
  BY <1>1, NoRoundTyped DEF RoundIsOwed, RoundArchived
<1>5. TakenIsSent /\ OwedIsUnsent /\ WantedIsServed
  BY <1>1 DEF TakenIsSent, OwedIsUnsent, WantedIsServed
<1>6. UnknownIsUnsent /\ DuplicatesExplained
  BY <1>1 DEF UnknownIsUnsent, DuplicatesExplained
<1>7. QED
  BY <1>2, <1>3, <1>4, <1>5, <1>6 DEF WorkInv

LEMMA UnchangedWork ==
  ASSUME StoreOK, WorkInv, UNCHANGED vars
  PROVE  WorkInv'
<1>1. UNCHANGED storeVars /\ UNCHANGED <<workerVars, historyVars>>
  BY DEF vars
<1>2. QED
  BY <1>1, UnchangedItems, BystanderWork

LEMMA NextWork ==
  ASSUME S!Inv, StoreOK, WorkInv, [Next]_vars
  PROVE  WorkInv'
<1>1. CASE Collect
  BY <1>1, CollectWork
<1>2. CASE Reserve
  BY <1>2, ReserveWork
<1>3. CASE Send \/ AnswerLost
  BY <1>3, SendWork
<1>4. CASE Record
  BY <1>4, RecordSuccessWork, RecordFailureWork
<1>5. CASE ReserveFails
  BY <1>5, ReserveFailsWork
<1>6. CASE RecordFails \/ Crash
  BY <1>6, EndOfRoundWork
<1>7. CASE \E d \in Deliveries, p \in Payloads, C \in SUBSET Chats : Arrive(d, p, C)
  BY <1>7, ArriveWork
<1>8. CASE \E d \in Deliveries : Archived(d)
  BY <1>8, FinalizeArchiveItems, BystanderWork DEF Archived
<1>9. CASE Elapse
  BY <1>9, ElapseItems, BystanderWork DEF Elapse
<1>10. CASE Start
  BY <1>10, StartWork
<1>11. CASE \E s \in DOMAIN dead : Requeue(s)
  BY <1>11, RequeueWork
<1>12. CASE UNCHANGED vars
  BY <1>12, UnchangedWork
<1>13. QED
  BY <1>1, <1>2, <1>3, <1>4, <1>5, <1>6, <1>7, <1>8, <1>9, <1>10, <1>11, <1>12 DEF Next, Round

LEMMA RecordStore ==
  ASSUME StoreOK, WorkInv, Record
  PROVE  Store!Next
<1>1. worker = "record" /\ round # NoRound
  BY DEF Record, WorkInv, WorkerOK
<1>2. Chat \in Chats \cup {NoChat}
  BY <1>1, ChatIsTarget DEF WorkInv, WorkerOK, Targets
<1> DEFINE K == Batch \cap DOMAIN queue
<1>3. K \in SUBSET Store!Sendable
  BY <1>2, BatchOfChat DEF WorkInv, RoundArchived, Store!Sendable, Targets
<1>4. CASE answer = "ok"
  <2>1. Store!CompleteChatDelivery(Batch, Chat)
    BY <1>4 DEF Record
  <2>2. Store!CompleteChatDelivery(K, Chat)
    BY <2>1 DEF Store!CompleteChatDelivery
  <2>3. QED
    BY <2>2, <1>2, <1>3 DEF Store!Next
<1>5. CASE answer # "ok"
  <2>1. PICK permanent \in BOOLEAN, limited \in BOOLEAN :
          Store!HandleFailure(Batch, permanent, limited)
    BY <1>5 DEF Record
  <2>2. Store!HandleFailure(K, permanent, limited)
    BY <2>1 DEF Store!HandleFailure
  <2>3. QED
    BY <2>2, <1>3 DEF Store!Next
<1>6. QED
  BY <1>4, <1>5

LEMMA NextStore ==
  ASSUME StoreOK, WorkInv, [Next]_vars
  PROVE  [Store!Next]_(Store!storeVars)
<1>1. UNCHANGED storeVars => UNCHANGED Store!storeVars
  BY DEF storeVars, Store!storeVars
<1>2. CASE \/ Collect \/ Reserve \/ Send \/ AnswerLost \/ ReserveFails \/ RecordFails
           \/ Crash \/ UNCHANGED vars
  BY <1>1, <1>2 DEF Collect, Reserve, Send, AnswerLost, ReserveFails, RecordFails, Crash, vars
<1>3. CASE Record
  BY <1>3, RecordStore
<1>4. CASE \E d \in Deliveries, p \in Payloads, C \in SUBSET Chats : Arrive(d, p, C)
  BY <1>4 DEF Arrive, Store!Next
<1>5. CASE \E d \in Deliveries : Archived(d)
  BY <1>5 DEF Archived, Store!Next
<1>6. CASE Elapse
  BY <1>6 DEF Elapse, Store!Next
<1>7. CASE Start
  BY <1>7 DEF Start, Store!Next
<1>8. CASE \E s \in DOMAIN dead : Requeue(s)
  BY <1>8 DEF Requeue, Store!Next
<1>9. QED
  BY <1>2, <1>3, <1>4, <1>5, <1>6, <1>7, <1>8 DEF Next, Round

(* The inductive invariant. *)
IInv == S!Inv /\ WorkInv

LEMMA IInvStore == IInv => StoreOK
BY SameTypeOK, SameRecordsAgree DEF IInv, S!Inv, S!IInv, StoreOK

(* The worker and the store keep the inductive invariant through rounds,    *)
(* crashes, lost answers, failing transactions and requeues.                *)
THEOREM ForwarderInvariant == Spec => []IInv
<1>1. Init => IInv
  BY InitStoreInv, InitWork DEF IInv
<1>2. ASSUME IInv, [Next]_vars PROVE IInv'
  BY <1>2, IInvStore, NextStore, NextStoreInv, NextWork DEF IInv
<1>3. QED
  BY <1>1, <1>2, PTL DEF Spec

(* sendOrdinary, sendBatchToChat and the commands around them drive the     *)
(* store only the way DeliveryStore allows for, with batches of archived     *)
(* items; all theorems about it hold of the worker's store.                 *)
THEOREM ForwarderImplementsStore == Spec => StoreSpec
<1>1. Init => Store!Init
  BY DEF Init
<1>2. ASSUME IInv, [Next]_vars PROVE [Store!Next]_(Store!storeVars)
  BY <1>2, IInvStore, NextStore DEF IInv
<1>3. QED
  BY <1>1, <1>2, ForwarderInvariant, PTL DEF Spec, StoreSpec, Store!Spec

(* Type correctness of worker, store and history; a round is under way      *)
(* exactly while the worker has a step of it to take.                       *)
THEOREM ForwarderTypeOK == Spec => []TypeOK
<1>1. IInv => TypeOK
  BY IInvStore DEF IInv, StoreOK, WorkInv, WorkerOK, HistoryOK, TypeOK
<1>2. QED
  BY <1>1, ForwarderInvariant, PTL

(* At least once: a target that a delivery does not owe any more received   *)
(* it, through retries, dead letters, requeues, crashes and restarts.       *)
THEOREM ForwarderNothingSkipped == Spec => []NothingSkipped
<1>1. IInv => NothingSkipped
  BY IInvStore, TodoIsOwed DEF IInv, WorkInv, WantedIsServed, NothingSkipped
<1>2. QED
  BY <1>1, ForwarderInvariant, PTL

(* A target receives a delivery once, and once more at most for each crash, *)
(* lost answer, failed record or requeue.                                   *)
THEOREM ForwarderDuplicatesExplained == Spec => []DuplicatesExplained
<1>1. IInv => DuplicatesExplained
  BY DEF IInv, WorkInv
<1>2. QED
  BY <1>1, ForwarderInvariant, PTL

(* What the worker has yet to try on a chat is still owed to that chat, in  *)
(* the queue or, after another chat's failure, in the dead letters.         *)
THEOREM ForwarderRoundIsOwed == Spec => []RoundIsOwed
<1>1. IInv => RoundIsOwed
  BY DEF IInv, WorkInv
<1>2. QED
  BY <1>1, ForwarderInvariant, PTL
==============================================================================
