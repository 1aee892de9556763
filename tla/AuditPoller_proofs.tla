-------------------------- MODULE AuditPoller_proofs --------------------------
(***************************************************************************)
(* Proofs about AuditPoller, for every value of its constants.             *)
(***************************************************************************)
EXTENDS AuditPoller, FiniteLemmas

(***************************************************************************)
(* The inductive invariant.                                                *)
(***************************************************************************)
(* The log: records are numbered without a gap and carry past times; one    *)
(* that is not listed is younger than VisibilityLag.                        *)
LogOK ==
  /\ clock \in Nat
  /\ \E n \in 0..RecordBound : Occurred = 1..n
  /\ created \in [Occurred -> 0..clock]
  /\ visible \subseteq Occurred
  /\ \A r \in Occurred \ visible : clock <= created[r] + VisibilityLag

(* What is durable: a checkpoint that is not in the future and comes with   *)
(* the bootstrap time; no record is admitted before it exists.              *)
DurableOK ==
  /\ checkpoint = {} \/ \E c \in 0..clock : checkpoint = {c}
  /\ bootstrap = {} \/ \E b \in 0..clock : bootstrap = {b}
  /\ bootstrap = {} <=> checkpoint = {}
  /\ DOMAIN stage = Records
  /\ \A r \in Records : stage[r] # "new" => r \in Occurred

(* The poller knows the checkpoint it started from and only listed records. *)
PollOK ==
  /\ started \in 0..clock
  /\ cursor \in Nat
  /\ records \subseteq visible
  /\ step \in {"down", "idle", "initialize"} => cursor = 0 /\ records = {}
  /\ step = "initialize" => checkpoint = {}
  /\ step \in {"fetch", "admit"} => from = checkpoint /\ checkpoint # {}

(* What the poll would leave behind if its checkpoint were stored: a record *)
(* of the query that is too old to be listed again has been archived,       *)
(* predates the bootstrap, is waiting to be admitted, or, while pages are   *)
(* read, is on a page to come.                                              *)
Accounted(r) ==
  \/ Predates(r)
  \/ stage[r] = "archived"
  \/ r \in records
  \/ step = "fetch" /\ r > cursor

NothingSkipped ==
  step \in {"fetch", "admit"} =>
    \A r \in Listed : created[r] < started - Overlap => Accounted(r)

IInv == LogOK /\ DurableOK /\ PollOK /\ NothingSkipped /\ NoReplay /\ NothingMissed

LEMMA InitIInv == Init => IInv
<1> SUFFICES ASSUME Init PROVE IInv
  OBVIOUS
<1>1. Occurred = {} /\ Occurred = 1..0 /\ created \in [Occurred -> 0..clock]
  BY DEF Init, Occurred
<1>2. LogOK
  BY <1>1, BoundAssumption DEF Init, LogOK
<1>3. DurableOK /\ PollOK
  BY <1>1 DEF Init, DurableOK, PollOK, Records
<1>4. NothingSkipped /\ NoReplay /\ NothingMissed
  BY <1>1 DEF Init, NothingSkipped, NoReplay, NothingMissed
<1>5. QED
  BY <1>2, <1>3, <1>4 DEF IInv

(***************************************************************************)
(* The log moves, the poller stands still.                                 *)
(***************************************************************************)
LEMMA Dates ==
  ASSUME LogOK
  PROVE  /\ \A r \in Occurred : created[r] \in Nat /\ created[r] <= clock /\ r \in Nat
         /\ Occurred \subseteq Records
BY BoundAssumption DEF LogOK, Records

LEMMA TickIInv ==
  ASSUME IInv, Tick
  PROVE  IInv'
<1>1. /\ clock' = clock + 1 /\ created' = created /\ visible' = visible
      /\ UNCHANGED <<durableVars, pollVars>> /\ Occurred' = Occurred
      /\ \A r \in Occurred \ visible : clock < created[r] + VisibilityLag
  BY DEF Tick, Occurred
<1>2. LogOK'
  <2>1. clock \in Nat /\ created \in [Occurred -> 0..(clock + 1)]
    BY DEF IInv, LogOK
  <2>2. \A r \in Occurred \ visible : clock + 1 <= created[r] + VisibilityLag
    BY <1>1, <2>1, Dates, OverlapAssumption DEF IInv
  <2>3. QED
    BY <1>1, <2>1, <2>2 DEF IInv, LogOK
<1>3. DurableOK' /\ PollOK'
  <2>1. clock \in Nat /\ 0..clock \subseteq 0..(clock + 1)
    BY DEF IInv, LogOK
  <2>2. DurableOK'
    BY <1>1, <2>1 DEF IInv, DurableOK, durableVars
  <2>3. PollOK'
    BY <1>1, <2>1 DEF IInv, PollOK, durableVars, pollVars
  <2>4. QED
    BY <2>2, <2>3
<1>4. NothingSkipped'
  BY <1>1 DEF IInv, NothingSkipped, Listed, Accounted, Predates, durableVars, pollVars
<1>5. NoReplay' /\ NothingMissed'
  BY <1>1 DEF IInv, NoReplay, NothingMissed, Predates, durableVars
<1>6. QED
  BY <1>2, <1>3, <1>4, <1>5 DEF IInv

LEMMA OccurIInv ==
  ASSUME IInv, NEW dated \in BOOLEAN, Occur(dated)
  PROVE  IInv'
<1> PICK n \in 0..RecordBound : Occurred = 1..n
  BY DEF IInv, LogOK
<1>1. Cardinality(Occurred) = n
  BY FS_Interval
<1> DEFINE r == n + 1
<1>2. /\ r \in Records /\ r \notin Occurred
      /\ created' = [q \in Occurred \cup {r} |-> IF q = r THEN clock ELSE created[q]]
      /\ visible' = visible /\ clock' = clock /\ UNCHANGED <<durableVars, pollVars>>
  BY <1>1 DEF Occur
<1>3. /\ Occurred' = Occurred \cup {r} /\ Occurred' = 1..r
      /\ created'[r] = clock /\ \A q \in Occurred : created'[q] = created[q]
  BY <1>2 DEF Occurred
<1>4. clock \in Nat /\ visible \subseteq Occurred /\ clock <= clock + VisibilityLag
  BY OverlapAssumption DEF IInv, LogOK
<1>5. LogOK'
  <2>1. created' \in [Occurred' -> 0..clock]
    BY <1>2, <1>3, <1>4 DEF IInv, LogOK
  <2>2. r \in 0..RecordBound
    BY <1>2, BoundAssumption DEF Records
  <2>3. QED
    BY <1>2, <1>3, <1>4, <2>1, <2>2 DEF IInv, LogOK
<1>6. DurableOK' /\ PollOK'
  BY <1>2, <1>3 DEF IInv, DurableOK, PollOK, durableVars, pollVars
<1>7. \A q \in Occurred : Predates(q)' <=> Predates(q)
  BY <1>2, <1>3 DEF Predates, durableVars
<1>8. NothingSkipped'
  <2>1. Listed' = Listed
    BY <1>2, <1>3, <1>4 DEF Listed, pollVars
  <2>2. Listed \subseteq Occurred
    BY <1>4 DEF Listed
  <2>3. QED
    BY <1>2, <1>3, <1>7, <2>1, <2>2
    DEF IInv, NothingSkipped, Accounted, durableVars, pollVars
<1>9. NoReplay'
  <2>1. stage[r] = "new"
    BY <1>2 DEF IInv, DurableOK
  <2>2. QED
    BY <1>2, <1>3, <2>1 DEF IInv, NoReplay, durableVars
<1>10. NothingMissed'
  <2>1. ASSUME NEW c \in checkpoint PROVE ~(clock < c - Overlap)
    BY <1>4, OverlapAssumption DEF IInv, DurableOK
  <2>2. ASSUME NEW q \in Occurred', NEW c \in checkpoint',
               ~Predates(q)', created'[q] < c - Overlap
        PROVE  stage'[q] = "archived"
    <3>1. q # r
      BY <1>2, <1>3, <2>1, <2>2 DEF durableVars
    <3>2. QED
      BY <1>2, <1>3, <1>7, <2>2, <3>1 DEF IInv, NothingMissed, durableVars
  <2>3. QED
    BY <2>2 DEF NothingMissed
<1>11. QED
  BY <1>5, <1>6, <1>8, <1>9, <1>10 DEF IInv

(* A record that appears is too young for the poll that is going on to      *)
(* leave it behind.                                                         *)
LEMMA AppearIInv ==
  ASSUME IInv, NEW r \in Records, Appear(r)
  PROVE  IInv'
<1>1. /\ r \in Occurred \ visible /\ visible' = visible \cup {r}
      /\ created' = created /\ clock' = clock /\ Occurred' = Occurred
      /\ UNCHANGED <<durableVars, pollVars>>
  BY DEF Appear, Occurred
<1>2. LogOK'
  BY <1>1 DEF IInv, LogOK
<1>3. DurableOK' /\ PollOK'
  BY <1>1 DEF IInv, DurableOK, PollOK, durableVars, pollVars
<1>4. NothingSkipped'
  <2>1. Listed' \subseteq Listed \cup {r}
    BY <1>1 DEF Listed, pollVars
  <2>2. ~(created[r] < started - Overlap)
    <3>1. /\ clock <= created[r] + VisibilityLag /\ created[r] \in Nat
          /\ started \in Nat /\ started <= clock /\ clock \in Nat
      BY <1>1, Dates DEF IInv, LogOK, PollOK
    <3>2. QED
      BY <3>1, OverlapAssumption
  <2>3. QED
    BY <1>1, <2>1, <2>2
    DEF IInv, NothingSkipped, Accounted, Predates, durableVars, pollVars
<1>5. NoReplay' /\ NothingMissed'
  BY <1>1 DEF IInv, NoReplay, NothingMissed, Predates, durableVars
<1>6. QED
  BY <1>2, <1>3, <1>4, <1>5 DEF IInv

(* Everything the invariant speaks of. *)
spoken == <<clock, created, visible, durableVars, pollVars>>

LEMMA StutterIInv ==
  ASSUME IInv, UNCHANGED spoken
  PROVE  IInv'
<1>1. /\ UNCHANGED <<clock, created, visible, Occurred>>
      /\ UNCHANGED <<checkpoint, bootstrap, stage>>
      /\ UNCHANGED <<step, from, started, cursor, records>>
  BY DEF spoken, durableVars, pollVars, Occurred
<1>2. LogOK' /\ DurableOK' /\ PollOK'
  BY <1>1 DEF IInv, LogOK, DurableOK, PollOK
<1>3. NothingSkipped'
  BY <1>1 DEF IInv, NothingSkipped, Accounted, Listed, Predates
<1>4. NoReplay' /\ NothingMissed'
  BY <1>1 DEF IInv, NoReplay, NothingMissed, Predates
<1>5. QED
  BY <1>2, <1>3, <1>4 DEF IInv

(***************************************************************************)
(* The poller moves, the log stands still.                                 *)
(***************************************************************************)
(* A poll may be given up at any point: what is durable speaks for itself.  *)
LEMMA AbandonIInv ==
  ASSUME IInv, UNCHANGED <<logVars, durableVars>>,
         step' \in {"idle", "down"}, started' = 0, cursor' = 0, records' = {}
  PROVE  IInv'
<1>1. /\ UNCHANGED <<clock, created, visible, checkpoint, bootstrap, stage>>
      /\ Occurred' = Occurred
  BY DEF logVars, durableVars, Occurred
<1>2. LogOK' /\ DurableOK'
  BY <1>1 DEF IInv, LogOK, DurableOK
<1>3. PollOK' /\ NothingSkipped'
  BY <1>1 DEF IInv, LogOK, PollOK, NothingSkipped
<1>4. NoReplay' /\ NothingMissed'
  BY <1>1 DEF IInv, NoReplay, NothingMissed, Predates
<1>5. QED
  BY <1>2, <1>3, <1>4 DEF IInv

LEMMA BeginIInv ==
  ASSUME IInv, Begin
  PROVE  IInv'
<1>1. /\ UNCHANGED <<clock, created, visible, checkpoint, bootstrap, stage, cursor, records>>
      /\ Occurred' = Occurred /\ from' = checkpoint /\ started' = clock
      /\ step' = IF checkpoint = {} THEN "initialize" ELSE "fetch"
  BY DEF Begin, logVars, durableVars, Occurred
<1>2. LogOK' /\ DurableOK'
  BY <1>1 DEF IInv, LogOK, DurableOK
<1>3. PollOK'
  BY <1>1 DEF Begin, IInv, LogOK, PollOK
<1>4. NoReplay' /\ NothingMissed'
  BY <1>1 DEF IInv, NoReplay, NothingMissed, Predates
<1>5. NothingSkipped'
  <2>1. cursor = 0 /\ Listed' \subseteq Occurred
    BY <1>1 DEF Begin, IInv, LogOK, PollOK, Listed
  <2>2. \A r \in Occurred : r > 0
    BY Dates DEF IInv, Records
  <2>3. QED
    BY <1>1, <2>1, <2>2 DEF NothingSkipped, Accounted
<1>6. QED
  BY <1>2, <1>3, <1>4, <1>5 DEF IInv

(* The first poll ever: there is nothing yet that it could replay or miss.  *)
LEMMA InitializeIInv ==
  ASSUME IInv, InitializeAuditCheckpoint
  PROVE  IInv'
<1>1. /\ UNCHANGED <<clock, created, visible, stage>> /\ Occurred' = Occurred
      /\ checkpoint' = {started} /\ bootstrap' = {started}
      /\ step' = "idle" /\ started' = 0 /\ cursor' = 0 /\ records' = {}
  BY DEF InitializeAuditCheckpoint, EndPoll, logVars, Occurred
<1>2. checkpoint = {} /\ bootstrap = {} /\ started \in 0..clock /\ clock \in Nat
  BY DEF InitializeAuditCheckpoint, IInv, PollOK, DurableOK, LogOK
<1>3. LogOK' /\ DurableOK' /\ PollOK' /\ NothingSkipped'
  <2>1. LogOK'
    BY <1>1 DEF IInv, LogOK
  <2>2. DurableOK'
    BY <1>1, <1>2 DEF IInv, DurableOK
  <2>3. PollOK' /\ NothingSkipped'
    BY <1>1, <1>2 DEF PollOK, NothingSkipped
  <2>4. QED
    BY <2>1, <2>2, <2>3
<1>4. NoReplay'
  <2>1. \A r \in Occurred : stage[r] = "new"
    BY <1>2 DEF IInv, NoReplay
  <2>2. QED
    BY <1>1, <2>1 DEF NoReplay
<1>5. NothingMissed'
  <2>1. ASSUME NEW r \in Occurred, created[r] < started - Overlap
        PROVE  Predates(r)'
    <3>1. created[r] <= started
      BY <1>2, <2>1, Dates, OverlapAssumption DEF IInv
    <3>2. QED
      BY <1>1, <3>1 DEF Predates
  <2>2. QED
    BY <1>1, <2>1 DEF NothingMissed
<1>6. QED
  BY <1>3, <1>4, <1>5 DEF IInv

LEMMA PagesOfLog ==
  ASSUME LogOK
  PROVE  /\ Page \subseteq Rest /\ Rest \subseteq visible
         /\ \A r \in Rest : r \in 0..RecordBound /\ r \in Nat
<1>1. Page \subseteq Rest
  BY DEF Page
<1>2. Rest \subseteq visible
  BY DEF Rest, Listed
<1>3. visible \subseteq Records
  BY Dates DEF LogOK
<1>4. QED
  BY <1>1, <1>2, <1>3, BoundAssumption DEF Records

(* A page leaves no gap behind its last record.                             *)
LEMMA PageGapless ==
  ASSUME IInv, NEW r \in Rest \ Page
  PROVE  Page # {} => LastOf(Page) \in Nat /\ r > LastOf(Page)
<1> SUFFICES ASSUME Page # {} PROVE LastOf(Page) \in Nat /\ r > LastOf(Page)
  OBVIOUS
<1>1. Page \subseteq Rest /\ \A q \in Rest : q \in 0..RecordBound /\ q \in Nat
  BY PagesOfLog DEF IInv
<1>2. \E m \in Page : \A q \in Page : q <= m
  BY <1>1, BoundAssumption, GreatestNatural
<1>3. LastOf(Page) \in Page
  BY <1>2 DEF LastOf
<1> DEFINE m == LastOf(Page)
           upToM == {q \in Rest : q <= m}
           upToR == {q \in Rest : q <= r}
<1>4. /\ m \in Rest /\ r \in Rest
      /\ Cardinality(upToM) <= PageSize /\ ~(Cardinality(upToR) <= PageSize)
  BY <1>1, <1>3 DEF Page
<1> HIDE DEF m
<1>5. CASE r <= m
  <2>1. upToR \in SUBSET upToM
    BY <1>1, <1>4, <1>5
  <2>2. IsFiniteSet(upToM) /\ IsFiniteSet(upToR)
    <3>1. IsFiniteSet(0..RecordBound)
      BY BoundAssumption, FS_Interval
    <3>2. upToM \in SUBSET (0..RecordBound) /\ upToR \in SUBSET (0..RecordBound)
      BY <1>1
    <3>3. QED
      BY <3>1, <3>2, FS_Subset
  <2>3. Cardinality(upToR) <= Cardinality(upToM)
    BY <2>1, <2>2, FS_Subset
  <2>4. Cardinality(upToR) \in Nat /\ Cardinality(upToM) \in Nat
    BY <2>2, FS_CardinalityType
  <2> HIDE DEF upToM, upToR
  <2>5. QED
    BY <1>4, <2>3, <2>4, PageAssumption
<1>6. QED
  BY <1>1, <1>4, <1>5 DEF m

(* What an earlier page did not hold is on a later one, unless it appeared  *)
(* behind the cursor, and then it is young (AppearIInv).                    *)
LEMMA FetchPageIInv ==
  ASSUME IInv, FetchPage
  PROVE  IInv'
<1>1. /\ UNCHANGED <<clock, created, visible, checkpoint, bootstrap, stage, from, started>>
      /\ Occurred' = Occurred /\ step = "fetch"
      /\ records' = records \cup Page
      /\ cursor' = IF Page = {} THEN cursor ELSE LastOf(Page)
      /\ step' = IF LastPage THEN "admit" ELSE "fetch"
  BY DEF FetchPage, logVars, durableVars, Occurred
<1>2. /\ Page \subseteq Rest /\ Rest \subseteq visible
      /\ \A q \in Rest : q \in 0..RecordBound /\ q \in Nat
  BY PagesOfLog DEF IInv
<1>3. LogOK' /\ DurableOK'
  BY <1>1 DEF IInv, LogOK, DurableOK
<1>4. PollOK'
  <2>1. cursor' \in Nat
    <3>1. CASE Page # {}
      <4>1. \E m \in Page : \A q \in Page : q <= m
        BY <1>2, <3>1, BoundAssumption, GreatestNatural
      <4>2. LastOf(Page) \in Page
        BY <4>1 DEF LastOf
      <4>3. QED
        BY <1>1, <1>2, <3>1, <4>2
    <3>2. CASE Page = {}
      BY <1>1, <3>2 DEF IInv, PollOK
    <3>3. QED
      BY <3>1, <3>2
  <2>2. QED
    BY <1>1, <1>2, <2>1 DEF IInv, PollOK
<1>5. NothingSkipped'
  <2>1. Listed' = Listed
    BY <1>1 DEF Listed
  <2>2. ASSUME NEW r \in Listed, created[r] < started - Overlap
        PROVE  Accounted(r)'
    <3>1. Accounted(r)
      BY <1>1, <2>2 DEF IInv, NothingSkipped
    <3>2. CASE r \in Rest /\ r \notin Page
      <4>1. step' = "fetch"
        BY <1>1, <1>2, <3>2 DEF LastPage
      <4>2. r > cursor'
        BY <1>1, <3>2, PageGapless DEF Rest
      <4>3. QED
        BY <4>1, <4>2 DEF Accounted
    <3>3. CASE r \in Page
      BY <1>1, <3>3 DEF Accounted
    <3>4. CASE r \notin Rest
      <4>1. ~(r > cursor)
        BY <3>4 DEF Rest
      <4>2. QED
        BY <1>1, <3>1, <4>1 DEF Accounted, Predates
    <3>5. QED
      BY <3>2, <3>3, <3>4
  <2>3. QED
    BY <1>1, <2>1, <2>2 DEF NothingSkipped
<1>6. NoReplay' /\ NothingMissed'
  BY <1>1 DEF IInv, NoReplay, NothingMissed, Predates
<1>7. QED
  BY <1>3, <1>4, <1>5, <1>6 DEF IInv

LEMMA FirstIsRecord ==
  ASSUME IInv, records # {}
  PROVE  First \in records /\ First \in Occurred /\ First \in Records
<1>1. records \subseteq Occurred /\ records \subseteq Records
  BY Dates DEF IInv, LogOK, PollOK
<1>2. records \subseteq Nat
  BY <1>1, BoundAssumption DEF Records
<1>3. \E r \in records : \A q \in records : r <= q
  BY <1>2, LeastNatural
<1>4. QED
  BY <1>1, <1>3 DEF First

LEMMA SkipIInv ==
  ASSUME IInv, Skip
  PROVE  IInv'
<1>1. /\ UNCHANGED <<clock, created, visible, checkpoint, bootstrap, stage>>
      /\ UNCHANGED <<step, from, started, cursor>> /\ Occurred' = Occurred
      /\ records' = records \ {First} /\ step = "admit"
      /\ Predates(First) \/ stage[First] = "archived"
  BY DEF Skip, Done, logVars, durableVars, Occurred
<1>2. LogOK' /\ DurableOK' /\ PollOK'
  BY <1>1 DEF IInv, LogOK, DurableOK, PollOK
<1>3. NothingSkipped'
  BY <1>1 DEF IInv, NothingSkipped, Listed, Accounted, Predates
<1>4. NoReplay' /\ NothingMissed'
  BY <1>1 DEF IInv, NoReplay, NothingMissed, Predates
<1>5. QED
  BY <1>2, <1>3, <1>4 DEF IInv

(* The admission of a record that exists and does not predate the bootstrap *)
(* advances, and the record may be done with once it is archived.           *)
LEMMA ProgressIInv ==
  ASSUME IInv, NEW r \in Occurred, Progress(r),
         UNCHANGED <<logVars, checkpoint, bootstrap, step, from, started, cursor>>,
         stage[r] = "new" => bootstrap # {} /\ ~Predates(r),
         \/ records' = records
         \/ stage'[r] = "archived" /\ records' = records \ {r} /\ step = "admit"
  PROVE  IInv'
<1>1. /\ UNCHANGED <<clock, created, visible, checkpoint, bootstrap>> /\ Occurred' = Occurred
      /\ UNCHANGED <<step, from, started, cursor>>
  BY DEF logVars, Occurred
<1>2. /\ DOMAIN stage' = DOMAIN stage /\ r \in DOMAIN stage
      /\ \A q \in DOMAIN stage \ {r} : stage'[q] = stage[q]
      /\ stage[r] # "archived"
  BY Dates DEF Progress, IInv, DurableOK
<1>3. LogOK'
  BY <1>1 DEF IInv, LogOK
<1>4. DurableOK' /\ PollOK'
  BY <1>1, <1>2 DEF IInv, DurableOK, PollOK
<1>5. NothingSkipped'
  <2>1. \A q \in Listed : Accounted(q) => Accounted(q)'
    <3>1. Listed \subseteq DOMAIN stage
      BY Dates DEF IInv, LogOK, DurableOK, Listed
    <3>2. QED
      BY <1>1, <1>2, <3>1 DEF Accounted, Predates
  <2>2. QED
    BY <1>1, <2>1 DEF IInv, NothingSkipped, Listed
<1>6. NoReplay'
  <2>1. ASSUME stage[r] = "new"
        PROVE  bootstrap # {} /\ \A b \in bootstrap : created[r] > b
    <3>1. bootstrap # {} /\ \A b \in bootstrap : ~(created[r] <= b)
      BY <2>1 DEF Predates
    <3>2. created[r] \in Nat /\ \A b \in bootstrap : b \in Nat
      BY Dates DEF IInv, LogOK, DurableOK
    <3>3. QED
      BY <3>1, <3>2
  <2>2. QED
    BY <1>1, <1>2, <2>1, Dates DEF IInv, NoReplay, DurableOK
<1>7. NothingMissed'
  <2>1. \A q \in Occurred : stage[q] = "archived" => stage'[q] = "archived"
    BY <1>2, Dates DEF IInv, DurableOK
  <2>2. QED
    BY <1>1, <2>1 DEF IInv, NothingMissed, Predates
<1>8. QED
  BY <1>3, <1>4, <1>5, <1>6, <1>7 DEF IInv

LEMMA AdmitIInv ==
  ASSUME IInv, Admit
  PROVE  IInv'
<1>1. First \in records /\ First \in Occurred
  BY FirstIsRecord DEF Admit
<1>2. bootstrap # {} /\ ~Predates(First)
  BY DEF Admit, IInv, PollOK, DurableOK
<1>3. \/ UNCHANGED pollVars
      \/ stage'[First] = "archived" /\ Done(First)
  BY DEF Admit
<1>4. QED
  BY <1>1, <1>2, <1>3, ProgressIInv DEF Admit, Done, pollVars

LEMMA RecoverIInv ==
  ASSUME IInv, NEW r \in Records, Recover(r)
  PROVE  IInv'
<1>1. stage[r] # "new" /\ r \in Occurred
  BY DEF Recover, IInv, DurableOK
<1>2. QED
  BY <1>1, ProgressIInv DEF Recover, pollVars

(* The checkpoint moves: every record that is too old for the next query is *)
(* either older than this one's checkpoint, or was in its pages, or had not *)
(* become visible, and then it is too young to be left behind.              *)
LEMMA SetAuditCheckpointIInv ==
  ASSUME IInv, SetAuditCheckpoint
  PROVE  IInv'
<1>1. /\ UNCHANGED <<clock, created, visible, bootstrap, stage>> /\ Occurred' = Occurred
      /\ step = "admit" /\ records = {} /\ checkpoint' = {started}
      /\ step' = "idle" /\ started' = 0 /\ cursor' = 0 /\ records' = {}
  BY DEF SetAuditCheckpoint, EndPoll, logVars, Occurred
<1>2. /\ from = checkpoint /\ checkpoint # {} /\ bootstrap # {}
      /\ started \in 0..clock /\ clock \in Nat
  BY <1>1 DEF IInv, LogOK, PollOK, DurableOK
<1>3. LogOK' /\ DurableOK' /\ PollOK' /\ NothingSkipped'
  <2>1. LogOK'
    BY <1>1 DEF IInv, LogOK
  <2>2. DurableOK'
    BY <1>1, <1>2 DEF IInv, DurableOK
  <2>3. PollOK' /\ NothingSkipped'
    BY <1>1, <1>2 DEF PollOK, NothingSkipped
  <2>4. QED
    BY <2>1, <2>2, <2>3
<1>4. NoReplay'
  BY <1>1 DEF IInv, NoReplay
<1>5. NothingMissed'
  <2>1. ASSUME NEW r \in Occurred, ~Predates(r), created[r] < started - Overlap
        PROVE  stage[r] = "archived"
    <3>1. r \in visible
      <4>1. ASSUME r \notin visible PROVE FALSE
        <5>1. clock <= created[r] + VisibilityLag /\ created[r] \in Nat
          BY <4>1, Dates DEF IInv, LogOK
        <5>2. QED
          BY <1>2, <2>1, <5>1, OverlapAssumption
      <4>2. QED
        BY <4>1
    <3>2. CASE r \in Listed
      BY <1>1, <2>1, <3>2 DEF IInv, NothingSkipped, Accounted
    <3>3. CASE r \notin Listed
      <4>1. PICK c \in from : ~(created[r] >= c - Overlap)
        BY <3>1, <3>3 DEF Listed
      <4>2. c \in Nat /\ created[r] \in Nat
        BY <1>2, Dates DEF IInv, DurableOK, LogOK
      <4>3. created[r] < c - Overlap
        BY <4>1, <4>2, OverlapAssumption
      <4>4. QED
        BY <1>2, <2>1, <4>3 DEF IInv, NothingMissed
    <3>4. QED
      BY <3>2, <3>3
  <2>2. QED
    BY <1>1, <2>1 DEF NothingMissed, Predates
<1>6. QED
  BY <1>3, <1>4, <1>5 DEF IInv

LEMMA NextIInv ==
  ASSUME IInv, [Next]_vars
  PROVE  IInv'
<1>1. CASE Tick
  BY <1>1, TickIInv
<1>2. CASE \E dated \in BOOLEAN : Occur(dated)
  BY <1>2, OccurIInv
<1>3. CASE \E r \in Records : Appear(r)
  BY <1>3, AppearIInv
<1>4. CASE UNCHANGED vars \/ \E r \in Records : Amend(r)
  BY <1>4, StutterIInv DEF vars, logVars, spoken, Amend
<1>5. CASE \E r \in Records : Recover(r)
  BY <1>5, RecoverIInv
<1>6. CASE Begin
  BY <1>6, BeginIInv
<1>7. CASE InitializeAuditCheckpoint
  BY <1>7, InitializeIInv
<1>8. CASE FetchPage
  BY <1>8, FetchPageIInv
<1>9. CASE Skip
  BY <1>9, SkipIInv
<1>10. CASE Admit
  BY <1>10, AdmitIInv
<1>11. CASE SetAuditCheckpoint
  BY <1>11, SetAuditCheckpointIInv
<1>12. CASE Refuse \/ PollFails \/ Crash
  BY <1>12, AbandonIInv DEF Refuse, PollFails, Crash, EndPoll
<1>13. CASE Start
  <2>1. step = "down" /\ cursor = 0 /\ records = {}
    BY <1>13 DEF Start, IInv, PollOK
  <2>2. /\ UNCHANGED <<clock, created, visible, checkpoint, bootstrap, stage>>
        /\ UNCHANGED <<from, started, cursor, records>> /\ Occurred' = Occurred
        /\ step' = "idle"
    BY <1>13 DEF Start, logVars, durableVars, Occurred
  <2>3. LogOK' /\ DurableOK' /\ PollOK' /\ NothingSkipped'
    BY <2>1, <2>2 DEF IInv, LogOK, DurableOK, PollOK, NothingSkipped
  <2>4. NoReplay' /\ NothingMissed'
    BY <2>2 DEF IInv, NoReplay, NothingMissed, Predates
  <2>5. QED
    BY <2>3, <2>4 DEF IInv
<1>14. QED
  BY <1>1, <1>2, <1>3, <1>4, <1>5, <1>6, <1>7, <1>8, <1>9, <1>10, <1>11, <1>12, <1>13
  DEF Next, PollStep
------------------------------------------------------------------------------
(* However the log grows, whatever it shows late, and wherever polls fail   *)
(* and the process crashes, the poller keeps its books: for any overlap     *)
(* that covers the lag and any size of page.                                *)
THEOREM PollerInvariant == Spec => []IInv
<1>1. IInv /\ [Next]_vars => IInv'
  BY NextIInv
<1>2. QED
  BY InitIInv, <1>1, PTL DEF Spec

(* Nothing from before the bootstrap is ever admitted.                      *)
THEOREM PollerNoReplay == Spec => []NoReplay
<1>1. IInv => NoReplay
  BY DEF IInv
<1>2. QED
  BY PollerInvariant, <1>1, PTL

(* The checkpoint never leaves a record behind.                             *)
THEOREM PollerNothingMissed == Spec => []NothingMissed
<1>1. IInv => NothingMissed
  BY DEF IInv
<1>2. QED
  BY PollerInvariant, <1>1, PTL
==============================================================================
