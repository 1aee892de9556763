# Verification of lark-git-webhook

TLA+ specifications of the parts of `lark-git-webhook` that have to be right under
crashes, retries and concurrency, checked with TLC on small instances and, where
a theorem is listed, proved with TLAPS for every value of the constants.

Paths below are relative to the repository (`src/` in `PROJECT.json`).

## The system

The service receives deliveries (GitHub and GitLab webhooks, GitHub audit-log
records, Lark events and callbacks), keeps every payload for good in a file
archive, queues those that are to be forwarded in a bbolt database, and a single
worker sends them to Lark chats as text messages or as status cards that are
updated in place.

| Component | Source | State it keeps | Operations | Hard behaviour | Correct when |
| --- | --- | --- | --- | --- | --- |
| Delivery store | `internal/store/store.go` | buckets `delivery_state`, `queue`, `dead_letter`, counters in `meta` | Admit, AdmitArchiveOnly, FinalizeArchive, CompleteChatDelivery, HandleFailure, RequeueDeadLetter, Delete, Open | batches that fail in part, partial multi-chat success, dead letters with limited room, counters adjusted here and recomputed there | the buckets tell one story, limits hold, a restart changes nothing |
| Payload archive | `internal/archive/archive.go` | one file per delivery, one lock | VerifyExisting, Reserve, Store, Release | link and directory sync are two steps; the lock serialises admissions | a published payload survives power loss and is never replaced |
| Webhook handlers | `internal/webhook/handler.go`, `internal/gitlabwebhook/handler.go` | requests in flight | ServeHTTP | state read at the lookup is used after waiting for the lock; errors between any two steps | 202 only for durable payloads, 409 for conflicting ones |
| Recovery | `cmd/lark-git-webhook/main.go` | a pass over unarchived deliveries | recoverPending | races with handlers; stops at the first error; startup exits on it | an interrupted admission is completed in the end |
| Audit poller | `internal/audit/` | checkpoint, bootstrap time, the records of a poll | Run, PollOnce, Fetch, admit | a log that grows while it is paged and shows records late; polls that fail halfway; records that cannot be admitted | nothing from before the bootstrap is admitted, the checkpoint leaves no record behind, every record gets in |
| Forwarding worker | `internal/forwarder/worker.go` | the round: copies of due items | Run, sendOrdinary, sendBatchToChat | crash between send and record, lost answers, stale copies, several chats per item | at least once to every chat, duplicates only after something went wrong |
| Status cards | `internal/forwarder/workflow.go`, `gitlab_pipeline.go`, `UpsertWorkflow` in the store | bucket `workflow_state`, the Lark message and its reaction, per chat | sendWorkflows, sendCardToChat | events out of order, several requests and records per event, several chats per event from one copy of the item | every chat's card ends up showing the newest state |
| Rate limit | `ReserveRequest`, `HandleFailure` in the store | windows of timestamps, cooldown | ReserveRequest | windows at their limit, clocks read before the transaction, restarts, shorter and longer Retry-After | calls stay within 5 per second and 100 per minute and out of the cooldown |
| Dedupe index | `internal/store/store.go` | buckets `dedupe`, `dedupe_expiry` | cleanup, eviction, rebuild | counters | index and expiry agree |
| Subscriptions | `internal/store/store.go`, `internal/larkcallback/receiver.go` | bucket `repository_subscription`, reply claims | AddRepositorySubscription, ClaimSubscriptionReply | a redelivered command | at most one reply |
| Onboarding | `internal/forwarder/onboarding.go`, `internal/larkcallback/onboarding_delivery.go` | buckets `onboarding_state`, `onboarding_callback_result` | form, validation, claims | response deadline against a running validation, duplicate callbacks | a recorded form is the last, one result per callback, the newest validation binds |
| Lark client | `internal/lark/client.go` | token cache under a mutex | call, tenantToken, invalidateToken | concurrent calls, late refusals, expiry noted on receipt | a cached token is good, a good token is kept, a request is repeated once |
| Others | formatting, metrics, configuration, GeoIP, GitHub lookup | none that matters here | | pure functions and I/O | not modelled |

Components interact through the store and the archive only: handlers, poller and
recovery write deliveries, the archived flag hands them over to the worker, and the
worker takes them out of the queue. The worker and the receiver of Lark events also share the
Lark client, whose token cache has a mutex of its own. Every store method is one bbolt transaction
(serialised, atomic, durable), hence one atomic action. Everything between two
transactions, two file operations or two requests to Lark can be interleaved with
other goroutines or cut off by a crash.

## Modules

| Module | What it is | Composes |
| --- | --- | --- |
| `DeliveryLifecycle` | abstract: what the delivery store promises | |
| `DeliveryStore` | the delivery part of the store | implements `DeliveryLifecycle` |
| `FiniteLemmas` | lemmas about finite sets, least numbers and sums, for the proofs | |
| `<M>_proofs` for `DeliveryStore`, `Admission`, `Forwarder`, `Cards`, `AuditPoller`, `Outbound`, `Onboarding` | theorems about `<M>` | `<M>`, `FiniteLemmas` |
| `Archive` | files, directory sync, lock | |
| `DurableInbox` | abstract: what the service promises its senders | |
| `Admission` | handlers, poller's `admit`, recovery, process | `DeliveryStore` and `Archive`, implements `DurableInbox` |
| `Forwarder` | the worker for ordinary items | `DeliveryStore` |
| `Workflows` | pure operators: `UpsertWorkflow`, the rank test | |
| `Cards` | the worker for one status card in its chats | `Workflows`, `DeliveryLifecycle` |
| `AuditPoller` | the poller, its client's pages, the log | |
| `RateLimit` | slots and cooldown | |
| `LarkClient` | calls over the token cache | |
| `Subscriptions` | subscription commands and their reply claim | |
| `Outbound` | what the process sends to Lark | `RateLimit`, `LarkClient`, `Subscriptions` |
| `Onboarding` | forms and callbacks of one user, with time | |
| `MC*` | instances for TLC | |

### DeliveryStore

`states`, `queue`, `dead` are the buckets, functions from delivery identity or sequence
number to records; `next`, `count`, `bytes`, `deadCount`, `deadBytes` are the keys of
`meta`. One action per method, with the code's guards: `Admit` (the `admit` behind Admit
and AdmitToChats), `AdmitArchiveOnly`, `FinalizeArchive`, `CompleteChatDelivery`,
`Delete`, `HandleFailure`, `RequeueDeadLetter`, `Open`. Methods that return an error or
a duplicate without writing are the predicates `Known`, `Conflicts`, `QueueFull`.
`Next` lets callers act on items `Due` can have handed out (`Sendable`).

Abstracted: an event with its body is one payload (the code compares event and
SHA-256 digest); the encoded size of an item is `PayloadBytes` plus `ChatBytes` per
chat (`activeItemBytes`), and a dead letter is taken to be as large as its item
(in the code it also holds the error text and a time); `NextAttempt <= now` is the flag
`due`, the stored cooldown instant the flag `cooldown`.

`DeliveryLifecycle` has no buckets at all: a phase, the content and the open targets
of each delivery. `LifecycleSpec` is the refinement.

### Archive and Admission

`files[d]` is the payload linked under the delivery's directory, `synced` the deliveries
whose directory was synced since, `lock` the holder of `storeMu`. A power loss takes
any set of unsynced links (`Lose`); a process crash takes none. Temporary files never
show under the final name, so they are left out; the disk-space check is one of the
failures.

`Admission` runs `Workers` requests at a time through the steps of `ServeHTTP`
(lookup, verify, reserve, admit, publish, sync, finalize), each step one transaction or
one file operation. The GitHub handler, the GitLab handler and the poller's `admit` take
the same steps; `Source` tells them apart where they differ (`Targets`, `IsArchiveOnly`,
`LosesError`). `LosesError` is the GitLab handler's redeclared `err` (see Findings).
`recoverPending` is a process of its own with the steps store, sync, finalize; at startup
its success opens the servers and its failure ends the process. `Forward` stands for
the worker. Requests that are refused before anything is written are not actions.

`DurableInbox` states the promise without handlers, locks, files or crashes: a delivery
is confirmed to its sender or passed on only when it is retained with the payload it was
recorded with. `InboxSpec` is the refinement.

### Forwarder

`worker` is the position in `Run`, `round[c]` the items read by `Due` that have not been
tried on chat `c`, `answer` the answer to the message just sent. `Collect` is `Due` and the
grouping by chat, `Batch` is the prefix `splitWithLookup` cuts, `Send` and `Record` are the
two halves of `sendBatchToChat`, with `AnswerLost`, `RecordFails`, `ReserveFails` and
`Crash` in between. `Arrive`, `Archived` and `Requeue` are the other users of the store.
History: `wanted[d]` (admitted targets) and `sent[d][t]` (messages received).

### Workflows and Cards

`Workflows` has `UpsertWorkflow` as an operator on a state record, in the order of the
code: acceptance, new attempt, status, check; and `PipelineAdvances` with its ranks.
Times are numbers. `Cards` runs the events of one card through the worker: `Begin` copies an item
with its chats; for each chat in order `Take` or `Drain`, then `Create` or `Update`, `Unreact`,
`React`, each followed by its record, then `Complete`. `continueRound` is `NextChat`: a failure on
one chat is counted on the item, may make it a dead letter, and the next chat is served from the
copy all the same; only a Retry-After (`Limited`) leaves the others for later. `current` says
whether the copy's sequence number still is the delivery's (a requeue gives it a new one).
`ReserveFails` is a slot that cannot be reserved: see Findings. The queue is `DeliveryLifecycle`, the specification the store is proved to
implement; a retry may come at any time. History: `unrecorded` (chats and kinds of requests, a
created message, an added or a removed reaction, that Lark carried out while the answer or its
record was lost).

`Histories` are the events a card may have; any of them may arrive, in any order. Events are what
the two parsers make of payloads (`HistoriesAssumption`). For workflows `TimesAssumption` adds what
GitHub's times say: a rerun is later than the attempt before it, and no event of an attempt is
later than the one that concludes it. Without it no rule on attempts and times could tell which
of two events is the newer one; only `NewestWins` uses it.

### Onboarding

One user. The worker's part is `Take`, `Create` or `CreateFails`, `Record`, `DeleteItem`
(`sendOnboarding`); Lark deduplicates creates by the UUID made of the `open_id` for as long as
it remembers it (`ForgetUuid`). A callback is a record `req[r]` that goes through
`processOnboardingCallbackOutcome`: `Claim` (or `Wait` for, or `Replay` of, another's result),
`Check`, `Reserve`, `AskGithub`, the answer, `Bind`, `Persist`, `Reply`. `GiveUp` is every
error that ends it without a result, above all its context being done: that can happen at
any time, since a caller may hang up. Archiving the callback is one step with `Start`; its
interleavings are those of `Admission`.

Time is a counter that may advance between any two steps. A method that gets `time.Now()` as an
argument uses a time between the start of its step and the transaction (`Now`), because it waits
for the writer; `contextCommitErr` is evaluated inside the transaction (`InTime`). A commit
counts as done at its check: it may take longer than the guard, but it holds the writer
meanwhile, so no other update comes between. History: `lookedUpAt`, `everBound` and, per
request, `held` (logins stored while it was running).

The properties turn on the budgets. A claim is taken over after `Budget`, when its holder
can no longer commit, hence `ResultIsFinal` although `Persist` overwrites. The mapping is not
compared with newer submissions; that a late one cannot undo a newer one
(`LatestValidationBinds`) rests on `Budget < Cooldown`, which `BudgetsAssumption` states.
Lookups can be up to `Budget - ResultBudget` closer than the cooldown, because the
cooldown is counted from the reservation and not from the request to GitHub
(`LookupsSpaced`).

### AuditPoller

The log is `created[r]`, the time each record carries, and `visible`, what the API lists: a record
may be listed up to `VisibilityLag` after its time. `Begin` reads the clock and the checkpoint,
`FetchPage` reads one page of the query of that moment behind the last record seen, so that the
log may grow, and show older records, between pages. `Skip`, `Admit` and `Refuse` deal with the
records in order; `Progress` is the three durable steps of `admit` (their interleavings with
other requests are `Admission`), which `Recover` may finish. `PollFails` is every other error at
any step; `undated` and `amended` are the records whose admission fails at every poll
(`errBootstrapTimestamp`, `ErrDeliveryConflict`).

### RateLimit, LarkClient, Subscriptions, Outbound

Times are what remains or ages, so that the state space is finite without a bound on the clock:
`rate[a]` slots of age `a`, the rest of the cooldown, of the cached token's noted expiry
(`tokenLeft`) and of Lark's own (`accepted`). Reserving and reporting callers read `time.Now()`
before they wait for the writer; `lag` is how long ago. In `LarkClient` a call goes through
`TakeCached` or `Fetch`/`Fetched`, `Answered` or `Refused`, and once through `InvalidateToken`;
the mutex is `tokenMu`, and token values are numbers that are used again. `Subscriptions` is
`subscribeAndReply` for deliveries of one command. `Outbound` composes them: the worker
reserves, calls and reports for ever; confirmations call without a slot and their results are
only logged. History: `sent` (calls made under a slot, by age), `rest` (what remains of a recorded
Retry-After), `revoked` (tokens Lark withdrew), `confirmations`.

`WithinLimits` allows one more than the limit: a slot may be given out at the end of one window
and its request reach Lark in the next.

## Runs

| Run | Instance | What it asks | Distinct states |
| --- | --- | --- | --- |
| `delivery_store` | 3 deliveries, 2 payload sizes, 2 chats; queue of 2 items or 6 bytes, one dead letter; 2 attempts, 3 sequence numbers | store invariants, `LifecycleSpec` | 105,286 |
| `admission` | webhook and audit delivery, 2 payloads (one archive-only), 2 requests in flight, queue of one item, 3 faults, fair | durability, conflicts, `InboxSpec`, `EventuallyArchived`, `EventuallyServing` | 187,211 |
| `gitlab_orphan_blocks_recovery` | GitHub and GitLab delivery, no fault, fair | violation, see Findings | |
| `forwarder` | 2 deliveries, 2 chats, two line sizes, messages of two lines, one dead letter, 2 disturbances | at least once, duplicates, stale round, `StoreSpec` | 1,283,310 |
| `forwarder_settles` | one item per round, one disturbance, fair | `EventuallySettled` | 142,986 |
| `cards` | a failed run with its check and its rerun, a run whose check ends after a run event that may come late, a run that succeeds, fails and succeeds, a failed and a cancelled pipeline that are retried, a run and a pipeline in two chats; events in any order, 2 attempts, one disturbance | cards and reactions at the end, `NewestWins`, `NoRegression` | 1,121,569 |
| `card_drained_retry` | a pipeline, one rejected request, nothing else | violation, see Findings | |
| `card_stale_check` | a check of the first run, then the rerun | violation, see Findings | |
| `onboarding` | 2 submissions with different logins and their redeliveries, 2 goroutines, one crash, 7 ticks | one result, newest validation, spacing, current card | 4,884,946 |
| `onboarding_form` | one entered event, 2 attempts, 2 forms, a valid and a malformed submission, one crash, fair | `OneForm`, `CallbacksEnd`, `FormDelivered` | 233,014 |
| `audit_poller` | 3 records, pages of one, clock to 3, overlap and lag of 1, one unfit record, one fault, fair | `NoReplay`, `NothingMissed`, `EventuallyAdmitted` | 549,317 |
| `outbound` | the worker and 2 deliveries of a command; windows of 1 and 3 ticks with 1 and 2 slots, tokens of 2 ticks with a margin of 1, Retry-After of 1 or 2, one fault | limits, cooldown, token cache, one confirmation | 3,958,180 |

### Bounds

Every bound is a constant: `SequenceBound` and `AttemptBound` (numbers the code never
limits), `FaultBound` and `DisturbanceBound` (crashes, errors, lost answers), `RecordBound`, `Horizon` and
`OddityBound` (the audit log), `LagBound` (the wait for the writer), `Workers` (the in-flight limit). They are small but let the interesting cases meet:
two deliveries compete for one queue slot or one dead letter, the byte limit binds
before the item limit and the other way round, a batch has an exhausted and a fresh
item, an item has one chat served and one failing, two requests for one
delivery with different payloads are in flight together with recovery, and a fault
can hit the repair of an earlier fault. The model of a third party of each kind
repeats these situations.
In `onboarding` the ticks are scaled: a budget of 3, of which the last one is the commit guard and
the last two are kept from the lookup, and a cooldown of 4. With 7 ticks a second validation
fits after the first one's cooldown, while the first request's goroutine may still be there.

In `outbound` a window of one tick with one slot and one of three ticks with two is the least
that tells the two apart: two slots fit the long window only in different short ones, and the
long window closes while the short one is open. A token of 2 ticks with a margin of 1 is used,
renewed and refused within one long window; four token values let Lark issue one that is new when
one is cached and two callers hold others. In `audit_poller` an overlap equal to the lag is the tightest the
assumption allows, and with pages of one every record may come between two pages. In `cards` two
attempts and two chats make an item a dead letter while its second chat is still served.

Symmetry is used for deliveries, chats, workers and requests in runs without liveness properties;
payloads and numbered chats are not symmetric.

`CHECK_DEADLOCK FALSE` is set in the worker, card and onboarding runs: once everything is
delivered, the clock has ended and the disturbances are used up, nothing is left to do.

### Fairness

`Admission!Fairness`: a handler that has begun and recovery, which a ticker calls, get
the archive lock in turn, because waiting receivers of a Go channel are served first
come, first served (strong fairness of `WorkerStep(w)` and `RecoveryStep`); systemd restarts
the service (`Restart=on-failure`, weak fairness of `Start`). No request has to
arrive. `Forwarder!Fairness`: the loop of `Run` goes on, `NextAttempt` and the end of a
cooldown come, the supervisor restarts a dead process. A worker that has stopped inside
a living process is not restarted, because nothing in the code does; `EventuallySettled`
names that way out. `Onboarding!Fairness`: the worker and every goroutine go on, time
passes, and a goroutine whose budget is spent notices it (every wait of the code selects on its
context). Nothing is assumed of callbacks, hung-up callers or storage errors.
`AuditPoller!Fairness`: GitHub lists its records, the poll's ticker and retry timer come back and
a poll that has begun goes on (weak fairness of `PollStep`), the supervisor restarts the process.
Failures are bounded by `FaultBound`; records that fail every poll are not, and
`EventuallyAdmitted` names them.

## Proofs

Every theorem holds for all values of the constants that the module's named assumptions allow, and
is proved from those alone: `ChatAssumption` and `LimitsAssumption`, `SizeAssumption` (finite chats,
limits and sizes are numbers, at least one attempt), `ChatOrderAssumption`, `StoreAssumption` and
`DisturbanceAssumption` (the worker's chats have an order, its bounds are numbers),
`HistoriesAssumption`, `AttemptsAssumption` and `TimesAssumption` (the events of a card),
`WorkerAssumption`, `FaultAssumption`, `BoundAssumption`, `LatencyAssumption`, `TokensAssumption`,
`KeyAssumption`, `BudgetsAssumption` and their like. Each safety theorem rests on an inductive invariant (`IInv`, or `Inv` in the store's
case) that TLC checked on the run's instance first; one lemma per action shows that it is
preserved, and a temporal step combines them. What each invariant adds to the properties is what
the steps rely on:

- `DeliveryStore_proofs`. `StoreTypeOK`, `StoreRecordsAgree`, `StoreRawUntilArchived`,
  `StoreItemAccounting`, `StoreByteAccounting` need each other: that a completed batch leaves
  `delivery_state` and `queue` in agreement follows from each queue entry being owned by the
  delivery that points back at it; that an archived item has no raw copy left needs the entry's
  flag to be the delivery's; counters equal cardinalities and sums because buckets are finite, and
  `Delete`, which adjusts its counter, needs it to be right before.
  `StoreImplementsLifecycle`: every step of the store is a step of `DeliveryLifecycle` or leaves
  its variables alone. The refinement mapping reads each delivery's targets through its sequence
  number, so the proof uses `RecordsAgree`. Retries, `Open`, `FinalizeArchive`, `BecomeDue` and
  `CooldownEnds` are stuttering.
- `Admission_proofs`. A request goes through several transactions and file operations, and others
  come between; `RequestsOK` and `RecoveryOK` say of each step what an earlier one found out
  and what still holds when it is taken: a lookup's record is still the record, whatever is
  published is what was verified or reserved, a payload to be confirmed is durable
  already. `LockOK` names the steps that own the archive lock. `AdmissionTypeOK` and `AdmissionAckedIsDurable` hold for all senders,
  the one whose error is lost included. `AdmissionKeepsDeliveries` is per delivery: if no payload of
  it can come from a handler that loses the error (`Kept`), its file is its recorded payload.
  `AdmissionArchivedIsDurable`, `AdmissionFilesAreRecorded` and `AdmissionImplementsInbox` are
  stated for configurations in which every delivery is of that kind (`EveryErrorHeeded`): the first
  finding is the only obstacle, and `gitlab_orphan_blocks_recovery` shows that it is one.
- `Forwarder_proofs`. The worker's store is the store of `DeliveryStore_proofs`: its theorems are
  used through an instance `S`, and `ForwarderImplementsStore` shows that the worker takes the
  store's steps only, with batches of archived items. `WorkInv` is about the time between the
  answer to a message and its record: an item is *taken* when Lark has it and the store does not
  know. A taken item was sent; one that is owed, waiting or in the round, and not taken was sent
  at most once for each disturbance so far; what the round holds for a chat is owed to that chat,
  in the queue or in the dead letters. `ForwarderNothingSkipped`, `ForwarderDuplicatesExplained` and
  `ForwarderRoundIsOwed` follow for any number of chats, batch limits and item sizes.
- `Cards_proofs`. Three parts. `LarkOK`: at every moment a chat is still owed an event, or its
  message shows its state, or the creation of its message was never recorded; the same of
  reactions. `SeenOK`: what the copy of the state, read once per event, is worth at each step
  between the requests and records that follow. `OriginOK`: a chat's status stems from an event
  that no other event the chat has seen beats. The last is where the code's rules on attempts,
  times and ranks meet: an event that is refused must not beat the origin, and one that is
  accepted must either become the origin or leave it (a check only moves the time; an event as
  late as the conclusion does not take it back). `CardsNewestWins`, `CardsNoRegression`,
  `CardsWorkflowCardShowsState` and `CardsReactionShowsState` follow for any events in any order, any
  chats, rejected requests, lost answers, crashes, dead letters and requeues.
- `AuditPoller_proofs`. `PollerNoReplay`, `PollerNothingMissed` for every overlap of at least the
  lag, every page size and every number of records. `NothingSkipped` is the strengthening: a
  record that would be too old to be listed again, were the poll's checkpoint stored
  now, has been archived, predates the bootstrap, waits to be admitted, or lies behind the cursor.
- `Outbound_proofs`. `OutboundWithinLimits` counts: every call under a slot in a window is paired
  with a slot of that window or is the one under way (`SlotsCoverSent`), and at most as many slots as the
  limit are handed out (`SlotsLimited`). `OutboundRests` needs that a stored cooldown covers what
  remains of the Retry-After (`RestOK`), `OutboundCachedTokenIsGood` that the noted expiry is
  behind the real one by the latency at most (`CacheOK`), `OutboundGoodTokenIsKept` that a token known to
  be refused stays refused (`TokensOK`), `OutboundRepliesOnce` that a claim outlives its
  confirmation (`ClaimOK`).
- `Onboarding_proofs`, from `BudgetsAssumption` (guard < result budget < budget < cooldown) alone. The
  induction says which request may still act: one that is *in time* and holds the claim of its
  delivery finds the claim's pending time unchanged (`HoldOK`), one that is in time
  and has reserved a validation has the time of the last one (`TicketOK`), and no two requests
  in time share either (`Alone`), because a claim is taken over after `Budget` and a validation
  reserved after `Cooldown`, when the former holder is out of time. From it follow
  `OnboardingResultIsFinal`, `OnboardingLatestValidationBinds`, `OnboardingLookupsSpaced`,
  `OnboardingCardIsCurrent`, `OnboardingSuccessIsBound`, `OnboardingOneForm`.

`FiniteLemmas` holds what these proofs need of data. The provers cannot use an induction theorem
with an operator as its parameter; its lemmas argue with a minimal counterexample instead (`MinimalSubset`,
`LeastNatural`, `GreatestNatural`), which is how sums over buckets are proved to change by what is
added, changed or taken away.

Only model-checked: all liveness properties (`EventuallyArchived`, `EventuallyServing`,
`EventuallySettled`, `CallbacksEnd`, `FormDelivered`, `EventuallyAdmitted`: liveness under fairness is out
of the provers' reach) and the runs that show a violation. Every invariant a passing run checks
and every action property that is a safety property is the statement of a theorem as well.

## Findings

1. *GitLab admission errors are lost* (`internal/gitlabwebhook/handler.go:156-162`). `targets,
   err :=` opens a new `err`; the check after the block sees the outer one. A full queue
   leaves a payload in the archive without a record, which can block recovery of a later
   delivery of the same identity for ever and keep the service from starting
   (`gitlab_orphan_blocks_recovery`). By the same slip a conflict that arises after the lookup is
   answered with 202 instead of 409: `FilesAreRecorded` would fail in that instance too.
2. *A rejected pipeline update is never repeated* (`internal/forwarder/gitlab_pipeline.go:189-198`).
   The state is stored first; the retry is then taken for a stale duplicate
   (`card_drained_retry`).
3. *A check of an earlier attempt can survive on a rerun's card* (`internal/store/store.go:1092`)
   when no run event of that attempt was seen (`card_stale_check`).

`FilesAreRecorded` is therefore checked for GitHub and audit deliveries, `WorkflowCardShowsState`
and `ReactionShowsState` for GitHub cards.

Found on the way, without a run of their own:

4. *A request after a failed reservation* (`internal/forwarder/workflow.go:207-210`,
   `onboarding.go:73-76`). When `ReserveRequest` returns an error, `workflowFailure` counts a
   failure and returns `continueRound`, which the caller takes for a reserved slot: the request
   is sent without one, for an item that may just have become a dead letter. `Cards`, `Onboarding`
   and `Outbound` model it (`ReserveFails`); their properties hold nevertheless, the limits
   only for calls that have a slot.
5. *Requests outside the limits.* `README.md:126` says outbound limits are preserved across
   restarts. Confirmations of subscriptions (`receiver.go:306`) and the repetition after a
   refused token (`client.go:191-193`) reserve no slot, and the Retry-After of a confirmation is
   only logged, so it creates no cooldown. Hence `WithinLimits` and `RestsDuringCooldown` speak of
   calls made under a slot, `RepliesOnce` bounds the confirmations.
6. *A cancelled pipeline that is retried and succeeds.* Its success has a lower rank than
   `canceled` (`gitlab_pipeline.go:59-68`): taken in order, it is drained as stale and the card
   stays cancelled; taken the other way round, the success stays, since `UpsertWorkflow` refuses
   the older `canceled`. `NewestWins` therefore only asks for an event with none newer in both
   stage and time; `README.md:105` promises the final state.
7. *An attempt per chat.* An item that goes to several chats counts an attempt for each chat that
   fails, so with two failing chats `MAX_ATTEMPTS` is used up in half the rounds.
8. *A reaction that is removed without a record* (`internal/forwarder/workflow.go:162-171`). If the
   answer to the removal is lost, the state still names the reaction. The retry takes the state
   again, and if the next event to be taken brings the same conclusion back, reaction and
   conclusion agree and nothing is added: the message is left without one. `ReactionShowsState`
   names that way out; it first failed without it, when a run succeeds, fails and succeeds.
9. *A check makes an earlier run event late* (`internal/store/store.go:1051-1104`). A check raises
   the stored time of its run, so an event of the same attempt that is older than the check, but
   newer than the stored status, is refused when it arrives after the check. `NewestWins` excepts
   such events (`Outdated`); the next event of the run puts the card right.

## Not modelled

Formatting, configuration, metrics, GeoIP and the GitHub user lookup are pure or read-only.
Authentication and header checks refuse requests before any state is touched. The archive's
`MarkAccepted` and `Pending` and the store's `Enqueue` have no caller outside tests.
In `Cards` dead letters always have room (`DeliveryStore` has the case that they do not). The
deduplication index is written by `Enqueue` only. The archive lock, which a first delivery of a
subscription command keeps while its confirmation is sent (`receiver.go:286`), is not in
`Outbound`: a delay for other admissions and not a deadlock, because nobody who holds `tokenMu`
waits for the archive. That a form may be submitted before its message is recorded, and is
refused then, is part of `onboarding_form` but no document promises otherwise.

## Plan

Done, in this order: `DeliveryStore` (every other component goes through it) with
`DeliveryLifecycle` and the proofs; `Archive` and `Admission` with `DurableInbox`; `Forwarder`;
`Workflows` and `Cards`; `Onboarding`; `AuditPoller`; `RateLimit`,
`LarkClient`, `Subscriptions` and their composition `Outbound`; several chats in `Cards`.

Next modules: the event path of the Lark receiver in `Admission` (`Admit` for entered events,
`AdmitArchiveOnly` for the rest), the deduplication index (`Enqueue`, eviction, cleanup, rebuild).

Next theorems: the ones still missing are about the planned modules. Of the present ones a
statement on the checks a card lists (a check is replaced by a newer one of its identity only)
and type invariants for `Outbound` and `Onboarding` would be worth adding.
