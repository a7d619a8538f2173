# PulsePress in TLA+

PulsePress is a publishing platform with paid subscriptions and gifts. A FastAPI
service takes the commands, commits each business change together with an
*outbox* row in one PostgreSQL transaction, and never writes the ledger. A worker
publishes the outbox to an event bus, receives the events back through an SQS
queue, and applies their effects (receipt, ledger transaction, daily statistics)
exactly once, although the bus and the queue deliver at least once and both
processes may die at any point. This directory models that behaviour in TLA+,
checks it with TLC on small instances, and proves its main safety properties
with TLAPS for every number of workers, events and rows.

## 1. Inventory

| Part | Source | State it keeps | Operations |
|------|--------|----------------|------------|
| Worker event processing | `apps/worker/pulsepress_worker/processor.py`, `queue.py` | `event_processing_attempts`, ledger tables, `publication_daily_stats`, gift status, receipt objects | receive, claim, prepare, put receipt, handle, record failure, delete message |
| Worker outbox poller | `apps/worker/pulsepress_worker/outbox.py` | `outbox_events` | enqueue, select `FOR UPDATE SKIP LOCKED`, publish, mark, retry, give up |
| Commerce services | `apps/api/app/services/commerce.py`, `idempotency.py`, `outbox.py` | `subscriptions`, `gift_transactions`, `idempotency_keys`, `outbox_events` | subscribe, change tier, cancel, gift, replay |
| Money | `apps/api/app/domain/money.py`, `_Bill` of the worker | none | compute a bill, accept a bill |
| Publishing | `apps/api/app/api/publishing.py` | `publications`, `posts`, `post_versions`, `outbox_events` | create, update, archive, publish, read with entitlement |
| Receipt stores | `apps/worker/pulsepress_worker/adapters.py` | files or S3 objects | write-once put: open, write, put if absent, compare |
| Queue and bus | `infra/terraform/modules/messaging`, `adapters.py` | messages, receive counts, dead-letter queues | deliver, hide, redrive |
| Local worker loop | `apps/worker/pulsepress_worker/main.py` | the in-memory list of published events | poll, take the list, process, sleep |
| Identity | `apps/api/app/auth`, `api/router_local.py` | `users` | verify a token, create the user on first sight, register, log in |
| Web session | `apps/web/app/components`, `lib/api.ts` | token in session storage, React state | log in, log out, revalidate |
| Plans | `apps/api/app/api/plans.py` | `subscription_plans` | create |
| Seeds, schemas, Terraform, CI | the rest | | no interleavings of their own |

### How the parts interact

* **API → outbox.** Every command of the API is one database transaction that
  writes its rows, its idempotency record and an `outbox_events` row together
  (`services/commerce.py`, `api/publishing.py`, `services/outbox.py`). The API
  never calls the worker.
* **Outbox → bus → queue.** The worker's poller selects due rows under row
  locks, publishes them one by one and marks them in the same transaction. The
  bus copies an event into the SQS queue, or into a dead-letter queue of its own.
* **Queue → effects.** A consumer receives messages for a visibility timeout,
  processes them one after the other in up to four database transactions with an
  artifact store call in between, and deletes a message only when its event has
  succeeded. A message received too often moves to the dead-letter queue.
* **Effects → outbox.** The worker commits events of its own
  (`ledger.transaction.recorded`, `event.processing.failed`) to the same outbox.
* **Local mode** has no bus and no queue. The publisher appends to a list in
  memory, and the loop of the process hands the list to the processor.
* **Browser → API.** The client keeps a token in the session storage of a tab
  and what it says of the user in React state; it changes them in the callbacks
  of requests.

### What is hard

* Two workers hold one event: leases run out while their holder still works,
  and rows are claimed with a clock that was read before the row was locked.
* Each of the four transactions of a delivery may commit and look failed, or
  fail and be swallowed; the process may die between any two of them.
* Publication and marking are not atomic; neither are the receipt and the
  ledger; neither are the effects and the deletion of the message.
* The receive count of the queue and the attempts of the database count
  different things, and the visibility timeout and the lease start at different
  moments.
* API requests run at READ COMMITTED and lock nothing when they read. What they
  decided on may have changed when they write; only unique indexes and the row
  locks of `UPDATE` order them.
* A put of a receipt is several calls of a store. A crash leaves a file half
  written, and the answer of a put to S3 may be lost.
* In local mode a row is marked published before its event is processed, and the
  event is nowhere but in memory: a process that ends takes it along.
* A retry with the same idempotency key may run beside the first request.
* Rounding to cents three times must still add up; columns have a width.
* Answers reach a page of the browser in any order, after the user has signed
  out, or after a frozen page has been restored.

### What makes each part correct

| Part | Correct when | Stated as |
|------|--------------|-----------|
| Event processing | effects of an event exactly once, whatever is redelivered; one ledger transaction per subscription or gift; one notice for a terminal event; nothing deleted before it is done | `EffectsExactlyOnce`, `OneLedgerTransactionPerSource`, `ReceiptBeforeLedger`, `OneNoticePerTerminalEvent`, `DeletedOnlyAfterSuccess`, `TakeoverOnlyAfterLease`, refinement of `EventOutcome` |
| Receipt stores | a receipt appears whole, once, and is accepted when it is there; a half-written file is refused and never named by the ledger | `StoresKeepPromise`, `ReceiptBeforeLedger` |
| Outbox | no row lost or taken twice; duplicates only after faults; the attempts at a row as far apart as the backoff demands, whoever makes them; every row settles | `PublishedWasSent`, `DuplicatesNeedFaults`, `RetriesAreSpread`, `EveryRowSettles` |
| Way of an event | a published event is somewhere until it is done; its outcome is announced as it is; few faults lose nothing | `NothingLost`, `OutcomeAnnounced`, `EveryEventAccountedFor`, `FewFaultsLoseNothing` |
| Local worker loop | nothing is handed over twice; only what a process that ends has in hand is lost; otherwise every event is applied | `HandedOverOnce`, `LossesNeedDeaths`, `LocalEventsSettle` |
| Commerce | one active subscription per user and publication; a key pays once and answers alike; events tell what the rows tell, and the worker accepts them late; no circular wait; a paid period is honoured; only overlapping requests cancel twice or leave an amount that does not fit its plan | `OneActivePerPair`, `OneEffectPerKey`, `AnswersAgree`, `EventsMatchRows`, `CreatedEventsAccepted`, `NoCircularWait`, `PaidPeriodIsHonoured`, `SecondCancelOverlaps`, `MisfitNeedsOverlap` |
| Money | rounding to the nearest cent, a bill the worker accepts, days that reconcile with the ledger | `BillsRoundHalfUp`, `BillsAcceptable`, `DaysReconcile` |
| Publishing | one event per post, of a committed version; status, version and event agree; no way back to a draft | `OneEventPerPost`, `EventTellsVersion`, `PublishedIsComplete`, `NeverDraftAgain` |
| Catalog | unique handles and users, gapless suffixes, collisions only between requests that overlap | `SuffixesHaveNoGaps`, `OnlyOverlapsCollide` |
| Web session | a stored token is used; a page without one is signed in by late answers only; the spinner ends | `TokenIsUsed`, `OnlyLateAnswersHaunt`, `SpinnerEnds` |

## 2. Modules

| Module | What it is | Lines of code it stands for |
|--------|------------|-----------------------------|
| `EventProcessing` | the worker's deliveries | `processor.py`, `queue.py` |
| `EventOutcome` | its abstract promise: all effects of an event in one step, a verdict for ever | |
| `ReceiptStore` | the two artifact stores, call by call | `adapters.py` |
| `StoredProcessing` | `EventProcessing` with such a store in place of `PutReceipt` | `processor.py`, `main.py` |
| `Outbox` | the poller and its table | `outbox.py` |
| `OutboxHistory` | extends it with a memory of the recorded failures of each row, and says how far apart they are | |
| `WorkerProcess` | composes the two (`INSTANCE`): what a process does in either mode, with one database, clock and bound on faults | `processor.py`, `outbox.py`, `main.py` |
| `Pipeline` | extends it with bus, queue, redrive and the loop of the cloud | `main.py`, `adapters.py`, Terraform of the queue |
| `LocalWorker` | extends it with the list and the loop of local mode | `main.py`, `adapters.py` |
| `Commerce` | the four commerce operations | `services/commerce.py`, `idempotency.py` |
| `Membership` | extends `Commerce` with time, the entitlement check of the reads and the count of the summary | `api/publishing.py`, `commerce.py` |
| `Money` | the bill, the ledger's columns, the day's statistics | `domain/money.py`, `processor.py` |
| `Publishing` | edit, publish, archive | `api/publishing.py` |
| `Catalog` | users, publications, plans, posts: look first, insert later | `api/publishing.py`, `plans.py`, `auth/dependencies.py`, `router_local.py` |
| `WebSession` | the session of one browser tab | `AuthProvider.tsx`, `RouteGuard.tsx`, `api.ts` |
| `*Proofs` | theorems about the module of that name | |
| `MC*` | instances for TLC | |

`PROJECT.json` maps every definition to its lines. An operator introduced by a
comment that begins with "Mutant" is a plausible bug and is used by no
specification; it shows that a property notices the bug.

### State and actions

**EventProcessing.** `attempt[e]` is the row of `event_processing_attempts`
(`lockedUntil = 0` is NULL, `status = "none"` no row). `worker[w]` is what a
worker is doing: `claiming` (the clock is read, `_claim` has not begun its
transaction), `claimed`, `prepared`, `ready`, `failing`, `acking`. Every action
is one transaction or one call of the store: `Claim` is `_claim`, `Prepare` the
transaction of `_prepare_receipt`, `PutReceipt` the artifact store, `HandleCommit`
and `HandleAbort` the handler transaction, `RecordFailure` is `_record_failure`,
`Delete` the deletion by the consumer. `ClaimError` is a transient error of `_claim`,
before or after its commit: the consumer catches it and goes on with its batch
(`queue.py:40-44`), the local loop does not and ends. Transactions are single steps because each
takes the row lock before it reads. An error is possible wherever the code has a
call that may raise, also after the commit whose acknowledgement it loses. The
payload of an event is its kind and its source; the order of the ledger rows and
the content of the receipt are left out. `Receive` gives any event to any idle
worker at any time: the queue of this module is the most general one, and
`Pipeline` replaces it.

**ReceiptStore, StoredProcessing.** `object[e]` is the receipt of an event
(absent, half written, whole), `call[w]` where a worker is in `put_receipt`. The
file store creates the file (`OpenFile`), writes it (`WriteFile`), or reads and
compares the one it finds (`Compare`); S3 puts if the key is absent (`PutObject`)
or reads and compares. The key and the contents of a receipt are functions of
its event, so a comparison can only find the same object or a file cut short.
Each step tells the worker "more", "ok" or "error"; `StoreReceipt` joins it to the
step of the worker, and `receipts` are the whole objects. `StoresKeepPromise` says
that with either store every step is a step of `EventProcessing`, which is why
`Pipeline` and `LocalWorker` use `PutReceipt`. There is one exception, and it is named:
a file that a crash has cut short refuses every later put of its key
(`RefusedByPart`), so that event ends terminal. S3 has no such state.

A stale worker is not kept out by its claim number: the handler transaction
compares the status of the row only, so a worker whose lease has run out may
complete the claim of its successor. The model has that behaviour, and
`EffectsExactlyOnce` holds with it. Likewise the failure of a stale worker
clears the lease of its successor (`processor.py:620-625`): this costs attempts,
never effects.

**EventOutcome** promises that the effects of an event appear in one step
(`Complete`) or that the event is given up with one notice (`GiveUp`), and that
neither is ever revised. `EventProcessing` implements it with
`verdict[e]` read from the row (`Outcome == INSTANCE EventOutcome WITH ...`).

**Outbox.** A poll is a transaction that stays open while it publishes, so it is
`Begin` (read the clock), `Select` (lock what is due, oldest first, skipping
locked rows), `PublishOk`/`PublishError` for each row of the batch, `Commit`. `sent`
counts what the bus has taken. The selection takes rows of the types in its
`IN` list only (`Routable`); `WellFormed` rows can be serialised.

**OutboxHistory.** The program keeps the time of the next attempt, not those of the
attempts made. `tries[r]` remembers, at each commit of a poll, when that poll had read
the clock, for every row whose failure it recorded; nothing else in the module differs
from `Outbox`. `RetriesAreSpread` compares the attempts themselves, so it does not
matter who computes the next time, from which clock, or who looks at it.

**WorkerProcess.** Everything a process can do to the database, one operator for
each: a command commits (`Commits`), a poll goes on (`Polls`), an event is handed to
`process_mapping` (`HandedTo`), which takes a step (`Works`) or returns (`Returns`), the
process dies (`Dies`). A ledger transaction and a terminal failure enqueue their own
events in the step that commits them (`FollowUps`); an event is the row of the
outbox it comes from, so these are rows too. `ProcessSpec` hands any event to any idle
processor: it is the abstract specification that both loops implement.

**Pipeline.** `turn[p]` is where a process is in `_run_aws`: poll once, receive
once, process the batch in order. `msg[<<e, n>>]` is the nth copy of an event
that the bus took: with the bus, in the queue with its `hiddenUntil` and its
receive count, deleted, or in one of the dead-letter queues. Deletion is by the
handle of the receive, which `handle[p]` keeps while its event is in hand.

**LocalWorker.** `published[p]` is the list of `LocalEventBridgePublisher`,
`current[p]` the copy that the loop works off. `Take` moves the one to the other
when a poll is over; `HandOver` and `LocalProcess` are `process_mapping`. Nothing catches
what it raises, so a delivery that fails ends the process and empties both lists
(`Ends`); somebody may start it again. `deaths` counts these ends. The rows of the
lost events are published and nobody applies them: `HandedOverOnce` shows that in
this mode nothing is ever retried, so no attempt becomes terminal and no notice is
written unless `max_event_attempts` is one.

**Commerce.** A request goes through `new`, `claimed` (the key is inserted and
locked), `checked` (everything it reads, and the decision), `written` (flushed,
row and index entries locked) and `done`. Blocking is by guards: `KeyFree` waits
for the transaction that holds the key, `Blocked` for the index entry or the row.
An update writes only the columns that differ from the row it has read
(SQLAlchemy's unit of work) over the row as it is by then. Any request may die,
and any answer may be lost.

**Membership** adds `clock` and the time a `create` reads. `period_end` is
fixed by the create, `access_until` is a copy of it, so both are `PeriodEnd`.
`Entitled` is what `_post_read_response` computes for a paid post,
`SubscriberCount` what `get_publication_summary` counts. `raced` is not in the
program: it remembers which requests committed while another one had read the
same row and was not over.

**Money.** `ComputeBill` and `Acceptable` are functions of the amount; the state
is what the API has charged and what the worker has written. A percentage is a
fraction of whole numbers; `MaxInt` is the width of a BIGINT, scaled down.

**Publishing.** A publish request reads the post (`Read`), looks for a version
(`Look`), flushes the version and the post, which takes the row lock (`Flush`),
looks for the event (`Decide`), and commits (`Publish`). Edits and archivals read and
then write the columns that differ.

**Catalog.** A request looks its user up, inserts it if need be, looks at what its
service looks at, and inserts. Each insert is committed by the statement after it,
so both are one step. `before[r]` remembers which requests were answered,
and had their user's row, when r was sent; it is the only variable that is not in the program.

**WebSession.** `doc[d]` is the React state of a document and its address, `calls[d]`
the requests it has in flight, `token` the session storage. Signing in,
revalidation, signing out, redirection, a full page load, and going back to a
document that the browser has frozen are actions; every callback is one step.
Whether a token is valid is the outcome of `/me`.

## 3. Runs

| Run | Instance | What it shows |
|-----|----------|---------------|
| `event_safety` | 2 workers with either store; 2 events of one gift and a free subscription; 2 attempts, lease 1, clock up to 3, 1 fault | effects, receipts, notices, deletions and leases; every step is one of `EventProcessing` and refines `EventOutcome` |
| `outbox` | 4 rows (the oldest malformed, the next unroutable), 2 pollers, batches of 2, 3 attempts, 1 fault, clock up to 14 | safety of the poller, the spread of the attempts and, under fairness, that every row settles |
| `pipeline` | a gift and the two events that may follow it, 2 processes, 1 fault, clock up to 3 | nothing is lost between outbox and effects |
| `pipeline_live` | a paid subscription and the event that follows it, 1 process, batches of 2, 1 fault, 3 receives, clock up to 20 | every event is accounted for; few faults lose nothing |
| `local_worker` | 2 processes, batches of 2; an event that is refused, a gift, and the event that follows it; 1 fault, any restarts | nothing is handed over twice, losses are bounded by ends of processes, and everything settles while none ends |
| `membership` | 8 requests in two scenes, see below; time may pass once | what commerce keeps consistent, that a paid period is honoured, and what only overlapping requests can do |
| `membership_summary` | the same | **violated**: see findings |
| `money` | 3 payments, 2 days, 6 amounts at the half cents and at the edge of a 6-bit column | rounding, acceptance, reconciliation |
| `publishing` | 6 requests about one post: 3 publications, an edit, 2 archivals (one by a stranger) | one event, of a committed version; no way back to a draft |
| `publish_archived` | the same | **violated**: see findings |
| `catalog` | 8 requests, 2 under way at once | handles, suffixes, collisions |
| `web_session` | 2 users, 2 documents of one tab, 2 requests in flight for each | token, ghosts, spinner |

### Bounds, and why they are enough

* `event_safety`: two workers give every overlap of a claim with its successor; a
  clock of 3 allows two takeovers, hence a claim beyond the last attempt. Of the two
  events of one source the first to commit wins; the other is refused before its
  receipt or in its handler, which is what happens to malformed and unknown
  events as well.
* `outbox`: with three attempts the delay of the malformed row doubles before it is
  given up. Three routable rows are one more than a batch, and the two rows that can
  never be published are the oldest: the limit cuts, and what does not get through
  comes first; a limit that cut before the rows are filtered would keep the two others
  from ever being published (`FirstOfTable`). A clock of 14 is more than the sum of
  the delays, and time passes only while a retry waits, so the bound never stops a row.
  The fault meets either well-formed row or a poll at any point. Two faults hold with
  three rows as well, in minutes; the safety properties are proved for any number.
* `pipeline`: a clock of 3 truncates time; safety properties only lose
  behaviours, those in which more time passes. The visibility timeout equals
  the lease, so either may end first.
* `pipeline_live`: liveness must not depend on the bound of the clock. Time
  passes only while something waits for it, and in this instance nothing waits
  any more at 12; the bound is 20. Three receives are two for the fault and one.
  A crashed receive, and a receive that finds the lease of the crash, are the two.
* `local_worker`: the refused event comes first in its batch and ends its process
  before the gift behind it; two processes overlap their polls; the one fault is a
  crash, a rolled-back poll or a transient error of a transaction.
* `membership`: the constraint `MCScenes` keeps the requests sent to one of two
  sets. The first is a subscription, its retry, a competitor, a change to the free
  plan, a cancellation and a gift with a reused key; the second is the
  subscription with two changes and two cancellations. No property relates a
  request of one set to one of the other only.
* `membership`: the unit of time is a period (`Period = 0`: a row pays for the
  unit its request read), so one tick ends it. Time passes between any two
  steps.
* `money`: the amounts are the ones where something changes: half a cent of fee
  (5, 25), just below and above half a cent of tax (6, 19, 56), the smallest
  gift (50), the largest amount of the column (63).
* `catalog`: two requests at a time are the collisions of two; three
  at a time hold as well, which takes too long for every day. Three suffixes
  are enough for three posts.
* `web_session`: two calls in flight let the answers of two users cross.

TLC checks for deadlock except in `money`, `membership`, `membership_summary`,
`publishing`, `publish_archived` and `catalog`, in which all requests end in the
end.

### Fairness

* `Outbox` (`HistoryFairSpec` states the same of `OutboxHistory`): both processes poll for ever (`_run_aws`), a poll runs to its commit or
  dies, time passes. Nobody must enqueue anything.
* `Pipeline`: a process goes on with its loop, the bus delivers what it took, the
  queue moves what was received too often, time passes; these are weakly fair.
  One action is strongly fair: a process that receives again and again while
  messages are visible gets some, in the end (SQS may return an empty or partial
  answer, but not for ever).
* `LocalWorker`: a process that runs goes on (weak fairness of each process's next
  step). Nobody must start a process again, and nobody must enqueue anything.
* `WebSession`: requests of the shown document are answered or fail, and effects run.
  The user need do nothing.

No other module states fairness, and no liveness property is checked without it.

## 4. Proofs

`tlapm` proves every theorem below from the assumptions on the constants that
the modules name (`ParametersAssumption`, `OutboxAssumption`, `ProcessAssumption`,
`PipelineAssumption`, `CommerceAssumption`, `MembershipAssumption`, `MoneyAssumption`,
`PublishingAssumption`, `CatalogAssumption`, `WebSessionAssumption`); TLC evaluates these in the runs.
They say what types the constants have; of Commerce, that a key belongs to one
user and that every create draws a new id; and of the processes, that there are
finitely many events and that each follow-up event is a row of its own, which no
command and no other event enqueues (`enqueue_worker_event` draws a new id).

* **EventProcessingProofs.** `SafetyInv` is inductive over `TypeOK`: exactly-once
  and one-notice are not inductive without `StageInv` (what a worker's stage says
  of its event: a receipt exists when a ledger handler is about to run, a
  worker that deletes has seen success). `EffectsHappenOnce`, `NoticesHappenOnce`
  and `DeletionIsSafe` follow. `ClaimsAreDistinct` and `LeasesAreRespected` have
  invariants of their own (claim numbers; the clock a worker has read is not
  ahead). `ImplementsOutcome`: every step is a `Complete`, a `GiveUp` or a stutter
  of `EventOutcome`; the refinement mapping is the one TLC checks. For
  `StoredProcessing`, `StoreInv` adds that a worker which has opened a file is alone
  in writing it and that nobody takes it for a receipt meanwhile. From it
  `StoresHonourPromise` maps every step of a store to a step of `EventProcessing` or
  to `RefusedByPart`, and `StoredSafety` and `StoredImplementsOutcome` carry the
  theorems over: their step lemmas are shared, one proof serves both specifications.
* **OutboxProofs.** `OutboxInv`: no row is in two polls, a poll knows what it
  saw (`PollsOK`), and each copy on the bus is a published row, a publication of a
  poll that is still open, or a fault (`CopiesOK`). `DuplicatesNeedFaults` is not
  inductive by itself because a copy is counted before its row is marked.
  `RetriesSpread` proves `RetriesAreSpread` of `HistorySpec`, which implements `Spec`
  since the history only watches. `HistoryOK` ties the memory to the row: the count
  and the next time of a failed row are those of its last remembered failure, and a poll
  that holds the row has read its clock after that time. The second part needs
  that nobody else commits the row meanwhile (`OnePollPerRow`).
* **CommerceProofs.** The invariant joins who holds a key (`KeyInv`), that a
  committed event comes of a finished request (`EventsAreDone`), what a request
  has read (`SeenInv`), and that two flushed or committed active rows never have
  the same user and publication (`PairInv`). `OneActivePerPair` needs the
  latter because the index decides at the flush, not at the commit.
  `WaitsAreNotCircular`: keys are taken before rows, and nobody holds a row while
  waiting for another.
  The same module proves `Membership`: with time every behaviour is still one of
  `Commerce` (`MembershipIsCommerce`), so its theorems hold there.
  `PaidPeriodsAreHonoured` needs that a charged row keeps a positive amount while
  nobody has moved it to a free plan (`ChargedHaveAmount`).
  `SecondCancelsOverlap` and `MisfitsNeedOverlap` rest on `RaceInv`: a request that has
  read a row either still agrees with it or has been overtaken, and then the pair is
  in `raced`.
* **WorkerProcessProofs** puts the theorems of the parts together, for any number of
  processes and events.
  * *Composition.* The invariants of `EventProcessing` and `Outbox` are kept by each
    other's steps, because the two touch only the clock and the faults in common, and
    a `FollowUps` row is a fresh row of the outbox. `ProcessInv` joins them with
    `OutcomeAnnounced`: an outbox row tells a ledger transaction or a terminal failure
    exactly when there is one (`ProcessSafety`). `ProcessesKeepPromise` carries the
    refinement of `EventOutcome` over. Every step of `Pipeline` and of `LocalWorker` is
    one of `ProcessSpec` or a stutter (`PipelineImplementsProcess`,
    `LocalImplementsProcess`), so both have these properties.
  * *Pipeline.* `NothingLost` is not inductive: it says nothing of a row that is still
    pending while its copies are out, and a deletion is safe only if the handle is
    of the event that has succeeded. `QueueInv` adds that a worker holds the handle of a
    copy of its event (`HandlesOK`), and that some copy of whatever the bus took stays
    until the effects are committed (`CopiesStay`). `PipelineLosesNothing` follows,
    since the outbox marks only what was sent.
  * *LocalWorker.* `HandedOverOnce` counts deliveries that have been and deliveries to
    come; inductive is `ClaimedOnce`, which says who is still to claim an event: one
    process at most, holding it in its list or in hand, and only if its row is published
    and no attempt was made. It needs `LoopOK`, which ties the list of the publisher to
    the rows its open poll has published: no two polls have a row in common, so no two
    lists do. `LossesNeedDeaths` needs besides that a process holds one batch at most
    (`HoldsABatch`); then the set of lost events grows by a batch per end, which is
    where the finite sets are counted.
* **MoneyProofs.** Rounding is to the nearest cent for every amount and
  percentage, the worker accepts every bill, and every day balances. For
  `DaysAreReconciled` the proof needs what a sum over a finite set is: `SumOver` is the
  fold of the community modules (`FoldIsSum`), the recursion behind it has a solution
  (`SumExists`), the order in which elements are taken does not matter (`SumAnyOrder`),
  and one more payment adds its share (`SumAdds`). The induction is on the size of
  a subset, by a counterexample of least size (`NatMin`, from the well-foundedness of the
  naturals). `SumInv` adds that the ledger is finite and of charged payments only; the
  set of payments itself may be infinite.
* **CatalogProofs.** `CatInv` says of each request what it has seen (`Keeps`).
  Whoever inserts has compared with everything that was answered before
  it was sent, and such rows do not change any more (`Grows`).
* **PublishingProofs.** `PubInv` is about the row lock: only a request with a version
  of its own finds no event, it holds the lock of the post from its flush to its commit
  (`OneHolder`), so what it found stays true (`DecisionHolds`). `OneEventPerPost` and
  `PublishedIsComplete` are inductive only together, since a request that found a
  version relies on that version's event. `SeenHolds` (a post that was read published
  still is) gives `PublicationsStay`.
* **WebSessionProofs.** `TokensAreUsed` by induction over the form of the documents,
  `GhostsAreLateAnswers` by inspection of the steps from it.

Model-checked only: liveness (`EveryRowSettles`, `EveryEventAccountedFor`,
`FewFaultsLoseNothing`, `LocalEventsSettle`, `SpinnerEnds`), which needs fairness and
`ENABLED`. Every other property of the passing runs is a theorem as well.

## 5. Findings

Two statements of the repository are refuted by runs of their own:

* `ArchivedStays` (`publish_archived`): a publication that read the draft
  overwrites the status of an archival that committed meanwhile
  (`publishing.py:427`, against "Archived posts cannot be published").
* `CountsApplyPredicate` (`membership_summary`): the summary of a publication counts
  the rows whose status is `active`, also when their period is over, and not those
  canceled within a running period (`publishing.py:233-238`, against
  `docs/SPEC.md:232`).

Seen while modelling, without a run of their own:

* Two cancellations with different keys that overlap both emit
  `subscription.canceled` (`commerce.py:280`, beside "First cancellation transitions
  and emits; a later call is a 200 no-op."). `SecondCancelOverlaps` says that this
  is the only way.
* Two tier changes that overlap write different columns and can leave a free
  plan with a positive amount, which `_has_paid_access` takes as paid
  (`commerce.py:225`, `publishing.py:122`; `test_publishing_api.py:258`).
  `MisfitNeedsOverlap` says that this is the only way.
* With `maxReceiveCount` equal to the attempts, as shipped, a message can be
  dead-lettered while its event is undecided and nothing has announced it: a
  crash, and a receive that finds a running lease, use up receives and not attempts
  (`main.tf:25`; `docs/SPEC.md:269`, `:325`).
* A file that a crash has cut short makes every retry of its event fail in local
  mode, where `docs/SPEC.md:326` says that the crash heals (`adapters.py:115`). With
  `_run_local` there is no retry either.
* The wait after a failure is shorter than the backoff by as long as the poll had
  been running, since the next time counts from the clock read at its beginning; and
  what a poll tried before it died counts for nothing and is tried again at once
  (`outbox.py:63`, `:102`). `RetriesAreSpread` speaks of the clocks read and of the
  failures recorded for that reason.
* After its period a subscription stays `active`: it gives no access any more and
  its user is refused another one (`commerce.py:120`; `docs/SPEC.md:300`).
* A click on "gift" draws a fresh idempotency key (`api.ts:205-214`), so a click after
  a lost answer makes a second gift.
* Two concurrent publications insert a version each
  (`docs/setup-test-guide.md:215` speaks of one).
* Slugs have no unique constraint: overlapping posts may share one. Two overlapping
  foundings of one handle, or first requests of one user, end one of them with
  an unhandled `IntegrityError`.
* An answer of `/me` that arrives after a sign-out shows the user again, and one
  that fails after another sign-in clears the new token (`AuthProvider.tsx:49`).

## 6. Not modelled

* Token verification, password handling, the JWKS cache: cryptography of a
  library. A token is the user it names.
* `InMemoryReceiptStore`, a double for the tests.
* Lists, and the posts and revenue of the summary: queries without state.
* Pages of the web client other than the session; React's strict double mount.
* Clocks of two machines that disagree: processes read one clock, each at its own time,
  so leases and backoffs are compared with old clocks but not with skewed ones.
* Retention of SQS messages, IAM, networking, migrations, seeds, logging.
* Payload parsing beyond "accepted" and "refused"; correlation ids; problem bodies.
* Setting the description of a publication back to null; `avatar_url`, which behaves as
  the description does.

## 7. Plan

Order: the way of money first (worker, outbox, their compositions, commerce),
then what the reads decide, then the rest. The modules of section 2 are all
written. What is left, in the order of what it would add:

1. Larger instances now and then: `catalog` with three requests under way, `outbox`
   with three pollers or two faults.
2. The administration of events (retry, amend, discard) and the fan-out of
   newsletters, when the code has them; `docs/SPEC.md` describes them already.
