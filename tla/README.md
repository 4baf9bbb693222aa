# A verification development for the microservices e-commerce system

The system takes orders over HTTP, reserves stock in a second service, charges
a (simulated) payment gateway and confirms or cancels the order. Its hard part
is that no step of this is one transaction: the Orders Service (NestJS), the
Inventory Service (Go), PostgreSQL, Redis/Bull and RabbitMQ each do their piece,
may fail or be restarted between any two, and run many of these at once. The
modules here model that part of the code, TLC checks them on small instances,
and TLAPS proves some of the results for every instance.

Paths are relative to the repository: `inv/` stands for
`services/inventory-service/`, `ord/` for `services/orders-service/src/`.

## The system

| component | state | operations | talks to |
|---|---|---|---|
| Inventory domain (`inv/internal/domain/entity`) | an item: quantity, reserved, version; a reservation: status, expiry | Reserve, ReleaseReservation, ConfirmReservation; Confirm, Release, MarkAsExpired | – |
| Inventory use cases and expiry job (`inv/internal/application`) | tables `inventory_items`, `reservations` | reserve, confirm, release, sweep, expire job | PostgreSQL, RabbitMQ publisher |
| Inventory repositories, cache (`inv/internal/infrastructure`) | rows; cached rows in Redis | optimistic update, unique row per order, FindExpired; cache-aside | PostgreSQL, Redis |
| Scheduler (`inv/.../scheduler`) | a ticker, a stop channel | Start, Stop | the sweep |
| Inventory HTTP API and middleware | rate-limit counters | handlers, limits, service authentication, the administrator's sweep | use cases, Redis |
| Inventory publisher | one AMQP channel | publish with retries | RabbitMQ |
| Order intake (`ord/modules/orders/orders.service.ts`) | tables `orders`, `order_items`, `outbox_events` | createOrder | PostgreSQL pool, the saga's table, Bull |
| Outbox processor (`ord/modules/events/processors`) | a flag, a batch | poll, process, mark | PostgreSQL, Bull |
| Order saga (`ord/modules/orders/services`, `ord/queues/processors`) | tables `orders`, `saga_states`, the Bull job | five steps, two compensations, retries | Inventory HTTP API, payments, notifications |
| Circuit breaker (`ord/common/utils`) | state, two counters, a deadline | execute, forceOpen, forceClose | the wrapped call |
| Payments (`ord/modules/payments`) | payments, keys, refunds in memory of two classes, one serving | pay, refund, limit | a simulated delay |
| Event consumer (`ord/modules/events/consumers`) | ids processed, messages in hand | consume, ack, reject, requeue | RabbitMQ |
| Bull queues and processors (`ord/queues`) | jobs, their progress, a pause flag | add, run, time out, stall, pause, empty, shut down | Redis |
| Notifications (`ord/modules/notifications`) | notification rows, statuses and limits in memory | mail, text, retries, opt-outs | Bull, simulated providers |
| Products and categories (`ord/modules/products`, `categories`) | tables `products`, `categories` | create, update, remove, activate, the tree's walks, listings | PostgreSQL |
| Users and authentication (`ord/modules/users`, `auth`) | table `users`, tokens with the clients | register, log in, refresh, switch off and on | PostgreSQL |
| Retry utility, inventory clients (`ord/common/utils`, `ord/modules/inventory-client`) | – | repeat a request after some errors | the Inventory Service |
| API gateway | a counter per client | proxy, limits | the services, Redis |
| Command-line tools, health, metrics, logging | – | batches and reports | – |

They interact through HTTP calls that may time out and still be served (saga to
inventory), queues that deliver again (Bull, RabbitMQ), tables several processes
write (orders, sagas, outbox, stock) and one connection pool per process.

What is hard, and what makes each part correct:

- *Stock.* Goroutines interleave between any two SQL statements; a use case
  writes the item and the reservation in two transactions. Correct means: no
  update lost, never more held than there is, no unit sold twice, the books
  balance, expired holds come back.
- *The saga.* Every await is a point where a worker may die, its lock may go to
  another worker, or a query may fail, and the saga starts over. Correct means:
  all or nothing, no confirmation without payment, no second charge, and an
  outcome for every order.
- *Intake.* Repeated calls overlap; the commit and the queue are two systems; a
  call needs two connections. Correct means: one order per key, every caller told
  of it, a queued job that can be run, and an answer for everybody.
- *The breaker.* Calls span its state changes. Correct means: its counters agree
  with its state, it closes only when that is earned, and it closes.
- *Events.* Messages are delivered again, out of order and to several processes.
  Correct means: none lost, handled twice only for a reason, the queue drains.
- *Everything that looks, awaits and writes.* Payments look a key up and store it
  after the gateway has answered; text messages, refunds, accounts, categories and
  products do the same with limits, sums, addresses, trees and prices. Correct
  means: wrong only when two calls were in hand at once, and then by no more than
  their number.
- *Caches and counters.* A read fills what a write has just deleted; a counter and
  its expiry are two commands. Correct means: a copy is old only for a reason that
  can be named, and nobody is refused for ever but who keeps calling.
- *Background work.* Bull gives executions up without ending them, mails go out
  before they are recorded, a sweep panics. Correct means: run again only for what
  Bull gave up, every mail on record, all of it finished in the end.

`PROJECT.json` lists every component with its status and every hazard with its
line and the properties that would catch it.

## Modules

| module | models | proofs |
|---|---|---|
| `InventoryItem` | the entity's methods as a guard and a result each | |
| `InventoryReservation` (extends it) | the five use cases, one action per repository call, over the two tables | `Inventory_proofs` |
| `StockLedger` | what the use cases promise: reserve, confirm and give back in one step | `OrderSaga_proofs` |
| `InventoryAudit` (extends `InventoryReservation`, instantiates `StockLedger`) | the books, a history variable, the refinement mapping | `Inventory_proofs` |
| `OrderSaga` (instantiates `StockLedger`) | executeSaga, the compensations, the Bull job, against the ledger | `OrderSaga_proofs` |
| `OrderIntake` | createOrder, the pool, the unique key, the outbox processor | `OrderIntake_proofs` |
| `EventBus` | the queue and its consumers | `EventBus_proofs` |
| `CircuitBreaker` | the breaker with calls that overlap | `Storefront_proofs` |
| `Payments` (instantiates `PaymentLedger`) | both gateways: charges, keys, refunds, the attempts' limit | `Storefront_proofs` |
| `PaymentLedger` | what they promise: a charge or a refund, checked and booked in one step | |
| `Accounts` | registration, sessions, switching accounts off and on | `Storefront_proofs` |
| `StockCache` | the cache-aside repository over Redis | `Storefront_proofs` |
| `RateLimits` | the counters of the inventory service and of the gateway | `Storefront_proofs` |
| `Retries` | a reservation repeated by the client or by RetryUtil | `Storefront_proofs` |
| `CategoryTree`, `Products` | the catalogue: the tree, the products | `Catalog_proofs` |
| `Paging` | the order and the pages of a listing | `Catalog_proofs` |
| `Jobs` | a Bull queue, its processors and QueueService | `Background_proofs` |
| `Notifications`, `SmsProvider` | notification jobs with their mails and rows; text messages | `Background_proofs` |
| `Scheduler` | the life of an inventory-service process and its sweep | `Background_proofs` |
| `MCCatalog` | composes the tree and the products over one database | `Catalog_proofs` |
| `MCStorefront`, `MCBackground` | put parts that share no state into one run | |
| `SumTheorems` | nothing of the code: sums over finite sets of reservations, for the proofs about books | itself |
| other `MC...` | instances for TLC | |

`InventoryAudit` and `MCCatalog` compose components that interact, `OrderSaga` runs
against the ledger the inventory implements, and `Payments` implements the ledger of
its own. `MCStorefront` (which includes the intake and the breaker) and `MCBackground`
only save runs: a behaviour picks one part, moves it and leaves the others where they
start, so TLC explores the sum of the state spaces.

### Inventory

`items` and `rows` are the tables, `expired` is the clock's verdict on each row,
and a worker (goroutine) is a program counter, the request it serves, the copy of
the item it read and the rest of its batch. `ReserveStart`, `ConfirmStart`,
`ReleaseStart` and `BatchStart` are the first repository call of a use case with
all its early returns; `FindItem`, `UpdateItem`, `WriteRow` and `Publish` are the
calls they share. `UpdateItem` is `UPDATE ... WHERE id AND version`. A call that
fails (`RepoError`) or a process that dies (`Crash`) leaves what was written. A
reservation is named by its order: the unique index gives an order one row.

`StockLedger` is the abstract specification. `InventoryAudit` maps the tables to
it: a use case takes effect when it writes the item, so a row between the two
writes counts as written. The use cases take only ledger steps until two
workers meet on *one reservation* or a call fails (`LedgerUntilOverlap`,
`BooksBalance`; `overlapped` remembers both). The lock is on the item and does not
see that meeting, which is what the run InventoryRace shows.

### Order saga

A run is one execution of `executeSaga` with its own copy of the saga row (`mem`), which
it saves whole. `pc` is the place in `executeSaga`; a step is its call and then its save
(`saving`), and `Retry` is `executeStep`'s loop. `job` is the Bull job: `Stall` takes
the lock from whoever holds it, alive or not, and `TimeOut` counts an attempt as failed
and delivers the job again while its run goes on (60 seconds, `redis.config.ts:98`,
which `queue.module.ts:32-35` gives to the order queue as well; `createOrder` asks for
three attempts). `handleJob` never throws, so a failure of the saga itself uses no
attempt and a saga runs again only after a stall or a timeout. The Inventory Service is
the ledger (reserving and giving back are single steps here; that they are not inside
that service is the other module's subject), with its answers: 409 for too little stock,
500 for an order with a reservation, or none, with the request served before or after
the client gave up. Its routes are modelled as their handlers define them; `cmd/api`
does not register them yet.

### Order intake

A request holds a connection in the places `Holding` and every query of another
repository needs one more. `InsertOrder` waits for an uncommitted row with its key as
the unique index does. `unreleased` counts the connections that no call gives back:
`connect` and `startTransaction` stand before the `try` (`StartFails`). `Crash` is the
death of the process with all its calls and its pool. `outbox` is the event's row,
`Relayed` what `OutboxProcessor` does with an Order event: nothing but marking it.

### Circuit breaker and event bus

`CircuitBreaker` has `execute` as two actions, admission and end, with anything in
between. Counters stop at their thresholds, which is all the code compares them
with. `EventBus` has messages (copies of events), the processes that consume them,
what each has in hand and remembers, and the broker's rules: one channel per
message, a prefetch limit, requeue when the channel is lost. `disturbed` is a
history variable that collects the excuses for a second effect.

### Payments, accounts, cache, limits, retries

These have one shape: a caller has at most one call in hand (`paying`, `calls`,
`using`), its first action makes the checks before the await, its last one the
writes after it, and a history variable names the overlap the code cannot stand.

- `Payments`: `gateway` says which of the two classes serves; `met` collects keys and
  payments two calls had in hand at once. Until then both implement `PaymentLedger`
  (`LedgerUntilMet`), in which a check and its booking are one step.
- `Accounts`: rows by address, because the index is unique and no row is ever removed;
  `leaked` counts the tokens given since an account was switched off.
- `StockCache`: one row as a version, three keys (id, product, the lists of low
  stock); fills and deletes are steps of their own. `spoilt` names the keys an old
  copy was put or left under, so `CacheTellsTheRow` says that Update and Delete never
  leave one on their own.
- `RateLimits`: one key with its counter and its time to live in ticks, under either
  limiter; every command to Redis that can fail on its own is an action.
- `Retries`: one reservation made through the client or under RetryUtil with each of
  its sets of options, and what the service may have done behind an error: nothing,
  the reservation (`made`), or a request given up that it has yet to serve
  (`unserved`). A request that meets the order's own reservation is answered with 500
  (`reserve_stock.go:70-76`, the default case of `handleError`), never with 409
  (`ErrorsNow`).

### Catalogue

Every request is a process whose steps are the queries of the service: a request
carries its DTO, what it has read, and whether a write of another request came
since (`stale`); a write that relies on a stale check sets `raced` or `praced`, which
excuses the properties that the code keeps only serially. `MCCatalog` runs the tree
over the products: `remove` counts products, and `ShelvesAreLive` holds with no
excuse, since no request gives a product a category. No request arrives after a race,
so what one race does is reached and what a second one adds is not. Listings are
evaluated in every state (`ListingsPage`): filters, order and pages as in the code.

### Background work

`Jobs` separates the job, which lives in Redis, from its executions, which live in
the process: a timeout or a lost lock makes Bull give an execution up (`grip`), and
nothing ends it. `Notifications` has the mail and its row as two steps with a fault
between them; a template is its set of placeholders. `SmsProvider` has the check and
the count around the send. `Scheduler` is main and the goroutine of Start: with the
nil publisher that `cmd/api` passes, every release by the sweep ends the process after
its two writes, and the container starts it again.

### Seeded faults

An operator with a suffix (`VersionMatches_unchecked`) is the form a plausible
mistake in the code would give to the operator after it. No specification uses
one; `PROJECT.json` ("mutants") names, for every property that holds, the fault
that breaks it in the same run.

## Runs

Properties hold in the runs without a mark; a run marked ✗ exhibits a disagreement
between the code and what its documents or comments say, listed under "findings".

| cfg | shows | bounds |
|---|---|---|
| Inventory | StockSane, NoOversell, BooksBalance, EventsTellTheTruth, NoLostUpdate, LedgerUntilOverlap | 2 workers, any use case, 2 orders that may compete for 2 units, 1 failure or crash |
| InventoryLiveness | ExpiredIsSwept | the sweep, a worker on any other use case, 1 failure |
| InventoryRace ✗ | PendingIsHeld | sweep against confirmation |
| SagaFaults | ConfirmedWasPaid, AtMostOneCharge, OutcomeStands, AllOrNothing | 2 runs, an order of one line and one of two, one unit of the first item; either alone with a stall, a timeout, crashes, 2 failed queries, a lost answer |
| SagaProgress | OrderIsDecided | 2 runs of 1 order, a stall, a timeout, a failed query, under fairness |
| SagaStockLost ✗ | ConfirmedKeepsStock | 1 run, no failure |
| IntakeExhausted ✗ | EveryCallIsAnswered | 3 calls over 2 connections, no failure, under fairness |
| Bus | NothingLost, TwiceOnlyIfDisturbed, QueueDrains | 2 processes, 3 copies of an event, a refused one, 3 failures |
| Catalog | TreeIsSound, ShelvesAreLive, PriceBelowCompareAt, ListingsPage, RequestsEnd | 2 requests over 3 seeded trees of 3 categories and a table of 2 products, pages of 1 and 2 |
| Storefront | OneOrderPerKey, AnswersAgree, QueuedOnce, QueuedIsReady, EveryCallEnds | a call, its repetition, another; 2 connections, 2 relays, 2 failures |
| | OneChargePerKey, RefundsWithinPayment, LedgerUntilMet | 2 clients, a key or none, 2 payments of 1 to 3 around the fraud limit, 2 attempts |
| | OneAccountPerEmail, SwitchedOffStaysOut | 2 callers, an administrator and a user, 3 switches |
| | CacheTellsTheRow | 2 callers, 3 keys, 3 versions of the row |
| | LimitsHold | a limit of 2, a window of 3 ticks, 4 calls |
| | HoldIsKnown | the client and 4 sets of options, up to 5 attempts |
| | ClosingIsEarned, Recovers | 3 calls, thresholds 5 and 3 |
| LimitRenewed ✗ | NewKeysExpire | a limit of 2, a window of 3 ticks, 3 calls |
| Background | RunsComeInTurn, QueuedWorkEnds | 1 job, 2 executions, 3 attempts, 2 stalls, 3 faults |
| | MailsAreOnRecord, QueuedWorkEnds | 2 jobs, one of an unknown type, 2 executions, 3 faults |
| | SmsLimitHolds | 2 numbers, 2 senders, a limit of 2 |
| | SchedulerServes | 2 reservations, 2 failed sweeps, 2 stops |

Why these bounds. A race needs two actors, so two workers, runs or processes and a
third call that only competes for resources. One item or order shows interference,
a second shows that unrelated ones do not interfere. Quantities, thresholds and
retries are small but on both sides of their limits: the last unit, one more than
the last, the attempt that is one too many. Failures are counted because an
unbounded number hides every progress property; one or two reach each error path
and each pair of them. Every bound is a CONSTANT (`MaxFailures`, `MaxRetries`,
`MaxStalled`, `MaxDbErrors`, `MaxLost`, `MaxFaults`, `MaxRequests`, `MaxSwitches`,
`MaxVersion`, `MaxCalls`, `MaxJobFaults`, `MaxNoteFaults`, `MaxSweepErrors`,
`MaxStops`, `Exponents`; `Messages` bounds the copies of an event and `PaymentIds` the
payments). The catalogue takes two requests, which already makes every pair of its
operations overlap.
SagaFaults has a constraint, FaultsOrCompetition: a fault befalls one order while the
other one still waits, so that the run explores the faults of each order and the
competition of both, and not the product of the two. The pool of the Storefront has
fewer connections than there are calls, so that it can be exhausted; EveryCallEnds
names that outcome, and IntakeExhausted shows it. Some instances are below the
configured values (one stall where `maxStalledCount` is two, two attempts where
`createOrder` asks for three): the second failure of a kind is the one too many.
`CHECK_DEADLOCK FALSE` is said because these systems do stop: all orders decided,
all calls answered, all copies sent.

### Disagreements met while modelling

The runs marked ✗ exhibit four. The models show the others as well, and no property
claims otherwise.

Orders and events:

- An order of several lines is reserved line by line, and the first line takes the
  order's only reservation: the second cannot be reserved, the saga cancels without
  releasing (`order-processing-saga.service.ts:154-157`), and the first line stays
  held until it expires. `docs/PROJECT_BACKLOG.md:1705` wants no orphan reservations.
  AllOrNothing excepts these units by name.
- A compensation never asks for REFUND_PAYMENT, so a charge whose save failed is
  kept although the order is cancelled (`docs/ARCHITECTURE.md:286` has a refund).
- `executeSaga` ignores the step its row has reached and starts over: after a stall
  or a timeout it cannot reserve again and cancels an order it may have confirmed
  (`docs/adr/003-saga-pattern-orchestration.md:460`, "puede re-ejecutar saga"). This
  is why OutcomeStands excepts jobs that were delivered again.
- The processor turns every exception into a result
  (`order-processing.processor.ts:132-150`), so the job counts as done and nothing runs
  that saga again (the same document, line 445: "Bull reintentará el job
  automáticamente"). One failed query can leave an order PENDING for ever; OrderIsDecided
  excepts these orders by name and its run reaches them.
- `OutboxProcessor` marks Order events as processed without queueing them, so the job
  of an order whose process died after the commit is never added
  (`docs/ARCHITECTURE.md:487-490`, "Garantiza consistencia evento-dato").
- The saga row is saved outside the transaction (`orders.service.ts:170`), so a
  rollback leaves a saga without an order.
- Two copies of an event in hand at once are both handled; a message whose handler
  always throws is requeued for ever, because nobody writes `x-retry-count`; rejected
  messages go to an exchange without a queue; a closed connection is only logged; and
  every event of the Inventory Service is refused, since it carries an empty user id.
- createOrder holds its query runner's connection (`orders.service.ts:113-115`) while
  startOrderProcessing asks the pool for a second one (line 170), so as many calls as
  there are connections wait for each other for ever: pg-pool does not know
  `acquireTimeoutMillis` (`database.config.ts:28-37`). Line 49 says "Returns 202
  Accepted immediately". The run IntakeExhausted shows two calls over two connections
  that nobody answers; EveryCallEnds names the state (`Exhausted`), and the theorems
  StuckOnlyIfExhausted and ExhaustedForGood say that nothing else stops the calls and
  that only a failure leads out of it.
- `connect` and `startTransaction` stand before the `try` whose `finally` releases the
  connection (`orders.service.ts:113-115`), so a START TRANSACTION that fails costs the
  pool a connection until the process is started again.

Payments, retries and limits:

- Two calls with one idempotency key in flight both charge, two refunds in flight may
  give back more than was paid; PaymentsService allows one refund of a payment,
  whole or partial, where MockPaymentProvider allows several.
- RetryUtil has no caller. Told nothing about what is retriable, it repeats
  everything; its default would not repeat "temporarily unavailable", which the
  gateway says, nor "connect ETIMEDOUT".
- The inventory client waits 2 and 4 seconds where its comment says "1s, 2s, 4s"
  (`inventory-client.service.ts:252`), and repeats neither ECONNABORTED, its own
  timeout, nor ECONNRESET. A reservation that was made and not answered is repeated
  after a 500 or ETIMEDOUT, answered with 500 each time, since the order has a
  reservation now, and reported as an unavailable service while the units are held.
- `Increment` "sets expiration if it's a new key" (`redis.go:148`) and renews it at
  every call (the run LimitRenewed), so a client that keeps calling is refused for good;
  the pipeline that is to "ensure atomicity" is no transaction. The gateway can leave a
  counter without an expiry, and refuses that client until somebody deletes the key.

Catalogue, accounts and cache:

- Two concurrent moves close a cycle in the category tree; afterwards the queries for
  descendants and paths of its members never end. `parentId: null` moves a category to
  the top without the check of names (`categories.service.ts:272`). Moving an inactive
  category answers 404. `save` writes the whole row back, old columns included.
- Two updates, each legal by the row it read, leave a price above its compareAtPrice.
- SKUs, slugs and addresses of what was deleted softly are never free again, and the
  look-ups that ignore deleted rows turn that into a 500 or a conflict. No DTO has a
  categoryId, so products have the categories of the seed.
- Administrators cannot be deleted but can be switched off, all of them, and then only
  the seed helps. Logging out revokes nothing. The listing of users is sorted without
  a tie-break.
- An update the optimistic lock refuses leaves the old copy in the cache that caused
  it; ExistsByProductID says yes for a deleted item that is cached; IncrementVersion
  deletes before it writes.

Background work:

- A timeout or a lost lock makes Bull run a job again while the first execution goes
  on and may complete it. handleJob returns a result even when processJob threw, so
  a failure of the processing is completed and not repeated, whatever `attempts` says
  (the documents promise a retry: `docs/adr/001-async-non-blocking-architecture.md:115`,
  `docs/ARCHITECTURE.md:457`); isRetryableError decides nothing, and dead letters are
  only logged. gracefulShutdown, which has no caller, pauses the queues for every
  process, and nothing resumes them.
- A mail that is refused completes its job; a failed save sends the mail again. What
  becomes of a mail later reaches no row, and after a restart getStatus says FAILED of
  mails that went out. No migration creates the table of notifications.
- The publisher of the sweep is nil (`main.go:83-84`), so each sweep releases one
  reservation and ends the process; the scheduler works a backlog off at one
  reservation for each start.

### Fairness

Weak fairness on what a running thread of control does next: a goroutine, a saga
run, a request, an execution of a job that can go on does. The scheduler's ticker
starts the sweep again and again; Bull's timers end a backoff, find a job nobody works
on and give a waiting job to a worker; cron polls the outbox; clients of the breaker
keep calling and its clock runs; a container that ended is restarted (`restart:
unless-stopped`), and a process that is shutting down gets on with it. The broker is
strongly fair to each message: its queue is first-in first-out, so a message is not
passed over for ever by consumers that come and go. The stop of the scheduler is
strongly fair, because Go's select picks among ready cases at random. No client is
obliged to call, nothing that fails is obliged to fail, a paused queue is not obliged
to be resumed, and no connection is obliged to return, because nothing in the consumer
makes it.

## Proofs

Every theorem holds for all values of the constants under the assumptions the modules
name: any number of items, orders, workers, clients, categories, copies of an event,
any thresholds and any number of failures. Each proof has one lemma per action and one
invariant that is inductive where the property is not; each such invariant was first
checked by TLC on the instance of its run.

Every invariant and every action property that a passing run checks is the subject of a
theorem. Beside those the modules prove what the runs do not ask: the refinements that
join two components, and the safety under liveness properties, whose fairness is out of
the prover's reach (that only an exhausted pool stops the calls, that no step goes
back).

| module | proves of | theorems that state a property of a run |
|---|---|---|
| `SumTheorems` | sums, for the two modules after it | |
| `Inventory_proofs` | the use cases and their books | TypeOK, StockSane, NoLostUpdate; NoOversell, EventsTellTheTruth, BooksBalance, LedgerUntilOverlap |
| `OrderSaga_proofs` | the saga | TypeOK, ConfirmedWasPaid, AtMostOneCharge, OutcomeStands, AllOrNothing |
| `OrderIntake_proofs` | the intake | OneOrderPerKey, AnswersAgree, QueuedOnce, QueuedIsReady |
| `EventBus_proofs` | the consumer | NothingLost, TwiceOnlyIfDisturbed |
| `Storefront_proofs` | six components that share no state | OneChargePerKey, RefundsWithinPayment, LedgerUntilMet; OneAccountPerEmail, SwitchedOffStaysOut; CacheTellsTheRow; LimitsHold; HoldIsKnown; ClosingIsEarned |
| `Background_proofs` | text messages, jobs, mails, the scheduler | SmsLimitHolds, RunsComeInTurn, MailsAreOnRecord |
| `Catalog_proofs` | products, categories, both together, their listings | PriceBelowCompareAt, ShelvesAreLive, TreeIsSound, ListingsPage |

### Inventory

*The use cases.* TypeOK is not inductive: that `quantity - q` is a
natural number after a confirmation depends on what the worker had checked on its copy
several steps before. `IInv` adds: every stock row is sane; a worker that is running
has a complete request (`RequestsComplete`) and its batch names rows that exist
(`BatchesExist`); and for a worker about to update (`ReadsAreVersioned`), its copy
*accepts* the operation, is no newer than the row, and *equals* the row if their
versions are equal. The last is the heart of optimistic locking: a version is never
used twice, so an update whose version matches is applied to the very row it read,
and the guard checked on the copy holds of the row. `UpdateItem` is the one step
where all of them meet; the other steps disturb one conjunct each.

*The books* are sums. Total and Units fold over sets of reservations; `SumTheorems`
proves what a proof needs of such a sum (it is a natural number, it grows by the element
that is added, it does not see a change outside its set), by a least counterexample: the
sets on which a claim fails, if any, have one of least cardinality (`LeastOf`,
`LeastSet`). Then, in three layers:

- `SaleInv`, always: finitely many reservations have a row (`StoredIsFinite`), what a
  worker carries about one is what its row says (`RequestsMatchRows`), and the units
  sold, those of a confirmation between its two writes included, are gone from the
  item (`SoldIsGone`). NoOversell follows, whatever races and crashes there are: a unit
  is debited before its row says confirmed, so a lost write loses stock and never sells
  a unit twice.
- `AloneInv`, until `overlapped`: no two workers have a reservation in common
  (`Apart`), so each finds its rows as it left them (`HandsAreClean`) and what was
  published is true (`EventsAreTrue`).
- `Balanced`, until `overlapped`: of the ledger that tables and workers together stand
  for, reserved is the sum of the pending rows and quantity with the confirmed ones is
  the initial stock. It is an invariant of the abstract ledger; the proof shows it of
  the mapped variables, and the same lemmas, one for each kind of step, show that a
  step is a reservation, a confirmation, a return or a stutter of `StockLedger`. This
  is the refinement, the initial states included (`TheLedgerStartsAlike`).

`PendingIsHeldUntilOverlap` says what the overlap costs: the property that InventoryRace
refutes holds of any number of workers until two of them meet on one reservation or a
call fails, so nothing else breaks it.

### Orders

`OrderSaga_proofs`: the charge carries no key, runs on one order may overlap, and yet
an order is charged once: what keeps it so is the reservation. An order has one row,
the run whose own request made it is the only one that comes to pay (`OneOwner`), and
as long as it may still charge it has charged no more often than its queries failed
(`ChargesLeft`). `PaidRuns` says that a run past the payment has an order that was
charged, which is what a confirmation needs; `Once` says that a job delivered once has
one run, which has nothing left to do but save and return when it has written an
outcome. The lemmas divide the actions into those that touch a run's place only
(`QuietMove`) and the few that touch the ledger or the order.

AllOrNothing needs more than that, since it tells what four tables hold together when
a saga is over. `Calm` says: while no answer was lost and no query failed, the order of
a job delivered once is worked on by the holder of its lock alone, and the place of
that run tells the charges, the outcome and the reservation (`OnCourse`, `Decided`).
A step of another order does not disturb this (`OtherOrders`), though both compete for
the same stock.

DoneIsDecided is the safety under OrderIsDecided: a job is reported as done when its run
returns, and a run that returns has written an outcome or met a failed query
(`OutcomeIsSaid` keeps, for each place of a run, what it has decided).

The saga runs against the ledger that the inventory implements, so what it may assume of
the stock is a theorem about the ledger: `LedgerBalances` is its double entry, proved from
`SumTheorems` with one lemma for each kind of ledger step.

`OrderIntake_proofs` proves every safety property of the intake. Its invariant adds
what a call's place says it has written (`Written`: no order before the commit, the
saga before it, the job last); that an uncommitted order is the only one of its key and
no committed one has it (`KeysApart`), which is what the unique index buys and what
makes the commit safe; and that relays hold events of committed orders only. The pool
is not needed for that: it is a matter of progress, of which three theorems give the
safety, for a pool of any size. As long as a call has not ended, some call can go on or
the pool is exhausted (`StuckOnlyIfExhausted`): a call that waits for the index waits for
one that can go on, and any other has its connection unless the last one is taken. No step
takes a call back (`CallsGoForward`). And nothing but a failure leads out of an exhausted
pool (`ExhaustedForGood`), so the exception that EveryCallEnds makes is a final one.

`EventBus_proofs`: the invariant (`Orderly`) says of an event that nothing disturbed:
it has had at most one effect, which somebody remembers, and until then at most one
copy is in hand, afterwards none; and that what a lost connection left in hand is
excused already. NothingLost uses that no retry is the last one, since nobody writes
the header that counts them.

### Storefront

*Payments.* A call acts on what it saw before its delay, so the invariant says what
that is worth afterwards: a key that one call at most has in hand is as unused as that
call found it (`KeyInHandIsFree`, `KeyOfTells`), and the sum a refund has seen is the
sum that is stored (`RefundInHandIsFresh`). The refinement has a lemma for each kind of
step: a charge or a refund that is written is a ledger step, everything else a stutter.

*Accounts.* The tokens an account that is switched off may still get are those of the
logins and refreshes in hand, at most one per caller: `LeaksAreInHand` counts both
together, `CallsHaveRows` and `AdminsStay` say that a row once read is there to be
written.

*Cache.* A copy is of the row, or its key is spoilt, or a delete of it is in hand. The
one thing to add is that an item that was never saved is nowhere, nor about to be put
anywhere (`NothingBeforeSave`): a save deletes no key of the item.

*Limits.* What was admitted is the counter up to the limit (`AdmittedIsCounted`), both
counted over one life of the key; a key in use has an expiry or is about to get one
unless a failure touched it (`KeysExpire`); and at the service no key outlives a window
without calls (`ServiceExpires`).

*Retries.* Each wait is at most the configured one, its jitter included
(`WaitsAreBounded`); a call that goes on has met only errors it may repeat
(`RepeatsWhatItMay`); and success is told by the answer of the request that made the
reservation, a refusal by a service that had none (`HoldHasACause`). The delays are the
code's recursive doubling, as a recursive function; that it exists and is monotone is
proved by a least counterexample (`BackoffGrows`).

*Breaker.* The successes counted since the circuit was half-opened are exactly those
`earned` in a row, for any thresholds; CountersAgree is proved on the way. The safety
under Recovers is `RecoveryGoesUphill`: `Level` says how far the circuit is from open (due,
half open with so many successes, closed), no step lowers it once the service is well, and
each step that fairness provides raises it; at `2 + SuccessThreshold` the circuit is closed.

### Background

*Text messages.* The number of texts of a minute is counted together with the senders
between the check and the count, at most one each: the limit is overrun by the senders
and by nothing else.

*Jobs.* A run that was begun was paid for by the job's first delivery, a failed attempt
or a stall, and a job that waits has one of them left to spend (`RunsArePaidFor`,
`Budget`); Bull waits for one execution of a job at most, and the job of that execution
is active or was ended by one it had given up (`OneOwner`).

*Mails.* Mails, rows and executions are one account: mails exceed the SENT rows by the
repetitions and by the one in hand (`MailsAreAccounted`, `MailInHandIsAccounted`), and
each row is true of its placeholders and of what the provider knew (`RowsAreTrue`).

*Scheduler.* The goroutine has ended exactly while the process closes or is down
(`GoroutineLives`), so the channel Stop blocks on has its reader (`StopIsHeard`); a sweep
lists only what has expired and what it has released stays released (`SweepsHoldExpired`,
`ReleasedForGood`), whichever of the sweep and the administrator's endpoint did it.

### Catalogue

The theorems are about `CatalogRuns`, in which requests come at any time and in any
number; `BoundedRunsAreRuns` shows that the behaviours the run Catalog explores are
among them.

*Products.* As long as no write relied on an old row, what an update has read and
checked holds of the row (`UpdateIsFresh`), so the written pair of prices is in order.

*Tree.* `Rooted` says that a depth can be given to every category so that its parent is
nearer to the top: no cycle, and nobody hangs on a deleted parent. It is inductive
together with what each place of a request has established (`IsFresh`): the walk of
validateHierarchy keeps a set closed under children, without the new parent when it ends
(`Clear`), and hanging that set elsewhere leaves a depth for everybody. From `Rooted` the
tree endpoint shows every category while these are not more than eleven, one more than
its ten levels; counting the categories above each gives the bound
(`PlacesCanBeCounted`, `Levels`). With more, a chain may be deeper than the endpoint
goes (the code stops there on purpose), so the theorem has that hypothesis, and
NoCyclesNoOrphans and SiblingNamesStayApart, which have none, say what holds of trees
of any size.

*Shelves.* No product is on a category that is not there, and none on one that is about
to be deleted (`ShelvesInv`): remove looks for products after its children, and no
request gives a product a category.

*Listings.* A listing's order ends with the id, so it is total on any table
(`ProductsPage`, `CategoriesPage`). A finite set has a list in that order, by a least
counterexample over its cardinality (`ListsExist`), and such a list shows every row once,
by counting (`ListsAreComplete`). The pages of that list divide it, by the arithmetic of
offset, limit and the rounded-up page count (`PagesShowOnce`), and tables stay finite
because a step adds one row at most (`ProductsStayFinite`, `CategoriesStayFinite`). No
race needs to be excused.

### Assumptions

The provers use no more about constants than the modules state and TLC evaluates on
every run: types and bounds (`QuantitiesAssumption`, `LinesAssumption`,
`BoundsAssumption`, `PoolAssumption`, `JobsAssumption`, `LimitsAssumption`,
`RetryAssumption` and the like); that names which stand for nothing are not values
(`NoneAssumption`, `ReplyAssumption`); finitely many callers where callers are counted
(`AccountsAssumption`, `SmsAssumption`); and what the seeders write: priced products
(`SeedIsPriced`), trees (`SeedsAreTrees`), products on categories that exist
(`ShelvesAssumption`), finitely many rows. `PagesAssumption` is the DTOs' limit of at
least one. One theorem has a premise of its own, SmallTreesAreSound: the
eleven categories.

### Only model-checked

- Liveness, since fairness and ENABLED are out of the prover's reach: ExpiredIsSwept,
  OrderIsDecided, EveryCallEnds, QueueDrains, RequestsEnd, QueuedWorkEnds,
  SchedulerServes, Recovers.
- TreeIsSound of more than eleven categories, where it does not hold of every tree.

## Not modelled

- Logging, metrics, the statistics endpoints and the health checks: they read and
  report, and no operation depends on what they say.
- The wording of mails and texts, HTML, currency and date formats.
- Validation of DTOs beyond the ranges the models enumerate, OpenAPI annotations, the
  check of the service's API key, signatures of tokens, the hashing of passwords,
  names and last logins of users.
- Migrations and entities as schemas: the constraints the services rely on (unique
  keys, one row per order, the optimistic version) are in the modules that use them;
  indexes are not.
- The seeders and the stock synchronisation tool: batches run by hand, in one pass.
  `Init` of the modules that need seeded rows starts from what the seeders write.
- The dead-letter administration, a stub that answers with fixed lists.
- What nothing calls: AddStock, DecrementStock, Extend, DeleteExpired,
  the transition methods of the order and saga entities (the services write statuses
  directly), clearAll of the mock gateway, which only tests use.
- The outbox's path for events of other aggregates than orders: nobody writes one.
- The publisher's retry loop: with the nil publisher of `cmd/api` it is never reached;
  a publication that fails is a fault of `InventoryReservation`.
- The gateway's proxying and its breaker, which is a library's; its limiter is in
  `RateLimits`.

## Plan

All parts the plan named are done: the inventory with its ledger, the saga, the intake,
the breaker, the consumer; payments, accounts, the cache, limits and retries; the
catalogue; queues, notifications and the scheduler; and a proof of every safety
property the runs check. What could be added, in this order:

1. The saga over the gateway of `Payments` instead of a charge that succeeds or fails;
   today the saga charges without a key and never refunds, so the two would meet in one
   action.
2. The use cases on the version of the item `StockCache` hands out, once `cmd/api`
   builds the repository with its cache, which it does not yet.
