# Verification of analytics-service

TLA+ models of the analytics-service repository (`src/`), model-checked with TLC
on small instances and proved with TLAPS for every instance: every invariant that
a passing run checks is also a theorem, and so is every implementation of an
abstract specification.  `PROJECT.json` maps each definition to the lines it
models and lists the runs, the mutants that show each property can fail, the
hazards and the theorems.

## The system

analytics-service keeps day-grained aggregates of orders in MongoDB.  It consumes
events of order-service from RabbitMQ, answers read endpoints for restaurant
users and administrators, and asks core-service which permissions a role has.

| Component | State | Operations | What makes it correct |
| --- | --- | --- | --- |
| Event consumer, `lib/coreevents` | none but the handler table | `handleMessage`: parse, `MarkSeen`, dispatch, `Unmark` on failure, ack or nack | no event lost, none counted twice, no message loops |
| Broker client, `pkg/messaging` | connection, channel; in RabbitMQ the queue, the DLQ, unsettled deliveries | connect, declare, consume, ack, nack | an unsettled delivery comes back |
| Dedupe store, `event_ids` | ids of the last days | insert under a unique index, delete, TTL | at most one handler run per mark |
| Aggregation service and handlers, `app/analytics/service`, `eventhandlers` | none | `OnOrderPlaced`, `OnOrderDelivered`, `OnOrderRejected`, `OnPaymentCompleted`: one to five Mongo calls each | what lands is booked under the right key and day, in the right order |
| Aggregate repositories | `agg_restaurant_day`, `agg_branch_day`, `agg_product_day`, `agg_platform_day`, `order_context` | `$inc`/`$set` upserts, one bulk write, range finds, two pipelines | a row is the sum of its effects |
| Reports, `Get*` of the service | none | eight reads | averages, rates and summaries agree with the rows and with each other |
| Permission cache and `Require`, `lib/rbac` | role → permissions and time of caching | look up, fetch, store, invalidate, decide | bounded staleness; nobody is served on a guess |
| Clients, `lib/coreclient`, `pkg/httpclient` | none | one GET with retries | bounded attempts, an error at the end |
| Backfill, `cmd/backfill-aggs` | its counters, its marks in `event_ids` | page, mark, `OnOrderPlaced`, unmark | re-runs skip what was applied; the exit status can be believed |
| HTTP API: auth, routes, validation, controllers | none | checks in a row, then one `Get*` | a request passes every check before a read |
| Boot and shutdown, `lib/boot` | connections | connect with retries, start consumers, serve, close | no consumer before its indexes; an orderly end |
| Configuration, logging, correlation | read-only | – | – |

Interactions.  RabbitMQ delivers to one goroutine per process and queue; it runs
`handleMessage` and through it the On\* methods, which write Mongo call by call
without a transaction.  Processes share the queue and Mongo, so `event_ids` is
their only coordination.  The backfill shares `event_ids` and the collections.
A second consumer in each process turns `rbac.permissions_changed` into
invalidations of the in-process cache, which HTTP requests fill concurrently.

What is hard here: a crash, a lost connection or a lost reply between any two of
those calls; a redelivery to another process while the first still works; a
fan-out that stops half-way and is replayed; marks and contexts that expire;
events out of order; a fetch that overlaps an invalidation.  `PROJECT.json`
lists each under `hazards` with the properties aimed at it.

## Modules

| Module | Models | Notes |
| --- | --- | --- |
| `EventDeduper` | what the interface `EventDeduper` promises its callers | abstract; implemented by `CoreEvents` and by `Backfill` |
| `CoreEvents` | consumer, broker, `event_ids` | a handler is a number of calls, some of them lookups |
| `Boot` | `boot.Run`, `shutdown`, the supervisor's restarts | `EXTENDS CoreEvents`: the consumer's steps run inside the life of the process |
| `Aggregates` | repository writes | operators only |
| `Analytics` | handlers and service run by the consumer | `INSTANCE CoreEvents`, `EXTENDS Aggregates`: the calls get their effects |
| `Reports` | repository and service reads | operators over the collections |
| `AnalyticsReports` | reads during the pipeline | properties of `Reports` over the states of `Analytics` |
| `PermissionCache` | `Require`, cache, fetch with retries, invalidation | a discrete clock |
| `Gate` | authentication, permission, parameters, range, read | `EXTENDS PermissionCache`: `Require` is one of the checks |
| `Backfill` | the backfill command | overlapping and repeated runs |
| `SetSums` | – | lemmas about the sum of a function over a finite set |
| `EventDeduperProofs`, `CoreEventsProofs`, `BootProofs`, `AnalyticsProofs`, `AnalyticsReportsProofs`, `GateProofs`, `BackfillProofs` | – | theorems; `GateProofs` has those of `PermissionCache` too |
| `MCCoreEvents`, `MCBoot`, `MCAnalytics`, `MCPermissionCache`, `MCGate`, `MCBackfill` | – | constants of the runs |

### EventDeduper

A fresh `MarkSeen` is a claim on a key: `Claim`, or `Settle` when no work follows.
The claim ends with `Finish` (the mark stays), `Release` (Unmark) or `Abandon`
(the mark stays without the work); `Expire` is the TTL and takes only marks
nobody works under.  `CoreEvents` and `Backfill` instantiate it with
`claims[k]` = the workers or runs inside the handler of `k`, and their
`DeduperSpec` says that each of their steps is one of these or a stutter.

### CoreEvents

`pc[w]` of a worker (one per process) is the next call that leaves the process:
`dedupe` (MarkSeen), `call` (inside the handler), `failed` (Unmark), `ack`,
`requeue`, `dead` (the three answers to the broker).  `held[w]` says whether the
broker still waits for the answer: after a lost connection it does not, the ack
is a no-op as in `amqp.go`, the copy is back in `ready`, and the handler goes on.
Each Mongo command has an action for success, one for failure without effect
and one for a lost reply.  The queue is a multiset, since redelivery reorders.
Prefetched deliveries that the client has not handed to the loop count as
queued: nothing in the process has looked at them.

Four history variables carry the properties: `applied`, `completed`, `erased`,
and `orphaned`, the events whose mark a named fault left behind: a crash or a
lost connection inside the handler, a lost reply of MarkSeen, a failed Unmark, a
mark set by a worker whose delivery was already gone.  `MarkIsHonest` and
`NothingLost` say that these are *all* the ways an event can be lost;
`boot_at_least_once` shows one of them.  `Stop` is a process that ends in an
orderly way at any of these points; the bound on faults does not count it.  A
failed Unmark is one that the code logs itself: the event is dead-lettered with
its mark, and a replay before the TTL is skipped, against "A DLQ replay can
actually retry" in `docs/system-design.md`.

### Boot

`phase[w]` is where `boot.Run` of process `w` stands: two connect loops
(`attempt` counts, `FailAttempt` retries or returns the error), the indexes, the
two consumer starts, the wait, and `shutdown`'s three closes in their order.
`signalled[w]` is the context of `signal.NotifyContext`: it makes every further
Mongo attempt fail, and boot does not look at it again before the wait.
`CloseBroker` loses the delivery in hand like any lost connection; after
`CloseMongo` the handler's Mongo commands only fail, and its steps wait for
`Exit`, which ends the process under it.  A process that lost its connection
while serving stays up with a dead consumer (`Deaf`), since nothing reconnects.
An ended process is started again (`Launch`).  The queue of `core.events` is
followed only as a start that can fail.  `Kill` is a crash of CoreEvents when
the consumer is up, and a trouble of its own when it is not.

### Analytics, Aggregates, Reports

A collection is a function from the keys of its unique index to rows.  `FanOut`
gives the calls of each handler; `On*` applies the next call's effect when the
consumer takes a `CallOk` or `CallLost` step.  A failed unordered bulk write may
have applied any subset of its lines.  The time is an integer and a day has
`DayLength` units.  The instances place one order on day 0 and two on day 1, in
two branches and currencies of one restaurant; one delivery is earlier than its
order, one rejection is on the day after placing, one payment too, and one order
has no items.  Payloads are parsed before the first call: an event that parses is
its record, and the others are `CoreEvents`' `BadPayload`.
`ReapContext`, the TTL of `order_context`, may strike at any time and is no fault.
`SummariesAddUp` cuts a range at every day and compares the summary of the whole
with those of the two parts and with the listed rows.  The sums in the
properties are `SumFunctionOnSet` over sets of events, lines or documents, so
that the proofs can take them apart.  `CurrencyOfAnOrder` says what the currency
of a restaurant's, branch's or product's day still means when its amounts come
from several orders: the last writer's, so always that of one of them.

`DeliveredAfterPlaced` holds, and contradicts a comment.  `ApplyOrderDelivered`
(`restaurant_day.repo.go:64-66`) says that its upsert covers a delivery that
arrives before the placed row exists.  It never sees one: `OnOrderDelivered` looks
up the order's context first, the context is saved after the placed row, and
without it the delivery is dropped.  The property says what the code does,
`DeliveriesConverge` what the comment and `README.md` promise, and
`analytics_converge` shows the promise broken.

### PermissionCache

Requests interleave at the two lock regions of `GetPermissions`: `Hit`/`Miss`
under the read lock, `Store` under the write lock, with the fetch between.  A
list is a version number with the time core-service read it; an empty list is
what a 2xx without data decodes to.  `MaxLag` is the time from core-service's
reading to the store, which the HTTP timeout bounds: `Tick` waits for a store
that has reached it.  `found` and `answer` remember when the entry that a request
looked up was stored and how core-service last answered it, so that a reply can be
held against its cause.  `LoseEvent` covers an event that another process of the
service consumed, since all share one queue.

### Gate

`gate[q]` is the next check of request `q` or its reply: `Authenticate` (the
cookie first, then the header), `Require` step by step as in `PermissionCache`,
the parsing of ids and dates (a malformed id is 0, which the tags refuse), the
comparison of the dates, the read.  The routes differ in the number of ids in
their path.  `credential` and `query` remember what the request came with, so
that `RepliesTellCause` can say what a reply stands for.  FORBIDDEN needs a list
without the permission, or claims that open no route; RBAC_UNAVAILABLE needs an
entry that is missing or expired and a fetch that failed every attempt or was
refused.  That is wider than `docs/api-contracts.md`, which names only an
unreachable core-service and a cold cache: a 4xx, a body that does not decode and a
cancelled request give the same reply, and an expired entry is as good as none.
The list of a hollow 2xx lacks every permission, so FORBIDDEN may rest on it, in
every request of the role for less than the TTL and one fetch
(`BoundedStaleness`): the code looks at neither `success` nor a missing `data`
(`coreclient/rbac.go`), so such an answer denies silently, which
`docs/system-design.md` means to rule out when core-service is down.
`RepliesTellCause` requires that core-service really gave such an answer to a
request of the role (`SaidHollow`), so that no failed or refused fetch ever
becomes a cached denial.  Role changes, lost events and time go on meanwhile.

### Backfill

`next` and `last` are positions in the year's history; a page is what the cursor
names, and order-service is taken to page truthfully.  `Advance` is the end of
the loop body with the tests after it.

The live consumer marks its events under other keys, so all the command shares
with it is the collections.  For the orders in `LiveOrders` its `handleMessage` is
followed beside the runs, with marks and calls of its own (`liveSeen`, `liveAt`,
`live`): it may fail at any call, with or without effect, unmark or fail to, die
with the event in hand, lose its mark to the TTL, and get the event again at any
time, by redelivery, by replay or as a duplicate.  The queue and the number of
copies are left out, which only adds behaviours.  `LandedOncePerMark` grants each
call of an order one landing for each mark, the command's or the live event's, and
no other: the double count that the usage note admits
(`cmd/backfill-aggs/main.go:27-30`) is one per key, and stays one whatever fails on
either side.

## Runs

Bounds are constants: `MaxSends` copies per message, `MaxFaults` disturbances,
`MaxTroubles` for those outside the consumer, `MaxAttempts` (5 in the code),
`MaxTime`, `MaxVersion`.

| Run | Instance | Shows |
| --- | --- | --- |
| `core_faults` | 2 processes, 2 events (one with a lookup) published once each, 2 faults of 9 kinds, any number of stops; 776,716 states | `HandlingExclusive`, `FanOutInOrder`, `AtMostOncePerMark`, `CompletedInFull`, `MarkIsHonest`, `NothingLost`, and `DeduperSpec`: the consumer implements `EventDeduper` |
| `boot_live` | 1 process; a good, an unparsable, an unknown and a malformed message, once each; one fault and one trouble anywhere, 2 attempts; 113,757 states | `IndexedBeforeConsuming`, `EveryMessageSettles`, `EveryStopCompletes`, and `ConsumerSpec`: with boot and shutdown around it the consumer does what `CoreEvents` allows |
| `boot_at_least_once` | one signal, no fault | violation: a planned shutdown under a handler loses its event |
| `analytics_faults` | 2 processes, an order placed and delivered, 3 faults of 8 kinds and the TTLs | `RowsMatchEffects`, `ItemsMatchEffects`, `DeliveredAfterPlaced`, `PlatformNeverAhead` |
| `analytics_reports` | 5 events of 2 orders of one restaurant in two branches and currencies, in any order, with 2 of lost connections, requeues, failed and half-applied calls and replays; 222,027 states | `CountedOnce`, `AveragesPlausible`, `SummariesAddUp`, `ActiveMeansOrders`, `ProductsBehindBranch`, `CurrencyOfAnOrder` |
| `analytics_converge` | no faults but the TTL of the contexts | violation: a delivery before its order, or after its context, is dropped |
| `analytics_failure_rate` | no faults | violation: a failure rate above 1 |
| `analytics_rerun` | a failed call, a replay | violation: double counting |
| `gate_faults` | 2 requests with any kind of token, 6 sets of parameters, 1 role, every answer of core-service, 1 retry, 3 ticks; 765,204 states | `BoundedStaleness`, `ServedOnProof`, `ReadBehindChecks`, `RepliesTellCause`, `EveryRequestAnswered` |
| `cache_next_request` | 2 requests | violation: an old list stored after the invalidation |
| `backfill_faults` | 2 runs, 3 orders in pages of 2, one unparsable, one handled live too, 2 faults of 9 kinds on either side; 306,110 states | `ReportAddsUp`, `SuccessIsHonest`, `LandedOncePerMark`, `EveryRunEnds`, and `DeduperSpec`: the runs implement `EventDeduper` |
| `backfill_rerun` | the TTL between two runs | violation: orders applied twice |

Why the bounds suffice.  The consumer's losses and double counts need one event,
two processes and two faults (a drop, then a failure or a second delivery); the
copies that faults and stops put back are the duplicates, so one copy of each
event is published.  What the consumer instances cannot show about larger ones is
proved.  In `analytics_reports` a connection lost before the ack gives the true
duplicate: a copy of an event that is already counted.  In `boot_live` every
trouble meets every step and every fault once, and two attempts give a connect
loop that retries and one that gives up; that any number of processes and
attempts behaves so is proved, but for liveness.  The shortest staleness story
takes a fetch, a store at the latest moment and a hit just before the TTL ends:
three ticks with a TTL of two.  Three orders in pages of two give a full page, a
page bound and a short last page.

`analytics_reports` has the constraint `PublishedFirst`: everything is published
before the first process starts.  It cuts no order of handling, since the queue is
a multiset and a late publication is an event delivered late.

Symmetry is used for the processes in `core_faults` and `analytics_faults` only;
no property or action there tells them apart.

Deadlock is checked in every run.  `AwaitDelivery`, `BootRest`, `GateRest` and
`Rest` are the states in which the program waits for something new; each is
explicit and has a guard.

### Fairness

`boot_live` assumes, for each process, weak fairness of `Proceed` (the steps of
boot and shutdown in which nothing goes wrong, the supervisor's restart among
them) and of `Work` (the consume loop runs until its channel closes; Mongo and
the broker answer each command, with success or one of the bounded errors).
Nothing is assumed of publishers, operators, signals or faults, and replays and
the TTL are among the bounded faults.  One exception is part of
`EveryMessageSettles` because the code has it: when every process is deaf, the
queue stands still.  `gate_faults` assumes weak fairness of a request's steps
once it is authenticated: each attempt is answered or times out.
`backfill_faults` assumes it of a started run's own steps.

## Proofs

Each from the assumptions of its module alone: any sets, any number of calls, any
bounds.  Those of `Analytics` are that there are finitely many events, each of a
registered type and of a known order, and that order-service's amounts and
quantities are not negative, which nothing in the service checks.  TLC evaluates
the assumptions on each run.  `PROJECT.json` lists the theorems a reader should
know of.

`EventDeduperProofs`:

- `WorkOncePerMark`: what `EventDeduper` gives its callers, at most one claim at
  a time and under a mark (`ClaimsMarked`), and work done at most once per mark
  (`OncePerMark`).  `ImplementsDeduper` of the consumer and of the backfill carry
  it to both.

`CoreEventsProofs`:

- `TypeCorrect`: `Spec => []TypeOK`.
- `ExclusiveHandling`: `Spec => []HandlingExclusive`.  Inductive with `WorkerOK`,
  what each `pc` says about the delivery (`Lock`): MarkFresh needs the mark to be
  missing, so no other worker can be inside; only the worker inside, or a reap
  when none is, deletes it.
- `CountingCorrect`: `FanOutInOrder`, `AtMostOncePerMark`, `CompletedInFull`.
  None is inductive by itself: a worker inside the handler has already used up
  its mark for the calls it made and not for the rest.  `Counting` adds that the
  calls made are strictly ahead of the others (`RunAhead`), that the rest are
  still covered by `erased` alone (`RunFresh`), and that the calls made are ahead
  of `completed` (`RunUncompleted`).
- `CustodyCorrect`: `MarkIsHonest` and `NothingLost`.  `Custody` adds what holds
  while an ack is on its way: a worker acks only an event that is completed,
  orphaned or in the hands of another worker.
- `FanOutOrdered`, `CompletionsFull`, `MarksHonest`: the parts of the two
  conjunctions under their own names.
- `ImplementsDeduper`: `Spec => DeduperSpec`.  Under `Lock` a claim is one worker,
  so beginning or ending a handler changes the claim of one event
  (`ClaimsChange`), and every other step leaves the abstract variables alone.

`BootProofs`:

- `BootImplementsConsumer`: `BootSpec => ConsumerSpec`, step by step; the restart
  after a shutdown is CoreEvents' `Start`, the end of the process its `Die`.
- `BootKeepsEvents`: hence `HandlingExclusive`, `MarkIsHonest` and `NothingLost`
  hold of a service that boots, stops and is killed.
- `IndexedFirst` and `BootTypesCorrect`: `IndexedBeforeConsuming` and `BootTypeOK`,
  from `BootInv`: what each phase says of the consumer, the index and the
  attempts.

`SetSums`: what a sum over a finite set does when one value or one element is
added, when the set is split or the functions are added or compared, and that an
average lies between the extremes.  The library offers no such facts.  They
rest on `MinimalSubset`: among the subsets of a finite set for which a formula
fails one is minimal, a consequence of the library's `WFMin`, which takes a set and
not an operator.

`AnalyticsProofs`:

- `ImplementsConsumer`: `Spec => Consumer!Spec`.  So the consumer's type, `Lock`
  and `Counting` hold of the pipeline (`ConsumerFacts`), and only the effects of
  its calls remain to be followed.  `StepKinds` reduces every step to three: one
  call takes effect, a context expires, or no document changes.
- `EffectsCorrect`: `RowsMatchEffects`.  It is not inductive alone: a delivery or
  a rejection books under what it looked up, which must be the order's own
  context (`ContextsTrue`, which also says which calls of a worker have looked
  up), and an upsert adds to a document only if that has its fields (`RowsOK`).
  `PlacedBooks` and its like follow each handler call by call (`EffectBooks`);
  `AddsUpBooked` says that one booked call keeps every document a sum.
- `TypeCorrect`: `TypeOK`, from the same three and the consumer's types.
- `ItemsCorrect`: `ItemsMatchEffects`, from `ItemsInStep`: the document of a
  product is the sum over events of the sums over their lines that landed,
  whatever part of a bulk write lands.
- `DeliveriesFollowOrders`: `DeliveredAfterPlaced`, from `Saved`: an order with a
  saved context, or with a delivery past its lookup, has had every call of its
  placing.  The TTL of the contexts does not matter, since what landed stays.
- `NarrowerAhead`: `PlatformNeverAhead`, from `FanOutInOrder` and
  `RowsMatchEffects`: `DaySums` turns the sum of a day's documents into the sum
  of its events' effects, and each effect landed in the order of the calls.
- `CleanCountsOnce`: `CountedOnce`.  In a clean end no event is in custody, so by
  `NothingLost` each was completed; nothing was erased, so `AtMostOncePerMark` and
  `CompletedInFull` pin what landed to one.

`AnalyticsReportsProofs`, about the reports in every state of the pipeline:

- `ProductsFollowBranch`: `ProductsBehindBranch`, from `SoldFirst`: behind every
  product document is an order whose items landed, so its branch is counted.
- `ActiveCorrect`: `ActiveMeansOrders`; the two queries pick the same restaurants.
- `CurrencyCorrect`: `CurrencyOfAnOrder`, from `Currencies` and `ItemCurrencies`: the
  write that counts an order, or a line of it, is the one that sets the currency,
  and what landed stays landed.
- `SummariesCorrect`: `SummariesAddUp`; `GroupSplits` cuts the pipeline's group of
  documents at a day, and `RowsOK` gives the documents their fields.
- `AveragesCorrect`: `AveragesPlausible`.  By `RowsMatchEffects` sum and count are
  weighted by the same landings, so the quotient cannot leave the range of the
  amounts (`AverageBetween`), rounding down included.

`GateProofs`:

- `TypeCorrect`, with the bound on attempts (`Trying`).
- `DecisionsBounded` and `ServedProven`: `BoundedStaleness` and `ServedOnProof`,
  from `Sound`: entries are at most `MaxLag` old when stored and never newer than
  core-service's list; so is the list of a request on its way to the store.
- `GateImplementsCheck`: between the other checks the permission check keeps its
  specification and so both properties.
- `GateTypesCorrect`, `ReadsAreChecked`, `RepliesCorrect`: `GateTypeOK`,
  `ReadBehindChecks` and `RepliesTellCause`, from `GateInv`: what each value of
  `gate` and `outcome` says about the checks already passed.  For the causes of
  the permission check's own replies `FoundCorrect` adds what `found` and `answer`
  say of a request that is fetching or has failed to, and `HollowCorrect` that every
  empty list goes back to a hollow answer of the role.

`BackfillProofs`:

- `TypeCorrect`, inductive with `Paging`: where a run stands in its page, and that
  it asks for another page only when there is one.
- `CountedOncePerMark`: `LandedOncePerMark`, from `Lock` (one run has an order in
  hand, under its mark) and `RunFresh` (its mark is not used up for the calls it
  has still to make).  The live consumer is granted a share of the landings
  (`Share`): one for each mark of the event that is used up for the call, and none
  yet while its handler has that call still to make, under its mark (`LiveHeld`).
  `LiveShare` takes each live step.
- `ReportCorrect`: `ReportAddsUp`, from `Tally`: each order before the present one
  is in exactly one counter, and `fetched` is the end of the page.
- `SuccessHonest`: `SuccessIsHonest`, from `Honest`: a marked order is applied, in
  hand, reported or orphaned, and a run leaves behind it only such orders;
  `SettledStays` shows that no later step of any run undoes that.
- `ImplementsDeduper`: `Spec => DeduperSpec`, as for the consumer.

Only model-checked: liveness (`EveryMessageSettles`, `EveryStopCompletes`,
`EveryRequestAnswered`, `EveryRunEnds`), since fairness and ENABLED are outside the
prover, and the six violations, which are counterexamples and need no proof.
Induction over data is not available as a rule with an operator parameter; where
it was needed, over finite sets, a smallest counterexample takes its place.

## Findings

Seven places where a document or comment promises something else than the code
does, with six runs that end in a counterexample: at-least-once delivery
(`docs/system-design.md`; an ordinary shutdown suffices), convergence of
out-of-order events (`README.md`, and the comment of `ApplyOrderDelivered`),
"next request" permissions (`README.md`), the range of `failureRate`
(`dto/failures.response.go`), re-runnable handlers (`coreevents/payloads.go`), and
the re-runnable backfill (`cmd/backfill-aggs/main.go`).  `PROJECT.json` quotes
the lines.

## Not modelled, and plan

Modelled in this order: `CoreEvents`, `Aggregates`, `Analytics`, `Reports`,
`PermissionCache`, `Backfill`, then `EventDeduper`, `Boot` and `Gate` around them.
What is left, and why:

- Configuration is read once at start and keeps no state.
- Logging, correlation ids and the request context carry values for log lines; no
  property is about them.
- Signatures and expiry of tokens are the JWT library's: a token verifies or does
  not.  `RequireAPIKey` guards no route.
- The backoff of the HTTP client is left to the clock, and the request bodies it
  could send have no caller.
- The deliveries of the `core.events` queue are the invalidations of
  `PermissionCache`; `Boot` does not follow its worker a second time.
- What the supervisor makes of exit status 0 after a failed HTTP server
  (`lib/boot/boot.go:144`) is configured outside the repository; `Boot` lets it
  start whatever ended.
- The order of report rows and `updated_at`: nothing depends on them.
- What order-service pages to the backfill: another program, taken to answer each
  cursor with the orders after it.

Next would be what the aggregates mean for the backfill: `Backfill` counts landed
calls, and their effects on the documents would follow from the lemmas of
`AnalyticsProofs` (`PlacedBooks`, `AddsUpBooked`), so that the documents are sums of
what both the live consumer and the runs applied.
