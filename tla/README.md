# Verification of ChainRoute

TLA+ specifications of ChainRoute's payment processing, TLC instances that
check them, and TLAPS proofs of the properties that matter most. Paths below
are relative to the repository.

## The system

`POST /payments` (`go-api/cmd/server`) validates a payment, looks its idempotency
key up, asks the bridge providers for quotes (testnet payments only) and the C++
routing service (`cpp-routing-service/`, `router/`) for the cheapest route over
those quotes or over a simulated network, and writes payment, hops, quotes and an
outbox event in one Postgres transaction. The same server answers the dashboard's
reads. Everything after the insert happens in `go-api/cmd/worker`, one process
with these goroutines:

| part | state it owns or changes | operations |
|---|---|---|
| outbox publishers (`internal/worker/publisher.go`) | `outbox_events.published_at`, row locks, the Kafka topic | claim the oldest unpublished row, publish, mark, commit |
| consumers (`cmd/worker/main.go`, `internal/worker/processor.go`) | `payments.status`, reader position, committed offsets | fetch, claim, execute, complete, commit the offset |
| recovery sweep (`internal/worker/recovery.go`) | `payments.status` | complete stale PROCESSING payments (simulated mode) |
| testnet executor (`internal/worker/executor.go`) | `payment_executions`, `wallet_nonces`, the origin chain | pre-flight checks, nonce, sign, persist, send, mark |
| reconciler (`internal/worker/reconciler.go`) | the same | recover, drive forward, check outcomes, settle |

Kafka, Postgres, the origin chain and the bridges are outside the repository;
they are modelled by what the code relies on.

What makes it hard: publishers, consumers and sweeps interleave between any two
statements; events are delivered more than once; statements and sends fail
without saying whether they took effect; the process dies anywhere; an offset
commit covers every earlier message of its partition; a wallet's nonces are
strictly sequential; and two workers overlap during a deployment (the ECS
service sets no deployment limits).

## Modules

| module | models |
|---|---|
| `PaymentLifecycle` | the abstract specification: which status changes exist, per execution mode |
| `PaymentPipeline` | API insert, outbox, Kafka, consumers, recovery; simulated payments |
| `PaymentPipelineProofs` | theorems about `PaymentPipeline` |
| `TestnetExecution` | executor, reconciler, nonces, origin chain and bridge; testnet payments |
| `TestnetExecutionProofs` | theorems about `TestnetExecution`, any number of workers |
| `TestnetChainProofs` | theorems about `TestnetExecution` and the chain: paid once, and what one reconciler makes true |
| `PaymentAPI` | `POST /payments`: concurrent requests, idempotency, connection pool |
| `PaymentAPIProofs` | theorems about `PaymentAPI` |
| `BridgeQuotes` | Across and Relay clients, amounts, slippage, what is signed and how it settles |
| `BridgeQuotesProofs` | theorems about `BridgeQuotes` |
| `NetworkSimulator` | the simulated network's topologies and snapshots |
| `RouteSearch` | the routing service's `FindRoute` and Dijkstra's search |
| `RouteSearchProofs` | theorems about `RouteSearch` |
| `PaymentReads` | listing, single payment, dashboard totals and time series |
| `PaymentReadsProofs` | theorems about `PaymentReads` |
| `SetInduction` | induction and sums in a form the proofs can use |
| `MC...` | instances for TLC |

`PaymentPipeline` and `TestnetExecution` instantiate `PaymentLifecycle`
with the identity on `status` (`RefinesLifecycle`). The others meet at the tables:
`PaymentAPI` ends with the rows the two begin with, `BridgeQuotes` looks inside the
pre-flight checks that are free choices in `TestnetExecution`, `RouteSearch` is the
service `PaymentAPI` calls, and `PaymentReads` runs readers beside the writers of
the pipeline and of testnet execution.

### PaymentPipeline

`status`, `createdAt` and `published` are the columns of `payments` and
`outbox_events`; `pubPc`/`pubRow` a publisher's open transaction and the row it
locks; `log`, `position` and `committed` the topic, the reader and the group's
offsets; `inFlight` the produce requests nobody waits for any more; `con` where each
consumer is in `runConsumeLoop` and the message it holds; `sweep` the ids left in
the current recovery sweep. One action is one statement or transaction end, or one
call to Kafka. A statement that reports an error may or may not have been applied.
`producer.go` leaves the writer of kafka-go at its defaults, up to ten attempts and
no idempotence, so `Publish` is not one append: `ProduceRetry` gives up on an
attempt and tries again, and what was given up on, there, in a failed `Publish` or
in a crash, is appended by `BrokerAppend` at any later time or never. `WorkerCrash`
drops everything in memory and rewinds the reader to the committed offsets;
`Rebalance` rewinds it while the consumers keep what they hold. Staleness is left
open: any PROCESSING payment may be swept, which covers the stalled but living
worker `recovery.go` talks about. The order of `created_at` is free, since it is the
start time of a transaction. Undecodable events are left out: nothing but
`CreateOrGetPayment` writes events.

### TestnetExecution

`exec` is the execution row of each payment (nonce, signed version, broadcast,
external status), `nextNonce` the wallet's counter, `net` what the chain and the
bridge know of each signed transaction, `job` where a handler or reconciler is
in the executor's or reconciler's code, `sweep` the phase of `SweepOnce`. What a
pre-flight check says is a choice, except for expiry and the amount limit, which
do not change back. A signing makes a new version: fresh quote and gas price
change the hash. A row may be stale whenever no living handler works on it;
`HandlersTimeOut` records that the handler's 30 s timeout is below the 120 s
staleness (both defaults of `cmd/worker/main.go`). `payments.updated_at` and
`payment_executions.updated_at` are not refreshed while a reconciler works, so
two reconcilers may take the same row.

The chain mines in nonce order, and a node accepts a second transaction of one
nonce as a replacement or refuses it. Six kinds of faults: a crash, an ambiguous
send, a failing statement, a failing quote or lookup, a pooled transaction that the node
drops (`Evict`), and a claim by a worker that has no executor (`ClaimUnequipped`).
`checkNonceDivergence` only logs and is left out.

### PaymentAPI

`pc` is where each request's goroutine is in `PostPayments` and
`CreateOrGetPayment`; `payments`, `hops`, `stored` and `outbox` are the committed
rows. A statement outside a transaction needs a free connection for one step, a
transaction keeps one from `BeginTx` on, and an insert waits for an open
transaction that inserted the same key, as `ON CONFLICT` does. Any number of
servers is the same as one: they share only the tables (the instance's pool is
then the tighter case). An amount is a value and the number of digits it was
written with; fees are compared as the router does, by their float64 values
(`FeeFloat`). `DbError`, `CommitAppliedButFailed` and `Vanish` are the faults.

### BridgeQuotes

One payment from its text amount to its settlement. `asked` is the client's text,
`column` what NUMERIC gives back, `row` the stored quote, `held` the envelope in
memory between the nonce and the signature, `signed` what was persisted. A
provider's answer is a failure or a decoded body any of whose fields may be wrong;
`GetQuote`, `BuildTransaction` and `CheckStatus` of both providers are operators,
`Judge` the order of checks that `ExecuteTestnetPayment` and
`DriveExecutionForward` share. The two differ in what they do with a refusal, and
so do the actions. Addresses, chains and calldata are names.

### NetworkSimulator and RouteSearch

`NetworkSimulator` defines every topology the generator can draw, for every result
of its random numbers, and the graph `snapshot()` makes of it. `RouteSearch` takes
one request through validation, the choice of graph (snapshot or candidate edges),
the search one popped entry and one edge at a time, with stale queue entries and
parallel edges, the rebuilding of the route and the answer. The priority queue is a
set of pairs: an entry is pushed only when it improves a distance, so no pair occurs
twice. `Snapshots` may be any set of graphs in which every chain has a node for every
asset, no bridge leads to another asset and no fee is negative
(`SnapshotsAssumption`); the instance takes those of `NetworkSimulator`, of which
TLC also evaluates that their edges join the chains of the bridges they stand for
(`SnapshotJoinsBridges`).
`RequestsAssumption` is what both callers guarantee.

### PaymentReads

The writers are the statements that create and move payments; the clock ticks
between them, so that `created_at` may be equal, and a payment that began earlier
may commit later. A reader takes one query at a time: pages of a listing by
cursor, the payment and then its execution, the three queries of the totals, the
buckets of the time series. `steady` remembers which rows a listing must contain.
`ORDER BY` is the sequence in which each row comes before the next (`SortRows`).

## What the runs show

`CHECK_DEADLOCK FALSE` everywhere: the system is quiet when all payments are done.

| run | checks |
|---|---|
| `pipeline_restarts` | two publishers and consumers: outbox and topic agree across crashes and retried or failed publishes, only those duplicate events, one consumer executes a payment at a time |
| `pipeline_sequential` | the default single consumer commits only past claimed payments, strands none, every accepted payment ends, and the lifecycle is followed, if `ClaimPayment` does not fail |
| `testnet_faults` | one worker, all six kinds of faults: the transaction on the network is the recorded one, status agrees with the chain, an observed outcome is always applied, lifecycle |
| `testnet_two_workers` | two workers: nonces have no gap or repetition, no payment is paid twice |
| `testnet_liveness` | failing sends and unequipped workers never keep a claimed payment from ending |
| `payment_api` | one payment per key, a 409 only for another request, a late retry needs neither router nor providers, a payment has all its rows, the selected quote is the one routed, and no request waits for ever |
| `route_search` | the route found is a cheapest of all simple paths and exists exactly when one does; ties go to the first candidate; settled nodes stay settled; the search ends |
| `bridge_quotes` | what is signed spends the routed amount on the pinned contract within the tolerance; amounts and fees survive their conversions; deadlines are not cut; the outcome can be asked for and only definite words decide it |
| `payment_reads` | pages are newest first, without repetition and complete; an answer carries the transaction its status implies; totals add up; the time series keeps to its window |

Three runs show a disagreement between the code and what a comment or doc says of
it (details and quotations under `findings` in `PROJECT.json`):

- `pipeline_two_consumers`: with two consumers and a crash a payment is lost;
- `testnet_settlement_crash`: a crash inside `markTerminal` leaves a payment SUBMITTED;
- `testnet_nonce_gap`: a payment fails while holding a nonce nobody will use.

More observations are recorded as hazards, each found by changing the constants of
a run:

- a failing `ClaimPayment` leaves its message to be passed by the next commit
  (add "claim" to `Faulty` in `pipeline_sequential`);
- with two workers a payment may be FAILED by the one whose fresh quote slipped
  while the other sends its transaction, and two reconcilers may overwrite each
  other's signed bytes (`OutcomeMatchesChain` and `RecordedIsSent` hold for one
  worker);
- a dropped transaction is never sent again, so its payment stays SUBMITTED (add
  "evict" in `testnet_liveness`);
- the reconciler checks only the lowest unconfirmed nonce, so a mined transaction
  waits until the bridge has settled the ones before it;
- Across's `exclusivityDeadline` is cast to 32 bits without a check, which
  `SignedAsRouted` therefore leaves out.

`PaidOnce` holds although two workers may sign a payment twice, because both
signings use the nonce of the payment's one execution row; a signing that asked the
chain for its nonce would break it.

### Bounds

Two payments: enough for one message, row or nonce to be ahead of another, which
is what every property here is about. One of them completes and one fails, except
in `pipeline_restarts`, where both complete and are interchangeable. Two
publishers and consumers where concurrency matters, one or two partitions (the
topic has three; offsets of different partitions do not interact), two distinct
`created_at`. `MaxFaults` (one or two) bounds all faults of a run together and
`Faulty` names the kinds a run allows. `testnet_faults` adds a third payment
above the amount limit. `MaxSigns` is two: a second signing takes a second actor
on an unsigned row, and each actor signs a row once. Symmetry is used only in
runs without liveness.

`payment_api`: three requests under one key (a winner, a loser of the insert and a
retry), two connections, so that the pool can be full of transactions while a third
request waits; one fault; fees of which two are equal as floats. `route_search`:
three chains, all networks of at most three bridges in the requested asset, with
free, dear and illiquid ones, and a bridge of the other asset that must not be
taken; candidate lists with a tie. `bridge_quotes`: one decimal, words of two bits,
amounts below, at and above each limit, answers wrong in at most two fields, a
tolerance that lies between two fees. `payment_reads`: three payments over two clock
ticks, pages of one to three rows, one execution; limits and windows unset, zero,
inside and above the cap.

### Fairness

Every goroutine is a loop without exit but shutdown, so publishers, consumers and
sweeps are weakly fair; faults, clients and late appends are not. A payment left
alone passes the staleness threshold, so the recovery query with all stale ids is
weakly fair; the reconciler's queries are strongly fair because they are enabled
only between phases. Quotes expire by the clock. That the chain mines the next nonce
and the bridge settles a deposit is an assumption about them: without it a payment
stays SUBMITTED, as the code intends. `route_search` assumes only that the one
thread of a search keeps running.

## Proofs

`PaymentPipelineProofs` proves, for any finite or infinite set of payments,
publishers and consumers, any number of partitions and any faults:

- `TypeCorrect`, the type invariant, which includes that reader, offsets and
  consumers point into the logs and that a lock is held exactly while a
  transaction is open;
- `ImplementsLifecycle`: every step is a lifecycle step or leaves `status` alone;
- `OutboxSafe`: by `AgreementInv`, which adds to the property that a row exists
  only with its payment and that a locked row, or an event in flight, is a payment's;
- `ClaimsExclusive`: a consumer enters "claimed" only by the step that takes the
  payment out of ROUTED, and no step leads back;
- `CommitOrdering` and `NothingStranded`, from `DeliveryInv`: messages handed out
  are settled or held (`HandedOut`), a single consumer has settled everything
  before the message it holds (`InOrder`), and so has what is committed
  (`CommittedSettled`). The commit property alone is not inductive: it says
  nothing of the messages a consumer has passed on its way to a commit. The
  hypotheses, one consumer and no failing claim (for `NothingStranded` alternatively
  no rewind), are necessary: `pipeline_two_consumers` shows the one, the observation
  about failing claims above the other.
- `DuplicatesBounded`, from `CopiesInv`: a row lock has one holder, and an event that
  no publisher has sent and marked, or is about to mark, has at most as many copies,
  in the topic or in flight, as attempts were retried, publishes failed and workers
  died. The bound itself is not inductive: it forgets who holds the row and what the
  broker may still append.

`TestnetExecutionProofs` proves, for any payments, handlers, reconcilers and faults:

- `TypeCorrect`, by `TypeInv`, which adds what an actor counts on where it is: its
  payment has its nonce, and is signed before it is sent;
- `AlwaysNoncesDense`: a nonce is handed out only in the step that inserts the row,
  and the row is inserted once;
- `ImplementsLifecycle`.

`TestnetChainProofs` proves `AlwaysPaidOnce`, again for any number of workers: a mined
transaction used the nonce of its payment's row (`NonceUsed`), and the chain takes one
transaction per nonce. The property alone says nothing of the transactions still in the
pool. It also proves `AlwaysRecordedIsSent`, `AlwaysOutcomeMatchesChain` and
`AlwaysObservationApplies` for any payments, handlers, signings and faults, under
`OneWorker`: one reconciler, and handlers that time out before their rows are stale.
That is what one `cmd/worker` with its default settings starts, and it is necessary:
with two reconcilers TLC finds all three violated, as the observations above say. The
argument is ownership (`WorkerInv`). Until a payment's transaction is marked
broadcast, one goroutine at most works on it (`Exclusive`), and a row a sweep has
still to visit is nobody's (`SweepInv`), so what a goroutine has read is still true
when it acts (`JobInv`); afterwards the row's signature is fixed and the network knows
only that one (`RowInv`). `FaultPreserves` and `CrashPreserves` show that an ambiguous
statement or send, or a crash, hands the payment over in a state from which the next
owner goes on.

`PaymentAPIProofs` proves, for any requests, keys, bodies, providers, pool and faults,
`AlwaysOnePaymentPerKey`, `AlwaysConflictIsReal`, `AlwaysRetryNeedsNoRouting`,
`AlwaysComplete`, `TypeCorrect` and `AlwaysSelectedQuoteExecutes`. The inductive
invariant says that a key has one row, or one open transaction that inserted it, or
neither (`KeyInv`), what an answer given says of the table (`AnswerInv`), that quotes
are there exactly for testnet requests (`QuoteInv`) and that a late request never gets
past the lookup (`LateInv`). For the selected quote `TypeInv` adds that the hop a
request carries to its transaction is the one the search chose for its quotes
(`HopInv`), and that a request which created a payment is over (`DoneInv`).

`BridgeQuotesProofs` proves, for every precision, word size, limit, tolerance and set
of provider answers, `TypeCorrect`, `AlwaysSignedAsRouted`, `AlwaysWithinTolerance`,
`AlwaysCanBeAsked` and `AlwaysDefiniteWords`. `JudgeSound` shows what an accepted
answer must be (`SlippageBound` for the arithmetic,
`EnvelopeSound` for the checks); the invariant keeps it for what is held and what is
signed, since neither row nor amount changes after routing. `AlwaysConversionsExact`
is about the amounts themselves, for every number of decimals. `Number` reads a text by a
recursive function; `NumberIs` and `ReadingExists` say which number that is,
`NumberConcat` how it splits at the point, and `NumberDigits` that writing a number and
reading it back gives the number. Padding on the left (`PaddedNumber`), trimming on the
right (`TrimmedNumber`) and shifting by the missing places (`ScaledNumber`) follow. What
is stored at routing is what was asked for (`AmountInv`), and no later step writes it.

`RouteSearchProofs` proves Dijkstra's search as `route.cpp` writes it, stale queue
entries, parallel edges, free bridges and illiquid edges included, for every graph and
request the assumptions admit: `TypeCorrect`, `AlwaysSettledIsFinal`,
`AlwaysEveryEdgeRelaxed`, `AlwaysFirstCheapestWins` and `AlwaysCheapestFound`. `IInv`
says that queue entries are never below their node's distance (`QueueInv`), that nodes
are settled in the order of their distances (`OrderInv`; candidate edges may have
negative fees, but there the source is settled first and has all the edges), that a
node's distance is its predecessor's plus the fee of the first cheapest edge between
the two (`PredInv`) and that every edge looked at is relaxed (`RelaxInv`). Over bridges
that cost nothing, distances do not order a predecessor before its successor, so
`RankInv` adds that some ranking does: it is why the rebuilt route is a path without
cycles. Optimality then follows by induction along any other path.

`PaymentReadsProofs` proves, for any payments, clock, limits and bucket sizes and any
writes between two queries: `TypeCorrect`, `AlwaysNewestFirst`, `AlwaysListingComplete`,
`AlwaysAnswerHasItsTransaction` and `AlwaysDashboardConsistent`. `ListInv` says that
a row which has matched all along is listed already or lies behind the cursor, which
holds because `created_at` and id never change and `PageCutsOff` shows that a page
leaves out only what lies behind its last row; `DetailInv` that a status read before
the execution row is covered by what that row shows later, as stages only grow;
`StatsInv` that no count of rows shrinks.

`SetInduction` states induction over Nat, intervals and finite sets with a set in place
of a predicate, which is a form the provers can instantiate; sums by recursive
functions, folds and cardinalities, and the induction along paths, rest on it.

The proofs use the named assumptions on the constants of each module, which TLC
evaluates in its runs. Each inductive invariant was checked with TLC on the instances
of the runs before it was proved, that of `RouteSearch` without `RankInv`, whose
rankings cannot be enumerated. Only model-checked: the liveness properties
(`RoutedEventuallyTerminal`, `ProcessingEventuallyTerminal`, `Terminates`) and
`NobodyStalls`, which are about fairness and `ENABLED`.

## Not modelled

- `POST /routes`: validation without state in front of the search.
- `GET /payments/{id}/quotes` and the in-flight gauge: single queries. A cursor that
  is valid base64 with an unreadable timestamp is a database error (500); other
  garbled cursors are refused (400) and modelled.
- The simulator's random generator, which `NetworkSimulator` replaces by a choice,
  and `tick()`, which the server never calls.
- The C++ service does not refuse equal source and destination; both callers do, so
  such requests are not enumerated.
- Several workers in one consumer group beyond `Rebalance` and redelivery: offsets
  of different partitions do not interact.
- Signing, ABI and JSON encoding, HTTP and gRPC transport: what they deliver is
  a value or a failure.
- Metrics, traces, the benchmark, deployment and the rendering in the frontend.
