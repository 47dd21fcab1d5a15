# Event-driven payment saga: verification project

The repository is a payment system of four Go processes (orchestrator, wallet,
external payments, metrics) that share one
PostgreSQL table of events and one Kafka topic. This directory holds TLA+
modules that model its core, TLC configurations that check them on small
instances, and TLAPS proofs for any size. Paths below are relative to the
repository's root.

## 1. The system

### Components, their state and their operations

| Component | State | Operations |
|---|---|---|
| Domain events (`internal/domain/events`) | none | constructors of 13 event types |
| Saga aggregate (`internal/domain/saga`) | state and version of one payment, rebuilt from its log each time | `ApplyEvent`, `TransitionTo`, `IsTerminal` |
| Wallet aggregate (`internal/domain/wallet`) | balance and version of one user, rebuilt from the user's log | `ApplyEvent`, `ValidateDebit` |
| Event store (`internal/infrastructure/eventstore`) | the `events` table: one append-only log per aggregate id | `SaveEvent`, `LoadEvents` |
| Event bus (`internal/infrastructure/eventbus`) | topic `events.payments.v1`, one consumer and its offsets per group | `Publish`, `consumeEvents`, `Close` |
| Saga orchestrator (`internal/application/saga`, `http/saga_handler.go`, `cmd/orchestrator`) | none between messages | HTTP: create a wallet payment, create a card payment, query a status. Messages: `FundsDebited`, `FundsInsufficient`, `PaymentSentToGateway`, `PaymentGatewayResponse` |
| Wallet service (`internal/application/wallet`, `http/wallet_handler.go`, `cmd/wallet`) | none between messages | HTTP: read a wallet, add funds, refund. Message: `WalletPaymentRequested` |
| External payment service (`internal/application/externalpayment`) | attempt and delay of the retry loop, webhook goroutines | Message: `ExternalPaymentRequested` |
| Gateway mock (`internal/infrastructure/mock`) | none | `ProcessPayment` |
| Dead letter queue (`internal/infrastructure/dlq`) | an in-memory queue and its handlers, one per process | `Publish`, `Subscribe`, `Close` |
| Metrics service (`internal/application/metrics`, `cmd/metrics`) | counters in memory | Messages: the six types that begin and end payments. Dead letters: `HandleDLQEvent` |
| Error log (`internal/infrastructure/errors`) | the `error_logs` table | `PersistDLQEvent`; two queries nothing calls |
| Partition helper (`eventbus/partition_helper.go`) | none | `GetPartition` |
| State machine helper, configuration, logging, health | none | pure functions; the state machine helper is called by nothing |

### How they interact

    client --POST /wallet--> orchestrator ==WalletPaymentRequested==> wallet service
    wallet service ==FundsDebited / FundsInsufficient==> orchestrator
    orchestrator ==WalletPaymentCompleted / WalletPaymentFailed==> (status query)

    client --POST /creditcard--> orchestrator ==ExternalPaymentRequested==> external service --> gateway
    external service ==PaymentSentToGateway, then PaymentGatewayResponse==> orchestrator
    orchestrator ==ExternalPaymentCompleted / ExternalPaymentFailed==> (status query)
    external service --a payment given up--> its own dead letter queue, which nothing reads

    metrics service: counts the payments on the topic, and writes to error_logs
    what is in its own dead letter queue, to which nothing publishes

Every `==event==>` is a row inserted in the shared table and then a message on
the shared topic, by two separate calls. Every service is a consumer group with
one consumer goroutine, which sees all messages and passes over those that are
not its own. HTTP handlers are goroutines of their own: they run at the same
time as each other and as the consumer. All state is rebuilt from the table for
every message; the services share nothing else.

### Which behaviour is hard

* **Read, compute, save without a lock.** A wallet operation loads a log,
  computes a balance and inserts it as an absolute value. Nothing checks that
  the log is still the one that was read.
* **Save, then publish, then commit the offset.** Each can fail, and a process
  can die between any two. There is no outbox and no check for an event handled
  before, so a message can be answered twice and an answer can be lost.
* **Errors are committed.** `consumeEvents` commits a message whose handler
  failed and goes on; a failed commit is not repeated either, nor does it bring
  the message back: kafka-go's reader keeps its own place and hands over the next.
* **An error says little.** `WriteMessages` can time out on a message that is on
  the topic; the sender then goes on as if it were not.
* **Order.** The partition computed from the user or the payment is ignored:
  the writer balances by bytes, so related messages go to different partitions.
* **A strict rebuild.** `ApplyEvent` refuses a move the transition table
  forbids, and one such event makes the whole log unreadable (status 404). The
  same refusal is all that keeps a payment from being concluded twice.
* **Time.** The external payment service retries with a backoff inside its
  handler, and a goroutine answers later for the gateway.
* **A queue in memory.** The dead letter queue drops a block of its oldest
  letters when it is full, hands each new letter to goroutines of its own and
  delivers all it holds again each second; a crash empties it.

### What makes each component correct

* Event bus: at least once, in order within a partition, nothing starved.
* Wallet: never overdrawn; the log is an exact account; a request is answered,
  once; other services hear only of what is stored.
* Saga: it ends once; a log the services write can always be rebuilt.
* Orchestrator: it concludes a payment as the wallet decided, once.
* The whole: a payment is requested, the money is taken at most once, it
  completes only with the money taken, and a published request comes to an end.
* External payments: the retry loop keeps to its policy whatever fails in it; a
  card is charged at most once and never for a failed payment; the log never
  runs ahead of the gateway; a published request is taken to an outcome.
* Dead letters: the queue keeps the newest letters; a letter accepted after a
  handler subscribed reaches it, even if the queue drops it; what stays queued
  is stored in the end, though inserts fail.
* Metrics: the counters of a live process are what it has read from the topic.
* Partition helper: events of one user, or of one card payment, get one
  partition, and none is refused.

The hazards behind these properties are listed with their lines in
`PROJECT.json`.

## 2. The modules

| Module | Models | State |
|---|---|---|
| `Events` | domain events | none |
| `SagaAggregate`, `WalletAggregate` | the two aggregates as pure operators | none |
| `Aggregates` | every log up to a bound, legal or not | `log` |
| `Faults` | a budget of faults: failing inserts, lost and repeated messages, failing commits, crashes | `faults` |
| `EventStore` | the events table | `store` |
| `EventBus` | topic, fetches and offsets | `topic`, `position`, `committed`, `current` |
| `ConsumerLoop` | the bus alone, with the loop of `consumeEvents` around an arbitrary handler | and `phase`, `tried` |
| `ServiceRuntime` | what the services share: the store, the bus, and the steps of any operation that writes | and `op` |
| `MetricsService` | the metrics service's consumer and counters, on the loop of `ConsumerLoop` | and `counters`, `started` |
| `WalletService` | the wallet service: its consumer and its HTTP calls | and `overlapped` |
| `Orchestrator` | the orchestrator's operations | as `ServiceRuntime` |
| `WalletSaga` | both services composed: a wallet payment from end to end | as `WalletService` |
| `ExternalPaymentService` | the external payment service, the gateway as a free choice of answers, the webhooks | and `attempt`, `answer`, `delay`, `requests`, `charged`, `deadLetters` |
| `CardSaga` | the orchestrator and the external payment service composed: a card payment from end to end | as `ExternalPaymentService` |
| `PartitionHelper` | the partition computed for an event, over any hash | none |
| `DeadLetterQueue` | the bounded queue of one process | `deadLetters` |
| `ErrorReporting` | that queue with its subscribers, and the handler that writes `error_logs` | and `running`, `subscribed`, `batch`, `spawned`, `stored`, `published`, `born`, `since`, `handled` |
| `PaymentLifecycle` | the abstract payment both compositions implement | `status`, `taken` |
| `MCWalletSaga`, `MCCardSaga`, `MCMetricsService` | sets and symmetry for TLC | |
| `ServiceRuntimeProofs` | lemmas about the runtime's operations, sets of numbers and induction | |
| `OrchestratorProofs` | lemmas about the orchestrator and the sagas it rebuilds | |
| `WalletServiceProofs` | lemmas: what the wallet service's steps keep |
| `AggregatesProofs`, `WalletSagaProofs`, `CardSagaProofs`, `ConsumerLoopProofs`, `ErrorReportingProofs` | theorems about the module of that name and their proofs | |

`ServiceRuntime` is extended by every service; `WalletSaga` extends
`WalletService` and `Orchestrator`, `CardSaga` extends `ExternalPaymentService`
and `Orchestrator`. Both instantiate `PaymentLifecycle` with a refinement
mapping: `taken` is the number of debits in the one, of charges in the other.
Both extend `PartitionHelper`, for what it says of the events they publish.
`DeadLetterQueue` is the queue of the external payment service in
`ExternalPaymentService` and that of any process in `ErrorReporting`.

### How state and actions correspond to the code

* `store[a]` is what `SELECT ... WHERE aggregate_id = a ORDER BY
  sequence_number` returns: payment events under the payment's id, wallet events
  under the user's.
* `topic[p]` is a partition. `position` is the consumer's place in it,
  `committed` the broker's; a restarted consumer goes back to `committed`.
  `current` is the partition of the message its handler is working on.
* `op[a]` is where an actor is in its one operation and the event it has built.
  An actor is the consumer of a service, a creation of a payment (named by the
  id it draws), an HTTP call to the wallet service or a webhook goroutine.
* `attempt`, `answer` and `delay` are the loop variables `attempt`, `err` and
  `delay` of `processPaymentWithRetry`; `requests` and `charged` count, per payment, the
  calls the gateway has seen and accepted; `deadLetters` is the queue of the
  service's own process, which a crash empties.
* `spawned` are the goroutines `DLQSimulator.Publish` has started, `batch[h]` what
  the loop of handler `h` has still to do of its `eventsCopy`, `stored` the letters
  of which `error_logs` has a row. Letters are numbered as they are accepted.
* `counters` is the map of the `MockCollector`; `started` the offsets a metrics
  process began at.

An operation of the code is a sequence of the steps below. What lies between
two steps is local to the goroutine, so each step is atomic: it makes one call
to the database or the broker.

| Step | Action | Code |
|---|---|---|
| fetch a message of its own types | `Receive` | `eventbus.go`, `consumeEvents`; the closures in `cmd/*/main.go` |
| fetch another message, return nil, commit | `Ignore` | the same; one step, since no one else can see it in between |
| load the log, decide, build the answer | `HandleWalletPaymentRequested`, `HandleAnswer`, `AddFunds`, `ProcessRefund`, `CreateWalletPayment`, `CreateExternalPayment` | the handlers |
| call the gateway, build the event its answer leads to | `ProcessPayment` | `processPaymentWithRetry` |
| the handler refuses | `Refuse` | error returns of the orchestrator's handlers |
| insert | `Save` | `SaveEvent` |
| a query or an insert fails | `StoreFails` | error returns of every handler |
| write to the topic: once, twice or not at all, or once with the acknowledgement lost, so that the call fails though the message is there | `Publish` (`Send`, `SendFails`) | `Publish` |
| the same in the retry loop, which goes on to the next event or attempt; a publication that returned an error (`ExternalPublishFails`) starts no webhook and writes no dead letter, whether or not the event is on the topic | `ExternalSave`, `ExternalStoreFails`, `PublishSent`, `PublishOther`, `ExternalPublishFails` with `After` | `handleSuccess`, `handlePermanentFailure`, `handleMaxRetriesExceeded`, `publishTimeoutEvent`, `publishRetryRequestedEvent` |
| commit the offset, or fail to | `CommitMessage` | the end of `consumeEvents` |
| the process dies, a new one joins | `Crash` | |
| count a message | `MetricsHandle` | the closure in `cmd/metrics/main.go`, `application/metrics/service.go` |
| accept a dead letter and start its goroutines | `PublishLetter` (`Enqueue` in the retry loop) | `DLQSimulator.Publish` |
| a handler subscribes; its loop copies the queue; it handles one letter of the copy | `Subscribe`, `CopyQueue`, `HandleQueued` | `Subscribe`, `consumeEvents` of `dlq.go` |
| a goroutine of `Publish` runs | `HandleSpawned` | `DLQSimulator.Publish` |
| the queue is closed; its process dies and is restarted | `CloseQueue`, `CrashReporting` | `Close`, `cmd/metrics/main.go` |

The rebuild loops are modelled twice: as the code's loop (`SagaLoop`,
`RebuildLoop`, folds over the log) and as closed forms (`CanRebuild` and
`StateOf`, `Balance`), which the other modules use because they are cheaper to
check and can be reasoned about. `Aggregates` checks that they agree, and
`AggregatesProofs` proves it for logs of any length.

`overlapped`, `tried`, `started`, `born`, `since` and `handled` are history
variables, and so is `published` but for the bound on it: no guard reads them.

## 3. What the runs check

| Run | Question | Answer |
|---|---|---|
| `aggregates` | do loops and closed forms agree; can a rebuilt saga end twice | they agree on every log of up to 5 events; no |
| `event_bus` | is delivery to the metrics service at least once, in order within a partition, and never stuck; are its counters right | yes; a counter is the number of messages of its type that the process has read since it began |
| `wallet_balance` | is the balance always credits less debits | **no**: an update is lost when two operations overlap, without any fault |
| `wallet_saga` | does the system implement `PaymentLifecycle` when nothing is delivered twice; what holds of its wallets and its publications | yes, under lost messages, failing inserts and failing commits; never overdrawn, an exact account of its events unless operations overlap, only stored events published, and the partitions computed for them keep users together |
| `wallet_saga_redelivery` | what remains under repeated deliveries and crashes | sagas can be rebuilt, are concluded as the wallet decided, requests are answered before their offset is committed, and published payments end |
| `commit_retry` | is a failed commit made up for by the next fetch | **no**: the offset stays uncommitted until a later message of the partition is committed |
| `wallet_debit_once` | is a payment debited once when it is delivered again | **no**: there is no check for an event handled before |
| `card_saga` | does the retry loop keep to its policy, and does the card payment implement `PaymentLifecycle`, when no request is delivered twice | yes, whatever inserts, publications and commits fail: attempts are bounded, and pauses doubled, capped, and lengthened by the jitters of all before them |
| `card_saga_redelivery` | what remains under crashes in the loop and repeated requests | the log never runs ahead of the gateway; every published request is sent to the gateway or failed; a webhook that is started answers unless it dies with its process |
| `dead_letters` | what does the queue keep, deliver and have stored while it overflows, inserts fail and the process dies | the newest letters; none accepted after a handler subscribed is forgotten; what stays queued is stored |
| `card_completes` | does an accepted card payment complete | **no, never**: the orchestrator applies the response to a log that already holds it, and refuses |
| `card_failed_status` | does a payment given up read as FAILED | **no**: its log cannot be rebuilt, the status is 404 |

The five runs that expect a violation are disagreements between the code and
what its comments and documents say; `PROJECT.json` quotes them. Three more
disagreements have no run of their own, for nothing in the code is meant to
keep the promise:

* **A payment sent and not answered.** `docs/architecture-desing/05-error-handling-saga.md:86`
  has the external payment service, when it dies after `PaymentSentToGateway` and
  before the response, wait for the webhook or a timeout. The webhook is a
  goroutine of the process that died. It is not started either when the process
  dies between the insert and the publication, or when `Publish` returns an error
  (`service.go:139-145`), though the message may be on the topic
  (`ExternalPublishFails`); and the request's offset is then committed, or its
  second delivery may fail. `StartedWebhooksAnswer` says what is left.
* **A payment recorded and never decided.** `docs/architecture-desing/03-event-design-specification.md:408-409`
  rolls the insert back when the publication fails, and `05-error-handling-saga.md:205`
  has failed saves tried again. In the code the row stays (`orchestrator.go:162`)
  and the error of a handler is logged and committed (`eventbus.go:160-164`), so a
  lost publication or a failed save leaves a payment in progress for ever.
  `PublishedPaymentsSettle` is about requests that reached the topic, and is checked
  without those two faults.
* **A dead letter and `error_logs`.** `05-error-handling-saga.md:588-604` has the
  metrics service store the letters of payments given up. Each process builds a
  queue of its own (`cmd/external-payment/main.go:43`, `cmd/metrics/main.go:44`): the
  one that is published to has no subscriber, the one with the subscriber has no
  publisher.

### Bounds, and why they are enough

* `aggregates`: 5 events. A saga has at most four moves, so five events reach
  every pair of legal history and next event, and one event beyond its end.
* `event_bus`: three messages (one undecodable, two counted by different
  counters), two partitions, two faults: a commit can fail and a later commit or
  a crash then meet the gap it left.
* `commit_retry`: the same messages, one partition, one failed commit.
* `wallet_balance`: one payment and two HTTP calls of one user over one
  partition, no fault. Any overlap is an overlap of two operations; the others
  add what they find and leave. Users do not share a log, so one suffices for
  properties of one wallet, there and in `wallet_saga`. One partition suffices
  because the wallet handles one message at a time whatever its partition. The
  theorems are for any numbers.
* `wallet_saga`: one payment and two HTTP calls of its user, so that both answers
  occur and the debit and the credits overlap in every way; two faults at any
  steps. Several
  payments, which share an orchestrator and may compete for one wallet, are in
  the theorems only; together with two calls they are too many states here.
* `wallet_saga_redelivery`: one payment over two partitions, so that repeated
  answers overtake each other; one crash, repeated write or failed commit at
  any step. `wallet_debit_once` needs one crash.
* `card_saga`: one payment, the code's five attempts, every answer of the gateway,
  two faults at any steps, so that two of the events between attempts can fail in
  one loop. Delays are in units of which a tenth is an integer part: 10 with a
  cap of 60 gives pauses of 10, 20..21, 40..45 and 60..65, so that the delay is
  doubled twice before the cap takes effect, the second time with a jitter in
  it, and ends above the cap. The gateway's mock returns no error but the
  deadline's (and, by default, not even that); the loop's third branch is written
  for one, so the runs have it too. Several payments handled by one loop are in
  the theorems only.
* `card_saga_redelivery`: one payment, two attempts (a first, a last, a retry between
  them and a payment given up), one crash, repeated write or failed commit. With one fault a request is handled at most twice, so the two
  webhooks are as many as can start: `PublishSent` never waits for one.
* `card_completes`, `card_failed_status`: no fault, the code's five attempts.
* `dead_letters`: a queue of three that makes room by two, five letters, two
  faults (failing inserts, crashes). The queue overflows once, at the fourth
  letter, is then neither full nor empty, and is filled again by the fifth; after
  a crash it starts empty. (A second overflow takes a sixth letter and more than
  the time for a run; `QueueKeepsNewest` and `NothingForgotten` are for any
  number of letters.) One handler: handlers share nothing but the queue, and the
  theorems are for any number.
* The hash of the partition helper is a fixed one in which a user and a payment
  fall to different slots; it never decides where a message goes.

`MaxFaults`, the number of messages and `MaxLength` are bounds of the models;
the code has no such bounds. Crashes and failed commits without end would also
defeat the liveness properties in the code.

Deadlock is not checked: a system whose clients have called and whose messages
are handled has nothing left to do.

### Fairness

`MetricsSpec` assumes of the consumer that it takes a step when it has one: the
loop in `consumeEvents` polls for ever and waits for nothing but the next
message. `FairSagaSpec` and `FairCardSpec` assume the same of the two consumers
(weak fairness of all their steps taken together), and `FairCardSpec` of each
webhook once it has been started: a goroutine that sleeps and then writes. No fairness is assumed of clients, of HTTP
calls or of faults. Weak fairness of a whole consumer is enough because it does
one thing at a time: a step it has keeps being enabled until it takes it.

`ReportFairness` assumes that `main` subscribes its handler, that the handler's
loop goes round and that every goroutine of `Publish` runs, as long as the queue
is not closed: it is closed only when `main` returns and the process ends. No
fairness is assumed of publications, and a crash starts everything anew, so
`QueuedLettersStored` excuses letters that are no longer queued. Faults are
bounded, so an insert that is repeated each second succeeds at some time: that is
what the loop relies on in the code as well.

`card_completes` has the same fairness: its counterexample is not of a service
that merely stops. `StartedWebhooksAnswer` excuses a webhook that died before it
saved its response (`WebhookDied`), and is stated where no publication fails: only
there does a `PaymentSentToGateway` on the topic mean that a webhook was started.

## 4. What is proved

Every safety property a run checks is also a theorem, for every value of the
constants.

| Module | Theorem | States |
|---|---|---|
| `AggregatesProofs` (any events, any length) | `WalletLoopIsBalance` | `AggregatesSpec => []WalletLoopAgrees` |
| | `SagaLoopIsStateOf` | `AggregatesSpec => []SagaLoopAgrees` |
| | `SagasEndOnce` | `AggregatesSpec => []RebuiltSagaEndsOnce` |
| `WalletSagaProofs` (any users, payments, calls, partitions, faults) | `WalletTypeCorrect` | `SagaSpec => []WalletTypeOK` |
| | `NeverOverdrawn` | `SagaSpec => []NoOverdraft` |
| | `ExactWithoutOverlap` | `SagaSpec => []ExactUnlessOverlapped` |
| | `PublishedWereSaved` | `SagaSpec => []PublishedAreStored` |
| | `RequestsAreAnswered` | `SagaSpec => []CommittedAreAnswered` |
| | `ConcludedAsDecided` | `SagaSpec => []ConclusionsJustified` |
| | `WalletPaymentsRebuild` | `SagaSpec => []AlwaysRebuildable` (1) |
| | `OnePartitionPerUser` | `SagaSpec => []UserEventsTogether` (1) |
| | `WalletAnswersOnce` | `SagaSpec => []AnsweredOnce` |
| | `SagaImplementsLifecycle` | `SagaSpec => ImplementsLifecycle` (1, 2) |
| `CardSagaProofs` (any payments, attempts, webhooks, pauses, partitions, faults) | `CardTypeCorrect` | `CardSpec => []CardTypeOK` |
| | `GivesUpAfterAllAttempts` | `CardSpec => []DeadLettersWereTried` |
| | `RequestsAreTaken` | `CardSpec => []CommittedAreTaken` |
| | `CardPaymentsNeverComplete` | `CardSpec => []NeverCompleted` |
| | `OnePartitionPerPayment` | `CardSpec => []PaymentEventsTogether` |
| | `NoResponseOutOfTurn` | `CardSpec => []LogFollowsGateway` |
| | `TriedAtMostMaxAttempts` | `CardSpec => []AttemptsBounded` |
| | `CardImplementsLifecycle` | `CardSpec => ImplementsLifecycle` (2) |
| | `PausesDouble` | `CardSpec => []PausesFollowPolicy` |
| `ConsumerLoopProofs` (any groups, partitions, messages, faults) | `LoopTypeCorrect` | `LoopSpec => []LoopTypeOK` |
| | `AtLeastOnce` | `LoopSpec => []CommittedWereTried` |
| | `HandledInOrder` | `LoopSpec => []TriedInOrder` |
| | `CountersAreRight` | `MetricsSpec => []CountersMatchTopic` |
| `ErrorReportingProofs` (any bound of the queue, block, handlers, letters) | `ReportingTypeCorrect` | `ReportSpec => []ReportTypeOK` |
| | `QueueKeepsNewest` | `ReportSpec => []QueueIsRecentPast` |
| | `NothingForgotten` | `ReportSpec => []NoLetterForgotten` |

(1) as long as no request names the empty user (`NoUser \notin Users`). The HTTP
layer does not refuse one, and then the three are false: the rebuild finds no
owner of the payment, and the helper falls back to the payments' ids, which may
hash to different partitions. It is a hazard of `PROJECT.json`; the runs make
the same assumption.

(2) where no process crashes and no message is written twice
(`{"crash", "duplicate"} \cap FaultKinds = {}`). With either both refinements are
false (TLC finds it with one such fault), as `wallet_debit_once` shows for the wallet: nothing in the services
looks for an event handled before. Messages may be lost, and inserts,
publications and commits may fail. `AnsweredOnce` and `AttemptsBounded` carry
the same condition in their statement (`DeliveredOnce`), and
`CommittedAreAnswered` and `CommittedAreTaken` the one that the events table
does not fail.

Other assumptions: those named in the modules (`EventsAssumption`,
`AggregatesAssumption`, `FaultsAssumption`, `BusAssumption`,
`RuntimeAssumption`, `WalletAssumption`, `OrchestratorAssumption`,
`ExternalAssumption`, `LoopAssumption`, `MetricsAssumption`, `QueueAssumption`,
`ReportAssumption`, `PartitionAssumption`): amounts are positive, payment and
user ids are distinct and no payment's id is empty, balances are integers, the
actors are distinct, each service is a consumer group, the retry policy allows
at least one attempt and pauses that can be lengthened by a tenth, and the
queue drops no more than it holds.

### The argument

**Runtime.** `RuntimeInv` (module `ServiceRuntimeProofs`) makes the type
invariant inductive: offsets never run ahead of fetches nor fetches ahead of the
topic, a consumer that is not idle has a message of the topic in hand, and what
is about to be saved or published has been built. Each operation of the runtime
keeps it, whichever service takes it. `OrchestratorProofs` shows once, for both
sagas, that the orchestrator's steps keep it and leave the other consumers'
messages alone.

**Wallet service.** `WalletInv` (module `WalletServiceProofs`, whose lemmas hold
for the wallet's steps whoever takes the others) adds what the wallet needs:
the message in hand is a payment request; an event about to be saved moves its
starting balance by its own amount and never below zero; and, for every user on
whose log no operations have overlapped, an event in flight still starts from
the balance of the log. The last part is why the account stays exact: when such
an event is saved it is the only one in flight, so it continues the chain
(`ChainedAppend`), and afterwards none is in flight that could start from the
old balance. Without it `ExactUnlessOverlapped` is not inductive: a state with a
correct log and a stale event in flight would satisfy it and break in one step.
For what other services see, `StoredInv` adds that an event about to be published
is in the log, and `ServedInv` that every request the consumer has read is
answered or is the one in hand, for which the event about to be saved is the
answer and whose offset is not committed: a crash then repeats requests and skips
none. `ServedInv` holds as long as the events table does not fail, for after such
a failure the consumer commits a request it never answered.

**Wallet payment.** `PaymentInv` says what a payment's log can be: empty, or its
request, or its request and one conclusion whose decision is in the wallet of
its user. It is inductive only together with what every actor has built
(`BuiltBy`) and with every message matching the payment's request in user and
amount, for a conclusion is computed from an answer that was published long
before and from a log that may have grown since. That the second conclusion is
never written rests on the orchestrator doing one thing at a time: when it is
about to save a conclusion the log still has length one, which is the log it
tried the move on. `SagaSystemInv` joins all this with the wallet's invariants.

`OnceInv` is the argument for `AnsweredOnce`, where no process crashes and no
message is written twice: each payment has at most one request on the topic,
and none before its call is done; a request that is still to be read, or in the
hands of the wallet before the save, has no answer in any log; so the save writes the
only one. The refinement maps `status` to what the payment's log says and
`taken` to its debits; `OnceInv` and `PaymentInv` are what each step needs to be
a step of `PaymentLifecycle` or a stutter.

**Card payment.** A dead letter is written at the end of a
handler that has counted attempts, saved and published events and perhaps failed
to, so `CardInv` follows the loop (`LoopOK`): the gateway has seen the
payment in hand at least as often as the loop has counted; the event on its way
is that payment's; while a retry is on its way there are attempts left, and
while a failure after a timeout is, there are none. `LoopGoesOn` shows it for
every step that ends with an event, through `AfterIsSound`, whether the event
was written or not. `TakenInv` is for the card what `ServedInv` is for the
wallet: a request the service has read is sent or failed in its log, or is the one
its loop still turns on (`InLoop`), which ends with the save of an outcome. The
pauses need two invariants of their own: `DelayOK`, that they
stay between the initial delay and the cap with its jitter, whichever
event's failure the loop goes on from, and `PauseOK`, that after k pauses the
next is at least the initial delay doubled k times, or the cap, and at most the
initial delay doubled and lengthened by a tenth k times (`Lengthened`): each
jitter is doubled by the next doubling, and no more than that.

`FlowInv` says who writes which events (`WritesOwn`) and that what is published
is in its payment's log (`SavedFirst`). The second is why no card payment ever
completes: a response that reaches the orchestrator is in the log it rebuilds
from, so the saga is past the move the response would make (`ResponseRefused`),
under any schedule and not just in the one `card_completes` shows.
`LogsBacked` counts: the acceptances in a log and the one about to be saved are
no more than the charges; the responses in it, the webhooks that have still to
write theirs and the one about to be started are no more than the acceptances.
Only the sum is inductive, for a webhook moves between its terms.
`OnceInv` (module `CardSagaProofs`) is as for the wallet: the gateway has been
asked for no payment whose request is unread, and for the one in hand as often
as the loop has counted; with it comes the refinement.

**Rebuild loops.** The loops are folds, and `FoldLeft` of the community modules
is a recursive function on the sets of indices; `FoldExists` proves there is
one. `WalletRuns` and `SagaRuns` turn the folds into runs along the prefixes of
the log, and the closed forms follow by induction on the prefix. The same
induction bounds the moves: each raises the `Rank` of the state, which is at
most four. Induction is `SetInduction`, about a set of numbers instead of
a predicate: it is first-order, so that the provers can use it. Maxima and
minima of sets of indices (`MaxIsMember`, `MinIsMember`) come from the
well-foundedness of the naturals.

**Bus and queue.** `LoopInv` is the argument for the bus: every message a group has fetched was given
to its handler, or does not decode, or is the one in hand, and the one in hand is
not committed; so a crash, which returns to the committed offsets, repeats
messages and skips none. `MetricsInv` adds that the process reads on from the
offsets it began at, and each step either leaves the set of counted messages as
it is or adds the one in hand to it, which was not in it before.
For the queue, `EnqueueKeepsNewest` is the
arithmetic of one publication: dropping a block from a run of consecutive letters
and appending the next leaves such a run. `NothingForgotten` rests on `Publish`
copying the handlers in the same critical section in which it appends the
letter.

### Only model-checked

Liveness: `EveryMessageTried`, `PublishedPaymentsSettle`,
`RequestsReachGateway`, `StartedWebhooksAnswer`, `QueuedLettersStored`. The
provers do not handle fairness and ENABLED. And the five violations, which are
behaviours TLC exhibits; `CardPaymentsNeverComplete` is the general form of
one of them.

## 5. Not modelled

* How many rows `error_logs` has of a letter: `PersistDLQEvent` inserts one at
  every delivery, so a queued letter gets a new row each second. `stored` is the
  set of letters with a row. `GetUnresolvedErrors`, `MarkAsResolved` and
  `GetEvents` have no caller. The counter `dlq_events_total`, which counts
  deliveries, is left out for the same reason.
* The state machine helper (`state_machine.go`): called by nothing; the
  transitions in force are those of `state.go`.
* What the partition computed would be good for. `docs/architecture-desing/01-system-architecture.md`,
  lines 447-458, promises order per user and per payment from it; the helper
  keeps its part (`UserEventsTogether`, `PaymentEventsTogether`), but the
  writer ignores the number and balances by bytes, and `EventBus` follows it.
* A gateway call that ends in a timeout and charges the card all the same, and
  a response with another status than `SUCCESS`: the mock does neither. The
  orchestrator's branch for such a response is in `Conclusion`.
* Clocks: the backoff's length is modelled, its passing, the gateway's deadline
  and the webhook's 200 ms are not. A step that waits for time may be taken at
  any moment, so every order is possible.
* A process with both a publisher and a subscriber of dead letters: there is
  none, so `dead_letters` checks the queue as a component.
* An abstract payment that must come to an end: `PaymentLifecycle` lets one stay
  in progress for ever, as the code does.
* Several instances of one service, and rebalancing of a group.
* Rows of one aggregate that commit in another order than their sequence
  numbers were drawn in.
* Floating point amounts; the data race on the unused `sequence` counters;
  HTTP answers other than the status; graceful shutdown, which does nothing a
  crash does not do; currencies, cards, metadata, log lines.

## 6. Plan

Done: the core, the wallet payment and the card payment end to end, the dead
letter queue with the metrics service and the error log, the partition helper,
and theorems about each of the components. Every component that keeps state is
modelled, and every safety property of a passing run, both refinements
included, is proved. What could still be added, in order of importance:

1. The general form of `card_failed_status`: that a payment given up never reads
   as FAILED.
2. What the refinements keep under repeated deliveries: how often a payment
   can be debited or a card charged, as a function of the faults.
