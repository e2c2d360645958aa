# A verification project for the e-commerce services

TLA+ models of the four services of this repository and of the gateway before them, the TLC
configurations that check them on small instances, and TLAPS proofs of what matters most.
Every definition is translated from the code; `PROJECT.json` ("map") names the lines each one
stands for.

## 1. Inventory of the system

Four services behind one gateway, one database each, one RabbitMQ topic exchange `ecom.events`.

| component | state it keeps | operations | correct when |
|---|---|---|---|
| **order service**, request handlers (`order-service/app/main.py`) | table of orders: status PENDING, CONFIRMED (never assigned), PAID, CANCELLED | create (validate basket over gRPC, insert, publish `order.OrderCreated`, with `ORDER_SYNC_PAYMENT_ENABLED` call `POST /payments` and publish `order.OrderPaid`, commit); cancel (read, check, update, publish `order.OrderCancelled`, commit) | a settled order stays settled; PAID only if charged; no request hangs |
| **order service**, outcome consumer (`events.py`) | one pika thread, one callback at a time | read the row, update a PENDING one to PAID or CANCELLED, ack; reconnect with back-off | an outcome in the queue settles its order, once, through redelivery |
| **payment service**, OrderCreated consumer (`orderCreatedConsumer.js`) | asynchronous handlers in one Node process; the subscription | `INSERT ... ON CONFLICT DO NOTHING`, look up a duplicate, publish `payment.PaymentCaptured` or `payment.PaymentFailed` with confirm, ack; nack with requeue | one payment and one verdict per order; acked only when announced |
| **payment service**, REST (`paymentController.js`) | table of payments, unique `order_id` | create (SUCCEEDED, no event); refund (read, check, update) | refunds only of succeeded payments |
| **payment service**, bootstrap (`main.js`, `startConsumerWithRetry`) | the channel | try to subscribe until it works; on SIGTERM close the channel, then exit | nothing announced is lost by a stop |
| **notification service**, consumer (`consumer.py`) | MongoDB documents; one asyncio loop, prefetch 10 | insert a document per event, ack; reconnect; reject on shutdown | what a fault costs in documents, in their order and in acknowledgements is bounded by the prefetch; every event is worked off |
| notification service, REST (`main.py`) | the same documents | list (newest first), get, mark as read, seed | what a customer acknowledged does not come back |
| **catalog service** (FastAPI and gRPC in one process) | products with price and stock, which nothing updates | list, create, validate a basket, seed at start, declare topology | an answer about a basket is true of one moment of the call; the seed is stored once; the start ends |
| **api gateway** (Express) | the counters of the rate limiter; tokens are stateless | login, JWT check, roles, proxies, GraphQL, error mapping, aggregated health | the limit holds over any interval; the health reported and the empty lists were real; every request ends |
| broker, databases, Compose, Kubernetes, CI | | | external; used as the services rely on them |

How they interact:

    client -> gateway -> order service --gRPC--> catalog service
                              |  ^ \--POST /payments (optional)--> payment service
             order.OrderCreated  payment.PaymentCaptured | PaymentFailed     ^
                              v  |                                           |
                           ecom.events ------ order-created queue -----------+
                              |
                              +--- order.*, payment.* ---> notification service

What is hard in this code, all of it listed with its line under "hazards" in `PROJECT.json`:

* *Interleaving.* Request threads and the outcome thread of the order service meet in rows they read
  without locks; handlers of the payment service interleave at every `await`.
* *Order.* Events are published before the transaction that they report commits; the synchronous
  payment call races the consumer of the event published just before it.
* *Failure.* Every publish of the order service swallows its exceptions; database errors of the outcome
  callback and of the notification consumer are swallowed and acked; ack and nack on a closed Node
  channel throw and end the process; all services may crash and are started again
  (`restartPolicy: Always`).
* *Redelivery.* All queues deliver at least once, and what a lost connection returns may still be in
  some handler's hands; a stop of the payment service closes the channel under handlers that go on.
* *Partial answers.* The gateway asks services one beside the other for a health check or a GraphQL
  document, while they change, and turns a failure into an empty list.

## 2. Modules

| module | models | composes |
|---|---|---|
| `Broker` | exchange and the two queues of the saga; external, as the code uses it | |
| `OrderService` | requests, their transactions, the outcome consumer; environment: any payment service (`PaymentStep`) | `Broker` |
| `PaymentLedger` | abstract specification: one payment per order, its verdict fixed, announcements that agree, refunds of succeeded payments | |
| `PaymentService` | consumer, publisher, REST; environment: any order service (`OrderStep`) | `Broker`, refines `PaymentLedger` |
| `Saga` | both services over one broker and the synchronous call | `OrderService`, `PaymentService` |
| `NotificationService` | the consumer loop with prefetch and its queue, the documents in the order of a customer's list, acknowledgements | |
| `CatalogService` | start, basket validation with its caller, creation of products | |
| `Gateway` | body parser, middleware chain, rate limiter, tokens, proxied requests, health check and GraphQL queries | |
| `MCOrderService`, `MCPaymentService`, `MCSaga`, `MCCatalogService`, `MCGateway` | owners, requesters, methods, amounts, baskets and routes for TLC | |
| `OrderServiceProofs`, `PaymentServiceProofs`, `CatalogServiceProofs`, `NotificationServiceProofs`, `GatewayProofs` | the theorems about each service | the service's module |
| `SagaEnvironmentProofs` | types of the two services together; either is the other's environment; what was proved of each alone holds of both | `Saga`, `OrderServiceProofs`, `PaymentServiceProofs` |
| `SagaProofs` | the theorems about orders and their payments | `SagaEnvironmentProofs` |

A definition called `XMutant` or `XMutant2`, just before `X`, is `X` with a bug somebody could well
write. It is used by no specification. For every property of every passing run, `PROJECT.json`
("mutants") names one such definition that makes TLC find that property violated when it takes the
place of `X`.

### Broker

`created` is the set of orders whose `OrderCreated` message is ready (one order is announced once, so
a set is enough), `outcomes` counts ready copies of each outcome, `events` remembers what the exchange
has accepted. A queue receives only what is published after it was bound; queues are bags, which
allows every order of delivery that a FIFO queue with redelivery has, and more.

### OrderService

`row` is the committed table, which is what READ COMMITTED shows another transaction; `creating` and
`cancel` say how far each request has come, and so what its open transaction has written; a flushed
cancel holds the lock of its row (`Locked`). `handling` is the callback of the outcome thread, which has
one message in work: `DeliverOutcome`, `ReadOutcome` (the SELECT and the check), `WriteOutcome` (UPDATE and
commit of the status chosen then), `AckOutcome`. Each action is one step of the code up to the next
point where another thread can come in: a statement, a publish, a commit. Reads that change nothing are
no actions. `SyncPayments` is the set of configurations the service is run with: `create_order` reads
`ORDER_SYNC_PAYMENT_ENABLED` for every order, and a restart may change it. The basket check is its answer: yes (`InsertOrder`) or no (`RejectBasket`).

Faults: `Crash` (transactions roll back, the message in hand returns), "db" (a statement or a commit
fails: `RollBackOrder`, `RollBackCancel`, `OutcomeDbError`, which acks), "publish" (swallowed),
"consumer" (`LoseConnection`).

### PaymentService

`payments` is the table, each statement a transaction of its own. `task` and `verdict` are the handler
of the OrderCreated message of each order between two awaits; `consumer` is the subscription:
"connecting" (`startConsumerWithRetry` still tries), "consuming", "cancelled" (the broker ended the
subscription, the channel is open: the null message is ignored), "closed" (the channel is gone and
nobody listens for it). An ack or nack on a closed channel throws in the `catch` handler, the rejection
is unhandled, and the process ends: `Restart`. A connection that breaks with an error event ends the
process too and is a `Crash`. On SIGTERM or SIGINT the process closes the channel (`Stop`: "stopping"), which
queues the unacked messages again, and ends when the closing is done (`Exit`); between the two the handlers go
on and may insert and announce what the next process will do once more. `call` is the synchronous POST of the
order service.

`Told` and `ledger <- payments` map the service to `PaymentLedger`.

### Saga

`Next` takes a step of `Order!Service` or of `Payment!Service`. The environments of the two modules are
not used; instead `OrderAlone` and `PaymentAlone` check that each service behaves, to the other, as the
environment it was modelled with, which is what carries the theorems over (`PromisesKept`).

`slips` is a history of the four things that can keep a committed order and its payment apart for good
without leaving a trace in the state: an event that went out before the queue was bound ("unrouted"), an outcome
acked before its order could be read ("early"), one lost to a database error ("swallowed"), and a payment a
client made through the REST interface ("client"). `StrayHasCause` says that there is no
other way but these and what the state shows: a roll-back after the announcement, an order never announced or of no
amount, a cancel, a refund before the announcement.

### NotificationService

Events are numbered in the order in which the exchange takes them. `ready` is the queue, `hand` the messages
handed over and not yet acked by the loop, the first of which it has in work (`work`), `acks` those whose ack is written
and has not reached the broker; `inbox` lists the documents in the order of `created_at`, which is the time of the insert,
and `read` has those a customer acknowledged. `basic.ack` has no reply, so `Ack` is the write to the socket and `AckArrives`
the broker's reading of it; for the broker, and for the prefetch, a message is unacked until then (`Unacked`). A connection
that is lost (`LoseConnection`) takes the acks on their way with it: their messages come again, though the loop is done with
them. Nor does the loop notice at once: on a lost connection each ack is either written in vain, and the loop inserts the next
of the messages in `hand`, or raises, so one lost connection may cost a second document for each message that was unacked.
The broker meanwhile has them all ready again (`away`, `Return`). On shutdown `message.process()` rejects the message in work
without requeue if the task was inside `insert_one`, whose insert may have been carried out.

### CatalogService

`phase` is the start of the process: "down", "seeding" (inside `insert_many`), "seeded", "topology" (the
gRPC server listens, `ensure_topology` holds the event loop), "serving". `stored` counts the documents of
each product id, for the collection has no unique index. `basket`, `line` and `ok` are a call of
`ValidateProducts`: one query for each line (`ReadLine`), between which other handlers run, then `Answer`;
`GiveUp` is the caller's timeout of five seconds, a refused call or a failed query. `Answer` includes the check
of `GrpcCatalogAdapter`, which goes on only with `all_available`. `create` is `POST /products`: insert, then
publish, which holds the event loop and swallows its failures. A crash may leave an insert or an event that was
under way done or not done. It is taken that what an ended process had sent to MongoDB is over before the next one counts,
and that `RABBITMQ_URL` is set, as in Compose and Kubernetes.

### Gateway

The limiter, `authMiddleware`, `requireRole` and the start of the handler do not give the event loop away
(the memory store of the limiter resolves in the same turn), so `Receive` is all of them, in their order.
`hits` and `resetTime` are the fixed window of an address: a request after its end begins the next, and
rejected requests count too. A body that express.json cannot read (`Garbled`) ends in `errorHandler` before the limiter. A token is the
time it expires; clients keep theirs over a restart, so the initial state has any. `Proxy` opens a call to one
service, `FanOut` to several: all for `/health/all`, and for a GraphQL document those whose fields it asks for. `queryHandler`
also has the documents that are not executed (`DocumentErrors`: 400 for one that cannot be read or does not fit the schema, 405 for a wrong
method, 413 and 415 for a body of another type, which graphqlHTTP reads itself) and the one that asks for the dashboard of another
customer: `customerDashboard` may not be null, so its error leaves no data, and the answer is 500 at once. A service
is "up", "down" (refuses, and breaks what is open), "hung" (accepts and never answers) or "failing" (answers with
an error). `CheckFails` stands for the error, or the timeout of 5 seconds that the health check and the resolvers
set and the proxies do not. 200 stands for whatever a service that is up answers. `mapErrorToStatusCode` gets the socket
errors that a proxy can meet (`SocketErrors`) and the errors of the body parser (`BodyErrors`), which it tells apart by their code or a word in
their message; the branch for the response of an upstream is left out, because the callers of axios catch
their errors before they get there. A path that has no route is not among the kinds of requests; Express answers it 404. `failed` says which services failed a request; the answer
of a health check shows it in its status, that of a query only as empty lists.

`admitted` (when each request got past the limiter), `seenUp` and `seenBad` (the services that were up, or were not, at
some time of a fan-out) are histories: no action reads them, the properties do.

## 3. Runs

| run | instance | shows |
|---|---|---|
| `order` | 1 order, 3 cancels (one a stranger's), with and without synchronous payment, 2 faults of any kind | `TypeOK`; `AnnouncedPaidStaysPaid`; `FinalOnceQuiet`: a settled order that nobody is still writing never changes, and nobody starts to write it |
| `payment` | 1 order that client, order service and consumer may all pay, 2 refunds, 2 faults of any kind, fairness | `TypeOK`; `AckedMeansAnnounced`; `ImplementsLedger`; `EveryMessageAcked` |
| `saga` | both services, with and without synchronous payment, 1 declined order, 2 cancels (one a stranger's), 1 refund, 1 fault of any kind on either side | `PaidOnlyIfCharged`, `CancelledHasCause`: every status, and every `OrderPaid`, has its cause in the ledger or in a cancel of the owner; `StrayHasCause`: once nothing is under way, order and payment agree, or one of the named things happened to them; `OrderAlone`, `PaymentAlone` |
| `saga_live` | 1 accepted order, 1 cancel, 1 refund, 1 fault on either side but no database fault of the order service, fairness | `PaidOnlyIfCharged`, `StrayHasCause`; `QueuedOutcomeSettles`; `OrderComesToRest`: no create or cancel hangs on a lock or a call, and the messages about the order are worked off |
| `saga_two` | 2 orders, one declined, no cancels, asynchronous payment, a lost connection on either side | the properties of `saga` where two handlers interleave and two outcomes queue for one thread |
| `notification` | 3 events, prefetch 2, 2 faults of any kind, acks on their way, fairness | `TypeOK` with the prefetch limit; `DocumentsPerFault`: a fault costs at most one document too few, or as many too many as may be unacked; `ListSteadyPerFault`: and at most one place in the list, and as many documents that are unread again as may be unacked; `EveryEventGone`. Both bounds are reached |
| `catalog` | 3 seeded products, 1 created, 2 baskets, 3 faults, a broker that comes and goes, fairness of the start | `TypeOK`, with one document for each id; `VerdictFits`: a yes still holds, a no held when the call was made; `SeedIsPrefix`; `AnnouncedIsStored`; `StartupCompletes` |
| `gateway` | 5 requests of 2 users behind 1 address (a login, a query, whose body may be unreadable, two creations, a health check), limit 2 in 2 ticks, tokens of 1 tick, 3 moments, 2 services, 1 change of a service or restart, fairness | `TypeOK`, with every status these requests are answered with, 504 by errors of the body parser only; `RateBounded`: less than twice the limit in any interval as long as a window, and one limit more for a restart; `HealthFits`; `ListsFit`: a list is empty for want of an answer only if its own service was not up; `EveryRequestEnds` |
| `order_cancel_twice` | no faults | *violated:* "Only pending or confirmed orders can be cancelled." (`main.py:164`) |
| `saga_stale_outcome` | no faults | *violated:* CANCELLED is the last status (order README line 32): the callback writes PAID over it |
| `saga_capture_lost` | no faults, fairness | *violated:* "consumes `payment.PaymentCaptured` and marks order as `PAID`" (payment README line 111): consumed before the order is committed |
| `catalog_blocked` | broker up or down, fairness | *violated:* "failures do not block service startup" (catalog `events.py:15`): the start waits for the broker |

`CHECK_DEADLOCK FALSE` everywhere but in the catalog runs, where the broker always can change: when the clients send nothing more and every message is consumed, the
system rests.

*Bounds.* `MaxFaults` bounds the faults of a behaviour; two let a fault hit the recovery from a fault.
`MaxOutcomes` bounds the copies of an outcome that the environment of a service keeps in the queue. In
`Saga` it is `MostOutcomes`, one more than the faults, because only a fault makes the payment service
announce again; `OrderAlone` would fail if that were too small. Orders share nothing but the outcome
thread and the process, so one order has all the conflicts over a row, and `saga_two` has those over the
thread and the process. Two cancels are enough for a lost update between cancels and one for a cancel
against the callback; two refunds likewise. With prefetch 2 of 3 events one event waits in the queue while
one is buffered and one in work. The basket of three lines asks for a product that is created before, between or
after the queries; the other is one the catalog must refuse. Five requests and three moments are enough
for a limiter that is off by one to let too many through across the end of a window; one change of a service
is enough for it to be up for one part of a health check or a query and not for the other. With two faults a message of the notification service can come a third time, and a fault can hit the recovery from the one before it.

*Fairness.* Weak fairness, of the steps of a request that has begun, of the callback, of the consumer loops and
of every await of a handler: request threads are scheduled, row locks are granted when their holder ends,
the HTTP client gives up after 10 seconds (`RollBackOrder` from "charging"), consumer loops reconnect with
back-off, an ended process is started again, and a payment process that closes its channel ends (`Exit`). The broker reads what is written to a connection that stays (`AckArrives`). The start of the catalog service is fair, so that a broker that stays
up is found; in the gateway a call that has its answer, its error or its timeout is settled, and nothing is
assumed of a service that hangs: a proxied request ends if its service does not hang for ever. No client has to send a request, and no fault has to
happen.

*What liveness leaves out.* `QueuedOutcomeSettles` is checked without database faults in the order service:
`OutcomeDbError` swallows the failure and acks, and the order stays PENDING. `EveryMessageAcked` ends with
the subscription: when the broker cancels the consumer or closes the connection in good order, nothing
subscribes again until the process restarts; `OrderComesToRest` makes the same exception.

## 4. What is proved

Every safety property of every passing run is a theorem: every invariant, every action property, the
refinement of the ledger, and the assume-guarantee properties of the saga. TLAPS checks them for all values of
the constants, so for any sets of orders, customers, cancels, refunds, baskets, services and requests, and any numbers of
faults, events and prefetched messages. The bounds of section 3 are constants here, of any size.

The assumptions are the ones the modules name, and every run evaluates those of its module: `OrderConstants`,
`PaymentConstants`, `SagaConstants` and `NotificationConstants` say what type each constant has and which kinds of faults
there are; `CatalogConstants` also that no product is twice in the seed (`seed.py` has distinct ids) and that none of
them is created by a request (ids are new UUIDs); `GatewayConstants` also that limit, window and lifetime are
positive and that there are finitely many requests, without which a count of them would mean nothing.

Each inductive invariant was an invariant of a TLC run before it was proved. What each one adds, and why the property
alone is not inductive:

* `OrderServiceProofs`: `TypeCorrect`, `PaidStaysPaid` (`AnnouncedPaidStaysPaid`), `StatusIsFinal` (`FinalOnceQuiet`).
  A callback or a cancel that had read an order as PENDING could still overwrite PAID. The invariant says why there is
  none: as long as the creating transaction is open the order has no row, so nobody can have read it; when it
  commits as PAID at once, nobody reads it as PENDING afterwards; and an order that is announced as paid is
  past the step that marks it.
* `PaymentServiceProofs`: `TypeCorrect`, `AckedIsAnnounced` (`AckedMeansAnnounced`), `LedgerImplemented` (`ImplementsLedger`:
  initial states to initial states, every action to a step of the ledger or a stutter). The invariant ties
  `verdict` to `payments`: a handler past its insert holds the verdict of the row, or SUCCEEDED for a row refunded
  since, or REFUNDED; and a handler that has announced has its event in the exchange.
* `SagaEnvironmentProofs`: `TypeCorrect`, `OrderServiceAlone` (`OrderAlone`), `PaymentServiceAlone` (`PaymentAlone`): a step of
  the saga is, for each service, its own or one of the environment it was modelled with. This needs `AlignInv`: an
  outcome that is queued or in hand was announced (`OutcomeTold`); its copies are no more than the handler that
  announced it last and one for each fault (`CopiesBounded`), which counts in advance the handler that will find
  its channel closed; the payment service works on announced orders only (`TaskInv`); a call is open or answered
  exactly where its request is waiting for it or past it (`RequestInv`); the thread has one outcome in hand.
  `PromisesKept` then carries the theorems about either service over to the two together. The modules of the services are
  instantiated once more for this, with their theorems, and `OrderSame` and `PaymentSame` show that it makes no
  difference.
* `SagaProofs`: `PaidIsCharged` (`PaidOnlyIfCharged`), `CancelHasCause` (`CancelledHasCause`), `StrayIsExplained` (`StrayHasCause`).
  On top of the above, for each order: an answer "created", the status PAID and an `OrderPaid` each mean
  a payment that succeeded (`ChargeInv`), which stays so because the ledger never changes a verdict; a payment has
  come from the announcement, the call or a client (`SourceInv`); and an announced verdict is on its way, in the row, or
  lost by one of the named slips (`OutcomeKept`).
* `CatalogServiceProofs`: `TypeCorrect`, `VerdictIsRight` (`VerdictFits`), `SeedIsAPrefix` (`SeedIsPrefix`), `AnnouncedIsReadable`
  (`AnnouncedIsStored`). There is an n so that the first n products of the seed are stored once and the others are not
  (`SeedInv`), with n tied to the phase of the start: a process that finds nothing has never served. No product and no stock ever goes, so
  the lines read as covered still are; the first that was not covered was not when the call was made.
* `NotificationServiceProofs`: `TypeCorrect`, `DocumentsBounded` (`DocumentsPerFault`), `ListIsSteady` (`ListSteadyPerFault`). Both bounds
  hold of a sum that only a fault can raise, by at most the prefetch. `CostInv` counts, besides the documents that are too many or too few, those
  that are bound to be: the messages whose document is stored and that the broker has or will have again, among them those of a lost connection that the loop
  is still to insert and ack in vain, and the one in work that will be acked without a document. That a fault adds no more than the prefetch to it is
  where the limit of the broker is needed: the messages in hand and those with an ack on its way are no more than that (`TypeOK`), and nowhere else
  while the connection is alive (`HandInv`). `OrderInv` looks at the documents followed
  by what the loop will insert of the messages in hand, and counts the places where an older event follows a newer one, one more
  if the queue begins with an event older than the last of that series, and one more if the broker has messages still to return.
  After a fault the series is a beginning of what it was, or lacks one event, and has no more such places. How many
  events come back unread follows from `CostInv`: each of them has a document too many.
* `GatewayProofs`: `TypeCorrect`, `RateIsBounded` (`RateBounded`), `HealthIsTrue` (`HealthFits`), `ListsAreTrue` (`ListsFit`). `WindowInv`
  bounds, for every moment u that is less than a window ago, what was let through since u, by where the present window
  lies: one that began at u or later may follow another, one that began before u let its first request through before u;
  a restart forgets a window and costs one limit (`restarts`; a change of a service costs nothing). `HitsInv` keeps the counters in their type. In a fan-out each service is
  still asked, has failed or has answered, and the histories have seen those that are up and those that are not (`FanOutInv`).

Only model-checked, because TLAPS has no fairness and no ENABLED: the liveness properties `EveryMessageAcked`,
`QueuedOutcomeSettles`, `OrderComesToRest`, `EveryEventGone`, `StartupCompletes` and `EveryRequestEnds`. The four runs that expect
a violation are counterexamples, which TLC gives. That a mutant breaks a property is also TLC's to find.

## 5. Divergences met

The four "findings" of `PROJECT.json` are the runs marked *violated* above. Met as well, and not given a run:

* `order.OrderCreated` goes out "After order is persisted" says the order README (line 183); it is published inside
  the transaction (`main.py:104`), so that a rollback or a crash leaves a payment without an order.
* `order.OrderPaid` goes out "After payment succeeds and order transitions to `PAID`" (line 184); the outcome
  consumer (`events.py:58`) publishes nothing, so only synchronously paid orders are announced as paid.
* An event that is delivered to the notification service again is stored again (`consumer.py:82`);
  `DocumentsPerFault` bounds how often.
* Two refund requests that both read SUCCEEDED are both answered with success, although "Refund is allowed only for
  SUCCEEDED payments" (`paymentController.js:180`): check and update are two statements (`CheckRefund`,
  `WriteRefund`). The row ends up the same, so `ImplementsLedger` holds.
* "Store one notification document per event" (notification README line 9): an insert that fails is logged and the
  message acked (`InsertFails`); `DocumentsPerFault` bounds the loss.
* The seed is "idempotent" (`seed.py:1`) in that it never repeats; one that was interrupted is never completed
  (`SeedIsPrefix`).
* `/graphql` is public says the gateway README (line 52); it is behind `authMiddleware` (`app.ts:41`).
* "Timeout errors → 504 Gateway Timeout" (`errorHandler.ts:26`), with the message "Upstream service request timeout": the proxies set no
  timeout and the callers of axios catch theirs, so no timeout of an upstream is answered 504. What is: an upload that breaks off (its error has the code
  ECONNABORTED), and a body that is not JSON and has the word "timeout" in the part that the parser quotes in its message. With "Network" in that
  place the answer is 502 (`errorHandler.ts:58`). A connection that an upstream resets, one
  that times out in the socket, or a name that does not resolve, is answered 500 (`errorHandler.ts:66`), where a refused one is 502.
* Any other body that is not JSON is the client's fault and answered 500; none of them is counted by the limiter, which comes
  after the parser (`app.ts:27`).
* A GraphQL document that asks for the dashboard of another customer is answered 500 without the data of its other fields
  (`schema.ts:160`, `queryHandler`).
* "List all notifications for the customer" (notification README line 40): the newest 100 (`main.py:140`).
* A customer is told "Your order ... has been placed successfully" (`consumer.py:33`) of an order that may be rolled
  back, and "Your order is confirmed!" (line 39) of one that was cancelled: both events may be published for such
  an order (`StrayHasCause` has the cases).
* `payment.PaymentRefunded` has a template in the notification service (`consumer.py:44`); no code publishes it.
* v2 shows `total_with_tax` (order `main.py:215`); the payment is charged the total without the tax.
* The v2 cancel reads the order again in a second transaction (`main.py:322`): its answer to a cancel that succeeded
  may say PAID, by the callback of `saga_stale_outcome`.
* A client that repeats `POST /orders` after a proxy error makes a second order: there is no key that would tell
  the two apart.
* A catalog that should "manage products and stock levels" (catalog README line 8) never changes a stock, and two lines of a
  basket with the same product are each checked against all of it (`grpc_server.py:42`).
* The health aggregator declares "down" as an overall status and never yields it (`aggregator.ts:83`).

## 6. Not modelled

* Reads that change nothing, response bodies, identifiers, prices and totals, logging; the renaming of fields
  in the resolvers and in `paymentMapper.js`.
* Back-off delays: a retry is a step that comes later.
* An insert of the payment service that fails every time. `customer_id` is VARCHAR(50) in `payments` (`01-init-payment-db.sql:13`) and String(64) in
  the orders (`models.py:27`), so the message of an order with a longer one would be nacked and requeued for ever. In the model a failed insert is a fault,
  and there are finitely many; `EveryMessageAcked` and `OrderComesToRest` say nothing about such an order.
* That SIGTERM also ends the pool of database connections (payment `main.js:49`): handlers that go on after `Stop` may fail their next statement.
  The model lets them go on, and fails them by a fault only; what the properties say holds either way.
* Of the notification service, `POST .../seed`: a tool for development that inserts a document without an event.
  The limit of 100 of its lists: a bound of a list would only restate the line.
* Reservation of stock: the code has none, so that there is nothing to be kept.
* The paths of requests: `NeedsNoToken` and `Dispatch` go by the kind of a route.
* The OpenAPI document, a constant, and the deployment files. From Kubernetes it is taken that each service has one
  replica and is started again when it ends.
* A broker that loses what it has accepted; queues and messages are durable.
* Two compositions were considered and would show nothing new. The notification service only listens: no step of the
  saga depends on it, and it takes the events in the order of the exchange whatever they are. The catalog's
  answer to a basket is taken by `InsertOrder` and `RejectBasket`, and `create_order` does not look at it again.

## 7. Plan

Done: 1 `Broker`, `OrderService`, `PaymentLedger`, `PaymentService`, `Saga`; 2 their proofs; 3 `NotificationService`,
with the order of the list and acknowledgements; 4 `CatalogService`; 5 `Gateway`, with GraphQL queries; 6 the causes of
stray orders and payments in `Saga`, the stop of the payment service; 7 `SagaEnvironmentProofs` and `SagaProofs`; 8
`CatalogServiceProofs`; 9 `NotificationServiceProofs` and `GatewayProofs`.

Next:

10. The steps under the liveness properties that need no fairness, as theorems: that an enabled step of a handler stays
    enabled until it is taken, and what each step brings nearer to the end.
11. An abstract specification of the life of an order (open, settled, and the one step from CANCELLED to PAID that the code
    allows), implemented by `OrderService`, as the ledger is by `PaymentService`.
