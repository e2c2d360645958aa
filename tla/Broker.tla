------------------------------- MODULE Broker -------------------------------
(***************************************************************************)
(* The RabbitMQ topic exchange "ecom.events" and the two durable queues    *)
(* between the order and the payment service.  The broker is not part of   *)
(* the repository: it is modelled by what the publishers and the consumers *)
(* of both services rely on.                                               *)
(*   - a queue receives what is published after it was bound, and nothing  *)
(*     published earlier (the exchange drops what it cannot route);        *)
(*   - a queue hands every message out at least once, in any order.        *)
(***************************************************************************)
EXTENDS Naturals

CONSTANT Orders         \* the order ids (uuid4 values in the code)

VARIABLES
    bound,      \* the queues that have been declared and bound
    created,    \* orders whose OrderCreated message is ready in the payment queue
    outcomes,   \* for each payment outcome, its copies ready in the order queue
    events      \* history: every event the exchange has accepted

brokerVars == <<bound, created, outcomes, events>>

Queues == {"order-created", "payment-outcomes"}

\* What a PaymentCaptured ("SUCCEEDED") or PaymentFailed ("FAILED") message says.
Outcomes == Orders \X {"SUCCEEDED", "FAILED"}

OrderEvents   == {"order.OrderCreated", "order.OrderPaid", "order.OrderCancelled"}
PaymentEvents == {"payment.PaymentCaptured", "payment.PaymentFailed"}

RoutingKey(status) ==
    IF status = "SUCCEEDED" THEN "payment.PaymentCaptured" ELSE "payment.PaymentFailed"

BrokerTypeOK ==
    /\ bound \in SUBSET Queues
    /\ created \in SUBSET Orders
    /\ outcomes \in [Outcomes -> Nat]
    /\ events \in SUBSET ((OrderEvents \union PaymentEvents) \X Orders)

BrokerInit ==
    /\ bound = {}
    /\ created = {}
    /\ outcomes = [m \in Outcomes |-> 0]
    /\ events = {}

\* A consumer declares its queue and binds it; both calls are idempotent.
Bind(q) == bound' = bound \union {q}

\* The order service publishes event name about order o.
PublishOrderEvent(name, o) ==
    /\ events' = events \union {<<name, o>>}
    /\ created' = IF name = "order.OrderCreated" /\ "order-created" \in bound
                  THEN created \union {o} ELSE created
    /\ UNCHANGED <<bound, outcomes>>

\* The payment service publishes the outcome of the payment of order o.
PublishOutcome(o, status) ==
    /\ events' = events \union {<<RoutingKey(status), o>>}
    /\ outcomes' = IF "payment-outcomes" \in bound
                   THEN [outcomes EXCEPT ![<<o, status>>] = @ + 1] ELSE outcomes
    /\ UNCHANGED <<bound, created>>

\* One copy of outcome m leaves the queue, to a consumer or for good.
TakeOutcome(m) ==
    /\ outcomes[m] > 0
    /\ outcomes' = [outcomes EXCEPT ![m] = @ - 1]
=============================================================================
