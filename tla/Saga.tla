-------------------------------- MODULE Saga --------------------------------
(***************************************************************************)
(* An order and its payment: the order service and the payment service     *)
(* composed over the broker and over the synchronous payment call.  Either *)
(* service is the environment the other one was modelled with.             *)
(***************************************************************************)
EXTENDS Naturals

CONSTANTS
    Orders, Customers, Cancels, Owner, Requester, SyncPayments,  \* OrderService
    Refunds, Method, Amount,                                    \* PaymentService
    OrderFaultKinds, MaxOrderFaults,        \* faults of the order service
    PaymentFaultKinds, MaxPaymentFaults     \* faults of the payment service

ASSUME SagaConstants ==
    /\ Owner \in [Orders -> Customers]
    /\ Requester \in [Cancels -> Customers]
    /\ SyncPayments \subseteq {"off", "stub", "http"}
    /\ OrderFaultKinds \subseteq {"crash", "db", "publish", "consumer"}
    /\ MaxOrderFaults \in Nat
    /\ Method \in [Orders -> {"CARD", "UPI", "NET_BANKING", "WALLET", "CASH", "FAIL", "DECLINED"}]
    /\ Amount \in [Orders -> Nat]
    /\ PaymentFaultKinds \subseteq {"crash", "stop", "db", "publish", "consumer"}
    /\ MaxPaymentFaults \in Nat

VARIABLES
    bound, created, outcomes, events,               \* the broker
    call,                                           \* the synchronous call
    row, creating, cancel, listener, handling,      \* the order service
    orderFaults,
    payments, task, verdict, refund, consumer,      \* the payment service
    paymentFaults,
    slips           \* history: what may keep an order and its payment apart

\* A verdict is announced once, and once more for a message that comes again,
\* which takes a fault.
MostOutcomes == MaxPaymentFaults + 1

Order == INSTANCE OrderService WITH
    FaultKinds <- OrderFaultKinds, MaxFaults <- MaxOrderFaults, faults <- orderFaults,
    MaxOutcomes <- MostOutcomes

Payment == INSTANCE PaymentService WITH
    FaultKinds <- PaymentFaultKinds, MaxFaults <- MaxPaymentFaults, faults <- paymentFaults,
    MaxOutcomes <- MostOutcomes

orderOnly   == <<row, creating, cancel, listener, handling, orderFaults>>
paymentOnly == <<payments, task, verdict, refund, consumer, paymentFaults>>
vars == <<bound, created, outcomes, events, call, orderOnly, paymentOnly, slips>>

Slips == {"unrouted", "early", "swallowed", "client"}

Init == Order!Init /\ Payment!Init /\ slips = {}

\* An event about o goes out before the queue that should get it was bound.
Unrouted(o) ==
    \E e \in events' \ events :
        /\ e[2] = o
        /\ \/ e[1] = "order.OrderCreated" /\ "order-created" \notin bound
           \/ e[1] \in Order!PaymentEvents /\ "payment-outcomes" \notin bound

\* The callback is done with an outcome of o, from the phase given.
DoneWith(o, phases) ==
    \E m \in Order!Outcomes :
        m[1] = o /\ handling[m] \in phases /\ handling'[m] = "handled"

\* A client of the REST interface pays for o itself.
ByClient(o) == payments'[o] # payments[o] /\ UNCHANGED <<task, call, refund>>

Slip(kind, o) ==
    CASE kind = "unrouted"  -> Unrouted(o)
      [] kind = "early"     -> DoneWith(o, {"delivered"}) /\ row[o] = "none"
      [] kind = "swallowed" -> DoneWith(o, {"delivered", "matched"}) /\ orderFaults' # orderFaults
      [] kind = "client"    -> ByClient(o)

NoteSlips == slips' = slips \union {s \in Slips \X Orders : Slip(s[1], s[2])}

\* Either process is scheduled, and neither waits for the other.
OrderTurn(step)   == step /\ UNCHANGED paymentOnly /\ NoteSlips
PaymentTurn(step) == step /\ UNCHANGED orderOnly /\ NoteSlips

Next ==
    \/ OrderTurn(Order!Service)
    \/ PaymentTurn(Payment!Service)

Spec == Init /\ [][Next]_vars

Fairness ==
    /\ \A o \in Orders :
         /\ WF_vars(OrderTurn(Order!CreateProgress(o)))
         /\ WF_vars(PaymentTurn(Payment!Handle(o)))
         /\ WF_vars(PaymentTurn(Payment!ServeCall(o)))
    /\ \A o \in Orders, c \in Cancels : WF_vars(OrderTurn(Order!CancelProgress(o, c)))
    /\ \A o \in Orders, r \in Refunds : WF_vars(PaymentTurn(Payment!WriteRefund(o, r)))
    /\ WF_vars(OrderTurn(Order!ListenerProgress))
    /\ WF_vars(PaymentTurn(Payment!StartConsumer))
    /\ WF_vars(PaymentTurn(Payment!Exit))

FairSpec == Spec /\ Fairness

-----------------------------------------------------------------------------
\* Each service finds here the environment its own module assumes, so that what
\* is shown of it alone holds of the two together.
OrderAlone   == Order!Spec
PaymentAlone == Payment!Spec

\* An order is PAID, or its customer told so, only if there is a payment for it that
\* succeeded, however the asynchronous outcome, the synchronous call and retries
\* interleave.
PaidOnlyIfCharged ==
    \A o \in Orders :
        row[o] = "PAID" \/ <<"order.OrderPaid", o>> \in events
            => payments[o] \in {"SUCCEEDED", "REFUNDED"}

\* An order is CANCELLED only because its payment failed or because its own
\* customer cancelled it.
CancelledHasCause ==
    \A o \in Orders :
        row[o] = "CANCELLED" =>
            \/ payments[o] = "FAILED"
            \/ \E c \in Cancels : Requester[c] = Owner[o] /\ cancel[<<o, c>>] = "done"

RequestsOver(o) ==
    /\ creating[o] \in {"done", "failed"}
    /\ \A c \in Cancels : cancel[<<o, c>>] \in {"idle", "done", "refused", "failed"}

MessagesOver(o) ==
    /\ o \notin created /\ task[o] \in {"idle", "acked"}
    /\ \A m \in Order!Outcomes : m[1] = o => outcomes[m] = 0 /\ handling[m] = "no"
    /\ call[o] # "sent"

Announced(o) == <<"order.OrderCreated", o>> \in events

Slipped(kinds, o) == \E kind \in kinds : <<kind, o>> \in slips

\* Once nothing is under way, an order and its payment say the same, or something
\* on a short list has happened to them: the order was rolled back after it had been
\* announced, was never announced, asks for no money, or was cancelled;
\* its outcome was dropped by the exchange, came before the commit, or fell to a database error;
\* the payment was refunded before it was announced, or made by a client.
StrayHasCause ==
    \A o \in Orders : RequestsOver(o) /\ MessagesOver(o) =>
        /\ row[o] = "none" /\ payments[o] # "none" =>
              creating[o] = "failed" /\ (Announced(o) \/ call[o] # "none" \/ Slipped({"client"}, o))
        /\ row[o] = "PENDING" =>
              \/ ~Announced(o) \/ Amount[o] = 0
              \/ Slipped({"unrouted", "early", "swallowed"}, o)
              \/ payments[o] = "REFUNDED" /\ Payment!Told(o) = {}
        /\ row[o] = "CANCELLED" /\ payments[o] # "FAILED" =>
              \E c \in Cancels : cancel[<<o, c>>] = "done"

\* An outcome that is in the queue when its order is committed and PENDING
\* settles the order, through crashes and lost connections of the consumer.
QueuedOutcomeSettles ==
    \A o \in Orders :
        /\ row[o] = "PENDING"
        /\ \E m \in Order!Outcomes : m[1] = o /\ outcomes[m] > 0
        ~> row[o] # "PENDING"

\* Whatever locks, timeouts and restarts it meets, no request hangs, and the messages
\* about an order are worked off unless the subscription of the payment service ends.
OrderComesToRest ==
    \A o \in Orders :
        creating[o] # "idle" ~>
            RequestsOver(o) /\ (MessagesOver(o) \/ consumer \in {"cancelled", "closed"})

-----------------------------------------------------------------------------
(* Said of the system, and not so.                                          *)

\* README: the order service "consumes payment.PaymentCaptured and marks order as
\* PAID".  It acks an outcome whose order it does not find, and an order is not
\* found before the transaction that announced it has committed.
ConsumedCaptureMarksPaid ==
    \A o \in Orders : handling[<<o, "SUCCEEDED">>] = "handled" ~> row[o] = "PAID"

\* README: state transitions PENDING -> CONFIRMED -> PAID -> CANCELLED.  An outcome
\* callback that read the order before it was cancelled makes it PAID afterwards.
CancelledIsLast ==
    [][\A o \in Orders : row[o] = "CANCELLED" => row'[o] = "CANCELLED"]_vars
=============================================================================
