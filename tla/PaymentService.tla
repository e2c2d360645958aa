--------------------------- MODULE PaymentService ---------------------------
(***************************************************************************)
(* The payment service, one Node.js process: the consumer of OrderCreated  *)
(* messages, whose handlers of different messages interleave at every      *)
(* await, and the REST handlers that create and refund payments.  Every    *)
(* statement is a transaction of its own; the unique index on order_id is  *)
(* all that keeps two writers apart.                                       *)
(***************************************************************************)
EXTENDS Broker

CONSTANTS
    Refunds,        \* the refund requests made of one payment
    Method,         \* the payment method each order names
    Amount,         \* the amount of each order
    FaultKinds,     \* the faults that may happen: see Fault
    MaxFaults,      \* bound: how many faults a behaviour has
    MaxOutcomes     \* bound: copies of an outcome up to which the order service returns one

ASSUME PaymentConstants ==
    /\ Method \in [Orders -> {"CARD", "UPI", "NET_BANKING", "WALLET", "CASH", "FAIL", "DECLINED"}]
    /\ Amount \in [Orders -> Nat]
    /\ FaultKinds \subseteq {"crash", "stop", "db", "publish", "consumer"}
    /\ MaxFaults \in Nat
    /\ MaxOutcomes \in Nat

VARIABLES
    payments,   \* the status of the row of each order in table payments; "none": no row
    task,       \* how far the handler of the OrderCreated message of each order is
    verdict,    \* what that handler will announce
    refund,     \* how far each refund request is
    consumer,   \* the subscription to the OrderCreated queue
    call,       \* the synchronous POST /payments of the order service
    faults      \* how many faults have happened

paymentVars == <<payments, task, verdict, refund, consumer>>
vars == <<paymentVars, brokerVars, call, faults>>

PaymentStatuses == {"SUCCEEDED", "FAILED", "REFUNDED"}
TaskPhases   == {"idle", "received", "conflict", "settled", "announced", "acked"}
RefundPhases == {"idle", "checked", "done", "refused", "failed"}
ConsumerStates == {"connecting", "consuming", "cancelled", "closed", "stopping"}

TypeOK ==
    /\ BrokerTypeOK
    /\ payments \in [Orders -> PaymentStatuses \union {"none"}]
    /\ task \in [Orders -> TaskPhases]
    /\ verdict \in [Orders -> PaymentStatuses \union {"none"}]
    /\ refund \in [Orders \X Refunds -> RefundPhases]
    /\ consumer \in ConsumerStates
    /\ call \in [Orders -> {"none", "sent", "created", "refused"}]
    /\ faults \in 0..MaxFaults

Init ==
    /\ BrokerInit
    /\ payments = [o \in Orders |-> "none"]
    /\ task = [o \in Orders |-> "idle"]
    /\ verdict = [o \in Orders |-> "none"]
    /\ refund = [r \in Orders \X Refunds |-> "idle"]
    /\ consumer = "connecting"
    /\ call = [o \in Orders |-> "none"]
    /\ faults = 0

\* "crash" the process ends, "stop" it is told to (SIGTERM), "db" a statement fails or
\* its answer is lost, "publish" the broker cannot be reached or does not confirm,
\* "consumer" the broker ends the subscription or the connection.
Fault(kind) ==
    /\ kind \in FaultKinds
    /\ faults < MaxFaults
    /\ faults' = faults + 1

-----------------------------------------------------------------------------
(* The end of the process.  It is started again, has forgotten its handlers *)
(* and gets their messages again; whoever was calling it sees an error.     *)

InFlight == {o \in Orders : task[o] \notin {"idle", "acked"}}

Restart ==
    /\ task' = [o \in Orders |-> IF task[o] = "acked" THEN "acked" ELSE "idle"]
    /\ verdict' = [o \in Orders |-> "none"]
    /\ refund' = [r \in Orders \X Refunds |->
                    IF refund[r] = "checked" THEN "failed" ELSE refund[r]]
    /\ consumer' = "connecting"
    /\ created' = created \union InFlight
    /\ call' = [o \in Orders |-> IF call[o] = "sent" THEN "refused" ELSE call[o]]
    /\ UNCHANGED <<bound, outcomes, events>>

Crash == Fault("crash") /\ Restart /\ UNCHANGED payments

-----------------------------------------------------------------------------
(* The OrderCreated consumer.                                               *)

ChannelOpen == consumer \in {"consuming", "cancelled"}

\* The handler of o comes to its next await.
Step(o, from, to) ==
    /\ task[o] = from
    /\ task' = [task EXCEPT ![o] = to]
    /\ UNCHANGED <<refund, consumer, call>>

\* Mutant: nack without requeue.
RequeuedMutant(o) == {}

Requeued(o) == {o}

\* nack with requeue.  On a closed channel it throws inside the catch handler:
\* the rejection is unhandled and ends the process.
Nack(o) ==
    \/ /\ ChannelOpen
       /\ task' = [task EXCEPT ![o] = "idle"]
       /\ verdict' = [verdict EXCEPT ![o] = "none"]
       /\ created' = created \union Requeued(o)
       /\ UNCHANGED <<refund, consumer, bound, outcomes, events, call>>
    \/ ~ChannelOpen /\ Restart

\* startConsumerWithRetry returns once this has succeeded.
StartConsumer ==
    /\ consumer = "connecting"
    /\ consumer' = "consuming"
    /\ Bind("order-created")
    /\ UNCHANGED <<payments, task, verdict, refund, created, outcomes, events, call, faults>>

\* A message whose amount is not above zero is acked and forgotten.
Deliver(o) ==
    /\ consumer = "consuming"
    /\ o \in created
    /\ created' = created \ {o}
    /\ Step(o, "idle", IF Amount[o] > 0 THEN "received" ELSE "acked")
    /\ UNCHANGED <<payments, verdict, bound, outcomes, events, faults>>

\* Mutant: the type of the event for the status of the payment.
determinePaymentOutcomeMutant(o) ==
    IF Method[o] \in {"FAIL", "DECLINED"} THEN "PaymentFailed" ELSE "PaymentCaptured"

determinePaymentOutcome(o) ==
    IF Method[o] \in {"FAIL", "DECLINED"} THEN "FAILED" ELSE "SUCCEEDED"

\* Mutant: ON CONFLICT (order_id) DO UPDATE.
RecordedMutant(o) == FALSE

Recorded(o) == payments[o] # "none"

\* INSERT ... ON CONFLICT (order_id) DO NOTHING.
Insert(o) ==
    /\ \/ /\ ~Recorded(o)
          /\ Step(o, "received", "settled")
          /\ payments' = [payments EXCEPT ![o] = determinePaymentOutcome(o)]
          /\ verdict' = [verdict EXCEPT ![o] = determinePaymentOutcome(o)]
       \/ /\ Recorded(o)
          /\ Step(o, "received", "conflict")
          /\ UNCHANGED <<payments, verdict>>
    /\ UNCHANGED <<brokerVars, faults>>

InsertFails(o) ==
    /\ task[o] = "received"
    /\ Fault("db")
    /\ Nack(o)
    /\ \/ UNCHANGED payments
       \/ /\ payments[o] = "none"
          /\ payments' = [payments EXCEPT ![o] = determinePaymentOutcome(o)]

\* Mutant: a duplicate has nothing to announce.
LookupMutant(o) ==
    /\ Step(o, "conflict", "announced")
    /\ UNCHANGED <<payments, verdict, brokerVars, faults>>

\* Mutant: the verdict is determined again.
LookupMutant2(o) ==
    /\ Step(o, "conflict", "settled")
    /\ verdict' = [verdict EXCEPT ![o] = determinePaymentOutcome(o)]
    /\ UNCHANGED <<payments, brokerVars, faults>>

\* The SELECT of the payment that was there already.
Lookup(o) ==
    /\ Step(o, "conflict", "settled")
    /\ verdict' = [verdict EXCEPT ![o] = payments[o]]
    /\ UNCHANGED <<payments, brokerVars, faults>>

LookupFails(o) ==
    /\ task[o] = "conflict"
    /\ Fault("db")
    /\ Nack(o)
    /\ UNCHANGED payments

\* Mutant: the handler does not go on after it has announced.
AnnounceMutant(o) ==
    /\ Step(o, "settled", "settled")
    /\ verdict[o] # "REFUNDED" /\ PublishOutcome(o, verdict[o])
    /\ UNCHANGED <<payments, verdict, faults>>

\* A payment that has been refunded has no event type: nothing is published.
Announce(o) ==
    /\ Step(o, "settled", "announced")
    /\ \/ verdict[o] = "REFUNDED" /\ UNCHANGED brokerVars
       \/ verdict[o] # "REFUNDED" /\ PublishOutcome(o, verdict[o])
    /\ UNCHANGED <<payments, verdict, faults>>

\* No connection; or the exchange took the event and the confirm, or the
\* closing of the publisher's channel, failed.
AnnounceFails(o) ==
    /\ task[o] \in {"settled", "announced"}
    /\ verdict[o] # "REFUNDED"
    /\ Fault("publish")
    /\ Nack(o)
    /\ UNCHANGED payments

\* On a closed channel ack throws, then so does the nack of the catch handler.
Ack(o) ==
    /\ \/ /\ ChannelOpen
          /\ Step(o, "announced", "acked")
          /\ verdict' = [verdict EXCEPT ![o] = "none"]
          /\ UNCHANGED brokerVars
       \/ /\ ~ChannelOpen
          /\ task[o] = "announced"
          /\ Restart
    /\ UNCHANGED <<payments, faults>>

\* The broker cancels the consumer: the callback gets a null message and returns.
CancelConsumer ==
    /\ Fault("consumer")
    /\ consumer = "consuming"
    /\ consumer' = "cancelled"
    /\ UNCHANGED <<payments, task, verdict, refund, brokerVars, call>>

\* The unacked messages are ready again, and no handler knows.
CloseChannel(kind, to) ==
    /\ Fault(kind)
    /\ ChannelOpen
    /\ consumer' = to
    /\ created' = created \union InFlight
    /\ UNCHANGED <<payments, task, verdict, refund, bound, outcomes, events, call>>

\* The broker closes the connection in good order, which nobody listens for.
CloseConnection == CloseChannel("consumer", "closed")

\* SIGTERM closes the channel and then ends the process; the handlers go on between.
Stop == CloseChannel("stop", "stopping")

Exit == consumer = "stopping" /\ Restart /\ UNCHANGED <<payments, faults>>

-----------------------------------------------------------------------------
(* The REST handlers.                                                       *)

Rest == UNCHANGED <<task, verdict, consumer, brokerVars>>

\* createPayment: an INSERT that the unique index may refuse; no event.
InsertSucceeded(o) ==
    /\ payments[o] = "none"
    /\ payments' = [payments EXCEPT ![o] = "SUCCEEDED"]

ValidPayload(o) ==
    Amount[o] > 0 /\ Method[o] \in {"CARD", "UPI", "NET_BANKING", "WALLET"}

\* A client posts a valid payment for o, by createPayment or createPaymentV2; one
\* that is refused changes nothing.
PostPayment(o) ==
    /\ InsertSucceeded(o)
    /\ Rest
    /\ UNCHANGED <<refund, call, faults>>

\* The order service posts the payment of o and waits, or has given up waiting.
ServeCall(o) ==
    /\ call[o] = "sent"
    /\ \/ /\ ValidPayload(o)
          /\ InsertSucceeded(o)
          /\ call' = [call EXCEPT ![o] = "created"]
       \/ /\ ~ValidPayload(o) \/ payments[o] # "none"
          /\ call' = [call EXCEPT ![o] = "refused"]
          /\ UNCHANGED payments
    /\ Rest
    /\ UNCHANGED <<refund, faults>>

ServeCallFails(o) ==
    /\ call[o] = "sent"
    /\ ValidPayload(o)
    /\ Fault("db")
    /\ call' = [call EXCEPT ![o] = "refused"]
    /\ UNCHANGED payments \/ InsertSucceeded(o)
    /\ Rest
    /\ UNCHANGED refund

RefundStep(o, r, from, to) ==
    /\ refund[<<o, r>>] = from
    /\ refund' = [refund EXCEPT ![<<o, r>>] = to]
    /\ Rest
    /\ UNCHANGED call

\* refundPayment reads the row, and an await later updates it unconditionally.
CheckRefund(o, r) ==
    /\ RefundStep(o, r, "idle", IF payments[o] = "SUCCEEDED" THEN "checked" ELSE "refused")
    /\ UNCHANGED <<payments, faults>>

WriteRefund(o, r) ==
    /\ RefundStep(o, r, "checked", "done")
    /\ payments' = [payments EXCEPT ![o] = "REFUNDED"]
    /\ UNCHANGED faults

RefundFails(o, r) ==
    /\ Fault("db")
    /\ \/ RefundStep(o, r, "idle", "failed") /\ UNCHANGED payments
       \/ /\ RefundStep(o, r, "checked", "failed")
          /\ UNCHANGED payments \/ payments' = [payments EXCEPT ![o] = "REFUNDED"]

-----------------------------------------------------------------------------
Handle(o) ==
    \/ Deliver(o)     \/ Insert(o)   \/ InsertFails(o)   \/ Lookup(o)
    \/ LookupFails(o) \/ Announce(o) \/ AnnounceFails(o) \/ Ack(o)

Serve(o) == PostPayment(o) \/ ServeCall(o) \/ ServeCallFails(o)

Refund(o, r) == CheckRefund(o, r) \/ WriteRefund(o, r) \/ RefundFails(o, r)

Service ==
    \/ \E o \in Orders : Handle(o) \/ Serve(o)
    \/ \E o \in Orders, r \in Refunds : Refund(o, r)
    \/ StartConsumer
    \/ CancelConsumer
    \/ CloseConnection
    \/ Stop
    \/ Exit
    \/ Crash

-----------------------------------------------------------------------------
(* What the order service may do to what the two share.                     *)

\* An order is created, paid and cancelled at most once, as far as events tell.
AnnounceOrder(o) ==
    /\ \E name \in OrderEvents : <<name, o>> \notin events /\ PublishOrderEvent(name, o)
    /\ UNCHANGED call

SendCall(o) ==
    /\ call[o] = "none"
    /\ call' = [call EXCEPT ![o] = "sent"]
    /\ UNCHANGED brokerVars

ConsumeOutcome(m) ==
    /\ TakeOutcome(m)
    /\ UNCHANGED <<bound, created, events, call>>

ReturnOutcome(m) ==
    /\ <<RoutingKey(m[2]), m[1]>> \in events
    /\ outcomes[m] < MaxOutcomes
    /\ outcomes' = [outcomes EXCEPT ![m] = @ + 1]
    /\ UNCHANGED <<bound, created, events, call>>

BindOutcomesQueue ==
    /\ Bind("payment-outcomes")
    /\ UNCHANGED <<created, outcomes, events, call>>

OrderStep ==
    /\ UNCHANGED <<paymentVars, faults>>
    /\ \/ \E o \in Orders : AnnounceOrder(o) \/ SendCall(o)
       \/ \E m \in Outcomes : ConsumeOutcome(m) \/ ReturnOutcome(m)
       \/ BindOutcomesQueue

Next == Service \/ OrderStep

Spec == Init /\ [][Next]_vars

\* The event loop turns: every await of a handler comes back.
Fairness ==
    /\ \A o \in Orders : WF_vars(Handle(o)) /\ WF_vars(ServeCall(o))
    /\ \A o \in Orders, r \in Refunds : WF_vars(WriteRefund(o, r))
    /\ WF_vars(StartConsumer)
    /\ WF_vars(Exit)

FairSpec == Spec /\ Fairness

-----------------------------------------------------------------------------
(* Correctness.                                                             *)

Told(o) == {v \in {"SUCCEEDED", "FAILED"} : <<RoutingKey(v), o>> \in events}

Ledger == INSTANCE PaymentLedger WITH ledger <- payments, told <- [o \in Orders |-> Told(o)]

\* The service implements the ledger: one payment and one verdict per order,
\* announcements that agree with the row, refunds of succeeded payments only,
\* whatever redeliveries, REST calls, refunds and restarts interleave.
ImplementsLedger == Ledger!Spec

\* An OrderCreated message that named an amount to pay is gone from the queue
\* only when the verdict has been announced or the payment was refunded
\* before it could be (startOrderCreatedConsumer acks last).
AckedMeansAnnounced ==
    \A o \in Orders :
        task[o] = "acked" /\ Amount[o] > 0 => Told(o) # {} \/ payments[o] = "REFUNDED"

\* Unless the broker ends the subscription, every OrderCreated message is worked
\* off in the end, through orderly ends of the process, failing statements, failing publishes and crashes.
EveryMessageAcked ==
    \A o \in Orders :
        o \in created ~> task[o] = "acked" \/ consumer \in {"cancelled", "closed"}
=============================================================================
