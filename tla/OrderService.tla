---------------------------- MODULE OrderService ----------------------------
(***************************************************************************)
(* The order service: the request threads that create and cancel orders,   *)
(* each in a database transaction of its own, and the background thread    *)
(* that consumes payment outcomes.  The three meet in the table of orders. *)
(*                                                                         *)
(* row is what READ COMMITTED lets another transaction see.  What an open  *)
(* transaction has written is in the phase of its request: creating and    *)
(* cancel.  A flushed UPDATE holds the lock of its row until it commits    *)
(* or rolls back.                                                          *)
(***************************************************************************)
EXTENDS Broker

CONSTANTS
    Customers,
    Cancels,        \* the cancel requests made of one order
    Owner,          \* the customer who places each order
    Requester,      \* the customer who sends each cancel request
    SyncPayments,   \* what is configured, now and after restarts: "off", "stub", "http"
    FaultKinds,     \* the faults that may happen: see Fault
    MaxFaults,      \* bound: how many faults a behaviour has
    MaxOutcomes     \* bound: copies of an outcome the environment has queued

ASSUME OrderConstants ==
    /\ Owner \in [Orders -> Customers]
    /\ Requester \in [Cancels -> Customers]
    /\ SyncPayments \subseteq {"off", "stub", "http"}
    /\ FaultKinds \subseteq {"crash", "db", "publish", "consumer"}
    /\ MaxFaults \in Nat
    /\ MaxOutcomes \in Nat

VARIABLES
    row,        \* the committed status of each order; "none": no such row
    creating,   \* how far POST /orders has come for each order
    cancel,     \* how far each cancel request has come
    listener,   \* the outcome consumer: "connecting" or "consuming"
    handling,   \* how far its callback has come with each outcome
    call,       \* the synchronous POST /payments for each order
    faults      \* how many faults have happened

orderVars == <<row, creating, cancel, listener, handling>>
vars == <<orderVars, brokerVars, call, faults>>

Statuses == {"PENDING", "CONFIRMED", "PAID", "CANCELLED"}

CreatePhases == {"idle", "inserted", "announced", "charging", "marked", "paidAnnounced",
                 "done", "failed"}
CancelPhases == {"idle", "checked", "flushed", "announced", "done", "refused", "failed"}
HandlePhases == {"no", "delivered", "matched", "handled"}
CallPhases   == {"none", "sent", "created", "refused"}

TypeOK ==
    /\ BrokerTypeOK
    /\ row \in [Orders -> Statuses \union {"none"}]
    /\ creating \in [Orders -> CreatePhases]
    /\ cancel \in [Orders \X Cancels -> CancelPhases]
    /\ listener \in {"connecting", "consuming"}
    /\ handling \in [Outcomes -> HandlePhases]
    /\ call \in [Orders -> CallPhases]
    /\ faults \in 0..MaxFaults

Init ==
    /\ BrokerInit
    /\ row = [o \in Orders |-> "none"]
    /\ creating = [o \in Orders |-> "idle"]
    /\ cancel = [r \in Orders \X Cancels |-> "idle"]
    /\ listener = "connecting"
    /\ handling = [m \in Outcomes |-> "no"]
    /\ call = [o \in Orders |-> "none"]
    /\ faults = 0

-----------------------------------------------------------------------------
(* What can go wrong at a step: "crash" the process ends, "db" a statement  *)
(* or a commit fails, "publish" the publisher cannot reach the broker,      *)
(* "consumer" the consumer loses its connection.                            *)

Fault(kind) ==
    /\ kind \in FaultKinds
    /\ faults < MaxFaults
    /\ faults' = faults + 1

NoFault == UNCHANGED faults

\* Mutant: every event has the same routing key.
PublishMutant(name, o) == PublishOrderEvent("order.OrderCreated", o) /\ NoFault

\* publish swallows every exception: the caller goes on without the event.
Publish(name, o) ==
    \/ PublishOrderEvent(name, o) /\ NoFault
    \/ Fault("publish") /\ UNCHANGED brokerVars

\* The row of o has an uncommitted UPDATE: other writers of it wait.
Locked(o) == \E c \in Cancels : cancel[<<o, c>>] \in {"flushed", "announced"}

-----------------------------------------------------------------------------
(* create_order: validate the basket, insert, announce, charge if that is   *)
(* configured, and commit when the scope of the session ends.               *)

CreateStep(o, from, to) ==
    /\ creating[o] = from
    /\ creating' = [creating EXCEPT ![o] = to]
    /\ UNCHANGED <<cancel, listener, handling>>

RejectBasket(o) ==
    /\ CreateStep(o, "idle", "failed")
    /\ UNCHANGED <<row, brokerVars, call, faults>>

InsertOrder(o) ==
    /\ CreateStep(o, "idle", "inserted")
    /\ UNCHANGED <<row, brokerVars, call, faults>>

PublishCreated(o) ==
    /\ CreateStep(o, "inserted", "announced")
    /\ Publish("order.OrderCreated", o)
    /\ UNCHANGED <<row, call>>

RequestPayment(o) ==
    /\ "http" \in SyncPayments
    /\ CreateStep(o, "announced", "charging")
    /\ call' = [call EXCEPT ![o] = "sent"]
    /\ UNCHANGED <<row, brokerVars, faults>>

\* Mutant: the status of the answer is not looked at.
AcceptedMutant(o) == call[o] \in {"created", "refused"}

Accepted(o) == call[o] = "created"

MarkPaid(o) ==
    /\ Accepted(o)
    /\ CreateStep(o, "charging", "marked")
    /\ UNCHANGED <<row, brokerVars, call, faults>>

PublishPaid(o) ==
    /\ CreateStep(o, "marked", "paidAnnounced")
    /\ Publish("order.OrderPaid", o)
    /\ UNCHANGED <<row, call>>

\* Without synchronous payment, and after the stub adapter's SKIPPED, the order
\* is PENDING.
CommitOrder(o) ==
    /\ \/ /\ SyncPayments # {"http"}
          /\ CreateStep(o, "announced", "done")
          /\ row' = [row EXCEPT ![o] = "PENDING"]
       \/ /\ CreateStep(o, "paidAnnounced", "done")
          /\ row' = [row EXCEPT ![o] = "PAID"]
    /\ UNCHANGED <<brokerVars, call, faults>>

\* Mutant: a payment that is refused or late is not handled.
UnpaidMutant(o) == FALSE

\* The answer is no success, or the HTTP client gives up after its timeout, whatever
\* becomes of the call.
Unpaid(o) == creating[o] = "charging"

\* Any exception rolls the transaction back; events published stay published.
RollBackOrder(o) ==
    /\ \/ Unpaid(o) /\ NoFault
       \/ creating[o] \in {"inserted", "announced", "marked", "paidAnnounced"} /\ Fault("db")
    /\ creating' = [creating EXCEPT ![o] = "failed"]
    /\ UNCHANGED <<row, cancel, listener, handling, brokerVars, call>>

-----------------------------------------------------------------------------
(* cancel_order: read the row, check it, update it, announce, commit.       *)

CancelStep(o, c, from, to) ==
    /\ cancel[<<o, c>>] = from
    /\ cancel' = [cancel EXCEPT ![<<o, c>>] = to]
    /\ UNCHANGED <<creating, listener, handling, call>>

\* Mutant: the status check is forgotten.
CancellableMutant(o, c) == Owner[o] = Requester[c] /\ row[o] # "none"

Cancellable(o, c) ==
    /\ Owner[o] = Requester[c]
    /\ row[o] \in {"PENDING", "CONFIRMED"}

CheckCancel(o, c) ==
    /\ CancelStep(o, c, "idle", IF Cancellable(o, c) THEN "checked" ELSE "refused")
    /\ UNCHANGED <<row, brokerVars, faults>>

FlushCancel(o, c) ==
    /\ ~Locked(o)
    /\ CancelStep(o, c, "checked", "flushed")
    /\ UNCHANGED <<row, brokerVars, faults>>

PublishCancelled(o, c) ==
    /\ CancelStep(o, c, "flushed", "announced")
    /\ Publish("order.OrderCancelled", o)
    /\ UNCHANGED row

CommitCancel(o, c) ==
    /\ CancelStep(o, c, "announced", "done")
    /\ row' = [row EXCEPT ![o] = "CANCELLED"]
    /\ UNCHANGED <<brokerVars, faults>>

RollBackCancel(o, c) ==
    /\ Fault("db")
    /\ \E from \in {"idle", "checked", "flushed", "announced"} :
         CancelStep(o, c, from, "failed")
    /\ UNCHANGED <<row, brokerVars>>

-----------------------------------------------------------------------------
(* The outcome consumer: one thread, one callback at a time.                *)

\* The broker takes back every outcome that was handed out and not acked.
ReturnOutcomes ==
    /\ outcomes' = [m \in Outcomes |-> IF handling[m] = "no" THEN outcomes[m]
                                                             ELSE outcomes[m] + 1]
    /\ handling' = [m \in Outcomes |-> "no"]

HandleStep(m, from, to) ==
    /\ handling[m] = from
    /\ handling' = [handling EXCEPT ![m] = to]
    /\ UNCHANGED <<creating, cancel, call>>

StartListener ==
    /\ listener = "connecting"
    /\ listener' = "consuming"
    /\ Bind("payment-outcomes")
    /\ UNCHANGED <<row, creating, cancel, handling, created, outcomes, events, call, faults>>

\* Mutant: callbacks run side by side.
NothingInHandMutant == TRUE

NothingInHand == \A m \in Outcomes : handling[m] = "no"

DeliverOutcome(m) ==
    /\ listener = "consuming"
    /\ NothingInHand
    /\ HandleStep(m, "no", "delivered")
    /\ TakeOutcome(m)
    /\ UNCHANGED <<row, listener, bound, created, events, faults>>

\* Mutant: any row that is found is updated.
StillPendingMutant(o) == row[o] # "none"

\* Mutant: the name of another status.
StillPendingMutant2(o) == row[o] = "CONFIRMED"

StillPending(o) == row[o] = "PENDING"

\* SELECT: only a row that is PENDING is updated, a missing one is logged.
ReadOutcome(m) ==
    /\ HandleStep(m, "delivered", IF StillPending(m[1]) THEN "matched" ELSE "handled")
    /\ UNCHANGED <<row, listener, brokerVars, faults>>

\* Mutant: the status of the payment is stored.
OrderStatusForMutant(paymentStatus) == paymentStatus

\* Mutant: every outcome is taken for a success.
OrderStatusForMutant2(paymentStatus) == "PAID"

OrderStatusFor(paymentStatus) == IF paymentStatus = "SUCCEEDED" THEN "PAID" ELSE "CANCELLED"

\* UPDATE and COMMIT of the status chosen when the row was read.
WriteOutcome(m) ==
    /\ ~Locked(m[1])
    /\ HandleStep(m, "matched", "handled")
    /\ row' = [row EXCEPT ![m[1]] = OrderStatusFor(m[2])]
    /\ UNCHANGED <<listener, brokerVars, faults>>

\* Every exception of the session is caught, and the message is acked all the same.
OutcomeDbError(m) ==
    /\ Fault("db")
    /\ \E from \in {"delivered", "matched"} : HandleStep(m, from, "handled")
    /\ UNCHANGED <<row, listener, brokerVars>>

AckOutcome(m) ==
    /\ HandleStep(m, "handled", "no")
    /\ UNCHANGED <<row, listener, brokerVars, faults>>

\* A lost connection is noticed when the callback acks or the thread waits: what
\* was in hand goes back to the queue, and the loop connects again.
LoseConnection ==
    /\ Fault("consumer")
    /\ listener = "consuming"
    /\ \A m \in Outcomes : handling[m] \in {"no", "handled"}
    /\ listener' = "connecting"
    /\ ReturnOutcomes
    /\ UNCHANGED <<row, creating, cancel, bound, created, events, call>>

-----------------------------------------------------------------------------
\* The process ends and is started again: the database rolls every open
\* transaction back and the broker takes back the outcome in hand.
Crash ==
    /\ Fault("crash")
    /\ creating' = [o \in Orders |-> IF creating[o] \in {"idle", "done"}
                                     THEN creating[o] ELSE "failed"]
    /\ cancel' = [r \in Orders \X Cancels |->
                    IF cancel[r] \in {"checked", "flushed", "announced"}
                    THEN "failed" ELSE cancel[r]]
    /\ listener' = "connecting"
    /\ ReturnOutcomes
    /\ UNCHANGED <<row, bound, created, events, call>>

Create(o) ==
    \/ RejectBasket(o)   \/ InsertOrder(o) \/ PublishCreated(o)
    \/ RequestPayment(o) \/ MarkPaid(o)    \/ PublishPaid(o)
    \/ CommitOrder(o)    \/ RollBackOrder(o)

Cancel(o, c) ==
    \/ CheckCancel(o, c)  \/ FlushCancel(o, c) \/ PublishCancelled(o, c)
    \/ CommitCancel(o, c) \/ RollBackCancel(o, c)

Handle(m) ==
    \/ DeliverOutcome(m) \/ ReadOutcome(m) \/ WriteOutcome(m)
    \/ OutcomeDbError(m) \/ AckOutcome(m)

Service ==
    \/ \E o \in Orders : Create(o)
    \/ \E o \in Orders, c \in Cancels : Cancel(o, c)
    \/ \E m \in Outcomes : Handle(m)
    \/ StartListener
    \/ LoseConnection
    \/ Crash

-----------------------------------------------------------------------------
(* What the payment service may do to what the two share.                   *)

\* The payment service ends: whoever waits for an answer sees an error.
CallsDropped == [o \in Orders |-> IF call[o] = "sent" THEN "refused" ELSE call[o]]

TakeCreated(o) ==
    /\ created' = created \ {o}
    /\ UNCHANGED <<bound, outcomes, events, call>>

\* Messages come back, alone or because the process ended.
ReturnCreated ==
    /\ \E returned \in SUBSET {o \in Orders : <<"order.OrderCreated", o>> \in events} :
         created' = created \union returned
    /\ call' \in {call, CallsDropped}
    /\ UNCHANGED <<bound, outcomes, events>>

AnswerCall(o) ==
    /\ call[o] = "sent"
    /\ \E answer \in {"created", "refused"} : call' = [call EXCEPT ![o] = answer]
    /\ UNCHANGED brokerVars

AnnounceOutcome(o, status) ==
    /\ outcomes[<<o, status>>] < MaxOutcomes
    /\ PublishOutcome(o, status)
    /\ UNCHANGED call

BindCreatedQueue ==
    /\ Bind("order-created")
    /\ UNCHANGED <<created, outcomes, events, call>>

PaymentStep ==
    /\ UNCHANGED <<orderVars, faults>>
    /\ \/ \E o \in Orders : TakeCreated(o) \/ AnswerCall(o)
       \/ \E o \in Orders, status \in {"SUCCEEDED", "FAILED"} : AnnounceOutcome(o, status)
       \/ ReturnCreated
       \/ BindCreatedQueue

Next == Service \/ PaymentStep

Spec == Init /\ [][Next]_vars

-----------------------------------------------------------------------------
(* The steps that the code's scheduling takes in the end: a request that    *)
(* has begun goes on, the lock of a row is granted, an HTTP call ends by    *)
(* its timeout, the consumer loop turns.  No client is bound to send a      *)
(* request, and no fault to happen.                                         *)

CreateProgress(o) ==
    \/ PublishCreated(o) \/ RequestPayment(o) \/ MarkPaid(o)
    \/ PublishPaid(o)    \/ CommitOrder(o)    \/ RollBackOrder(o)

CancelProgress(o, c) ==
    FlushCancel(o, c) \/ PublishCancelled(o, c) \/ CommitCancel(o, c)

ListenerProgress == StartListener \/ \E m \in Outcomes : Handle(m)

-----------------------------------------------------------------------------
(* Correctness.                                                             *)

Settled(o) == row[o] \in {"PAID", "CANCELLED"}

\* Somebody read o as open and has not yet written or given up.
WriterPending(o) ==
    \/ \E c \in Cancels : cancel[<<o, c>>] \in {"checked", "flushed", "announced"}
    \/ \E m \in Outcomes : m[1] = o /\ handling[m] = "matched"

\* An order that is PAID or CANCELLED while no cancel request and no outcome
\* callback still acts on an older reading of it keeps that status for ever:
\* the status checks of cancel_order and of update_order_from_payment_outcome,
\* across crashes, redeliveries and swallowed failures.
FinalOnceQuiet ==
    [][\A o \in Orders : Settled(o) /\ ~WriterPending(o)
                            => row'[o] = row[o] /\ ~WriterPending(o)']_vars

\* An order that was announced as paid and committed stays PAID: its row was
\* invisible until the commit, so no cancel request and no outcome can have
\* read it as PENDING before (create_order, synchronous payment).
AnnouncedPaidStaysPaid ==
    \A o \in Orders :
        <<"order.OrderPaid", o>> \in events /\ creating[o] = "done" => row[o] = "PAID"
-----------------------------------------------------------------------------
(* Said of the service, and not so.                                         *)

\* "Only pending or confirmed orders can be cancelled."  cancel_order checks the
\* status and updates the row later, without a lock in between.
CancelsOpenOrders ==
    [][\A o \in Orders, c \in Cancels :
         cancel[<<o, c>>] # "done" /\ cancel'[<<o, c>>] = "done"
            => row[o] \in {"PENDING", "CONFIRMED"}]_vars
=============================================================================
