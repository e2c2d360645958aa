----------------------- MODULE SagaEnvironmentProofs -----------------------
(***************************************************************************)
(* Either service is the environment the other one was modelled with: what *)
(* was proved of each alone holds of the two together, for every set of    *)
(* orders, customers and requests and every choice of faults.              *)
(*                                                                         *)
(* OrderP and PaymentP are the instances Order and Payment of Saga with    *)
(* the theorems about them.                                                *)
(***************************************************************************)
EXTENDS Saga, TLAPS

OrderP == INSTANCE OrderServiceProofs WITH
    FaultKinds <- OrderFaultKinds, MaxFaults <- MaxOrderFaults, faults <- orderFaults,
    MaxOutcomes <- MostOutcomes

PaymentP == INSTANCE PaymentServiceProofs WITH
    FaultKinds <- PaymentFaultKinds, MaxFaults <- MaxPaymentFaults, faults <- paymentFaults,
    MaxOutcomes <- MostOutcomes

TypeOK == Order!TypeOK /\ Payment!TypeOK /\ slips \subseteq Slips \X Orders

-----------------------------------------------------------------------------
(* The theorems of either service are about the instances of Saga.          *)

LEMMA OrderAssumptions == OrderP!OrderConstants
  BY SagaConstants DEF OrderP!OrderConstants, MostOutcomes

LEMMA PaymentAssumptions == PaymentP!PaymentConstants
  BY SagaConstants DEF PaymentP!PaymentConstants, MostOutcomes

LEMMA OrderSame ==
    /\ Order!TypeOK <=> OrderP!TypeOK
    /\ Order!TypeOK' <=> OrderP!TypeOK'
    /\ Order!Next <=> OrderP!Next
    /\ Order!vars = OrderP!vars /\ Order!vars' = OrderP!vars'
  <1>1. (Order!TypeOK <=> OrderP!TypeOK) /\ (Order!TypeOK' <=> OrderP!TypeOK')
      BY DEF Order!TypeOK, OrderP!TypeOK, Order!BrokerTypeOK, OrderP!BrokerTypeOK, Order!Queues,
             OrderP!Queues, Order!Outcomes, OrderP!Outcomes, Order!OrderEvents, OrderP!OrderEvents,
             Order!PaymentEvents, OrderP!PaymentEvents, Order!Statuses, OrderP!Statuses,
             Order!CreatePhases, OrderP!CreatePhases, Order!CancelPhases, OrderP!CancelPhases,
             Order!HandlePhases, OrderP!HandlePhases, Order!CallPhases, OrderP!CallPhases
  <1>2. /\ Order!Next <=> OrderP!Next
        /\ Order!vars = OrderP!vars /\ Order!vars' = OrderP!vars'
      BY Zenon
         DEF Order!Next, OrderP!Next, Order!vars, OrderP!vars, Order!Service, OrderP!Service,
             Order!PaymentStep, OrderP!PaymentStep, Order!orderVars, OrderP!orderVars,
             Order!brokerVars, OrderP!brokerVars, Order!Create, OrderP!Create, Order!Cancel,
             OrderP!Cancel, Order!Outcomes, OrderP!Outcomes, Order!Handle, OrderP!Handle,
             Order!StartListener, OrderP!StartListener, Order!LoseConnection, OrderP!LoseConnection,
             Order!Crash, OrderP!Crash, Order!TakeCreated, OrderP!TakeCreated, Order!AnswerCall,
             OrderP!AnswerCall, Order!AnnounceOutcome, OrderP!AnnounceOutcome, Order!ReturnCreated,
             OrderP!ReturnCreated, Order!BindCreatedQueue, OrderP!BindCreatedQueue,
             Order!RejectBasket, OrderP!RejectBasket, Order!InsertOrder, OrderP!InsertOrder,
             Order!PublishCreated, OrderP!PublishCreated, Order!RequestPayment,
             OrderP!RequestPayment, Order!MarkPaid, OrderP!MarkPaid, Order!PublishPaid,
             OrderP!PublishPaid, Order!CommitOrder, OrderP!CommitOrder, Order!RollBackOrder,
             OrderP!RollBackOrder, Order!CheckCancel, OrderP!CheckCancel, Order!FlushCancel,
             OrderP!FlushCancel, Order!PublishCancelled, OrderP!PublishCancelled,
             Order!CommitCancel, OrderP!CommitCancel, Order!RollBackCancel, OrderP!RollBackCancel,
             Order!DeliverOutcome, OrderP!DeliverOutcome, Order!ReadOutcome, OrderP!ReadOutcome,
             Order!WriteOutcome, OrderP!WriteOutcome, Order!OutcomeDbError, OrderP!OutcomeDbError,
             Order!AckOutcome, OrderP!AckOutcome, Order!Bind, OrderP!Bind, Order!Fault,
             OrderP!Fault, Order!ReturnOutcomes, OrderP!ReturnOutcomes, Order!PublishOutcome,
             OrderP!PublishOutcome, Order!CallsDropped, OrderP!CallsDropped, Order!CreateStep,
             OrderP!CreateStep, Order!Publish, OrderP!Publish, Order!Accepted, OrderP!Accepted,
             Order!Unpaid, OrderP!Unpaid, Order!NoFault, OrderP!NoFault, Order!CancelStep,
             OrderP!CancelStep, Order!Cancellable, OrderP!Cancellable, Order!Locked, OrderP!Locked,
             Order!NothingInHand, OrderP!NothingInHand, Order!HandleStep, OrderP!HandleStep,
             Order!TakeOutcome, OrderP!TakeOutcome, Order!StillPending, OrderP!StillPending,
             Order!OrderStatusFor, OrderP!OrderStatusFor, Order!RoutingKey, OrderP!RoutingKey,
             Order!PublishOrderEvent, OrderP!PublishOrderEvent
  <1> QED
      BY <1>1, <1>2

LEMMA PaymentSame ==
    /\ Payment!TypeOK <=> PaymentP!TypeOK
    /\ Payment!TypeOK' <=> PaymentP!TypeOK'
    /\ Payment!Next <=> PaymentP!Next
    /\ Payment!vars = PaymentP!vars /\ Payment!vars' = PaymentP!vars'
  <1>1. (Payment!TypeOK <=> PaymentP!TypeOK) /\ (Payment!TypeOK' <=> PaymentP!TypeOK')
      BY DEF Payment!TypeOK, PaymentP!TypeOK, Payment!BrokerTypeOK, PaymentP!BrokerTypeOK,
             Payment!Queues, PaymentP!Queues, Payment!Outcomes, PaymentP!Outcomes,
             Payment!OrderEvents, PaymentP!OrderEvents, Payment!PaymentEvents,
             PaymentP!PaymentEvents, Payment!PaymentStatuses, PaymentP!PaymentStatuses,
             Payment!TaskPhases, PaymentP!TaskPhases, Payment!RefundPhases, PaymentP!RefundPhases,
             Payment!ConsumerStates, PaymentP!ConsumerStates
  <1>2. /\ Payment!Next <=> PaymentP!Next
        /\ Payment!vars = PaymentP!vars /\ Payment!vars' = PaymentP!vars'
      BY Zenon
         DEF Payment!Next, PaymentP!Next, Payment!vars, PaymentP!vars, Payment!Service,
             PaymentP!Service, Payment!OrderStep, PaymentP!OrderStep, Payment!paymentVars,
             PaymentP!paymentVars, Payment!brokerVars, PaymentP!brokerVars, Payment!Handle,
             PaymentP!Handle, Payment!Serve, PaymentP!Serve, Payment!Refund, PaymentP!Refund,
             Payment!StartConsumer, PaymentP!StartConsumer, Payment!CancelConsumer,
             PaymentP!CancelConsumer, Payment!CloseConnection, PaymentP!CloseConnection,
             Payment!Stop, PaymentP!Stop, Payment!Exit, PaymentP!Exit, Payment!Crash,
             PaymentP!Crash, Payment!AnnounceOrder, PaymentP!AnnounceOrder, Payment!SendCall,
             PaymentP!SendCall, Payment!Outcomes, PaymentP!Outcomes, Payment!ConsumeOutcome,
             PaymentP!ConsumeOutcome, Payment!ReturnOutcome, PaymentP!ReturnOutcome,
             Payment!BindOutcomesQueue, PaymentP!BindOutcomesQueue, Payment!Deliver,
             PaymentP!Deliver, Payment!Insert, PaymentP!Insert, Payment!InsertFails,
             PaymentP!InsertFails, Payment!Lookup, PaymentP!Lookup, Payment!LookupFails,
             PaymentP!LookupFails, Payment!Announce, PaymentP!Announce, Payment!AnnounceFails,
             PaymentP!AnnounceFails, Payment!Ack, PaymentP!Ack, Payment!PostPayment,
             PaymentP!PostPayment, Payment!ServeCall, PaymentP!ServeCall, Payment!ServeCallFails,
             PaymentP!ServeCallFails, Payment!CheckRefund, PaymentP!CheckRefund,
             Payment!WriteRefund, PaymentP!WriteRefund, Payment!RefundFails, PaymentP!RefundFails,
             Payment!Bind, PaymentP!Bind, Payment!Fault, PaymentP!Fault, Payment!CloseChannel,
             PaymentP!CloseChannel, Payment!Restart, PaymentP!Restart, Payment!OrderEvents,
             PaymentP!OrderEvents, Payment!PublishOrderEvent, PaymentP!PublishOrderEvent,
             Payment!TakeOutcome, PaymentP!TakeOutcome, Payment!RoutingKey, PaymentP!RoutingKey,
             Payment!Step, PaymentP!Step, Payment!Recorded, PaymentP!Recorded,
             Payment!determinePaymentOutcome, PaymentP!determinePaymentOutcome, Payment!Nack,
             PaymentP!Nack, Payment!PublishOutcome, PaymentP!PublishOutcome, Payment!ChannelOpen,
             PaymentP!ChannelOpen, Payment!InsertSucceeded, PaymentP!InsertSucceeded, Payment!Rest,
             PaymentP!Rest, Payment!ValidPayload, PaymentP!ValidPayload, Payment!RefundStep,
             PaymentP!RefundStep, Payment!InFlight, PaymentP!InFlight, Payment!Requeued,
             PaymentP!Requeued
  <1> QED
      BY <1>1, <1>2

-----------------------------------------------------------------------------
(* Types.  What the services share has one type, so the step of either is   *)
(* well typed for the other.                                                *)

LEMMA SharedTypes ==
    ASSUME Order!TypeOK, UNCHANGED paymentOnly, Payment!TypeOK, Order!TypeOK'
    PROVE  Payment!TypeOK'
  BY DEF Order!TypeOK, Payment!TypeOK, paymentOnly, Order!BrokerTypeOK, Payment!BrokerTypeOK,
         Order!Queues, Payment!Queues, Order!Outcomes, Payment!Outcomes, Order!OrderEvents,
         Payment!OrderEvents, Order!PaymentEvents, Payment!PaymentEvents, Order!CallPhases

LEMMA SharedTypesBack ==
    ASSUME Payment!TypeOK, UNCHANGED orderOnly, Order!TypeOK, Payment!TypeOK'
    PROVE  Order!TypeOK'
  BY DEF Order!TypeOK, Payment!TypeOK, orderOnly, Order!BrokerTypeOK, Payment!BrokerTypeOK,
         Order!Queues, Payment!Queues, Order!Outcomes, Payment!Outcomes, Order!OrderEvents,
         Payment!OrderEvents, Order!PaymentEvents, Payment!PaymentEvents, Order!CallPhases

LEMMA TypeStep == TypeOK /\ [Next]_vars => TypeOK'
  <1> SUFFICES ASSUME TypeOK, [Next]_vars PROVE TypeOK'
      OBVIOUS
  <1>1. CASE OrderTurn(Order!Service)
    <2>1. Order!TypeOK'
        BY <1>1, OrderSame, OrderAssumptions, OrderP!TypeStep DEF TypeOK, OrderTurn, Order!Next
    <2> QED
        BY <1>1, <2>1, SharedTypes DEF TypeOK, OrderTurn, NoteSlips
  <1>2. CASE PaymentTurn(Payment!Service)
    <2>1. Payment!TypeOK'
        BY <1>2, PaymentSame, PaymentAssumptions, PaymentP!TypeStep
           DEF TypeOK, PaymentTurn, Payment!Next
    <2> QED
        BY <1>2, <2>1, SharedTypesBack DEF TypeOK, PaymentTurn, NoteSlips
  <1>3. CASE UNCHANGED vars
    <2>1. Order!vars' = Order!vars /\ Payment!vars' = Payment!vars /\ slips' = slips
        BY <1>3 DEF vars, orderOnly, paymentOnly, Order!vars, Payment!vars, Order!orderVars,
                    Order!brokerVars, Payment!paymentVars, Payment!brokerVars
    <2> QED
        BY <2>1, OrderSame, PaymentSame, OrderAssumptions, PaymentAssumptions,
           OrderP!TypeStep, PaymentP!TypeStep DEF TypeOK
  <1> QED
      BY <1>1, <1>2, <1>3 DEF Next

LEMMA TypeInit == Init => TypeOK
  <1> SUFFICES ASSUME Init PROVE TypeOK
      OBVIOUS
  <1>1. Order!TypeOK
      BY SagaConstants
         DEF Init, Order!Init, Order!BrokerInit, Order!TypeOK, Order!BrokerTypeOK,
             Order!CreatePhases, Order!CancelPhases, Order!HandlePhases, Order!CallPhases
  <1>2. Payment!TypeOK
      BY SagaConstants
         DEF Init, Payment!Init, Payment!BrokerInit, Payment!TypeOK, Payment!BrokerTypeOK,
             Payment!TaskPhases, Payment!RefundPhases, Payment!ConsumerStates
  <1> QED
      BY <1>1, <1>2 DEF Init, TypeOK

-----------------------------------------------------------------------------
(* The inductive invariant.  First what keeps either service within the     *)
(* environment the other was modelled with.                                 *)

Mine(o, c) == Requester[c] = Owner[o]

\* The requests of o, against what was announced of it and answered to its call.
RequestInv(o) ==
    /\ creating[o] \in {"idle", "inserted", "announced"} => call[o] = "none"
    /\ creating[o] \in {"marked", "paidAnnounced"} => call[o] = "created"
    /\ Announced(o) => creating[o] \notin {"idle", "inserted"}
    /\ \A c \in Cancels :
          cancel[<<o, c>>] \in {"checked", "flushed", "announced", "done"} => Mine(o, c)

\* One thread, one callback.
OneInHand ==
    \A m, n \in Order!Outcomes : handling[m] # "no" /\ handling[n] # "no" => m = n

\* The payment service works on what was announced, and on nothing when it starts.
TaskInv(o) ==
    /\ o \in created \/ task[o] # "idle" => Announced(o)
    /\ consumer = "connecting" => task[o] \in {"idle", "acked"}

One(condition) == IF condition THEN 1 ELSE 0

\* The copies of an outcome, ready or in hand: one for the handler that announced it
\* last, and one for each fault that made a handler start over, or will when a handler finds
\* its channel closed.
CopiesBounded(o, v) ==
    outcomes[<<o, v>>] + One(handling[<<o, v>>] # "no") + One(consumer \in {"closed", "stopping"})
        <= paymentFaults + One(task[o] \in {"announced", "acked"})

Verdicts == {"SUCCEEDED", "FAILED"}

\* What is queued, or in hand, was announced.
OutcomeTold(m) ==
    outcomes[m] > 0 \/ handling[m] # "no" => m[2] \in Payment!Told(m[1])

AlignInv ==
    /\ OneInHand
    /\ \A m \in Order!Outcomes : OutcomeTold(m)
    /\ \A o \in Orders :
          RequestInv(o) /\ TaskInv(o) /\ \A v \in Verdicts : CopiesBounded(o, v)

-----------------------------------------------------------------------------
(* What a step of either service does to what both share.                   *)

\* Outcomes are announced with names that are no order's event.
LEMMA PaymentSharesCalls ==
    ASSUME TypeOK, Payment!Service, UNCHANGED orderOnly, NEW o \in Orders
    PROVE  /\ \A name \in Order!OrderEvents : <<name, o>> \in events' <=> <<name, o>> \in events
           /\ \/ call'[o] = call[o]
              \/ call[o] = "sent" /\ call'[o] \in {"created", "refused"}
  <1> USE DEF TypeOK, Payment!TypeOK, Payment!brokerVars, Payment!Rest
  <1>1. ASSUME NEW p \in Orders, Payment!Handle(p)
        PROVE  /\ \A name \in Order!OrderEvents :
                     <<name, o>> \in events' <=> <<name, o>> \in events
               /\ \/ call'[o] = call[o]
                  \/ call[o] = "sent" /\ call'[o] \in {"created", "refused"}
      BY <1>1 DEF Payment!Handle, Payment!Deliver, Payment!Insert, Payment!InsertFails,
                  Payment!Lookup, Payment!LookupFails, Payment!Announce, Payment!AnnounceFails,
                  Payment!Ack, Payment!Step, Payment!Nack, Payment!Restart,
                  Payment!PublishOutcome, Payment!RoutingKey, Order!OrderEvents
  <1>2. ASSUME NEW p \in Orders, Payment!Serve(p)
        PROVE  /\ UNCHANGED events
               /\ \/ call'[o] = call[o]
                  \/ call[o] = "sent" /\ call'[o] \in {"created", "refused"}
      BY <1>2 DEF Payment!Serve, Payment!PostPayment, Payment!ServeCall, Payment!ServeCallFails
  <1>3. ASSUME NEW p \in Orders, NEW r \in Refunds, Payment!Refund(p, r)
        PROVE  UNCHANGED <<events, call>>
      BY <1>3 DEF Payment!Refund, Payment!CheckRefund, Payment!WriteRefund, Payment!RefundFails,
                  Payment!RefundStep
  <1>4. CASE \/ Payment!StartConsumer   \/ Payment!CancelConsumer
             \/ Payment!CloseConnection \/ Payment!Stop
             \/ Payment!Exit            \/ Payment!Crash
      BY <1>4 DEF Payment!StartConsumer, Payment!CancelConsumer, Payment!CloseConnection,
                  Payment!Stop, Payment!CloseChannel, Payment!Exit, Payment!Crash, Payment!Restart
  <1> QED
      BY <1>1, <1>2, <1>3, <1>4 DEF Payment!Service

-----------------------------------------------------------------------------
(* The order service keeps this part of the invariant.                      *)

\* Only the outcome thread takes outcomes into hand.
LEMMA RequestsHandleNothing ==
    ASSUME \/ \E o \in Orders : Order!Create(o)
           \/ \E o \in Orders, c \in Cancels : Order!Cancel(o, c)
    PROVE  UNCHANGED <<handling, outcomes>>
  BY DEF Order!Create, Order!CreateStep, Order!RejectBasket, Order!InsertOrder,
         Order!PublishCreated, Order!RequestPayment, Order!MarkPaid, Order!PublishPaid,
         Order!CommitOrder, Order!RollBackOrder, Order!Cancel, Order!CancelStep,
         Order!CheckCancel, Order!FlushCancel, Order!PublishCancelled, Order!CommitCancel,
         Order!RollBackCancel, Order!Publish, Order!PublishOrderEvent, Order!brokerVars

\* And it publishes nothing.
LEMMA HandlingSendsNothing ==
    ASSUME NEW m \in Order!Outcomes, Order!Handle(m)
    PROVE  UNCHANGED <<creating, cancel, bound, created, events, call>>
  BY DEF Order!Handle, Order!HandleStep, Order!DeliverOutcome, Order!TakeOutcome,
         Order!ReadOutcome, Order!WriteOutcome, Order!OutcomeDbError, Order!AckOutcome,
         Order!brokerVars

LEMMA OneInHandKept ==
    ASSUME TypeOK, OneInHand, Order!Service PROVE OneInHand'
  <1> USE DEF TypeOK, Order!TypeOK, OneInHand, Order!Outcomes
  <1>1. ASSUME NEW m \in Order!Outcomes, Order!Handle(m) PROVE OneInHand'
      BY <1>1 DEF Order!Handle, Order!HandleStep, Order!DeliverOutcome, Order!NothingInHand,
                  Order!ReadOutcome, Order!WriteOutcome, Order!OutcomeDbError, Order!AckOutcome
  <1>2. CASE Order!LoseConnection \/ Order!Crash
      BY <1>2 DEF Order!LoseConnection, Order!Crash, Order!ReturnOutcomes
  <1>3. CASE Order!StartListener
      BY <1>3 DEF Order!StartListener
  <1> QED
      BY <1>1, <1>2, <1>3, RequestsHandleNothing DEF Order!Service

\* No step of the order service makes copies of an outcome.
LEMMA NoCopyMade ==
    ASSUME TypeOK, Order!Service, NEW m \in Order!Outcomes
    PROVE  outcomes'[m] + One(handling'[m] # "no") <= outcomes[m] + One(handling[m] # "no")
  <1> USE DEF TypeOK, Order!TypeOK, Order!BrokerTypeOK, One
  <1>1. ASSUME NEW n \in Order!Outcomes, Order!Handle(n)
        PROVE  outcomes'[m] + One(handling'[m] # "no") <= outcomes[m] + One(handling[m] # "no")
    <2>1. CASE Order!DeliverOutcome(n)
        BY <2>1 DEF Order!DeliverOutcome, Order!NothingInHand, Order!HandleStep,
                    Order!TakeOutcome
    <2>2. CASE ~Order!DeliverOutcome(n)
      <3>1. UNCHANGED outcomes /\ (handling[m] = "no" => handling'[m] = "no")
          BY <1>1, <2>2 DEF Order!Handle, Order!HandleStep, Order!ReadOutcome,
                            Order!WriteOutcome, Order!OutcomeDbError, Order!AckOutcome,
                            Order!brokerVars
      <3> QED
          BY <3>1
    <2> QED
        BY <2>1, <2>2
  <1>2. CASE Order!LoseConnection \/ Order!Crash
    <2>1. /\ outcomes'[m] = IF handling[m] = "no" THEN outcomes[m] ELSE outcomes[m] + 1
          /\ handling'[m] = "no"
        BY <1>2 DEF Order!LoseConnection, Order!Crash, Order!ReturnOutcomes
    <2> QED
        BY <2>1
  <1>3. CASE UNCHANGED <<handling, outcomes>>
      BY <1>3
  <1> QED
      BY <1>1, <1>2, <1>3, RequestsHandleNothing DEF Order!Service, Order!StartListener

LEMMA OrderKeepsCopies ==
    ASSUME TypeOK, TypeOK', Order!Service, UNCHANGED paymentOnly,
           NEW o \in Orders, NEW v \in Verdicts, CopiesBounded(o, v)
    PROVE  CopiesBounded(o, v)'
  <1>1. <<o, v>> \in Order!Outcomes
      BY DEF Verdicts, Order!Outcomes
  <1>2. /\ outcomes[<<o, v>>] \in Nat /\ outcomes'[<<o, v>>] \in Nat
        /\ paymentFaults \in Nat /\ UNCHANGED <<paymentFaults, consumer, task>>
      BY <1>1, SagaConstants
         DEF TypeOK, Order!TypeOK, Order!BrokerTypeOK, Payment!TypeOK, paymentOnly, Order!Outcomes
  <1> QED
      BY <1>1, <1>2, NoCopyMade DEF CopiesBounded, One

\* The steps of a request: what it announces and asks for agrees with how far it is.
LEMMA OrderKeepsRequests ==
    ASSUME TypeOK, Order!Service, UNCHANGED paymentOnly, NEW p \in Orders,
           RequestInv(p), TaskInv(p)
    PROVE  RequestInv(p)' /\ TaskInv(p)'
  <1> USE DEF TypeOK, Order!TypeOK, Order!brokerVars, paymentOnly, RequestInv, TaskInv,
              Announced, Mine
  <1>1. ASSUME NEW o \in Orders, Order!Create(o) PROVE RequestInv(p)' /\ TaskInv(p)'
    <2> USE DEF Order!CreateStep
    <2>1. CASE Order!RejectBasket(o) \/ Order!InsertOrder(o) \/ Order!RequestPayment(o)
        BY <2>1 DEF Order!RejectBasket, Order!InsertOrder, Order!RequestPayment
    <2>2. CASE Order!PublishCreated(o)
        BY <2>2 DEF Order!PublishCreated, Order!Publish, Order!PublishOrderEvent
    <2>3. CASE Order!MarkPaid(o) \/ Order!PublishPaid(o)
        BY <2>3 DEF Order!MarkPaid, Order!Accepted, Order!PublishPaid, Order!Publish,
                    Order!PublishOrderEvent
    <2>4. CASE Order!CommitOrder(o) \/ Order!RollBackOrder(o)
        BY <2>4 DEF Order!CommitOrder, Order!RollBackOrder
    <2> QED
        BY <1>1, <2>1, <2>2, <2>3, <2>4 DEF Order!Create
  <1>2. ASSUME NEW o \in Orders, NEW c \in Cancels, Order!Cancel(o, c)
        PROVE  RequestInv(p)' /\ TaskInv(p)'
    <2>1. /\ UNCHANGED <<creating, created, call>>
          /\ <<"order.OrderCreated", p>> \in events' => <<"order.OrderCreated", p>> \in events
          /\ <<"order.OrderCreated", p>> \in events => <<"order.OrderCreated", p>> \in events'
        BY <1>2 DEF Order!Cancel, Order!CancelStep, Order!CheckCancel, Order!FlushCancel,
                    Order!PublishCancelled, Order!CommitCancel, Order!RollBackCancel,
                    Order!Publish, Order!PublishOrderEvent
    <2>2. ASSUME NEW d \in Cancels,
                 cancel'[<<p, d>>] \in {"checked", "flushed", "announced", "done"}
          PROVE  Mine(p, d)
        BY <1>2, <2>2
           DEF Order!Cancel, Order!CancelStep, Order!CheckCancel, Order!Cancellable,
               Order!FlushCancel, Order!PublishCancelled, Order!CommitCancel,
               Order!RollBackCancel
    <2> QED
        BY <2>1, <2>2
  <1>3. CASE Order!Crash
      BY <1>3 DEF Order!Crash
  <1>4. CASE UNCHANGED <<creating, cancel, created, events, call>>
      BY <1>4
  <1> QED
      BY <1>1, <1>2, <1>3, <1>4, HandlingSendsNothing
         DEF Order!Service, Order!StartListener, Order!LoseConnection

-----------------------------------------------------------------------------
(* The payment service keeps it.                                            *)

LEMMA PaymentKeepsRequests ==
    ASSUME TypeOK, Payment!Service, UNCHANGED orderOnly, NEW p \in Orders, RequestInv(p)
    PROVE  RequestInv(p)'
  <1>1. /\ Announced(p)' <=> Announced(p)
        /\ \/ call'[p] = call[p]
           \/ call[p] = "sent" /\ call'[p] \in {"created", "refused"}
      BY PaymentSharesCalls, "order.OrderCreated" \in Order!OrderEvents
         DEF Announced, Order!OrderEvents
  <1> QED
      BY <1>1 DEF RequestInv, Mine, orderOnly

\* The process ends, by itself or under a handler, and forgets what it was doing.
LEMMA RestartKeepsTasks ==
    ASSUME TypeOK, Payment!Restart, NEW p \in Orders, TaskInv(p)
    PROVE  TaskInv(p)'
  BY DEF Payment!Restart, Payment!InFlight, TaskInv, Announced, TypeOK, Payment!TypeOK

LEMMA PaymentKeepsTasks ==
    ASSUME TypeOK, Payment!Service, UNCHANGED orderOnly, NEW p \in Orders, TaskInv(p)
    PROVE  TaskInv(p)'
  <1>e. Announced(p)' <=> Announced(p)
      BY PaymentSharesCalls, "order.OrderCreated" \in Order!OrderEvents
         DEF Announced, Order!OrderEvents
  <1> USE DEF TypeOK, Payment!TypeOK, TaskInv
  <1>1. ASSUME NEW o \in Orders, Payment!Handle(o) PROVE TaskInv(p)'
    <2>1. CASE Payment!Restart
        BY <2>1, RestartKeepsTasks
    <2>2. CASE ~Payment!Restart
      <3>1. /\ UNCHANGED consumer
            /\ p \in created' => p \in created \/ task[p] # "idle"
            /\ \/ task'[p] = task[p] \/ task'[p] = "idle"
               \/ p \in created /\ consumer = "consuming"
               \/ task[p] \notin {"idle", "acked"}
          BY <1>1, <2>2
             DEF Payment!Handle, Payment!Deliver, Payment!Insert, Payment!InsertFails,
                 Payment!Lookup, Payment!LookupFails, Payment!Announce, Payment!AnnounceFails,
                 Payment!Ack, Payment!Step, Payment!Nack, Payment!Requeued, Payment!PublishOutcome,
                 Payment!brokerVars
      <3> QED
          BY <1>e, <3>1
    <2> QED
        BY <2>1, <2>2
  <1>2. ASSUME NEW o \in Orders, Payment!Serve(o) PROVE TaskInv(p)'
      BY <1>2, <1>e DEF Payment!Serve, Payment!PostPayment, Payment!ServeCall,
                        Payment!ServeCallFails, Payment!Rest, Payment!brokerVars
  <1>3. ASSUME NEW o \in Orders, NEW r \in Refunds, Payment!Refund(o, r) PROVE TaskInv(p)'
      BY <1>3, <1>e DEF Payment!Refund, Payment!CheckRefund, Payment!WriteRefund,
                        Payment!RefundFails, Payment!RefundStep, Payment!Rest, Payment!brokerVars
  <1>4. CASE Payment!StartConsumer \/ Payment!CancelConsumer
      BY <1>4, <1>e DEF Payment!StartConsumer, Payment!CancelConsumer, Payment!brokerVars
  <1>5. CASE Payment!CloseConnection \/ Payment!Stop
      BY <1>5, <1>e DEF Payment!CloseConnection, Payment!Stop, Payment!CloseChannel,
                        Payment!InFlight
  <1>6. CASE Payment!Exit \/ Payment!Crash
      BY <1>6, RestartKeepsTasks DEF Payment!Exit, Payment!Crash
  <1> QED
      BY <1>1, <1>2, <1>3, <1>4, <1>5, <1>6 DEF Payment!Service

\* What the process forgets when it ends costs one copy at most, and it ends by a
\* fault or because its channel is closed already.
LEMMA RestartKeepsCopies ==
    ASSUME TypeOK, TypeOK', Payment!Restart, UNCHANGED handling,
           \/ UNCHANGED paymentFaults /\ consumer \in {"closed", "stopping"}
           \/ paymentFaults' = paymentFaults + 1,
           NEW o \in Orders, NEW v \in Verdicts, CopiesBounded(o, v)
    PROVE  CopiesBounded(o, v)'
  <1>1. <<o, v>> \in Order!Outcomes
      BY DEF Verdicts, Order!Outcomes
  <1>2. outcomes[<<o, v>>] \in Nat /\ paymentFaults \in Nat
      BY <1>1, SagaConstants DEF TypeOK, Order!TypeOK, Order!BrokerTypeOK, Payment!TypeOK
  <1>3. /\ consumer' = "connecting" /\ UNCHANGED <<outcomes, handling>>
        /\ task'[o] \in {"announced", "acked"} => task[o] \in {"announced", "acked"}
      BY DEF Payment!Restart
  <1>4. One(consumer' \in {"closed", "stopping"}) = 0
      BY <1>3 DEF One
  <1> QED
      BY <1>2, <1>3, <1>4 DEF CopiesBounded, One

\* The copies of an outcome do not change, nor what bounds them.
LEMMA SameCopies ==
    ASSUME NEW o \in Orders, NEW v \in Verdicts, CopiesBounded(o, v),
           paymentFaults \in Nat, paymentFaults' \in {paymentFaults, paymentFaults + 1},
           outcomes[<<o, v>>] \in Nat,
           UNCHANGED <<outcomes, handling, consumer>>,
           task[o] \in {"announced", "acked"} =>
              task'[o] \in {"announced", "acked"} \/ paymentFaults' = paymentFaults + 1
    PROVE  CopiesBounded(o, v)'
  BY DEF CopiesBounded, One

LEMMA PaymentKeepsCopies ==
    ASSUME TypeOK, TypeOK', Payment!Service, UNCHANGED orderOnly,
           NEW o \in Orders, NEW v \in Verdicts, CopiesBounded(o, v),
           \A p \in Orders : TaskInv(p)
    PROVE  CopiesBounded(o, v)'
  <1>m. <<o, v>> \in Order!Outcomes
      BY DEF Verdicts, Order!Outcomes
  <1>n. /\ outcomes[<<o, v>>] \in Nat /\ outcomes'[<<o, v>>] \in Nat
        /\ paymentFaults \in Nat /\ paymentFaults' \in Nat /\ UNCHANGED handling
      BY <1>m, SagaConstants
         DEF TypeOK, Order!TypeOK, Order!BrokerTypeOK, Payment!TypeOK, orderOnly
  <1>f. ASSUME NEW kind, Payment!Fault(kind) PROVE paymentFaults' = paymentFaults + 1
      BY <1>f DEF Payment!Fault
  <1> USE DEF TypeOK, Payment!TypeOK
  <1>1. ASSUME NEW p \in Orders, Payment!Handle(p) PROVE CopiesBounded(o, v)'
    <2>1. CASE Payment!Deliver(p) \/ Payment!Insert(p) \/ Payment!Lookup(p)
      <3>1. /\ UNCHANGED <<outcomes, consumer, paymentFaults>>
            /\ task[o] \in {"announced", "acked"} => task'[o] = task[o]
          BY <2>1 DEF Payment!Deliver, Payment!Insert, Payment!Lookup, Payment!Step,
                      Payment!brokerVars
      <3> QED
          BY <3>1, <1>n, SameCopies
    <2>2. CASE Payment!InsertFails(p) \/ Payment!LookupFails(p) \/ Payment!AnnounceFails(p)
      <3>1. paymentFaults' = paymentFaults + 1 /\ Payment!Nack(p)
          BY <2>2, <1>f DEF Payment!InsertFails, Payment!LookupFails, Payment!AnnounceFails
      <3>2. CASE Payment!Restart
          BY <3>1, <3>2, <1>n, RestartKeepsCopies
      <3>3. CASE ~Payment!Restart
        <4>1. UNCHANGED <<outcomes, consumer>>
            BY <3>1, <3>3 DEF Payment!Nack
        <4> QED
            BY <3>1, <4>1, <1>n, SameCopies
      <3> QED
          BY <3>2, <3>3
    <2>3. CASE Payment!Announce(p)
      <3>1. /\ task[p] = "settled" /\ task' = [task EXCEPT ![p] = "announced"]
            /\ UNCHANGED <<consumer, paymentFaults>>
          BY <2>3 DEF Payment!Announce, Payment!Step
      <3>2. CASE UNCHANGED outcomes
        <4>1. task[o] \in {"announced", "acked"} => task'[o] \in {"announced", "acked"}
            BY <3>1
        <4> QED
            BY <3>1, <3>2, <4>1, <1>n, SameCopies
      <3>3. CASE ~UNCHANGED outcomes
        <4>1. outcomes' = [outcomes EXCEPT ![<<p, verdict[p]>>] = @ + 1]
            BY <2>3, <3>3 DEF Payment!Announce, Payment!PublishOutcome, Payment!brokerVars
        <4>2. CASE p = o
          <5>1. outcomes'[<<o, v>>] <= outcomes[<<o, v>>] + 1
            <6>1. CASE verdict[p] = v
                BY <4>1, <4>2, <6>1, <1>m, <1>n DEF Order!TypeOK, Order!BrokerTypeOK
            <6>2. CASE verdict[p] # v
              <7>1. outcomes'[<<o, v>>] = outcomes[<<o, v>>]
                  BY <4>1, <6>2, <1>m DEF Order!TypeOK, Order!BrokerTypeOK
              <7> QED
                  BY <7>1, <1>n
            <6> QED
                BY <6>1, <6>2
          <5>2. task[o] = "settled" /\ task'[o] = "announced"
              BY <3>1, <4>2
          <5> QED
              BY <3>1, <5>1, <5>2, <1>n DEF CopiesBounded, One
        <4>3. CASE p # o
          <5>1. outcomes'[<<o, v>>] = outcomes[<<o, v>>] /\ task'[o] = task[o]
              BY <3>1, <4>1, <4>3, <1>m DEF Order!TypeOK, Order!BrokerTypeOK
          <5> QED
              BY <3>1, <5>1, <1>n DEF CopiesBounded, One
        <4> QED
            BY <4>2, <4>3
      <3> QED
          BY <3>2, <3>3
    <2>4. CASE Payment!Ack(p)
      <3>1. UNCHANGED paymentFaults /\ task[p] = "announced"
          BY <2>4 DEF Payment!Ack, Payment!Step
      <3>2. CASE Payment!ChannelOpen
        <4>1. /\ UNCHANGED <<outcomes, consumer>>
              /\ task[o] \in {"announced", "acked"} => task'[o] \in {"announced", "acked"}
            BY <2>4, <3>2 DEF Payment!Ack, Payment!Step, Payment!brokerVars
        <4> QED
            BY <3>1, <4>1, <1>n, SameCopies
      <3>3. CASE ~Payment!ChannelOpen
        <4>1. Payment!Restart /\ consumer \in {"closed", "stopping"}
            BY <2>4, <3>1, <3>3 DEF Payment!Ack, Payment!ChannelOpen, TaskInv,
                                    Payment!ConsumerStates
        <4> QED
            BY <3>1, <4>1, <1>n, RestartKeepsCopies
      <3> QED
          BY <3>2, <3>3
    <2> QED
        BY <1>1, <2>1, <2>2, <2>3, <2>4 DEF Payment!Handle
  <1>2. ASSUME NEW p \in Orders, Payment!Serve(p) PROVE CopiesBounded(o, v)'
    <2>1. /\ UNCHANGED <<outcomes, consumer, task>>
          /\ paymentFaults' \in {paymentFaults, paymentFaults + 1}
        BY <1>2, <1>f DEF Payment!Serve, Payment!PostPayment, Payment!ServeCall,
                          Payment!ServeCallFails, Payment!Rest, Payment!brokerVars
    <2> QED
        BY <2>1, <1>n, SameCopies
  <1>3. ASSUME NEW p \in Orders, NEW r \in Refunds, Payment!Refund(p, r)
        PROVE  CopiesBounded(o, v)'
    <2>1. /\ UNCHANGED <<outcomes, consumer, task>>
          /\ paymentFaults' \in {paymentFaults, paymentFaults + 1}
        BY <1>3, <1>f DEF Payment!Refund, Payment!CheckRefund, Payment!WriteRefund,
                          Payment!RefundFails, Payment!RefundStep, Payment!Rest,
                          Payment!brokerVars
    <2> QED
        BY <2>1, <1>n, SameCopies
  <1>4. CASE Payment!StartConsumer
    <2>1. UNCHANGED <<outcomes, task, paymentFaults>> /\ consumer' = "consuming"
        BY <1>4 DEF Payment!StartConsumer
    <2>2. One(consumer' \in {"closed", "stopping"}) = 0
        BY <2>1 DEF One
    <2> QED
        BY <2>1, <2>2, <1>n DEF CopiesBounded, One
  <1>5. CASE Payment!CancelConsumer \/ Payment!CloseConnection \/ Payment!Stop
    <2>1. UNCHANGED <<outcomes, task>> /\ paymentFaults' = paymentFaults + 1
        BY <1>5, <1>f DEF Payment!CancelConsumer, Payment!CloseConnection, Payment!Stop,
                          Payment!CloseChannel, Payment!brokerVars
    <2>2. consumer \notin {"closed", "stopping"}
        BY <1>5 DEF Payment!CancelConsumer, Payment!CloseConnection, Payment!Stop,
                    Payment!CloseChannel, Payment!ChannelOpen
    <2> QED
        BY <2>1, <2>2, <1>n DEF CopiesBounded, One
  <1>6. CASE Payment!Exit \/ Payment!Crash
      BY <1>6, <1>n, <1>f, RestartKeepsCopies DEF Payment!Exit, Payment!Crash
  <1> QED
      BY <1>1, <1>2, <1>3, <1>4, <1>5, <1>6 DEF Payment!Service

-----------------------------------------------------------------------------
(* Announcements are for good, and outcomes come from them.                 *)

LEMMA OrderEventsGrow ==
    ASSUME Order!Service PROVE events \subseteq events'
  BY HandlingSendsNothing
     DEF Order!Service, Order!Create, Order!CreateStep, Order!RejectBasket, Order!InsertOrder,
         Order!PublishCreated, Order!RequestPayment, Order!MarkPaid, Order!PublishPaid,
         Order!CommitOrder, Order!RollBackOrder, Order!Cancel, Order!CancelStep,
         Order!CheckCancel, Order!FlushCancel, Order!PublishCancelled, Order!CommitCancel,
         Order!RollBackCancel, Order!Publish, Order!PublishOrderEvent, Order!brokerVars,
         Order!StartListener, Order!LoseConnection, Order!Crash

\* What the payment service does to the queue of outcomes and to the events.
LEMMA PaymentAnnounces ==
    ASSUME Payment!Service
    PROVE  \/ UNCHANGED <<outcomes, events>>
           \/ \E o \in Orders : /\ task[o] = "settled" /\ verdict[o] # "REFUNDED"
                                /\ Payment!Announce(o) /\ Payment!PublishOutcome(o, verdict[o])
  <1>1. ASSUME NEW o \in Orders, Payment!Handle(o)
        PROVE  \/ UNCHANGED <<outcomes, events>>
               \/ /\ task[o] = "settled" /\ verdict[o] # "REFUNDED"
                  /\ Payment!Announce(o) /\ Payment!PublishOutcome(o, verdict[o])
      BY <1>1 DEF Payment!Handle, Payment!Deliver, Payment!Insert, Payment!InsertFails,
                  Payment!Lookup, Payment!LookupFails, Payment!Announce, Payment!AnnounceFails,
                  Payment!Ack, Payment!Step, Payment!Nack, Payment!Restart, Payment!brokerVars
  <1>2. ASSUME NEW o \in Orders, Payment!Serve(o) PROVE UNCHANGED <<outcomes, events>>
      BY <1>2 DEF Payment!Serve, Payment!PostPayment, Payment!ServeCall, Payment!ServeCallFails,
                  Payment!Rest, Payment!brokerVars
  <1>3. ASSUME NEW o \in Orders, NEW r \in Refunds, Payment!Refund(o, r)
        PROVE  UNCHANGED <<outcomes, events>>
      BY <1>3 DEF Payment!Refund, Payment!CheckRefund, Payment!WriteRefund, Payment!RefundFails,
                  Payment!RefundStep, Payment!Rest, Payment!brokerVars
  <1>4. CASE \/ Payment!StartConsumer   \/ Payment!CancelConsumer
             \/ Payment!CloseConnection \/ Payment!Stop
             \/ Payment!Exit            \/ Payment!Crash
      BY <1>4 DEF Payment!StartConsumer, Payment!CancelConsumer, Payment!CloseConnection,
                  Payment!Stop, Payment!CloseChannel, Payment!Exit, Payment!Crash,
                  Payment!Restart, Payment!brokerVars
  <1> QED
      BY <1>1, <1>2, <1>3, <1>4 DEF Payment!Service

LEMMA PaymentEventsGrow ==
    ASSUME Payment!Service PROVE events \subseteq events'
  BY PaymentAnnounces DEF Payment!PublishOutcome

LEMMA OrderKeepsTold ==
    ASSUME TypeOK, TypeOK', Order!Service, NEW m \in Order!Outcomes, OutcomeTold(m)
    PROVE  OutcomeTold(m)'
  <1>1. outcomes[m] \in Nat /\ outcomes'[m] \in Nat
      BY DEF TypeOK, Order!TypeOK, Order!BrokerTypeOK
  <1>2. outcomes'[m] > 0 \/ handling'[m] # "no" => outcomes[m] > 0 \/ handling[m] # "no"
      BY <1>1, NoCopyMade DEF One
  <1> QED
      BY <1>2, OrderEventsGrow DEF OutcomeTold, Payment!Told

LEMMA PaymentKeepsTold ==
    ASSUME TypeOK, Payment!Service, UNCHANGED orderOnly,
           NEW m \in Order!Outcomes, OutcomeTold(m)
    PROVE  OutcomeTold(m)'
  <1> USE DEF OutcomeTold, Payment!Told, orderOnly
  <1>1. CASE UNCHANGED <<outcomes, events>>
      BY <1>1
  <1>2. ASSUME NEW o \in Orders, Payment!PublishOutcome(o, verdict[o]) PROVE OutcomeTold(m)'
    <2>1. CASE m = <<o, verdict[o]>>
        BY <1>2, <2>1 DEF Payment!PublishOutcome, Order!Outcomes
    <2>2. CASE m # <<o, verdict[o]>>
      <3>1. outcomes'[m] = outcomes[m]
          BY <1>2, <2>2 DEF Payment!PublishOutcome, TypeOK, Order!TypeOK, Order!BrokerTypeOK
      <3> QED
          BY <3>1, PaymentEventsGrow
    <2> QED
        BY <2>1, <2>2
  <1> QED
      BY <1>1, <1>2, PaymentAnnounces

LEMMA AlignStep ==
    ASSUME TypeOK, TypeOK', AlignInv, [Next]_vars PROVE AlignInv'
  <1>1. CASE OrderTurn(Order!Service)
    <2>1. /\ OneInHand'
          /\ \A m \in Order!Outcomes : OutcomeTold(m)'
        BY <1>1, OneInHandKept, OrderKeepsTold DEF AlignInv, OrderTurn
    <2> QED
        BY <1>1, <2>1, OrderKeepsCopies, OrderKeepsRequests DEF AlignInv, OrderTurn, Order!Outcomes
  <1>2. CASE PaymentTurn(Payment!Service)
    <2>1. OneInHand'
        BY <1>2 DEF AlignInv, OneInHand, PaymentTurn, orderOnly, Order!Outcomes
    <2>2. \A m \in Order!Outcomes : OutcomeTold(m)'
        BY <1>2, PaymentKeepsTold DEF AlignInv, PaymentTurn
    <2> QED
        BY <1>2, <2>1, <2>2, PaymentKeepsRequests, PaymentKeepsTasks, PaymentKeepsCopies
           DEF AlignInv, PaymentTurn, Order!Outcomes
  <1>3. CASE UNCHANGED vars
      BY <1>3 DEF vars, orderOnly, paymentOnly, AlignInv, OneInHand, RequestInv, TaskInv, Mine,
                  CopiesBounded, Announced, One, OutcomeTold, Payment!Told, Order!Outcomes
  <1> QED
      BY <1>1, <1>2, <1>3 DEF Next

LEMMA AlignInit == Init => AlignInv
  <1> SUFFICES ASSUME Init PROVE AlignInv
      OBVIOUS
  <1>1. OneInHand /\ \A m \in Order!Outcomes : OutcomeTold(m)
      BY DEF Init, Order!Init, Order!BrokerInit, OneInHand, OutcomeTold
  <1>2. ASSUME NEW o \in Orders PROVE RequestInv(o) /\ TaskInv(o)
      BY DEF Init, Order!Init, Order!BrokerInit, Payment!Init, RequestInv, TaskInv, Announced
  <1>3. ASSUME NEW o \in Orders, NEW v \in Verdicts PROVE CopiesBounded(o, v)
    <2>1. <<o, v>> \in Order!Outcomes
        BY DEF Verdicts, Order!Outcomes
    <2> QED
        BY <2>1 DEF Init, Order!Init, Order!BrokerInit, Payment!Init, CopiesBounded, One
  <1> QED
      BY <1>1, <1>2, <1>3 DEF AlignInv

-----------------------------------------------------------------------------
(* A step of either service is one the other's environment may take.        *)

\* The verdict a handler announces is one of the two the exchange routes.
LEMMA AnnouncedVerdict ==
    ASSUME TypeOK, PaymentP!IInv, NEW o \in Orders, task[o] = "settled", verdict[o] # "REFUNDED"
    PROVE  verdict[o] \in Verdicts
  BY DEF PaymentP!IInv, PaymentP!LedgerInv, PaymentP!VerdictAgrees, PaymentP!PaymentStatuses,
         Verdicts

\* A message that is given back was about an order that had been announced.
LEMMA RestartReturns ==
    ASSUME TypeOK, AlignInv, Payment!Restart PROVE Order!ReturnCreated
  <1>1. Payment!InFlight \in SUBSET {o \in Orders : <<"order.OrderCreated", o>> \in events}
      BY DEF Payment!InFlight, AlignInv, TaskInv, Announced
  <1>2. call' = Order!CallsDropped
      BY DEF Payment!Restart, Order!CallsDropped
  <1> QED
      BY <1>1, <1>2 DEF Payment!Restart, Order!ReturnCreated

LEMMA NackReturns ==
    ASSUME TypeOK, AlignInv, NEW o \in Orders, task[o] # "idle", Payment!Nack(o)
    PROVE  Order!ReturnCreated
  <1>1. CASE Payment!Restart
      BY <1>1, RestartReturns
  <1>2. CASE ~Payment!Restart
    <2>1. {o} \in SUBSET {p \in Orders : <<"order.OrderCreated", p>> \in events}
        BY DEF AlignInv, TaskInv, Announced
    <2>2. created' = created \union {o} /\ UNCHANGED <<bound, outcomes, events, call>>
        BY <1>2 DEF Payment!Nack, Payment!Requeued
    <2> QED
        BY <2>1, <2>2 DEF Order!ReturnCreated
  <1> QED
      BY <1>1, <1>2

LEMMA PaymentIsEnvironment ==
    ASSUME TypeOK, AlignInv, PaymentP!IInv, Payment!Service, UNCHANGED orderOnly
    PROVE  [Order!PaymentStep]_Order!vars
  <1>u. UNCHANGED <<Order!orderVars, orderFaults>>
      BY DEF orderOnly, Order!orderVars
  <1>v. ASSUME UNCHANGED <<Order!brokerVars, call>> PROVE UNCHANGED Order!vars
      BY <1>u, <1>v DEF Order!vars, Order!orderVars
  <1>r. ASSUME Order!ReturnCreated PROVE Order!PaymentStep
      BY <1>u, <1>r DEF Order!PaymentStep
  <1>1. ASSUME NEW o \in Orders, Payment!Handle(o) PROVE [Order!PaymentStep]_Order!vars
    <2>1. CASE Payment!Deliver(o)
      <3>1. Order!TakeCreated(o)
          BY <2>1 DEF Payment!Deliver, Payment!Step, Order!TakeCreated
      <3> QED
          BY <3>1, <1>u DEF Order!PaymentStep
    <2>2. CASE Payment!Insert(o) \/ Payment!Lookup(o)
      <3>1. UNCHANGED <<Order!brokerVars, call>>
          BY <2>2 DEF Payment!Insert, Payment!Lookup, Payment!Step, Payment!brokerVars,
                      Order!brokerVars
      <3> QED
          BY <3>1, <1>v
    <2>3. CASE Payment!InsertFails(o) \/ Payment!LookupFails(o) \/ Payment!AnnounceFails(o)
      <3>1. task[o] # "idle" /\ Payment!Nack(o)
          BY <2>3 DEF Payment!InsertFails, Payment!LookupFails, Payment!AnnounceFails
      <3> QED
          BY <3>1, <1>r, NackReturns
    <2>4. CASE Payment!Announce(o)
      <3>1. task[o] = "settled" /\ UNCHANGED call
          BY <2>4 DEF Payment!Announce, Payment!Step
      <3>2. CASE UNCHANGED Payment!brokerVars
          BY <3>1, <3>2, <1>v DEF Payment!brokerVars, Order!brokerVars
      <3>3. CASE verdict[o] # "REFUNDED" /\ Payment!PublishOutcome(o, verdict[o])
        <4>1. verdict[o] \in Verdicts /\ <<o, verdict[o]>> \in Order!Outcomes
            BY <3>1, <3>3, AnnouncedVerdict DEF Verdicts, Order!Outcomes
        <4>2. CopiesBounded(o, verdict[o])
            BY <4>1 DEF AlignInv
        <4>3. /\ outcomes[<<o, verdict[o]>>] \in Nat
              /\ paymentFaults \in Nat /\ paymentFaults <= MaxPaymentFaults
            BY <4>1, SagaConstants
               DEF TypeOK, Order!TypeOK, Order!BrokerTypeOK, Payment!TypeOK
        <4>4. outcomes[<<o, verdict[o]>>] < MostOutcomes
            BY <3>1, <4>2, <4>3, SagaConstants DEF CopiesBounded, One, MostOutcomes
        <4>5. Order!AnnounceOutcome(o, verdict[o])
            BY <3>1, <3>3, <4>4
               DEF Order!AnnounceOutcome, Order!PublishOutcome, Payment!PublishOutcome,
                   Order!RoutingKey, Payment!RoutingKey
        <4> QED
            BY <4>1, <4>5, <1>u DEF Order!PaymentStep, Verdicts
      <3> QED
          BY <2>4, <3>2, <3>3 DEF Payment!Announce
    <2>5. CASE Payment!Ack(o)
      <3>1. CASE Payment!Restart
          BY <3>1, <1>r, RestartReturns
      <3>2. CASE ~Payment!Restart
        <4>1. UNCHANGED <<Order!brokerVars, call>>
            BY <2>5, <3>2 DEF Payment!Ack, Payment!Step, Payment!brokerVars, Order!brokerVars
        <4> QED
            BY <4>1, <1>v
      <3> QED
          BY <3>1, <3>2
    <2> QED
        BY <1>1, <2>1, <2>2, <2>3, <2>4, <2>5 DEF Payment!Handle
  <1>2. ASSUME NEW o \in Orders, Payment!Serve(o) PROVE [Order!PaymentStep]_Order!vars
    <2>1. UNCHANGED Order!brokerVars
        BY <1>2 DEF Payment!Serve, Payment!PostPayment, Payment!ServeCall, Payment!ServeCallFails,
                    Payment!Rest, Payment!brokerVars, Order!brokerVars
    <2>2. UNCHANGED call \/ Order!AnswerCall(o)
        BY <1>2, <2>1 DEF Payment!Serve, Payment!PostPayment, Payment!ServeCall,
                          Payment!ServeCallFails, Order!AnswerCall
    <2> QED
        BY <2>1, <2>2, <1>u, <1>v DEF Order!PaymentStep
  <1>3. ASSUME NEW o \in Orders, NEW r \in Refunds, Payment!Refund(o, r)
        PROVE  UNCHANGED Order!vars
    <2>1. UNCHANGED <<Order!brokerVars, call>>
        BY <1>3 DEF Payment!Refund, Payment!CheckRefund, Payment!WriteRefund,
                    Payment!RefundFails, Payment!RefundStep, Payment!Rest, Payment!brokerVars,
                    Order!brokerVars
    <2> QED
        BY <2>1, <1>v
  <1>4. CASE Payment!StartConsumer
    <2>1. Order!BindCreatedQueue
        BY <1>4 DEF Payment!StartConsumer, Payment!Bind, Order!BindCreatedQueue, Order!Bind
    <2> QED
        BY <2>1, <1>u DEF Order!PaymentStep
  <1>5. CASE Payment!CancelConsumer
    <2>1. UNCHANGED <<Order!brokerVars, call>>
        BY <1>5 DEF Payment!CancelConsumer, Payment!brokerVars, Order!brokerVars
    <2> QED
        BY <2>1, <1>v
  <1>6. CASE Payment!CloseConnection \/ Payment!Stop
    <2>1. Payment!InFlight \in SUBSET {o \in Orders : <<"order.OrderCreated", o>> \in events}
        BY DEF Payment!InFlight, AlignInv, TaskInv, Announced
    <2>2. Order!ReturnCreated
        BY <1>6, <2>1 DEF Payment!CloseConnection, Payment!Stop, Payment!CloseChannel,
                          Order!ReturnCreated
    <2> QED
        BY <2>2, <1>r
  <1>7. CASE Payment!Exit \/ Payment!Crash
      BY <1>7, <1>r, RestartReturns DEF Payment!Exit, Payment!Crash
  <1> QED
      BY <1>1, <1>2, <1>3, <1>4, <1>5, <1>6, <1>7 DEF Payment!Service

\* The order service announces each event of an order once; the cancellation
\* alone may be announced again, which adds nothing to what is known.
LEMMA PublishIsEnvironment ==
    ASSUME NEW o \in Orders, NEW name \in Order!OrderEvents, Order!Publish(name, o),
           <<name, o>> \notin events \/ name = "order.OrderCancelled",
           UNCHANGED call
    PROVE  \/ UNCHANGED <<Payment!brokerVars, call>>
           \/ Payment!AnnounceOrder(o)
  <1>1. CASE UNCHANGED Order!brokerVars
      BY <1>1 DEF Order!brokerVars, Payment!brokerVars
  <1>2. CASE Order!PublishOrderEvent(name, o) /\ <<name, o>> \notin events
      BY <1>2 DEF Payment!AnnounceOrder, Order!PublishOrderEvent, Payment!PublishOrderEvent,
                  Order!OrderEvents, Payment!OrderEvents
  <1>3. CASE /\ Order!PublishOrderEvent(name, o) /\ <<name, o>> \in events
             /\ name = "order.OrderCancelled"
      BY <1>3 DEF Order!PublishOrderEvent, Payment!brokerVars
  <1> QED
      BY <1>1, <1>2, <1>3 DEF Order!Publish

\* The outcome in hand is the only one that goes back to the queue.
LEMMA ReturnIsEnvironment ==
    ASSUME TypeOK, AlignInv, Order!ReturnOutcomes, UNCHANGED <<bound, created, events, call>>
    PROVE  \/ UNCHANGED <<Payment!brokerVars, call>>
           \/ \E m \in Payment!Outcomes : Payment!ReturnOutcome(m)
  <1> USE DEF TypeOK, Order!TypeOK, Order!BrokerTypeOK
  <1>1. CASE \A m \in Order!Outcomes : handling[m] = "no"
    <2>1. outcomes' = outcomes
        BY <1>1 DEF Order!ReturnOutcomes
    <2> QED
        BY <2>1 DEF Payment!brokerVars
  <1>2. ASSUME NEW m \in Order!Outcomes, handling[m] # "no"
        PROVE  m \in Payment!Outcomes /\ Payment!ReturnOutcome(m)
    <2>1. \A n \in Order!Outcomes : n # m => handling[n] = "no"
        BY <1>2 DEF AlignInv, OneInHand
    <2>2. outcomes' = [outcomes EXCEPT ![m] = @ + 1]
        BY <1>2, <2>1 DEF Order!ReturnOutcomes
    <2>3. <<Payment!RoutingKey(m[2]), m[1]>> \in events
        BY <1>2 DEF AlignInv, OutcomeTold, Payment!Told
    <2>4. PICK o \in Orders, v \in Verdicts : m = <<o, v>>
        BY DEF Order!Outcomes, Verdicts
    <2>5. CopiesBounded(o, v)
        BY <2>4 DEF AlignInv
    <2>6. /\ outcomes[m] \in Nat /\ paymentFaults \in Nat
          /\ paymentFaults <= MaxPaymentFaults
        BY SagaConstants DEF Payment!TypeOK
    <2>7. outcomes[m] < MostOutcomes
        BY <1>2, <2>4, <2>5, <2>6, SagaConstants DEF CopiesBounded, One, MostOutcomes
    <2> QED
        BY <2>2, <2>3, <2>7 DEF Payment!ReturnOutcome, Payment!Outcomes, Order!Outcomes
  <1> QED
      BY <1>1, <1>2

LEMMA OrderIsEnvironment ==
    ASSUME TypeOK, AlignInv, OrderP!IInv, Order!Service, UNCHANGED paymentOnly
    PROVE  [Payment!OrderStep]_Payment!vars
  <1>u. UNCHANGED <<Payment!paymentVars, paymentFaults>>
      BY DEF paymentOnly, Payment!paymentVars
  <1>v. ASSUME UNCHANGED <<Payment!brokerVars, call>> PROVE UNCHANGED Payment!vars
      BY <1>u, <1>v DEF Payment!vars, Payment!paymentVars
  <1>a. ASSUME NEW o \in Orders, Payment!AnnounceOrder(o) PROVE Payment!OrderStep
      BY <1>u, <1>a DEF Payment!OrderStep
  <1>b. Order!OrderEvents = {"order.OrderCreated", "order.OrderPaid", "order.OrderCancelled"}
      BY DEF Order!OrderEvents
  <1>1. ASSUME NEW o \in Orders, Order!Create(o) PROVE [Payment!OrderStep]_Payment!vars
    <2> USE DEF Order!CreateStep
    <2>1. CASE Order!PublishCreated(o)
      <3>1. /\ Order!Publish("order.OrderCreated", o) /\ UNCHANGED call
            /\ creating[o] = "inserted"
          BY <2>1 DEF Order!PublishCreated
      <3>2. <<"order.OrderCreated", o>> \notin events
          BY <3>1 DEF AlignInv, RequestInv, Announced
      <3> QED
          BY <3>1, <3>2, <1>a, <1>b, <1>v, PublishIsEnvironment
    <2>2. CASE Order!PublishPaid(o)
      <3>1. /\ Order!Publish("order.OrderPaid", o) /\ UNCHANGED call
            /\ creating[o] = "marked"
          BY <2>2 DEF Order!PublishPaid
      <3>2. <<"order.OrderPaid", o>> \notin events
          BY <3>1 DEF OrderP!IInv, OrderP!OrderInv, OrderP!PaidAnnouncedLate,
                      OrderP!PaidAnnounced
      <3> QED
          BY <3>1, <3>2, <1>a, <1>b, <1>v, PublishIsEnvironment
    <2>3. CASE Order!RequestPayment(o)
      <3>1. Payment!SendCall(o)
          BY <2>3 DEF Order!RequestPayment, Payment!SendCall, AlignInv, RequestInv,
                      Order!brokerVars, Payment!brokerVars
      <3> QED
          BY <3>1, <1>u DEF Payment!OrderStep
    <2>4. CASE \/ Order!RejectBasket(o) \/ Order!InsertOrder(o) \/ Order!MarkPaid(o)
               \/ Order!CommitOrder(o)  \/ Order!RollBackOrder(o)
      <3>1. UNCHANGED <<Payment!brokerVars, call>>
          BY <2>4 DEF Order!RejectBasket, Order!InsertOrder, Order!MarkPaid, Order!CommitOrder,
                      Order!RollBackOrder, Order!brokerVars, Payment!brokerVars
      <3> QED
          BY <3>1, <1>v
    <2> QED
        BY <1>1, <2>1, <2>2, <2>3, <2>4 DEF Order!Create
  <1>2. ASSUME NEW o \in Orders, NEW c \in Cancels, Order!Cancel(o, c)
        PROVE  [Payment!OrderStep]_Payment!vars
    <2> USE DEF Order!CancelStep
    <2>1. CASE Order!PublishCancelled(o, c)
      <3>1. Order!Publish("order.OrderCancelled", o) /\ UNCHANGED call
          BY <2>1 DEF Order!PublishCancelled
      <3> QED
          BY <3>1, <1>a, <1>b, <1>v, PublishIsEnvironment
    <2>2. CASE ~Order!PublishCancelled(o, c)
      <3>1. UNCHANGED <<Payment!brokerVars, call>>
          BY <1>2, <2>2 DEF Order!Cancel, Order!CheckCancel, Order!FlushCancel,
                            Order!CommitCancel, Order!RollBackCancel, Order!brokerVars,
                            Payment!brokerVars
      <3> QED
          BY <3>1, <1>v
    <2> QED
        BY <2>1, <2>2
  <1>3. ASSUME NEW m \in Order!Outcomes, Order!Handle(m)
        PROVE  [Payment!OrderStep]_Payment!vars
    <2>1. CASE Order!DeliverOutcome(m)
      <3>1. m \in Payment!Outcomes /\ Payment!ConsumeOutcome(m)
          BY <2>1 DEF Order!DeliverOutcome, Order!HandleStep, Order!TakeOutcome,
                      Payment!ConsumeOutcome, Payment!TakeOutcome, Order!Outcomes,
                      Payment!Outcomes
      <3> QED
          BY <3>1, <1>u DEF Payment!OrderStep
    <2>2. CASE ~Order!DeliverOutcome(m)
      <3>1. UNCHANGED <<Payment!brokerVars, call>>
          BY <1>3, <2>2 DEF Order!Handle, Order!HandleStep, Order!ReadOutcome,
                            Order!WriteOutcome, Order!OutcomeDbError, Order!AckOutcome,
                            Order!brokerVars, Payment!brokerVars
      <3> QED
          BY <3>1, <1>v
    <2> QED
        BY <2>1, <2>2
  <1>4. CASE Order!StartListener
    <2>1. Payment!BindOutcomesQueue
        BY <1>4 DEF Order!StartListener, Order!Bind, Payment!BindOutcomesQueue, Payment!Bind
    <2> QED
        BY <2>1, <1>u DEF Payment!OrderStep
  <1>5. CASE Order!LoseConnection \/ Order!Crash
    <2>1. Order!ReturnOutcomes /\ UNCHANGED <<bound, created, events, call>>
        BY <1>5 DEF Order!LoseConnection, Order!Crash
    <2> QED
        BY <2>1, <1>u, <1>v, ReturnIsEnvironment DEF Payment!OrderStep
  <1> QED
      BY <1>1, <1>2, <1>3, <1>4, <1>5 DEF Order!Service

-----------------------------------------------------------------------------
(* So every step of the system is a step of either service, and the         *)
(* invariants proved of each alone hold here.                               *)

BothAlone == OrderP!IInv /\ PaymentP!IInv

LEMMA StepOfBoth ==
    ASSUME TypeOK, AlignInv, BothAlone, [Next]_vars
    PROVE  [Order!Next]_Order!vars /\ [Payment!Next]_Payment!vars
  <1>1. CASE OrderTurn(Order!Service)
      BY <1>1, OrderIsEnvironment DEF OrderTurn, BothAlone, Order!Next, Payment!Next
  <1>2. CASE PaymentTurn(Payment!Service)
      BY <1>2, PaymentIsEnvironment DEF PaymentTurn, BothAlone, Order!Next, Payment!Next
  <1>3. CASE UNCHANGED vars
      BY <1>3 DEF vars, orderOnly, paymentOnly, Order!vars, Payment!vars, Order!orderVars,
                  Order!brokerVars, Payment!paymentVars, Payment!brokerVars
  <1> QED
      BY <1>1, <1>2, <1>3 DEF Next

LEMMA BothAloneStep ==
    ASSUME TypeOK, AlignInv, BothAlone, [Next]_vars PROVE BothAlone'
  <1>1. OrderP!IInv'
      BY StepOfBoth, OrderSame, OrderAssumptions, OrderP!InvStep DEF TypeOK, BothAlone
  <1>2. PaymentP!IInv'
      BY StepOfBoth, PaymentSame, PaymentAssumptions, PaymentP!InvStep DEF TypeOK, BothAlone
  <1> QED
      BY <1>1, <1>2 DEF BothAlone

LEMMA BothAloneInit == Init => BothAlone
  <1> SUFFICES ASSUME Init PROVE BothAlone
      OBVIOUS
  <1>1. OrderP!IInv
      BY DEF Init, Order!Init, Order!BrokerInit, OrderP!IInv, OrderP!OrderInv, OrderP!RowIffDone,
             OrderP!PaidAnnouncedLate, OrderP!PaidAnnouncedPaid, OrderP!WriterSawOpen,
             OrderP!WriterPending, OrderP!PaidAnnounced, OrderP!Outcomes, Order!Outcomes
  <1>2. PaymentP!IInv
      BY DEF Init, Payment!Init, Payment!BrokerInit, PaymentP!IInv, PaymentP!LedgerInv,
             PaymentP!VerdictAgrees, PaymentP!ToldAgrees, PaymentP!ConflictHasRow,
             PaymentP!AnnouncedTold, PaymentP!AckedTold, PaymentP!RefundHadPayment, PaymentP!Told
  <1> QED
      BY <1>1, <1>2 DEF BothAlone

LEMMA InvCorrect == Spec => [](TypeOK /\ AlignInv /\ BothAlone)
  <1>1. Init => TypeOK /\ AlignInv /\ BothAlone
      BY TypeInit, AlignInit, BothAloneInit
  <1>2. TypeOK /\ AlignInv /\ BothAlone /\ [Next]_vars => (TypeOK /\ AlignInv /\ BothAlone)'
      BY TypeStep, AlignStep, BothAloneStep
  <1> QED
      BY <1>1, <1>2, PTL DEF Spec

\* The two services together are type correct.
THEOREM TypeCorrect == Spec => []TypeOK
  BY InvCorrect, PTL

\* The order service finds in the payment service the environment it was modelled
\* with: no outcome it did not ask for more often than redelivery explains, no order
\* whose message comes back before it was announced.
THEOREM OrderServiceAlone == Spec => OrderAlone
  <1>1. Init => Order!Init
      BY DEF Init
  <1>2. TypeOK /\ AlignInv /\ BothAlone /\ [Next]_vars => [Order!Next]_Order!vars
      BY StepOfBoth
  <1> QED
      BY <1>1, <1>2, InvCorrect, PTL DEF Spec, OrderAlone, Order!Spec

\* And the payment service in the order service: every order is announced, paid and
\* called for once, and only what was announced is given back.
THEOREM PaymentServiceAlone == Spec => PaymentAlone
  <1>1. Init => Payment!Init
      BY DEF Init
  <1>2. TypeOK /\ AlignInv /\ BothAlone /\ [Next]_vars => [Payment!Next]_Payment!vars
      BY StepOfBoth
  <1> QED
      BY <1>1, <1>2, InvCorrect, PTL DEF Spec, PaymentAlone, Payment!Spec

\* What was proved of either service against any environment holds of the two:
\* orders that are settled and quiet keep their status, announced payments stay, acked
\* messages were announced, and the payments implement their ledger.
THEOREM PromisesKept ==
    Spec => /\ OrderP!FinalOnceQuiet /\ []OrderP!AnnouncedPaidStaysPaid
            /\ []PaymentP!AckedMeansAnnounced /\ PaymentP!ImplementsLedger
  <1>1. Init => OrderP!Init
      BY DEF Init, Order!Init, OrderP!Init, Order!BrokerInit, OrderP!BrokerInit,
             Order!Outcomes, OrderP!Outcomes
  <1>2. Init => PaymentP!Init
      BY DEF Init, Payment!Init, PaymentP!Init, Payment!BrokerInit, PaymentP!BrokerInit,
             Payment!Outcomes, PaymentP!Outcomes
  <1>3. TypeOK /\ AlignInv /\ BothAlone /\ [Next]_vars
          => [OrderP!Next]_OrderP!vars /\ [PaymentP!Next]_PaymentP!vars
      BY StepOfBoth, OrderSame, PaymentSame
  <1>4. OrderP!Spec => OrderP!FinalOnceQuiet /\ []OrderP!AnnouncedPaidStaysPaid
      BY OrderAssumptions, OrderP!StatusIsFinal, OrderP!PaidStaysPaid
  <1>5. PaymentP!Spec => []PaymentP!AckedMeansAnnounced /\ PaymentP!ImplementsLedger
      BY PaymentAssumptions, PaymentP!AckedIsAnnounced, PaymentP!LedgerImplemented
  <1> QED
      BY <1>1, <1>2, <1>3, <1>4, <1>5, InvCorrect, PTL DEF Spec, OrderP!Spec, PaymentP!Spec
=============================================================================
