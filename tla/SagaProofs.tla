----------------------------- MODULE SagaProofs -----------------------------
(***************************************************************************)
(* What the status of an order says of its payment, and what may keep the  *)
(* two apart, for every set of orders, customers and requests and every    *)
(* choice of faults.                                                       *)
(***************************************************************************)
EXTENDS SagaEnvironmentProofs

-----------------------------------------------------------------------------
(* What the status of an order says of its payment.                         *)

Charged(o) == payments[o] \in {"SUCCEEDED", "REFUNDED"}

PaidAnnounced(o) == <<"order.OrderPaid", o>> \in events

\* The customer of o cancelled it.
OwnCancel(o) == \E c \in Cancels : Mine(o, c) /\ cancel[<<o, c>>] = "done"

ChargeInv(o) ==
    /\ call[o] = "created" \/ row[o] = "PAID" \/ PaidAnnounced(o) => Charged(o)
    /\ row[o] = "CANCELLED" => payments[o] = "FAILED" \/ OwnCancel(o)

\* A verdict that has been announced is the one in the ledger, refunds apart.
LEMMA ToldIsRecorded ==
    ASSUME PaymentP!IInv, NEW o \in Orders, NEW v \in Payment!Told(o)
    PROVE  payments[o] = v \/ (v = "SUCCEEDED" /\ payments[o] = "REFUNDED")
  BY DEF PaymentP!IInv, PaymentP!LedgerInv, PaymentP!ToldAgrees, PaymentP!Agrees,
         PaymentP!Told, Payment!Told, PaymentP!RoutingKey, Payment!RoutingKey

\* A payment is recorded once, and changes by a refund alone.
LEMMA PaymentsOnlyRefunded ==
    ASSUME TypeOK, PaymentP!IInv, Payment!Service, NEW o \in Orders
    PROVE  \/ payments'[o] = payments[o]
           \/ payments[o] = "none"
           \/ payments[o] = "SUCCEEDED" /\ payments'[o] = "REFUNDED"
  <1>1. PaymentP!LedgerStep
      BY PaymentSame, PaymentAssumptions, PaymentP!StepIsLedgerStep DEF TypeOK, Payment!Next
  <1> QED
      BY <1>1 DEF PaymentP!LedgerStep, PaymentP!PaymentRecorded, PaymentP!PaymentRefunded, TypeOK,
                  Payment!TypeOK

\* The call is answered "created" by the INSERT that recorded the payment.
LEMMA CreatedIsRecorded ==
    ASSUME TypeOK, Payment!Service, NEW o \in Orders, call[o] # "created", call'[o] = "created"
    PROVE  payments'[o] = "SUCCEEDED"
  <1> USE DEF TypeOK, Payment!TypeOK, Payment!brokerVars
  <1>1. ASSUME NEW p \in Orders, Payment!Handle(p) PROVE FALSE
      BY <1>1 DEF Payment!Handle, Payment!Deliver, Payment!Insert, Payment!InsertFails,
                  Payment!Lookup, Payment!LookupFails, Payment!Announce, Payment!AnnounceFails,
                  Payment!Ack, Payment!Step, Payment!Nack, Payment!Restart
  <1>2. ASSUME NEW p \in Orders, Payment!Serve(p) PROVE payments'[o] = "SUCCEEDED"
      BY <1>2 DEF Payment!Serve, Payment!PostPayment, Payment!ServeCall,
                  Payment!ServeCallFails, Payment!InsertSucceeded
  <1>3. ASSUME NEW p \in Orders, NEW r \in Refunds, Payment!Refund(p, r) PROVE FALSE
      BY <1>3 DEF Payment!Refund, Payment!CheckRefund, Payment!WriteRefund, Payment!RefundFails,
                  Payment!RefundStep
  <1>4. CASE \/ Payment!StartConsumer   \/ Payment!CancelConsumer
             \/ Payment!CloseConnection \/ Payment!Stop
             \/ Payment!Exit            \/ Payment!Crash
      BY <1>4 DEF Payment!StartConsumer, Payment!CancelConsumer, Payment!CloseConnection,
                  Payment!Stop, Payment!CloseChannel, Payment!Exit, Payment!Crash, Payment!Restart
  <1> QED
      BY <1>1, <1>2, <1>3, <1>4 DEF Payment!Service

LEMMA PaymentKeepsCharge ==
    ASSUME TypeOK, TypeOK', PaymentP!IInv, Payment!Service, UNCHANGED orderOnly,
           NEW o \in Orders, ChargeInv(o)
    PROVE  ChargeInv(o)'
  <1>1. PaidAnnounced(o)' <=> PaidAnnounced(o)
      BY PaymentSharesCalls, "order.OrderPaid" \in Order!OrderEvents
         DEF PaidAnnounced, Order!OrderEvents
  <1>2. UNCHANGED <<row, cancel>>
      BY DEF orderOnly
  <1>3. Charged(o) => Charged(o)'
      BY PaymentsOnlyRefunded DEF Charged
  <1>4. call'[o] = "created" => Charged(o)'
      BY <1>3, CreatedIsRecorded DEF ChargeInv, Charged
  <1>5. payments[o] = "FAILED" => payments'[o] = "FAILED"
      BY PaymentsOnlyRefunded
  <1> QED
      BY <1>1, <1>2, <1>3, <1>4, <1>5 DEF ChargeInv, OwnCancel, Mine

\* A step of the order service after which o claims no more of its payment than before.
OrderKeptCharge(o) ==
    /\ call'[o] = "created" \/ row'[o] = "PAID" \/ PaidAnnounced(o)'
          => call[o] = "created" \/ row[o] = "PAID" \/ PaidAnnounced(o)
    /\ row'[o] = "CANCELLED" => row[o] = "CANCELLED" \/ OwnCancel(o)'
    /\ OwnCancel(o) => OwnCancel(o)'

LEMMA OrderKeepsCharge ==
    ASSUME TypeOK, AlignInv, PaymentP!IInv, Order!Service, UNCHANGED paymentOnly,
           NEW o \in Orders, ChargeInv(o)
    PROVE  ChargeInv(o)'
  <1>c. Charged(o)' = Charged(o) /\ payments'[o] = payments[o]
      BY DEF Charged, paymentOnly
  <1>s. OrderKeptCharge(o) => ChargeInv(o)'
      BY <1>c DEF ChargeInv, OrderKeptCharge
  <1> USE DEF TypeOK, Order!TypeOK, Order!brokerVars
  <1>1. ASSUME NEW p \in Orders, Order!Create(p) PROVE ChargeInv(o)'
    <2> USE DEF Order!CreateStep
    <2>r. RequestInv(o)
        BY DEF AlignInv
    <2>0. UNCHANGED cancel
        BY <1>1 DEF Order!Create, Order!RejectBasket, Order!InsertOrder, Order!PublishCreated,
                    Order!RequestPayment, Order!MarkPaid, Order!PublishPaid, Order!CommitOrder,
                    Order!RollBackOrder
    <2>1. call'[o] = "created" => call[o] = "created"
        BY <1>1 DEF Order!Create, Order!RejectBasket, Order!InsertOrder, Order!PublishCreated,
                    Order!RequestPayment, Order!MarkPaid, Order!PublishPaid, Order!CommitOrder,
                    Order!RollBackOrder
    <2>2. row'[o] = "PAID" => row[o] = "PAID" \/ call[o] = "created"
        BY <1>1, <2>r DEF Order!Create, Order!RejectBasket, Order!InsertOrder,
                    Order!PublishCreated, Order!RequestPayment, Order!MarkPaid, Order!PublishPaid,
                    Order!CommitOrder, Order!RollBackOrder, RequestInv
    <2>3. PaidAnnounced(o)' => PaidAnnounced(o) \/ call[o] = "created"
        BY <1>1, <2>r DEF Order!Create, Order!RejectBasket, Order!InsertOrder,
                    Order!PublishCreated, Order!RequestPayment, Order!MarkPaid, Order!PublishPaid,
                    Order!CommitOrder, Order!RollBackOrder, RequestInv, PaidAnnounced,
                    Order!Publish, Order!PublishOrderEvent
    <2>4. row'[o] = "CANCELLED" => row[o] = "CANCELLED"
        BY <1>1 DEF Order!Create, Order!RejectBasket, Order!InsertOrder, Order!PublishCreated,
                    Order!RequestPayment, Order!MarkPaid, Order!PublishPaid, Order!CommitOrder,
                    Order!RollBackOrder
    <2> QED
        BY <2>0, <2>1, <2>2, <2>3, <2>4, <1>s DEF OrderKeptCharge, OwnCancel, Mine
  <1>2. ASSUME NEW p \in Orders, NEW c \in Cancels, Order!Cancel(p, c) PROVE ChargeInv(o)'
    <2> USE DEF Order!CancelStep
    <2>1. UNCHANGED call /\ (PaidAnnounced(o)' => PaidAnnounced(o))
        BY <1>2 DEF Order!Cancel, Order!CheckCancel, Order!FlushCancel, Order!PublishCancelled,
                    Order!CommitCancel, Order!RollBackCancel, Order!Publish,
                    Order!PublishOrderEvent, PaidAnnounced
    <2>2. row'[o] = "PAID" => row[o] = "PAID"
        BY <1>2 DEF Order!Cancel, Order!CheckCancel, Order!FlushCancel, Order!PublishCancelled,
                    Order!CommitCancel, Order!RollBackCancel
    <2>3. \A d \in Cancels : cancel[<<o, d>>] = "done" => cancel'[<<o, d>>] = "done"
        BY <1>2 DEF Order!Cancel, Order!CheckCancel, Order!FlushCancel, Order!PublishCancelled,
                    Order!CommitCancel, Order!RollBackCancel
    <2>4. row'[o] = "CANCELLED" => row[o] = "CANCELLED" \/ OwnCancel(o)'
      <3>1. CASE Order!CommitCancel(p, c) /\ p = o
        <4>1. Mine(o, c)
            BY <3>1 DEF Order!CommitCancel, AlignInv, RequestInv
        <4>2. cancel'[<<o, c>>] = "done"
            BY <3>1 DEF Order!CommitCancel
        <4> QED
            BY <4>1, <4>2 DEF OwnCancel, Mine
      <3>2. CASE ~(Order!CommitCancel(p, c) /\ p = o)
          BY <1>2, <3>2 DEF Order!Cancel, Order!CheckCancel, Order!FlushCancel,
                      Order!PublishCancelled, Order!CommitCancel, Order!RollBackCancel
      <3> QED
          BY <3>1, <3>2
    <2> QED
        BY <2>1, <2>2, <2>3, <2>4, <1>s DEF OrderKeptCharge, OwnCancel, Mine
  <1>3. ASSUME NEW m \in Order!Outcomes, Order!Handle(m) PROVE ChargeInv(o)'
    <2>1. UNCHANGED <<cancel, events, call>>
        BY <1>3, HandlingSendsNothing
    <2>2. CASE Order!WriteOutcome(m) /\ m[1] = o
      <3>1. m[2] \in Payment!Told(o)
          BY <2>2 DEF Order!WriteOutcome, Order!HandleStep, AlignInv, OutcomeTold
      <3>2. /\ m[2] \in {"SUCCEEDED", "FAILED"}
            /\ row'[o] = IF m[2] = "SUCCEEDED" THEN "PAID" ELSE "CANCELLED"
          BY <2>2 DEF Order!WriteOutcome, Order!OrderStatusFor, Order!Outcomes
      <3> QED
          BY <2>1, <3>1, <3>2, <1>c, ToldIsRecorded
             DEF ChargeInv, Charged, PaidAnnounced, OwnCancel, Mine
    <2>3. CASE ~(Order!WriteOutcome(m) /\ m[1] = o)
      <3>1. row'[o] = row[o]
          BY <1>3, <2>3 DEF Order!Handle, Order!DeliverOutcome, Order!ReadOutcome,
                            Order!WriteOutcome, Order!OutcomeDbError, Order!AckOutcome
      <3> QED
          BY <2>1, <3>1, <1>s DEF OrderKeptCharge, PaidAnnounced, OwnCancel, Mine
    <2> QED
        BY <2>2, <2>3
  <1>4. CASE Order!StartListener \/ Order!LoseConnection \/ Order!Crash
    <2>1. UNCHANGED <<row, events, call>>
        BY <1>4 DEF Order!StartListener, Order!LoseConnection, Order!Crash
    <2>2. \A d \in Cancels : cancel[<<o, d>>] = "done" => cancel'[<<o, d>>] = "done"
        BY <1>4 DEF Order!StartListener, Order!LoseConnection, Order!Crash
    <2> QED
        BY <2>1, <2>2, <1>s DEF OrderKeptCharge, PaidAnnounced, OwnCancel, Mine
  <1> QED
      BY <1>1, <1>2, <1>3, <1>4 DEF Order!Service

-----------------------------------------------------------------------------
(* What may keep an order and its payment apart.                            *)

\* Where a payment comes from, and where the news of an order is.
SourceInv(o) ==
    /\ payments[o] # "none" => Announced(o) \/ call[o] # "none" \/ Slipped({"client"}, o)
    /\ Announced(o) => o \in created \/ task[o] # "idle" \/ Slipped({"unrouted"}, o)

\* Where a verdict is that has been announced: on its way, in the row, or lost.
OutcomeKept(m) ==
    m[2] \in Payment!Told(m[1]) =>
        \/ outcomes[m] > 0 \/ handling[m] \in {"delivered", "matched"}
        \/ row[m[1]] \notin {"none", "PENDING"}
        \/ Slipped({"unrouted", "early", "swallowed"}, m[1])

LEMMA SlipsStay ==
    ASSUME NoteSlips, NEW o, NEW kinds, Slipped(kinds, o) PROVE Slipped(kinds, o)'
  BY DEF NoteSlips, Slipped

LEMMA SlipNoted ==
    ASSUME NoteSlips, NEW kind \in Slips, NEW o \in Orders, Slip(kind, o),
           NEW kinds, kind \in kinds
    PROVE  Slipped(kinds, o)'
  BY DEF NoteSlips, Slipped

\* A payment is recorded by the handler of the message, by the answer to the call,
\* or by a step that leaves all of these alone: a client's.
LEMMA WhoRecords ==
    ASSUME TypeOK, PaymentP!IInv, Payment!Service, NEW o \in Orders,
           payments[o] = "none", payments'[o] # "none"
    PROVE  \/ task[o] # "idle"
           \/ call'[o] # "none"
           \/ UNCHANGED <<task, call, refund>>
  <1> USE DEF TypeOK, Payment!TypeOK
  <1>1. ASSUME NEW p \in Orders, Payment!Handle(p) PROVE task[o] # "idle"
      BY <1>1 DEF Payment!Handle, Payment!Deliver, Payment!Insert, Payment!InsertFails,
                  Payment!Lookup, Payment!LookupFails, Payment!Announce, Payment!AnnounceFails,
                  Payment!Ack, Payment!Step
  <1>2. ASSUME NEW p \in Orders, Payment!Serve(p)
        PROVE  call'[o] # "none" \/ UNCHANGED <<task, call, refund>>
      BY <1>2 DEF Payment!Serve, Payment!PostPayment, Payment!ServeCall,
                  Payment!ServeCallFails, Payment!InsertSucceeded, Payment!Rest
  <1>3. ASSUME NEW p \in Orders, NEW r \in Refunds, Payment!Refund(p, r) PROVE FALSE
      BY <1>3 DEF Payment!Refund, Payment!CheckRefund, Payment!WriteRefund, Payment!RefundFails,
                  Payment!RefundStep, PaymentP!IInv, PaymentP!LedgerInv,
                  PaymentP!RefundHadPayment
  <1>4. CASE \/ Payment!StartConsumer   \/ Payment!CancelConsumer
             \/ Payment!CloseConnection \/ Payment!Stop
             \/ Payment!Exit            \/ Payment!Crash
      BY <1>4 DEF Payment!StartConsumer, Payment!CancelConsumer, Payment!CloseConnection,
                  Payment!Stop, Payment!CloseChannel, Payment!Exit, Payment!Crash
  <1> QED
      BY <1>1, <1>2, <1>3, <1>4 DEF Payment!Service

\* A message is in the queue or in a handler, or has been acked.
LEMMA PaymentKeepsNews ==
    ASSUME TypeOK, Payment!Service, NEW o \in Orders, o \in created \/ task[o] # "idle"
    PROVE  o \in created' \/ task'[o] # "idle"
  <1> USE DEF TypeOK, Payment!TypeOK, Payment!brokerVars
  <1>r. ASSUME Payment!Restart PROVE o \in created' \/ task'[o] # "idle"
      BY <1>r DEF Payment!Restart, Payment!InFlight
  <1>1. ASSUME NEW p \in Orders, Payment!Handle(p)
        PROVE  o \in created' \/ task'[o] # "idle"
    <2>1. CASE Payment!Restart
        BY <2>1, <1>r
    <2>2. CASE ~Payment!Restart
        BY <1>1, <2>2
           DEF Payment!Handle, Payment!Deliver, Payment!Insert, Payment!InsertFails,
               Payment!Lookup, Payment!LookupFails, Payment!Announce, Payment!AnnounceFails,
               Payment!Ack, Payment!Step, Payment!Nack, Payment!Requeued, Payment!PublishOutcome
    <2> QED
        BY <2>1, <2>2
  <1>2. ASSUME NEW p \in Orders, Payment!Serve(p) PROVE UNCHANGED <<created, task>>
      BY <1>2 DEF Payment!Serve, Payment!PostPayment, Payment!ServeCall,
                  Payment!ServeCallFails, Payment!Rest
  <1>3. ASSUME NEW p \in Orders, NEW r \in Refunds, Payment!Refund(p, r)
        PROVE  UNCHANGED <<created, task>>
      BY <1>3 DEF Payment!Refund, Payment!CheckRefund, Payment!WriteRefund, Payment!RefundFails,
                  Payment!RefundStep, Payment!Rest
  <1>4. CASE \/ Payment!StartConsumer   \/ Payment!CancelConsumer
             \/ Payment!CloseConnection \/ Payment!Stop
      BY <1>4 DEF Payment!StartConsumer, Payment!CancelConsumer, Payment!CloseConnection,
                  Payment!Stop, Payment!CloseChannel
  <1>5. CASE Payment!Exit \/ Payment!Crash
      BY <1>5, <1>r DEF Payment!Exit, Payment!Crash
  <1> QED
      BY <1>1, <1>2, <1>3, <1>4, <1>5 DEF Payment!Service

LEMMA PaymentKeepsSource ==
    ASSUME TypeOK, AlignInv, PaymentP!IInv, PaymentTurn(Payment!Service),
           NEW o \in Orders, SourceInv(o)
    PROVE  SourceInv(o)'
  <1>1. /\ Payment!Service /\ UNCHANGED orderOnly /\ NoteSlips
      BY DEF PaymentTurn
  <1>2. Announced(o)' <=> Announced(o)
      BY <1>1, PaymentSharesCalls, "order.OrderCreated" \in Order!OrderEvents
         DEF Announced, Order!OrderEvents
  <1>3. call[o] # "none" => call'[o] # "none"
      BY <1>1, PaymentSharesCalls
  <1>4. ASSUME payments'[o] # "none"
        PROVE  Announced(o)' \/ call'[o] # "none" \/ Slipped({"client"}, o)'
    <2>1. CASE payments[o] # "none"
        BY <1>1, <1>2, <1>3, <2>1, SlipsStay DEF SourceInv
    <2>2. CASE payments[o] = "none"
      <3>1. CASE task[o] # "idle"
          BY <1>2, <3>1 DEF AlignInv, TaskInv
      <3>2. CASE UNCHANGED <<task, call, refund>>
        <4>1. Slip("client", o)
            BY <1>4, <2>2, <3>2 DEF Slip, ByClient
        <4> QED
            BY <1>1, <4>1, SlipNoted, "client" \in Slips DEF Slips
      <3> QED
          BY <1>1, <1>4, <2>2, <3>1, <3>2, WhoRecords
    <2> QED
        BY <2>1, <2>2
  <1>5. ASSUME Announced(o)'
        PROVE  o \in created' \/ task'[o] # "idle" \/ Slipped({"unrouted"}, o)'
      BY <1>1, <1>2, <1>5, PaymentKeepsNews, SlipsStay DEF SourceInv
  <1> QED
      BY <1>4, <1>5 DEF SourceInv

\* The order service takes nothing out of the queue of the payment service.
LEMMA OrderKeepsCreated ==
    ASSUME Order!Service PROVE created \subseteq created'
  BY HandlingSendsNothing
     DEF Order!Service, Order!Create, Order!CreateStep, Order!RejectBasket, Order!InsertOrder,
         Order!PublishCreated, Order!RequestPayment, Order!MarkPaid, Order!PublishPaid,
         Order!CommitOrder, Order!RollBackOrder, Order!Cancel, Order!CancelStep,
         Order!CheckCancel, Order!FlushCancel, Order!PublishCancelled, Order!CommitCancel,
         Order!RollBackCancel, Order!Publish, Order!PublishOrderEvent, Order!brokerVars,
         Order!StartListener, Order!LoseConnection, Order!Crash

LEMMA OrderKeepsCall ==
    ASSUME TypeOK, Order!Service, NEW o \in Orders, call[o] # "none" PROVE call'[o] # "none"
  BY HandlingSendsNothing
     DEF TypeOK, Order!TypeOK, Order!Service, Order!Create, Order!CreateStep,
         Order!RejectBasket, Order!InsertOrder, Order!PublishCreated, Order!RequestPayment,
         Order!MarkPaid, Order!PublishPaid, Order!CommitOrder, Order!RollBackOrder,
         Order!Cancel, Order!CancelStep, Order!CheckCancel, Order!FlushCancel,
         Order!PublishCancelled, Order!CommitCancel, Order!RollBackCancel,
         Order!StartListener, Order!LoseConnection, Order!Crash

\* An order is announced to the queue, or to nobody when there is none yet.
LEMMA AnnouncedReaches ==
    ASSUME Order!Service, NEW o \in Orders, ~Announced(o), Announced(o)'
    PROVE  o \in created' \/ Slip("unrouted", o)
  <1>1. Order!Publish("order.OrderCreated", o)
    <2> USE DEF Announced, Order!brokerVars
    <2>1. ASSUME NEW p \in Orders, Order!Create(p) PROVE p = o /\ Order!PublishCreated(o)
        BY <2>1 DEF Order!Create, Order!RejectBasket, Order!InsertOrder, Order!PublishCreated,
                    Order!RequestPayment, Order!MarkPaid, Order!PublishPaid, Order!CommitOrder,
                    Order!RollBackOrder, Order!Publish, Order!PublishOrderEvent
    <2>2. ASSUME NEW p \in Orders, NEW c \in Cancels, Order!Cancel(p, c) PROVE FALSE
        BY <2>2 DEF Order!Cancel, Order!CheckCancel, Order!FlushCancel, Order!PublishCancelled,
                    Order!CommitCancel, Order!RollBackCancel, Order!Publish,
                    Order!PublishOrderEvent
    <2>3. CASE UNCHANGED events
        BY <2>3
    <2>4. PICK p \in Orders : Order!Create(p)
        BY <2>2, <2>3, HandlingSendsNothing
           DEF Order!Service, Order!StartListener, Order!LoseConnection, Order!Crash
    <2> QED
        BY <2>1, <2>4 DEF Order!PublishCreated
  <1>2. CASE "order-created" \in bound
      BY <1>1, <1>2 DEF Order!Publish, Order!PublishOrderEvent, Order!brokerVars, Announced
  <1>3. CASE "order-created" \notin bound
    <2>1. <<"order.OrderCreated", o>> \in events' \ events
        BY DEF Announced
    <2> QED
        BY <1>3, <2>1 DEF Slip, Unrouted
  <1> QED
      BY <1>2, <1>3

LEMMA OrderKeepsSource ==
    ASSUME TypeOK, OrderTurn(Order!Service), NEW o \in Orders, SourceInv(o)
    PROVE  SourceInv(o)'
  <1>1. Order!Service /\ UNCHANGED <<payments, task>> /\ NoteSlips
      BY DEF OrderTurn, paymentOnly
  <1>2. Announced(o) => Announced(o)'
      BY <1>1, OrderEventsGrow DEF Announced
  <1>3. payments'[o] # "none" =>
            Announced(o)' \/ call'[o] # "none" \/ Slipped({"client"}, o)'
      BY <1>1, <1>2, OrderKeepsCall, SlipsStay DEF SourceInv
  <1>4. ASSUME Announced(o)'
        PROVE  o \in created' \/ task'[o] # "idle" \/ Slipped({"unrouted"}, o)'
    <2>1. CASE Announced(o)
        BY <1>1, <2>1, OrderKeepsCreated, SlipsStay DEF SourceInv
    <2>2. CASE ~Announced(o)
        BY <1>1, <1>4, <2>2, AnnouncedReaches, SlipNoted, "unrouted" \in Slips DEF Slips
    <2> QED
        BY <2>1, <2>2
  <1> QED
      BY <1>3, <1>4 DEF SourceInv

LEMMA PaymentKeepsOutcome ==
    ASSUME TypeOK, PaymentP!IInv, PaymentTurn(Payment!Service),
           NEW m \in Order!Outcomes, OutcomeKept(m)
    PROVE  OutcomeKept(m)'
  <1>1. Payment!Service /\ UNCHANGED <<row, handling>> /\ NoteSlips
      BY DEF PaymentTurn, orderOnly
  <1>k. ASSUME m[2] \in Payment!Told(m[1]), outcomes[m] > 0 => outcomes'[m] > 0
        PROVE  OutcomeKept(m)'
      BY <1>1, <1>k, SlipsStay DEF OutcomeKept
  <1>2. CASE UNCHANGED <<outcomes, events>>
      BY <1>2, <1>k DEF OutcomeKept, Payment!Told
  <1>3. ASSUME NEW o \in Orders, task[o] = "settled", verdict[o] # "REFUNDED",
               Payment!PublishOutcome(o, verdict[o])
        PROVE  OutcomeKept(m)'
    <2>v. verdict[o] \in Verdicts
        BY <1>3, AnnouncedVerdict
    <2>t. outcomes \in [Order!Outcomes -> Nat]
        BY DEF TypeOK, Order!TypeOK, Order!BrokerTypeOK
    <2>1. CASE m # <<o, verdict[o]>>
      <3>1. outcomes'[m] = outcomes[m]
          BY <1>3, <2>1, <2>t DEF Payment!PublishOutcome
      <3>2. m[2] \in Payment!Told(m[1])' => m[2] \in Payment!Told(m[1])
          BY <1>3, <2>v, <2>1 DEF Payment!PublishOutcome, Payment!Told, Payment!RoutingKey,
                                  Verdicts, Order!Outcomes
      <3> QED
          BY <1>k, <3>1, <3>2 DEF OutcomeKept
    <2>2. CASE m = <<o, verdict[o]>>
      <3>1. CASE "payment-outcomes" \in bound
        <4>1. outcomes'[m] = outcomes[m] + 1
            BY <1>3, <2>2, <2>t, <3>1 DEF Payment!PublishOutcome
        <4> QED
            BY <2>t, <4>1 DEF OutcomeKept
      <3>2. CASE "payment-outcomes" \notin bound /\ m[2] \in Payment!Told(m[1])
        <4>1. outcomes' = outcomes
            BY <1>3, <3>2 DEF Payment!PublishOutcome
        <4> QED
            BY <1>k, <3>2, <4>1
      <3>3. CASE "payment-outcomes" \notin bound /\ m[2] \notin Payment!Told(m[1])
        <4>1. /\ <<Payment!RoutingKey(verdict[o]), o>> \in events' \ events
              /\ Payment!RoutingKey(verdict[o]) \in Order!PaymentEvents
            BY <1>3, <2>v, <2>2, <3>3
               DEF Payment!PublishOutcome, Payment!Told, Payment!RoutingKey, Verdicts,
                   Order!PaymentEvents
        <4>2. Slip("unrouted", o)
            BY <3>3, <4>1 DEF Slip, Unrouted
        <4>3. Slipped({"unrouted", "early", "swallowed"}, o)'
            BY <1>1, <4>2, SlipNoted, "unrouted" \in Slips DEF Slips
        <4> QED
            BY <2>2, <4>3 DEF OutcomeKept
      <3> QED
          BY <3>1, <3>2, <3>3
    <2> QED
        BY <2>1, <2>2
  <1> QED
      BY <1>1, <1>2, <1>3, PaymentAnnounces

\* No event of the order service tells a verdict.
LEMMA OrderTellsNothing ==
    ASSUME Order!Service, NEW o \in Orders PROVE Payment!Told(o)' = Payment!Told(o)
  <1>1. \A v \in Verdicts : <<Payment!RoutingKey(v), o>> \in events'
                              <=> <<Payment!RoutingKey(v), o>> \in events
    <2> USE DEF Order!brokerVars, Payment!RoutingKey, Verdicts
    <2>1. ASSUME NEW p \in Orders, Order!Create(p)
          PROVE  \A v \in Verdicts : <<Payment!RoutingKey(v), o>> \in events'
                                       <=> <<Payment!RoutingKey(v), o>> \in events
        BY <2>1 DEF Order!Create, Order!RejectBasket, Order!InsertOrder, Order!PublishCreated,
                    Order!RequestPayment, Order!MarkPaid, Order!PublishPaid, Order!CommitOrder,
                    Order!RollBackOrder, Order!Publish, Order!PublishOrderEvent
    <2>2. ASSUME NEW p \in Orders, NEW c \in Cancels, Order!Cancel(p, c)
          PROVE  \A v \in Verdicts : <<Payment!RoutingKey(v), o>> \in events'
                                       <=> <<Payment!RoutingKey(v), o>> \in events
        BY <2>2 DEF Order!Cancel, Order!CheckCancel, Order!FlushCancel,
                    Order!PublishCancelled, Order!CommitCancel, Order!RollBackCancel,
                    Order!Publish, Order!PublishOrderEvent
    <2>3. CASE UNCHANGED events
        BY <2>3
    <2> QED
        BY <2>1, <2>2, <2>3, HandlingSendsNothing
           DEF Order!Service, Order!StartListener, Order!LoseConnection, Order!Crash
  <1> QED
      BY <1>1 DEF Payment!Told, Verdicts

\* A row that has left PENDING is written again, but never to PENDING.
LEMMA SettledStays ==
    ASSUME TypeOK, OrderP!IInv, Order!Service, NEW o \in Orders,
           row[o] \notin {"none", "PENDING"}
    PROVE  row'[o] \notin {"none", "PENDING"}
  <1>d. creating[o] = "done"
      BY DEF OrderP!IInv, OrderP!OrderInv, OrderP!RowIffDone
  <1> USE DEF TypeOK, Order!TypeOK
  <1>1. ASSUME NEW p \in Orders, Order!Create(p) PROVE row'[o] \notin {"none", "PENDING"}
      BY <1>1, <1>d DEF Order!Create, Order!CreateStep, Order!RejectBasket, Order!InsertOrder,
                        Order!PublishCreated, Order!RequestPayment, Order!MarkPaid,
                        Order!PublishPaid, Order!CommitOrder, Order!RollBackOrder
  <1>2. ASSUME NEW p \in Orders, NEW c \in Cancels, Order!Cancel(p, c)
        PROVE  row'[o] \notin {"none", "PENDING"}
      BY <1>2 DEF Order!Cancel, Order!CheckCancel, Order!FlushCancel, Order!PublishCancelled,
                  Order!CommitCancel, Order!RollBackCancel
  <1>3. ASSUME NEW n \in Order!Outcomes, Order!Handle(n)
        PROVE  row'[o] \notin {"none", "PENDING"}
      BY <1>3 DEF Order!Handle, Order!DeliverOutcome, Order!ReadOutcome, Order!WriteOutcome,
                  Order!OutcomeDbError, Order!AckOutcome, Order!OrderStatusFor
  <1>4. CASE Order!StartListener \/ Order!LoseConnection \/ Order!Crash
      BY <1>4 DEF Order!StartListener, Order!LoseConnection, Order!Crash
  <1> QED
      BY <1>1, <1>2, <1>3, <1>4 DEF Order!Service

\* An outcome the callback is done with is in the row, or is one of those that slip.
LEMMA HandledOrSlipped ==
    ASSUME TypeOK, Order!Service, NEW m \in Order!Outcomes,
           handling[m] \in {"delivered", "matched"},
           handling'[m] \notin {"delivered", "matched"}, ~(outcomes'[m] > 0)
    PROVE  \/ row'[m[1]] \notin {"none", "PENDING"}
           \/ Slip("early", m[1]) \/ Slip("swallowed", m[1])
  <1> USE DEF TypeOK, Order!TypeOK, Order!BrokerTypeOK
  <1>m. m[1] \in Orders
      BY DEF Order!Outcomes
  <1>1. ASSUME NEW n \in Order!Outcomes, Order!Handle(n)
        PROVE  \/ row'[m[1]] \notin {"none", "PENDING"}
               \/ Slip("early", m[1]) \/ Slip("swallowed", m[1])
    <2>0. CASE ~(n = m) \/ Order!DeliverOutcome(n) \/ Order!AckOutcome(n)
        BY <1>1, <2>0 DEF Order!Handle, Order!HandleStep, Order!DeliverOutcome,
                          Order!ReadOutcome, Order!WriteOutcome, Order!OutcomeDbError,
                          Order!AckOutcome
    <2>1. CASE n = m /\ Order!ReadOutcome(n)
      <3>1. handling[m] = "delivered" /\ handling'[m] = "handled" /\ row' = row
          BY <2>1 DEF Order!ReadOutcome, Order!HandleStep
      <3>2. row[m[1]] # "PENDING"
          BY <2>1 DEF Order!ReadOutcome, Order!HandleStep, Order!StillPending
      <3>3. CASE row[m[1]] = "none"
          BY <3>1, <3>3 DEF Slip, DoneWith
      <3> QED
          BY <3>1, <3>2, <3>3
    <2>2. CASE n = m /\ Order!WriteOutcome(n)
        BY <2>2, <1>m DEF Order!WriteOutcome, Order!OrderStatusFor
    <2>3. CASE n = m /\ Order!OutcomeDbError(n)
      <3>1. handling'[m] = "handled" /\ orderFaults' = orderFaults + 1 /\ orderFaults \in Nat
          BY <2>3 DEF Order!OutcomeDbError, Order!HandleStep, Order!Fault
      <3>2. orderFaults' # orderFaults
          BY <3>1
      <3> QED
          BY <3>1, <3>2 DEF Slip, DoneWith
    <2> QED
        BY <1>1, <2>0, <2>1, <2>2, <2>3 DEF Order!Handle
  <1>2. CASE Order!LoseConnection \/ Order!Crash
    <2>1. outcomes'[m] = outcomes[m] + 1
        BY <1>2 DEF Order!LoseConnection, Order!Crash, Order!ReturnOutcomes
    <2> QED
        BY <2>1
  <1>3. CASE UNCHANGED handling
      BY <1>3
  <1> QED
      BY <1>1, <1>2, <1>3, RequestsHandleNothing DEF Order!Service, Order!StartListener

\* An outcome leaves the queue into the hand of the callback.
LEMMA QueuedOrInHand ==
    ASSUME TypeOK, Order!Service, NEW m \in Order!Outcomes, outcomes[m] > 0
    PROVE  outcomes'[m] > 0 \/ handling'[m] = "delivered"
  <1> USE DEF TypeOK, Order!TypeOK, Order!BrokerTypeOK
  <1>1. ASSUME NEW n \in Order!Outcomes, Order!Handle(n)
        PROVE  outcomes'[m] > 0 \/ handling'[m] = "delivered"
      BY <1>1 DEF Order!Handle, Order!HandleStep, Order!DeliverOutcome, Order!TakeOutcome,
                  Order!ReadOutcome, Order!WriteOutcome, Order!OutcomeDbError,
                  Order!AckOutcome, Order!brokerVars
  <1>2. CASE Order!LoseConnection \/ Order!Crash
    <2>1. outcomes'[m] = outcomes[m] \/ outcomes'[m] = outcomes[m] + 1
        BY <1>2 DEF Order!LoseConnection, Order!Crash, Order!ReturnOutcomes
    <2> QED
        BY <2>1
  <1>3. CASE UNCHANGED outcomes
      BY <1>3
  <1> QED
      BY <1>1, <1>2, <1>3, RequestsHandleNothing DEF Order!Service, Order!StartListener

LEMMA OrderKeepsOutcome ==
    ASSUME TypeOK, OrderP!IInv, OrderTurn(Order!Service), NEW m \in Order!Outcomes, OutcomeKept(m)
    PROVE  OutcomeKept(m)'
  <1>1. Order!Service /\ NoteSlips /\ m[1] \in Orders
      BY DEF OrderTurn, Order!Outcomes
  <1> SUFFICES ASSUME m[2] \in Payment!Told(m[1]) PROVE OutcomeKept(m)'
      BY <1>1, OrderTellsNothing DEF OutcomeKept
  <1>2. CASE outcomes[m] > 0
      BY <1>1, <1>2, QueuedOrInHand DEF OutcomeKept
  <1>3. CASE handling[m] \in {"delivered", "matched"}
    <2>1. CASE Slip("early", m[1])
      <3>1. Slipped({"unrouted", "early", "swallowed"}, m[1])'
          BY <1>1, <2>1, SlipNoted, "early" \in Slips DEF Slips
      <3> QED
          BY <3>1 DEF OutcomeKept
    <2>2. CASE Slip("swallowed", m[1])
      <3>1. Slipped({"unrouted", "early", "swallowed"}, m[1])'
          BY <1>1, <2>2, SlipNoted, "swallowed" \in Slips DEF Slips
      <3> QED
          BY <3>1 DEF OutcomeKept
    <2> QED
        BY <1>1, <1>3, <2>1, <2>2, HandledOrSlipped DEF OutcomeKept
  <1>4. CASE row[m[1]] \notin {"none", "PENDING"}
      BY <1>1, <1>4, SettledStays DEF OutcomeKept
  <1>5. CASE Slipped({"unrouted", "early", "swallowed"}, m[1])
      BY <1>1, <1>5, SlipsStay DEF OutcomeKept
  <1> QED
      BY <1>2, <1>3, <1>4, <1>5 DEF OutcomeKept

-----------------------------------------------------------------------------
(* The whole invariant.                                                     *)

SagaInv ==
    /\ \A o \in Orders : ChargeInv(o) /\ SourceInv(o)
    /\ \A m \in Order!Outcomes : OutcomeKept(m)

LEMMA SagaStep ==
    ASSUME TypeOK, TypeOK', AlignInv, BothAlone, SagaInv, [Next]_vars PROVE SagaInv'
  <1>1. CASE OrderTurn(Order!Service)
    <2>1. Order!Service /\ UNCHANGED paymentOnly
        BY <1>1 DEF OrderTurn
    <2>2. \A o \in Orders : ChargeInv(o)'
        BY <2>1, OrderKeepsCharge DEF SagaInv, BothAlone
    <2>3. \A o \in Orders : SourceInv(o)'
        BY <1>1, OrderKeepsSource DEF SagaInv
    <2>4. \A m \in Order!Outcomes : OutcomeKept(m)'
        BY <1>1, OrderKeepsOutcome DEF SagaInv, BothAlone
    <2> QED
        BY <2>2, <2>3, <2>4 DEF SagaInv, Order!Outcomes
  <1>2. CASE PaymentTurn(Payment!Service)
    <2>1. Payment!Service /\ UNCHANGED orderOnly
        BY <1>2 DEF PaymentTurn
    <2>2. \A o \in Orders : ChargeInv(o)'
        BY <2>1, PaymentKeepsCharge DEF SagaInv, BothAlone
    <2>3. \A o \in Orders : SourceInv(o)'
        BY <1>2, PaymentKeepsSource DEF SagaInv, BothAlone
    <2>4. \A m \in Order!Outcomes : OutcomeKept(m)'
        BY <1>2, PaymentKeepsOutcome DEF SagaInv, BothAlone
    <2> QED
        BY <2>2, <2>3, <2>4 DEF SagaInv, Order!Outcomes
  <1>3. CASE UNCHANGED vars
      BY <1>3 DEF vars, orderOnly, paymentOnly, SagaInv, ChargeInv, Charged, PaidAnnounced,
                  OwnCancel, Mine, SourceInv, Announced, Slipped, OutcomeKept, Payment!Told,
                  Order!Outcomes
  <1> QED
      BY <1>1, <1>2, <1>3 DEF Next

LEMMA SagaInit == Init => SagaInv
  BY DEF Init, Order!Init, Order!BrokerInit, Payment!Init, SagaInv, ChargeInv, PaidAnnounced,
         SourceInv, Announced, OutcomeKept, Payment!Told

LEMMA SagaCorrect == Spec => [](TypeOK /\ BothAlone /\ SagaInv)
  <1>1. Init => SagaInv
      BY SagaInit
  <1>2. /\ TypeOK /\ AlignInv /\ BothAlone /\ SagaInv
        /\ [Next]_vars
        => SagaInv'
      BY SagaStep, TypeStep
  <1> QED
      BY <1>1, <1>2, InvCorrect, PTL DEF Spec

\* No order is PAID, nor announced as paid, without a payment that succeeded.
THEOREM PaidIsCharged == Spec => []PaidOnlyIfCharged
  <1>1. SagaInv => PaidOnlyIfCharged
      BY DEF SagaInv, ChargeInv, Charged, PaidAnnounced, PaidOnlyIfCharged
  <1> QED
      BY <1>1, SagaCorrect, PTL

\* No order is CANCELLED but by a payment that failed or by its own customer.
THEOREM CancelHasCause == Spec => []CancelledHasCause
  <1>1. SagaInv => CancelledHasCause
      BY DEF SagaInv, ChargeInv, OwnCancel, Mine, CancelledHasCause
  <1> QED
      BY <1>1, SagaCorrect, PTL

\* An order and its payment that are at rest and differ do so for a cause on the
\* list: nothing else keeps them apart.
THEOREM StrayIsExplained == Spec => []StrayHasCause
  <1>1. TypeOK /\ BothAlone /\ SagaInv => StrayHasCause
    <2> SUFFICES ASSUME TypeOK, BothAlone, SagaInv, NEW o \in Orders,
                        RequestsOver(o), MessagesOver(o)
                 PROVE  /\ row[o] = "none" /\ payments[o] # "none" =>
                              /\ creating[o] = "failed"
                              /\ Announced(o) \/ call[o] # "none" \/ Slipped({"client"}, o)
                        /\ row[o] = "PENDING" =>
                              \/ ~Announced(o) \/ Amount[o] = 0
                              \/ Slipped({"unrouted", "early", "swallowed"}, o)
                              \/ payments[o] = "REFUNDED" /\ Payment!Told(o) = {}
                        /\ row[o] = "CANCELLED" /\ payments[o] # "FAILED" =>
                              \E c \in Cancels : cancel[<<o, c>>] = "done"
        BY DEF StrayHasCause
    <2>1. ASSUME row[o] = "none", payments[o] # "none"
          PROVE  /\ creating[o] = "failed"
                 /\ Announced(o) \/ call[o] # "none" \/ Slipped({"client"}, o)
      <3>1. creating[o] # "done"
          BY <2>1 DEF BothAlone, OrderP!IInv, OrderP!OrderInv, OrderP!RowIffDone
      <3> QED
          BY <2>1, <3>1 DEF RequestsOver, SagaInv, SourceInv
    <2>2. ASSUME row[o] = "PENDING", Announced(o), Amount[o] # 0,
                 ~Slipped({"unrouted", "early", "swallowed"}, o)
          PROVE  payments[o] = "REFUNDED" /\ Payment!Told(o) = {}
      <3>1. ~Slipped({"unrouted"}, o)
          BY <2>2 DEF Slipped
      <3>2. task[o] = "acked"
          BY <2>2, <3>1 DEF MessagesOver, SagaInv, SourceInv
      <3>3. Amount[o] > 0
          BY <2>2, SagaConstants
      <3>4. Payment!Told(o) # {} \/ payments[o] = "REFUNDED"
          BY <3>2, <3>3 DEF BothAlone, PaymentP!IInv, PaymentP!LedgerInv, PaymentP!AckedTold,
                            PaymentP!Told, Payment!Told, PaymentP!RoutingKey, Payment!RoutingKey
      <3>5. ASSUME NEW v \in Payment!Told(o) PROVE FALSE
        <4>1. <<o, v>> \in Order!Outcomes
            BY DEF Payment!Told, Order!Outcomes
        <4>2. outcomes[<<o, v>>] = 0 /\ handling[<<o, v>>] = "no"
            BY <4>1 DEF MessagesOver
        <4> QED
            BY <2>2, <4>1, <4>2 DEF SagaInv, OutcomeKept
      <3> QED
          BY <3>4, <3>5
    <2>3. ASSUME row[o] = "CANCELLED", payments[o] # "FAILED"
          PROVE  \E c \in Cancels : cancel[<<o, c>>] = "done"
        BY <2>3 DEF SagaInv, ChargeInv, OwnCancel
    <2> QED
        BY <2>1, <2>2, <2>3
  <1> QED
      BY <1>1, SagaCorrect, PTL
=============================================================================
