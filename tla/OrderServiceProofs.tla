------------------------- MODULE OrderServiceProofs -------------------------
(***************************************************************************)
(* Theorems about the order service, for every set of orders and requests, *)
(* every choice of faults and every payment service PaymentStep allows.    *)
(***************************************************************************)
EXTENDS OrderService, TLAPS

\* A publish adds at most the event it names, and none of the statuses.
LEMMA PublishFacts ==
    ASSUME NEW o \in Orders, NEW name \in OrderEvents,
           BrokerTypeOK, faults \in 0..MaxFaults, MaxFaults \in Nat,
           Publish(name, o)
    PROVE  /\ BrokerTypeOK'
           /\ faults' \in 0..MaxFaults
           /\ events' \in {events, events \union {<<name, o>>}}
  BY DEF Publish, PublishOrderEvent, NoFault, Fault, BrokerTypeOK, brokerVars,
         OrderEvents, PaymentEvents

\* A fault that happens is counted within its bound.
LEMMA FaultFacts ==
    ASSUME NEW kind, faults \in 0..MaxFaults, MaxFaults \in Nat, Fault(kind)
    PROVE  faults' \in 0..MaxFaults
  BY DEF Fault

\* What the broker takes back leaves the queue and the callbacks well typed.
LEMMA ReturnFacts ==
    ASSUME outcomes \in [Outcomes -> Nat], ReturnOutcomes
    PROVE  /\ outcomes' \in [Outcomes -> Nat]
           /\ handling' \in [Outcomes -> HandlePhases]
  BY DEF ReturnOutcomes, HandlePhases

-----------------------------------------------------------------------------
\* Every variable keeps its type, whatever step is taken.
LEMMA TypeStep == TypeOK /\ [Next]_vars => TypeOK'
  <1> SUFFICES ASSUME TypeOK, [Next]_vars PROVE TypeOK'
      OBVIOUS
  <1> USE OrderConstants
  <1>t. BrokerTypeOK /\ faults \in 0..MaxFaults /\ MaxFaults \in Nat
      BY DEF TypeOK
  <1>1. ASSUME NEW o \in Orders, Create(o) PROVE TypeOK'
    <2>1. CASE PublishCreated(o)
        BY <2>1, <1>t, PublishFacts, "order.OrderCreated" \in OrderEvents
           DEF OrderEvents, PublishCreated, CreateStep, TypeOK, CreatePhases
    <2>2. CASE PublishPaid(o)
        BY <2>2, <1>t, PublishFacts, "order.OrderPaid" \in OrderEvents
           DEF OrderEvents, PublishPaid, CreateStep, TypeOK, CreatePhases
    <2>3. CASE RejectBasket(o) \/ InsertOrder(o) \/ MarkPaid(o)
        BY <2>3 DEF RejectBasket, InsertOrder, MarkPaid, CreateStep, TypeOK, CreatePhases,
                    BrokerTypeOK, brokerVars
    <2>4. CASE RequestPayment(o)
        BY <2>4 DEF RequestPayment, CreateStep, TypeOK, CreatePhases, CallPhases,
                    BrokerTypeOK, brokerVars
    <2>5. CASE CommitOrder(o)
        BY <2>5 DEF CommitOrder, CreateStep, TypeOK, CreatePhases, Statuses,
                    BrokerTypeOK, brokerVars
    <2>6. CASE RollBackOrder(o)
        BY <2>6, <1>t, FaultFacts
           DEF RollBackOrder, NoFault, TypeOK, CreatePhases, BrokerTypeOK, brokerVars
    <2> QED
        BY <1>1, <2>1, <2>2, <2>3, <2>4, <2>5, <2>6 DEF Create
  <1>2. ASSUME NEW o \in Orders, NEW c \in Cancels, Cancel(o, c) PROVE TypeOK'
    <2>1. CASE CheckCancel(o, c) \/ FlushCancel(o, c)
        BY <2>1 DEF CheckCancel, FlushCancel, CancelStep, TypeOK, CancelPhases,
                    BrokerTypeOK, brokerVars
    <2>2. CASE PublishCancelled(o, c)
        BY <2>2, <1>t, PublishFacts, "order.OrderCancelled" \in OrderEvents
           DEF OrderEvents, PublishCancelled, CancelStep, TypeOK, CancelPhases
    <2>3. CASE CommitCancel(o, c)
        BY <2>3 DEF CommitCancel, CancelStep, TypeOK, CancelPhases, Statuses,
                    BrokerTypeOK, brokerVars
    <2>4. CASE RollBackCancel(o, c)
        BY <2>4, <1>t, FaultFacts
           DEF RollBackCancel, CancelStep, TypeOK, CancelPhases, BrokerTypeOK, brokerVars
    <2> QED
        BY <1>2, <2>1, <2>2, <2>3, <2>4 DEF Cancel
  <1>3. ASSUME NEW m \in Outcomes, Handle(m) PROVE TypeOK'
    <2>1. CASE DeliverOutcome(m)
        BY <2>1 DEF DeliverOutcome, HandleStep, TakeOutcome, TypeOK, HandlePhases,
                    BrokerTypeOK, brokerVars
    <2>2. CASE ReadOutcome(m) \/ AckOutcome(m)
        BY <2>2 DEF ReadOutcome, AckOutcome, HandleStep, TypeOK, HandlePhases,
                    BrokerTypeOK, brokerVars
    <2>3. CASE WriteOutcome(m)
        BY <2>3 DEF WriteOutcome, OrderStatusFor, HandleStep, TypeOK, HandlePhases, Statuses, Outcomes,
                    BrokerTypeOK, brokerVars
    <2>4. CASE OutcomeDbError(m)
        BY <2>4, <1>t, FaultFacts
           DEF OutcomeDbError, HandleStep, TypeOK, HandlePhases, BrokerTypeOK, brokerVars
    <2> QED
        BY <1>3, <2>1, <2>2, <2>3, <2>4 DEF Handle
  <1>4. CASE StartListener
      BY <1>4 DEF StartListener, Bind, TypeOK, BrokerTypeOK, Queues
  <1>5. CASE LoseConnection
      BY <1>5, <1>t, FaultFacts, ReturnFacts DEF LoseConnection, TypeOK, BrokerTypeOK
  <1>6. CASE Crash
      BY <1>6, <1>t, FaultFacts, ReturnFacts
         DEF Crash, TypeOK, BrokerTypeOK, CreatePhases, CancelPhases
  <1>7. CASE PaymentStep
    <2> USE <1>7, <1>t DEF PaymentStep, orderVars, TypeOK
    <2>1. ASSUME NEW o \in Orders, TakeCreated(o) \/ AnswerCall(o) PROVE TypeOK'
        BY <2>1 DEF TakeCreated, AnswerCall, BrokerTypeOK, brokerVars, CallPhases
    <2>2. ASSUME NEW o \in Orders, NEW status \in {"SUCCEEDED", "FAILED"},
                 AnnounceOutcome(o, status)
          PROVE  TypeOK'
        BY <2>2 DEF AnnounceOutcome, PublishOutcome, RoutingKey, PaymentEvents, Outcomes,
                    BrokerTypeOK
    <2>3. CASE ReturnCreated
        BY <2>3 DEF ReturnCreated, CallsDropped, CallPhases, BrokerTypeOK
    <2>4. CASE BindCreatedQueue
        BY <2>4 DEF BindCreatedQueue, Bind, Queues, BrokerTypeOK
    <2> QED
        BY <2>1, <2>2, <2>3, <2>4
  <1>8. CASE UNCHANGED vars
      BY <1>8 DEF vars, orderVars, brokerVars, TypeOK, BrokerTypeOK
  <1> QED
      BY <1>1, <1>2, <1>3, <1>4, <1>5, <1>6, <1>7, <1>8 DEF Next, Service

\* The order service is type correct.
THEOREM TypeCorrect == Spec => []TypeOK
  <1>1. Init => TypeOK
      BY OrderConstants
         DEF Init, BrokerInit, TypeOK, BrokerTypeOK, CreatePhases, CancelPhases,
             HandlePhases, CallPhases
  <1> QED
      BY <1>1, TypeStep, PTL DEF Spec

-----------------------------------------------------------------------------
(* What makes the statuses final.  A row is visible when its transaction is *)
(* done and not before; an order announced as paid was not visible then, so *)
(* nobody who read an open order read that one.                             *)

RowIffDone(o) == row[o] # "none" <=> creating[o] = "done"

PaidAnnounced(o) == <<"order.OrderPaid", o>> \in events

PaidAnnouncedLate(o) == PaidAnnounced(o) => creating[o] \in {"paidAnnounced", "done", "failed"}

PaidAnnouncedPaid(o) == PaidAnnounced(o) /\ creating[o] = "done" => row[o] = "PAID"

WriterSawOpen(o) == WriterPending(o) => row[o] # "none" /\ ~PaidAnnounced(o)

OrderInv(o) == RowIffDone(o) /\ PaidAnnouncedLate(o) /\ PaidAnnouncedPaid(o) /\ WriterSawOpen(o)

IInv == \A o \in Orders : OrderInv(o)

\* Actions that change no row, no event of payment and no reader leave it true.
LEMMA OrderInvFrame ==
    ASSUME NEW p \in Orders, OrderInv(p), UNCHANGED <<row, cancel, handling>>,
           creating'[p] = creating[p],
           PaidAnnounced(p)' <=> PaidAnnounced(p)
    PROVE  OrderInv(p)'
  BY DEF OrderInv, RowIffDone, PaidAnnouncedLate, PaidAnnouncedPaid, WriterSawOpen,
         WriterPending, PaidAnnounced

\* A create transaction keeps the invariant.
LEMMA CreateKeepsInv ==
    ASSUME TypeOK, NEW p \in Orders, OrderInv(p), NEW o \in Orders, Create(o)
    PROVE  OrderInv(p)'
  <1>t. BrokerTypeOK /\ faults \in 0..MaxFaults /\ MaxFaults \in Nat
      BY OrderConstants DEF TypeOK
  <1> USE DEF TypeOK
  <1>1. CASE RejectBasket(o) \/ InsertOrder(o) \/ MarkPaid(o) \/ RequestPayment(o)
      BY <1>1 DEF RejectBasket, InsertOrder, MarkPaid, RequestPayment, CreateStep, brokerVars,
                  OrderInv, RowIffDone, PaidAnnouncedLate, PaidAnnouncedPaid, WriterSawOpen,
                  WriterPending, PaidAnnounced
  <1>2. CASE PublishCreated(o)
    <2>1. events' \in {events, events \union {<<"order.OrderCreated", o>>}}
        BY <1>2, <1>t, PublishFacts, "order.OrderCreated" \in OrderEvents
           DEF PublishCreated, OrderEvents
    <2>2. PaidAnnounced(p)' <=> PaidAnnounced(p)
        BY <2>1 DEF PaidAnnounced
    <2> QED
        BY <1>2, <2>2 DEF PublishCreated, CreateStep, OrderInv, RowIffDone,
           PaidAnnouncedLate, PaidAnnouncedPaid, WriterSawOpen, WriterPending
  <1>3. CASE PublishPaid(o)
    <2>1. events' \in {events, events \union {<<"order.OrderPaid", o>>}}
        BY <1>3, <1>t, PublishFacts, "order.OrderPaid" \in OrderEvents
           DEF PublishPaid, OrderEvents
    <2>2. CASE p = o
      <3>1. row[o] = "none" /\ ~WriterPending(o)
          BY <1>3, <2>2 DEF PublishPaid, CreateStep, OrderInv, RowIffDone, WriterSawOpen
      <3> QED
          BY <1>3, <2>2, <3>1 DEF PublishPaid, CreateStep, OrderInv, RowIffDone,
             PaidAnnouncedLate, PaidAnnouncedPaid, WriterSawOpen, WriterPending
    <2>3. CASE p # o
      <3>1. PaidAnnounced(p)' <=> PaidAnnounced(p)
          BY <2>1, <2>3 DEF PaidAnnounced
      <3> QED
          BY <1>3, <2>3, <3>1, OrderInvFrame DEF PublishPaid, CreateStep
    <2> QED
        BY <2>2, <2>3
  <1>4. CASE CommitOrder(o)
    <2>1. /\ \/ /\ creating[o] = "announced"
                /\ row' = [row EXCEPT ![o] = "PENDING"]
             \/ /\ creating[o] = "paidAnnounced"
                /\ row' = [row EXCEPT ![o] = "PAID"]
          /\ creating' = [creating EXCEPT ![o] = "done"]
          /\ UNCHANGED <<cancel, handling, events>>
        BY <1>4 DEF CommitOrder, CreateStep, brokerVars
    <2> QED
        BY <2>1 DEF OrderInv, RowIffDone, PaidAnnouncedLate, PaidAnnouncedPaid, WriterSawOpen,
           WriterPending, PaidAnnounced
  <1>5. CASE RollBackOrder(o)
      BY <1>5 DEF RollBackOrder, Unpaid, brokerVars, OrderInv, RowIffDone, PaidAnnouncedLate,
                  PaidAnnouncedPaid, WriterSawOpen, WriterPending, PaidAnnounced
  <1> QED
      BY <1>1, <1>2, <1>3, <1>4, <1>5 DEF Create

\* So does a cancel request: it reads an open row, and writes what it read.
LEMMA CancelKeepsInv ==
    ASSUME TypeOK, NEW p \in Orders, OrderInv(p),
           NEW o \in Orders, NEW c \in Cancels, Cancel(o, c)
    PROVE  OrderInv(p)'
  <1> USE OrderConstants DEF TypeOK
  <1>t. BrokerTypeOK /\ faults \in 0..MaxFaults /\ MaxFaults \in Nat
      OBVIOUS
  <1> USE DEF OrderInv, RowIffDone, PaidAnnouncedLate, PaidAnnouncedPaid, WriterSawOpen,
              WriterPending
  <1>1. CASE CheckCancel(o, c)
      BY <1>1 DEF CheckCancel, CancelStep, Cancellable, brokerVars, PaidAnnounced
  <1>2. CASE FlushCancel(o, c)
      BY <1>2 DEF FlushCancel, CancelStep, brokerVars, PaidAnnounced
  <1>3. CASE PublishCancelled(o, c)
    <2>1. events' \in {events, events \union {<<"order.OrderCancelled", o>>}}
        BY <1>3, <1>t, PublishFacts, "order.OrderCancelled" \in OrderEvents
           DEF PublishCancelled, OrderEvents
    <2>2. PaidAnnounced(p)' <=> PaidAnnounced(p)
        BY <2>1 DEF PaidAnnounced
    <2> QED
        BY <1>3, <2>2 DEF PublishCancelled, CancelStep
  <1>4. CASE CommitCancel(o, c)
      BY <1>4 DEF CommitCancel, CancelStep, brokerVars, PaidAnnounced
  <1>5. CASE RollBackCancel(o, c)
      BY <1>5 DEF RollBackCancel, CancelStep, brokerVars, PaidAnnounced
  <1> QED
      BY <1>1, <1>2, <1>3, <1>4, <1>5 DEF Cancel

\* And the outcome consumer.
LEMMA HandleKeepsInv ==
    ASSUME TypeOK, NEW p \in Orders, OrderInv(p), NEW m \in Outcomes, Handle(m)
    PROVE  OrderInv(p)'
  <1> USE DEF TypeOK, OrderInv, RowIffDone, PaidAnnouncedLate, PaidAnnouncedPaid, WriterSawOpen,
              WriterPending, PaidAnnounced, HandleStep, brokerVars
  <1>1. CASE DeliverOutcome(m)
      BY <1>1 DEF DeliverOutcome
  <1>2. CASE ReadOutcome(m)
      BY <1>2 DEF ReadOutcome, StillPending
  <1>3. CASE WriteOutcome(m)
      BY <1>3 DEF WriteOutcome, OrderStatusFor, Outcomes
  <1>4. CASE OutcomeDbError(m)
      BY <1>4 DEF OutcomeDbError
  <1>5. CASE AckOutcome(m)
      BY <1>5 DEF AckOutcome
  <1> QED
      BY <1>1, <1>2, <1>3, <1>4, <1>5 DEF Handle

\* Every step keeps the invariant.
LEMMA InvStep == TypeOK /\ IInv /\ [Next]_vars => IInv'
  <1> SUFFICES ASSUME TypeOK, IInv, [Next]_vars, NEW p \in Orders PROVE OrderInv(p)'
      BY DEF IInv
  <1>p. OrderInv(p)
      BY DEF IInv
  <1>1. ASSUME NEW o \in Orders, Create(o) PROVE OrderInv(p)'
      BY <1>1, <1>p, CreateKeepsInv
  <1>2. ASSUME NEW o \in Orders, NEW c \in Cancels, Cancel(o, c) PROVE OrderInv(p)'
      BY <1>2, <1>p, CancelKeepsInv
  <1>3. ASSUME NEW m \in Outcomes, Handle(m) PROVE OrderInv(p)'
      BY <1>3, <1>p, HandleKeepsInv
  <1>4. CASE StartListener
      BY <1>4, <1>p, OrderInvFrame DEF StartListener, PaidAnnounced
  <1>5. CASE LoseConnection
    <2>1. /\ \A m \in Outcomes : handling'[m] = "no"
          /\ UNCHANGED <<row, creating, cancel, events>>
        BY <1>5 DEF LoseConnection, ReturnOutcomes
    <2> QED
        BY <2>1, <1>p DEF OrderInv, RowIffDone, PaidAnnouncedLate, PaidAnnouncedPaid,
                          WriterSawOpen, WriterPending, PaidAnnounced
  <1>8. CASE Crash
    <2>1. /\ \A m \in Outcomes : handling'[m] = "no"
          /\ \A c \in Cancels : cancel'[<<p, c>>] \notin {"checked", "flushed", "announced"}
          /\ UNCHANGED <<row, events>>
        BY <1>8 DEF Crash, ReturnOutcomes
    <2>2. creating'[p] = IF creating[p] \in {"idle", "done"} THEN creating[p] ELSE "failed"
        BY <1>8 DEF Crash
    <2>3. ~WriterPending(p)'
        BY <2>1 DEF WriterPending
    <2> QED
        BY <2>1, <2>2, <2>3, <1>p DEF OrderInv, RowIffDone, PaidAnnouncedLate,
                                      PaidAnnouncedPaid, WriterSawOpen, PaidAnnounced
  <1>6. CASE PaymentStep
    <2>1. ASSUME NEW o \in Orders, NEW status \in {"SUCCEEDED", "FAILED"},
                 AnnounceOutcome(o, status)
          PROVE  PaidAnnounced(p)' <=> PaidAnnounced(p)
        BY <2>1 DEF AnnounceOutcome, PublishOutcome, RoutingKey, PaidAnnounced
    <2>2. PaidAnnounced(p)' <=> PaidAnnounced(p)
        BY <1>6, <2>1 DEF PaymentStep, TakeCreated, AnswerCall, ReturnCreated,
           BindCreatedQueue, brokerVars, PaidAnnounced
    <2> QED
        BY <1>6, <1>p, <2>2, OrderInvFrame DEF PaymentStep, orderVars
  <1>7. CASE UNCHANGED vars
      BY <1>7, <1>p, OrderInvFrame DEF vars, orderVars, brokerVars, PaidAnnounced
  <1> QED
      BY <1>1, <1>2, <1>3, <1>4, <1>5, <1>6, <1>7, <1>8 DEF Next, Service

LEMMA InvCorrect == Spec => []IInv
  <1>1. Init => IInv
      BY DEF Init, BrokerInit, IInv, OrderInv, RowIffDone, PaidAnnouncedLate,
             PaidAnnouncedPaid, WriterSawOpen, WriterPending, PaidAnnounced
  <1> QED
      BY <1>1, InvStep, TypeCorrect, PTL DEF Spec

\* An order announced as paid and committed stays PAID.
THEOREM PaidStaysPaid == Spec => []AnnouncedPaidStaysPaid
  <1>1. IInv => AnnouncedPaidStaysPaid
      BY DEF IInv, OrderInv, PaidAnnouncedPaid, PaidAnnounced, AnnouncedPaidStaysPaid
  <1> QED
      BY <1>1, InvCorrect, PTL

-----------------------------------------------------------------------------
\* A settled order that nobody is still writing stays as it is.  A create
\* transaction could write it only once more, and RowIffDone says it is over.
LEMMA QuietStep ==
    ASSUME TypeOK, IInv, Next, NEW p \in Orders, Settled(p), ~WriterPending(p)
    PROVE  row'[p] = row[p] /\ ~WriterPending(p)'
  <1>d. creating[p] = "done"
      BY DEF IInv, OrderInv, RowIffDone, Settled
  <1> USE DEF TypeOK, Settled, WriterPending
  <1>1. ASSUME NEW o \in Orders, Create(o) PROVE row'[p] = row[p] /\ ~WriterPending(p)'
      BY <1>1, <1>d
         DEF Create, RejectBasket, InsertOrder, PublishCreated, RequestPayment, MarkPaid,
             PublishPaid, CommitOrder, RollBackOrder, CreateStep
  <1>2. ASSUME NEW o \in Orders, NEW c \in Cancels, Cancel(o, c)
        PROVE  row'[p] = row[p] /\ ~WriterPending(p)'
    <2>1. CASE CheckCancel(o, c)
        BY <2>1 DEF CheckCancel, CancelStep, Cancellable
    <2>2. CASE FlushCancel(o, c) \/ PublishCancelled(o, c)
        BY <2>2 DEF FlushCancel, PublishCancelled, CancelStep
    <2>3. CASE CommitCancel(o, c) \/ RollBackCancel(o, c)
        BY <2>3 DEF CommitCancel, RollBackCancel, CancelStep
    <2> QED
        BY <1>2, <2>1, <2>2, <2>3 DEF Cancel
  <1>3. ASSUME NEW m \in Outcomes, Handle(m) PROVE row'[p] = row[p] /\ ~WriterPending(p)'
    <2>1. CASE ReadOutcome(m)
        BY <2>1 DEF ReadOutcome, StillPending, HandleStep
    <2>2. CASE WriteOutcome(m)
        BY <2>2 DEF WriteOutcome, HandleStep
    <2>3. CASE DeliverOutcome(m) \/ OutcomeDbError(m) \/ AckOutcome(m)
        BY <2>3 DEF DeliverOutcome, OutcomeDbError, AckOutcome, HandleStep
    <2> QED
        BY <1>3, <2>1, <2>2, <2>3 DEF Handle
  <1>4. CASE StartListener \/ LoseConnection \/ Crash
      BY <1>4 DEF StartListener, LoseConnection, Crash, ReturnOutcomes
  <1>5. CASE PaymentStep
      BY <1>5 DEF PaymentStep, orderVars
  <1> QED
      BY <1>1, <1>2, <1>3, <1>4, <1>5 DEF Next, Service

\* An order that is PAID or CANCELLED and left alone keeps its status for ever.
THEOREM StatusIsFinal == Spec => FinalOnceQuiet
  <1>1. TypeOK /\ IInv /\ [Next]_vars
          => [\A o \in Orders : Settled(o) /\ ~WriterPending(o)
                                  => row'[o] = row[o] /\ ~WriterPending(o)']_vars
      BY QuietStep
  <1> QED
      BY <1>1, TypeCorrect, InvCorrect, PTL DEF Spec, FinalOnceQuiet
=============================================================================
