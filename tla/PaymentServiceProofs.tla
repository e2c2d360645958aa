------------------------ MODULE PaymentServiceProofs ------------------------
(***************************************************************************)
(* Theorems about the payment service, for every set of orders, payment    *)
(* methods and amounts, every choice of faults and every order service     *)
(* OrderStep allows.                                                       *)
(***************************************************************************)
EXTENDS PaymentService, TLAPS

\* The types of the variables that the end of the process, or a nack, may change.
HandlerTypes ==
    /\ BrokerTypeOK
    /\ task \in [Orders -> TaskPhases]
    /\ verdict \in [Orders -> PaymentStatuses \union {"none"}]
    /\ refund \in [Orders \X Refunds -> RefundPhases]
    /\ consumer \in ConsumerStates
    /\ call \in [Orders -> {"none", "sent", "created", "refused"}]

LEMMA RestartTypes ==
    ASSUME HandlerTypes, Restart PROVE HandlerTypes'
  BY DEF HandlerTypes, Restart, InFlight, BrokerTypeOK, TaskPhases, RefundPhases, ConsumerStates

LEMMA NackTypes ==
    ASSUME HandlerTypes, NEW o \in Orders, Nack(o) PROVE HandlerTypes'
  <1>1. CASE ChannelOpen
      BY <1>1 DEF HandlerTypes, Nack, Requeued, BrokerTypeOK, TaskPhases
  <1>2. CASE ~ChannelOpen
      BY <1>2, RestartTypes DEF Nack
  <1> QED
      BY <1>1, <1>2

LEMMA FaultTypes ==
    ASSUME NEW kind, faults \in 0..MaxFaults, MaxFaults \in Nat, Fault(kind)
    PROVE  faults' \in 0..MaxFaults
  BY DEF Fault

LEMMA OutcomeTypes ==
    ASSUME BrokerTypeOK, NEW o \in Orders, NEW v, PublishOutcome(o, v)
    PROVE  BrokerTypeOK'
  <1>1. outcomes' \in [Outcomes -> Nat]
    <2>1. CASE <<o, v>> \in Outcomes
        BY <2>1 DEF BrokerTypeOK, PublishOutcome
    <2>2. CASE <<o, v>> \notin Outcomes
        BY <2>2 DEF BrokerTypeOK, PublishOutcome
    <2> QED
        BY <2>1, <2>2
  <1>2. events' \in SUBSET ((OrderEvents \union PaymentEvents) \X Orders)
      BY DEF BrokerTypeOK, PublishOutcome, RoutingKey, PaymentEvents
  <1> QED
      BY <1>1, <1>2 DEF BrokerTypeOK, PublishOutcome

-----------------------------------------------------------------------------
(* What the ledger rests on.  The verdict a handler will announce, and every *)
(* verdict announced, agree with the row, which changes only by a refund.    *)

Agrees(v, o) == payments[o] = v \/ (v = "SUCCEEDED" /\ payments[o] = "REFUNDED")

VerdictAgrees(o) ==
    task[o] \in {"settled", "announced"}
        => verdict[o] \in PaymentStatuses /\ Agrees(verdict[o], o)

ToldAgrees(o) == \A v \in Told(o) : Agrees(v, o)

ConflictHasRow(o) == task[o] = "conflict" => payments[o] # "none"

AnnouncedTold(o) == task[o] = "announced" => verdict[o] \in Told(o) \union {"REFUNDED"}

AckedTold(o) == task[o] = "acked" /\ Amount[o] > 0 => Told(o) # {} \/ payments[o] = "REFUNDED"

RefundHadPayment(o) ==
    \A r \in Refunds : refund[<<o, r>>] = "checked" => payments[o] \in {"SUCCEEDED", "REFUNDED"}

LedgerInv(o) ==
    /\ VerdictAgrees(o) /\ ToldAgrees(o) /\ ConflictHasRow(o)
    /\ AnnouncedTold(o) /\ AckedTold(o)  /\ RefundHadPayment(o)

IInv == \A o \in Orders : LedgerInv(o)

-----------------------------------------------------------------------------
\* Every variable keeps its type, whatever step is taken.
LEMMA TypeStep == TypeOK /\ [Next]_vars => TypeOK'
  <1> SUFFICES ASSUME TypeOK, [Next]_vars PROVE TypeOK'
      OBVIOUS
  <1> USE PaymentConstants
  <1>t. /\ HandlerTypes /\ faults \in 0..MaxFaults /\ MaxFaults \in Nat
        /\ payments \in [Orders -> PaymentStatuses \union {"none"}]
      BY DEF TypeOK, HandlerTypes
  <1>q. ASSUME HandlerTypes', faults' \in 0..MaxFaults,
               payments' \in [Orders -> PaymentStatuses \union {"none"}]
        PROVE  TypeOK'
      BY <1>q DEF HandlerTypes, TypeOK
  <1>1. ASSUME NEW o \in Orders, Handle(o) PROVE TypeOK'
    <2>1. CASE Deliver(o) \/ Insert(o) \/ Lookup(o)
        BY <2>1 DEF Deliver, Insert, Lookup, Step, determinePaymentOutcome, TypeOK,
                    BrokerTypeOK, brokerVars, TaskPhases, PaymentStatuses
    <2>2. CASE InsertFails(o)
        BY <2>2, <1>t, <1>q, NackTypes, FaultTypes
           DEF InsertFails, determinePaymentOutcome, PaymentStatuses
    <2>3. CASE LookupFails(o) \/ AnnounceFails(o)
        BY <2>3, <1>t, <1>q, NackTypes, FaultTypes DEF LookupFails, AnnounceFails
    <2>4. CASE Announce(o)
      <3> USE DEF Announce, Step, TypeOK, TaskPhases
      <3>1. CASE UNCHANGED brokerVars
          BY <2>4, <3>1 DEF brokerVars, BrokerTypeOK
      <3>2. CASE PublishOutcome(o, verdict[o])
          BY <2>4, <3>2, OutcomeTypes
      <3> QED
          BY <2>4, <3>1, <3>2
    <2>5. CASE Ack(o)
      <3>1. CASE ChannelOpen
          BY <2>5, <3>1 DEF Ack, Step, TypeOK, BrokerTypeOK, brokerVars, TaskPhases
      <3>2. CASE ~ChannelOpen
          BY <2>5, <3>2, <1>t, <1>q, RestartTypes DEF Ack
      <3> QED
          BY <3>1, <3>2
    <2> QED
        BY <1>1, <2>1, <2>2, <2>3, <2>4, <2>5 DEF Handle
  <1>2. ASSUME NEW o \in Orders, Serve(o) PROVE TypeOK'
      BY <1>2, <1>t, FaultTypes
         DEF Serve, PostPayment, ServeCall, ServeCallFails, InsertSucceeded, Rest, TypeOK,
             BrokerTypeOK, brokerVars, PaymentStatuses
  <1>3. ASSUME NEW o \in Orders, NEW r \in Refunds, Refund(o, r) PROVE TypeOK'
      BY <1>3, <1>t, FaultTypes
         DEF Refund, CheckRefund, WriteRefund, RefundFails, RefundStep, Rest, TypeOK,
             BrokerTypeOK, brokerVars, PaymentStatuses, RefundPhases
  <1>4. CASE StartConsumer
      BY <1>4 DEF StartConsumer, Bind, Queues, TypeOK, BrokerTypeOK, ConsumerStates
  <1>5. CASE CancelConsumer \/ CloseConnection \/ Stop
      BY <1>5, <1>t, FaultTypes
         DEF CancelConsumer, CloseConnection, Stop, CloseChannel, InFlight, TypeOK,
             BrokerTypeOK, brokerVars, ConsumerStates
  <1>6. CASE Crash \/ Exit
      BY <1>6, <1>t, <1>q, RestartTypes, FaultTypes DEF Crash, Exit
  <1>7. CASE OrderStep
    <2> USE <1>7 DEF OrderStep, paymentVars, TypeOK, BrokerTypeOK, brokerVars
    <2>1. ASSUME NEW o \in Orders, AnnounceOrder(o) PROVE TypeOK'
        BY <2>1 DEF AnnounceOrder, PublishOrderEvent, OrderEvents
    <2>2. ASSUME NEW o \in Orders, SendCall(o) PROVE TypeOK'
        BY <2>2 DEF SendCall
    <2>3. ASSUME NEW m \in Outcomes, ConsumeOutcome(m) \/ ReturnOutcome(m) PROVE TypeOK'
        BY <2>3 DEF ConsumeOutcome, TakeOutcome, ReturnOutcome
    <2>4. CASE BindOutcomesQueue
        BY <2>4 DEF BindOutcomesQueue, Bind, Queues
    <2> QED
        BY <2>1, <2>2, <2>3, <2>4
  <1>8. CASE UNCHANGED vars
      BY <1>8 DEF vars, paymentVars, brokerVars, TypeOK, BrokerTypeOK
  <1> QED
      BY <1>1, <1>2, <1>3, <1>4, <1>5, <1>6, <1>7, <1>8 DEF Next, Service

\* The payment service is type correct.
THEOREM TypeCorrect == Spec => []TypeOK
  <1>1. Init => TypeOK
      BY PaymentConstants
         DEF Init, BrokerInit, TypeOK, BrokerTypeOK, TaskPhases, RefundPhases, ConsumerStates
  <1> QED
      BY <1>1, TypeStep, PTL DEF Spec

-----------------------------------------------------------------------------
(* What one step does to the payments and to what has been told of them.    *)

Verdicts == {"SUCCEEDED", "FAILED"}

PaymentRecorded ==
    \E o \in Orders, v \in Verdicts :
        payments[o] = "none" /\ payments' = [payments EXCEPT ![o] = v]

PaymentRefunded ==
    \E o \in Orders :
        /\ payments[o] \in {"SUCCEEDED", "REFUNDED"}
        /\ payments' = [payments EXCEPT ![o] = "REFUNDED"]

NothingTold == \A o \in Orders : Told(o)' = Told(o)

VerdictTold ==
    \E o \in Orders, v \in Verdicts :
        /\ Agrees(v, o)
        /\ \A p \in Orders : Told(p)' = IF p = o THEN Told(p) \union {v} ELSE Told(p)

LedgerStep ==
    \/ (UNCHANGED payments \/ PaymentRecorded \/ PaymentRefunded) /\ NothingTold
    \/ UNCHANGED payments /\ VerdictTold

\* The announcement of v adds v to what was told of its order, and nothing else.
LEMMA OutcomeTold ==
    ASSUME NEW o \in Orders, NEW v \in Verdicts, PublishOutcome(o, v), NEW p \in Orders
    PROVE  Told(p)' = IF p = o THEN Told(p) \union {v} ELSE Told(p)
  BY DEF Told, PublishOutcome, RoutingKey, Verdicts

LEMMA SameEventsTold ==
    ASSUME UNCHANGED events PROVE NothingTold
  BY DEF NothingTold, Told

\* Events of orders tell nothing of payments.
LEMMA OrderEventTold ==
    ASSUME NEW o \in Orders, NEW name \in OrderEvents, PublishOrderEvent(name, o)
    PROVE  NothingTold
  BY DEF NothingTold, Told, PublishOrderEvent, OrderEvents, RoutingKey

LEMMA NackEvents ==
    ASSUME NEW o \in Orders, Nack(o) PROVE UNCHANGED events
  BY DEF Nack, Restart

LEMMA StepIsLedgerStep ==
    ASSUME TypeOK, IInv, Next PROVE LedgerStep
  <1> USE DEF LedgerStep
  <1>1. ASSUME NEW o \in Orders, Handle(o) PROVE LedgerStep
    <2>1. CASE Deliver(o) \/ Lookup(o) \/ LookupFails(o) \/ AnnounceFails(o) \/ Ack(o)
        BY <2>1, NackEvents, SameEventsTold
           DEF Deliver, Lookup, LookupFails, AnnounceFails, Ack, Restart, brokerVars
    <2>2. determinePaymentOutcome(o) \in Verdicts
        BY DEF determinePaymentOutcome, Verdicts
    <2>3. CASE Insert(o)
      <3>1. NothingTold
          BY <2>3, SameEventsTold DEF Insert, brokerVars
      <3> QED
          BY <2>2, <2>3, <3>1 DEF Insert, Recorded, PaymentRecorded
    <2>4. CASE InsertFails(o)
      <3>1. NothingTold
          BY <2>4, NackEvents, SameEventsTold DEF InsertFails
      <3> QED
          BY <2>2, <2>4, <3>1 DEF InsertFails, PaymentRecorded
    <2>5. CASE Announce(o)
      <3>1. CASE UNCHANGED brokerVars
          BY <2>5, <3>1, SameEventsTold DEF Announce, brokerVars
      <3>2. CASE verdict[o] # "REFUNDED" /\ PublishOutcome(o, verdict[o])
        <4>1. Agrees(verdict[o], o) /\ verdict[o] \in Verdicts
            BY <2>5, <3>2 DEF Announce, Step, IInv, LedgerInv, VerdictAgrees, PaymentStatuses,
                              Verdicts
        <4> QED
            BY <2>5, <3>2, <4>1, OutcomeTold DEF Announce, VerdictTold
      <3> QED
          BY <2>5, <3>1, <3>2 DEF Announce
    <2> QED
        BY <1>1, <2>1, <2>3, <2>4, <2>5 DEF Handle
  <1>2. ASSUME NEW o \in Orders, Serve(o) PROVE LedgerStep
    <2>1. NothingTold
        BY <1>2, SameEventsTold DEF Serve, PostPayment, ServeCall, ServeCallFails, Rest, brokerVars
    <2>2. UNCHANGED payments \/ PaymentRecorded
        BY <1>2 DEF Serve, PostPayment, ServeCall, ServeCallFails, InsertSucceeded,
                    PaymentRecorded, Verdicts
    <2> QED
        BY <2>1, <2>2
  <1>3. ASSUME NEW o \in Orders, NEW r \in Refunds, Refund(o, r) PROVE LedgerStep
    <2>1. NothingTold
        BY <1>3, SameEventsTold
           DEF Refund, CheckRefund, WriteRefund, RefundFails, RefundStep, Rest, brokerVars
    <2>2. UNCHANGED payments \/ PaymentRefunded
        BY <1>3 DEF Refund, CheckRefund, WriteRefund, RefundFails, RefundStep,
                    PaymentRefunded, IInv, LedgerInv, RefundHadPayment
    <2> QED
        BY <2>1, <2>2
  <1>4. CASE StartConsumer \/ CancelConsumer \/ CloseConnection \/ Stop \/ Exit \/ Crash
      BY <1>4, SameEventsTold
         DEF StartConsumer, CancelConsumer, CloseConnection, Stop, CloseChannel, Exit, Crash, Restart,
             brokerVars
  <1>5. CASE OrderStep
    <2>1. UNCHANGED payments
        BY <1>5 DEF OrderStep, paymentVars
    <2>2. CASE UNCHANGED events
        BY <2>1, <2>2, SameEventsTold
    <2>3. ASSUME NEW o \in Orders, AnnounceOrder(o) PROVE LedgerStep
        BY <2>1, <2>3, OrderEventTold DEF AnnounceOrder
    <2> QED
        BY <1>5, <2>2, <2>3
           DEF OrderStep, SendCall, ConsumeOutcome, ReturnOutcome, BindOutcomesQueue, brokerVars
  <1> QED
      BY <1>1, <1>2, <1>3, <1>4, <1>5 DEF Next, Service

-----------------------------------------------------------------------------
(* Every step keeps the invariant.                                          *)

\* A handler that stays where it is or starts afresh, and refund requests none of
\* which has just read the row, keep it whatever is recorded or refunded.
HandlerKept(p) ==
    /\ \/ task'[p] = task[p] /\ (task[p] = "acked" \/ verdict'[p] = verdict[p])
       \/ task'[p] = "idle"
    /\ \A r \in Refunds : refund'[<<p, r>>] = "checked" => refund[<<p, r>>] = "checked"

LEMMA KeptInv ==
    ASSUME TypeOK, NEW p \in Orders, LedgerInv(p), HandlerKept(p), LedgerStep
    PROVE  LedgerInv(p)'
  <1>1. \/ payments'[p] = payments[p]
        \/ payments[p] = "none" /\ payments'[p] \in Verdicts
        \/ payments[p] = "SUCCEEDED" /\ payments'[p] = "REFUNDED"
      BY DEF LedgerStep, PaymentRecorded, PaymentRefunded, TypeOK
  <1>2. \/ Told(p)' = Told(p)
        \/ /\ payments'[p] = payments[p]
           /\ \E v \in Verdicts : Agrees(v, p) /\ Told(p)' = Told(p) \union {v}
      BY DEF LedgerStep, NothingTold, VerdictTold
  <1>3. "none" \notin Told(p)
      BY DEF Told
  <1>4. VerdictAgrees(p)'
      BY <1>1 DEF HandlerKept, LedgerInv, VerdictAgrees, Agrees, PaymentStatuses
  <1>5. ToldAgrees(p)'
      BY <1>1, <1>2, <1>3 DEF LedgerInv, ToldAgrees, Agrees
  <1>6. ConflictHasRow(p)'
      BY <1>1 DEF HandlerKept, LedgerInv, ConflictHasRow, Verdicts
  <1>7. AnnouncedTold(p)'
      BY <1>2 DEF HandlerKept, LedgerInv, AnnouncedTold
  <1>8. AckedTold(p)'
      BY <1>1, <1>2 DEF HandlerKept, LedgerInv, AckedTold
  <1>9. RefundHadPayment(p)'
      BY <1>1 DEF HandlerKept, LedgerInv, RefundHadPayment
  <1> QED
      BY <1>4, <1>5, <1>6, <1>7, <1>8, <1>9 DEF LedgerInv

LEMMA RestartKeeps ==
    ASSUME TypeOK, NEW p \in Orders, Restart
    PROVE  HandlerKept(p)
  BY DEF Restart, HandlerKept, TypeOK

LEMMA NackKeeps ==
    ASSUME TypeOK, NEW p \in Orders, NEW o \in Orders, Nack(o)
    PROVE  HandlerKept(p)
  <1>1. CASE ChannelOpen
      BY <1>1 DEF Nack, HandlerKept, TypeOK
  <1>2. CASE ~ChannelOpen
      BY <1>2, RestartKeeps DEF Nack
  <1> QED
      BY <1>1, <1>2

LEMMA InvStep == TypeOK /\ IInv /\ [Next]_vars => IInv'
  <1> SUFFICES ASSUME TypeOK, IInv, [Next]_vars, NEW p \in Orders PROVE LedgerInv(p)'
      BY DEF IInv
  <1>p. LedgerInv(p)
      BY DEF IInv
  <1>1. CASE UNCHANGED vars
      BY <1>1, <1>p
         DEF vars, paymentVars, brokerVars, LedgerInv, VerdictAgrees, ToldAgrees, ConflictHasRow,
             AnnouncedTold, AckedTold, RefundHadPayment, Agrees, Told
  <1> SUFFICES ASSUME Next PROVE LedgerInv(p)'
      BY <1>1
  <1>l. LedgerStep
      BY StepIsLedgerStep
  <1>2. ASSUME HandlerKept(p) PROVE LedgerInv(p)'
      BY <1>2, <1>l, <1>p, KeptInv
  <1>3. ASSUME NEW o \in Orders, Handle(o) PROVE LedgerInv(p)'
    <2>1. CASE p # o \/ InsertFails(o) \/ LookupFails(o) \/ AnnounceFails(o)
      <3>1. HandlerKept(p)
          BY <1>3, <2>1, NackKeeps, RestartKeeps
             DEF Handle, Deliver, Insert, InsertFails, Lookup, LookupFails, Announce,
                 AnnounceFails, Ack, Step, HandlerKept, TypeOK
      <3> QED
          BY <1>2, <3>1
    <2> USE <1>p DEF Step, TypeOK, LedgerInv, VerdictAgrees, ToldAgrees, ConflictHasRow,
                     AnnouncedTold, AckedTold, RefundHadPayment, Agrees
    <2>2. CASE p = o /\ Deliver(o)
        BY <2>2, SameEventsTold DEF Deliver, NothingTold
    <2>3. CASE p = o /\ Insert(o)
      <3>1. NothingTold
          BY <2>3, SameEventsTold DEF Insert, brokerVars
      <3>2. determinePaymentOutcome(o) \in Verdicts
          BY DEF determinePaymentOutcome, Verdicts
      <3>3. "none" \notin Told(o)
          BY DEF Told
      <3> QED
          BY <2>3, <3>1, <3>2, <3>3 DEF Insert, Recorded, NothingTold, Verdicts, PaymentStatuses
    <2>4. CASE p = o /\ Lookup(o)
        BY <2>4, SameEventsTold DEF Lookup, NothingTold, brokerVars
    <2>5. CASE p = o /\ Announce(o)
      <3>1. CASE verdict[o] = "REFUNDED" /\ UNCHANGED brokerVars
          BY <2>5, <3>1, SameEventsTold DEF Announce, NothingTold, brokerVars
      <3>2. CASE verdict[o] # "REFUNDED" /\ PublishOutcome(o, verdict[o])
        <4>1. verdict[o] \in Verdicts
            BY <2>5, <3>2 DEF Announce, PaymentStatuses, Verdicts
        <4>2. Told(o)' = Told(o) \union {verdict[o]}
            BY <3>2, <4>1, OutcomeTold
        <4> QED
            BY <2>5, <4>2 DEF Announce
      <3> QED
          BY <2>5, <3>1, <3>2 DEF Announce
    <2>6. CASE p = o /\ Ack(o)
      <3>1. CASE ChannelOpen
          BY <2>6, <3>1, SameEventsTold DEF Ack, NothingTold, brokerVars
      <3>2. CASE ~ChannelOpen
          BY <2>6, <3>2, <1>2, RestartKeeps DEF Ack
      <3> QED
          BY <3>1, <3>2
    <2> QED
        BY <1>3, <2>1, <2>2, <2>3, <2>4, <2>5, <2>6 DEF Handle
  <1>4. ASSUME NEW o \in Orders, Serve(o) PROVE LedgerInv(p)'
    <2>1. HandlerKept(p)
        BY <1>4 DEF Serve, PostPayment, ServeCall, ServeCallFails, Rest, HandlerKept
    <2> QED
        BY <1>2, <2>1
  <1>5. ASSUME NEW o \in Orders, NEW r \in Refunds, Refund(o, r) PROVE LedgerInv(p)'
    <2>1. CASE p = o /\ CheckRefund(o, r) /\ payments[o] = "SUCCEEDED"
        BY <1>p, <2>1, SameEventsTold
           DEF CheckRefund, RefundStep, Rest, brokerVars, NothingTold, TypeOK, LedgerInv,
               VerdictAgrees, ToldAgrees, ConflictHasRow, AnnouncedTold, AckedTold,
               RefundHadPayment, Agrees
    <2>2. CASE ~(p = o /\ CheckRefund(o, r) /\ payments[o] = "SUCCEEDED")
      <3>1. HandlerKept(p)
          BY <1>5, <2>2 DEF Refund, CheckRefund, WriteRefund, RefundFails, RefundStep, Rest,
                            HandlerKept, TypeOK
      <3> QED
          BY <1>2, <3>1
    <2> QED
        BY <2>1, <2>2
  <1>6. CASE Crash \/ Exit
      BY <1>6, <1>2, RestartKeeps DEF Crash, Exit
  <1>7. CASE StartConsumer \/ CancelConsumer \/ CloseConnection \/ Stop \/ OrderStep
    <2>1. HandlerKept(p)
        BY <1>7 DEF StartConsumer, CancelConsumer, CloseConnection, Stop, CloseChannel, OrderStep,
                    paymentVars, HandlerKept
    <2> QED
        BY <1>2, <2>1
  <1> QED
      BY <1>3, <1>4, <1>5, <1>6, <1>7 DEF Next, Service

LEMMA InvCorrect == Spec => []IInv
  <1>1. Init => IInv
      BY DEF Init, BrokerInit, IInv, LedgerInv, VerdictAgrees, ToldAgrees, ConflictHasRow,
             AnnouncedTold, AckedTold, RefundHadPayment, Told
  <1> QED
      BY <1>1, InvStep, TypeCorrect, PTL DEF Spec

-----------------------------------------------------------------------------
\* A payable OrderCreated message is gone only when its verdict has been told.
THEOREM AckedIsAnnounced == Spec => []AckedMeansAnnounced
  <1>1. IInv => AckedMeansAnnounced
      BY DEF IInv, LedgerInv, AckedTold, AckedMeansAnnounced
  <1> QED
      BY <1>1, InvCorrect, PTL

\* The payment service implements the payment ledger.
THEOREM LedgerImplemented == Spec => ImplementsLedger
  <1>1. Init => Ledger!Init
      BY DEF Init, BrokerInit, Ledger!Init, Told
  <1>2. TypeOK /\ IInv /\ [Next]_vars => [Ledger!Next]_<<payments, [o \in Orders |-> Told(o)]>>
    <2> SUFFICES ASSUME TypeOK, IInv, [Next]_vars
                 PROVE  \/ Ledger!Next
                        \/ UNCHANGED <<payments, [o \in Orders |-> Told(o)]>>
        OBVIOUS
    <2> DEFINE told == [o \in Orders |-> Told(o)]
    <2>1. CASE UNCHANGED vars
        BY <2>1 DEF vars, paymentVars, brokerVars, Told
    <2>2. CASE NothingTold /\ UNCHANGED payments
        BY <2>2 DEF NothingTold
    <2>3. CASE NothingTold /\ PaymentRecorded
      <3>1. told' = told
          BY <2>3 DEF NothingTold
      <3>2. PICK o \in Orders : Ledger!Record(o)
          BY <2>3, <3>1 DEF PaymentRecorded, Ledger!Record, Ledger!Verdicts, Verdicts
      <3> QED
          BY <3>2 DEF Ledger!Next
    <2>4. CASE NothingTold /\ PaymentRefunded
      <3>1. told' = told
          BY <2>4 DEF NothingTold
      <3>2. PICK o \in Orders : /\ payments[o] \in {"SUCCEEDED", "REFUNDED"}
                                /\ payments' = [payments EXCEPT ![o] = "REFUNDED"]
          BY <2>4 DEF PaymentRefunded
      <3>3. CASE payments[o] = "SUCCEEDED"
          BY <3>1, <3>2, <3>3 DEF Ledger!Next, Ledger!Refund
      <3>4. CASE payments[o] = "REFUNDED"
        <4>1. payments' = payments
            BY <3>2, <3>4 DEF TypeOK
        <4> QED
            BY <3>1, <4>1
      <3> QED
          BY <3>2, <3>3, <3>4
    <2>5. CASE VerdictTold /\ UNCHANGED payments
      <3>1. PICK o \in Orders, v \in Verdicts :
              /\ Agrees(v, o)
              /\ \A p \in Orders : Told(p)' = IF p = o THEN Told(p) \union {v} ELSE Told(p)
          BY <2>5 DEF VerdictTold
      <3>2. told' = [told EXCEPT ![o] = @ \union {v}]
          BY <3>1
      <3>3. Ledger!Announce(o)
          BY <2>5, <3>1, <3>2 DEF Ledger!Announce, Ledger!Verdicts, Verdicts, Agrees
      <3> QED
          BY <3>3 DEF Ledger!Next
    <2> QED
        BY <2>1, <2>2, <2>3, <2>4, <2>5, StepIsLedgerStep DEF LedgerStep
  <1> QED
      BY <1>1, <1>2, TypeCorrect, InvCorrect, PTL DEF Spec, ImplementsLedger, Ledger!Spec
=============================================================================
