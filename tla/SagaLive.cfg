SPECIFICATION FairSpec
CONSTANTS
    Orders = {o1}
    Cancels = {c1}
    Refunds = {r1}
    alice = alice
    bob = bob
    declined = none
    Customers <- MCCustomers
    Owner <- MCOwner
    Requester <- MCRequester
    Method <- MCMethod
    Amount <- MCAmount
    SyncPayments = {"off", "http"}
    OrderFaultKinds = {"crash", "publish", "consumer"}
    MaxOrderFaults = 1
    PaymentFaultKinds = {"crash", "stop", "db", "publish", "consumer"}
    MaxPaymentFaults = 1
INVARIANTS
    PaidOnlyIfCharged
    StrayHasCause
PROPERTIES
    QueuedOutcomeSettles
    OrderComesToRest
CHECK_DEADLOCK FALSE
