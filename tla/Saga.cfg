SPECIFICATION Spec
CONSTANTS
    Orders = {o1}
    Cancels = {c1, c2}
    Refunds = {r1}
    alice = alice
    bob = bob
    declined = o1
    Customers <- MCCustomers
    Owner <- MCOwner
    Requester <- MCRequester
    Method <- MCMethod
    Amount <- MCAmount
    SyncPayments = {"off", "http"}
    OrderFaultKinds = {"crash", "db", "publish", "consumer"}
    MaxOrderFaults = 1
    PaymentFaultKinds = {"crash", "stop", "db", "publish", "consumer"}
    MaxPaymentFaults = 1
INVARIANTS
    PaidOnlyIfCharged
    CancelledHasCause
    StrayHasCause
PROPERTIES
    OrderAlone
    PaymentAlone
CHECK_DEADLOCK FALSE
