SPECIFICATION Spec
CONSTANTS
    Orders = {o1, o2}
    Cancels = {}
    Refunds = {}
    alice = alice
    bob = bob
    declined = o1
    Customers <- MCCustomers
    Owner <- MCOwner
    Requester <- MCRequester
    Method <- MCMethod
    Amount <- MCAmount
    SyncPayments = {"off"}
    OrderFaultKinds = {"consumer"}
    MaxOrderFaults = 1
    PaymentFaultKinds = {"consumer"}
    MaxPaymentFaults = 1
INVARIANTS
    PaidOnlyIfCharged
    CancelledHasCause
    StrayHasCause
PROPERTIES
    OrderAlone
    PaymentAlone
CHECK_DEADLOCK FALSE
