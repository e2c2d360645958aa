SPECIFICATION Spec
CONSTANTS
    Orders = {o1}
    Cancels = {c1}
    Refunds = {r1}
    alice = alice
    bob = bob
    declined = none
    Customers <- MCCustomers
    Owner <- MCOwner
    Requester <- MCRequester
    Method <- MCMethod
    Amount <- MCAmount
    SyncPayments = {"off"}
    OrderFaultKinds = {}
    MaxOrderFaults = 1
    PaymentFaultKinds = {}
    MaxPaymentFaults = 1
PROPERTIES
    CancelledIsLast
CHECK_DEADLOCK FALSE
