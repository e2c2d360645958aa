SPECIFICATION FairSpec
CONSTANTS
    Orders = {o1}
    Cancels = {}
    Refunds = {}
    alice = alice
    bob = bob
    declined = none
    Customers <- MCCustomers
    Owner <- MCOwner
    Requester <- MCRequester
    Method <- MCMethod
    Amount <- MCAmount
    SyncPayments = {"off"}
    OrderFaultKinds = {}
    MaxOrderFaults = 1
    PaymentFaultKinds = {}
    MaxPaymentFaults = 1
PROPERTIES
    ConsumedCaptureMarksPaid
CHECK_DEADLOCK FALSE
