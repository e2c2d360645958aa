SPECIFICATION Spec
CONSTANTS
    Orders = {o1}
    Cancels = {c1, c2}
    alice = alice
    bob = bob
    Customers <- MCCustomers
    Owner <- MCOwner
    Requester <- MCRequester
    SyncPayments = {"off"}
    FaultKinds = {}
    MaxFaults = 2
    MaxOutcomes = 1
PROPERTIES
    CancelsOpenOrders
CHECK_DEADLOCK FALSE
