SPECIFICATION Spec
CONSTANTS
    Orders = {o1}
    Cancels = {c1, c2, c3}
    alice = alice
    bob = bob
    Customers <- MCCustomers
    Owner <- MCOwner
    Requester <- MCRequester
    SyncPayments = {"off", "http"}
    FaultKinds = {"crash", "db", "publish", "consumer"}
    MaxFaults = 2
    MaxOutcomes = 1
INVARIANTS
    TypeOK
    AnnouncedPaidStaysPaid
PROPERTIES
    FinalOnceQuiet
CHECK_DEADLOCK FALSE
