SPECIFICATION FairSpec
CONSTANTS
    Orders = {o1}
    Refunds = {r1, r2}
    declined = none
    Method <- MCMethod
    Amount <- MCAmount
    FaultKinds = {"crash", "stop", "db", "publish", "consumer"}
    MaxFaults = 2
    MaxOutcomes = 1
INVARIANTS
    TypeOK
    AckedMeansAnnounced
PROPERTIES
    ImplementsLedger
    EveryMessageAcked
CHECK_DEADLOCK FALSE
