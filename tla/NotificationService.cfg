SPECIFICATION FairSpec
CONSTANTS
    LastEvent = 3
    Prefetch = 2
    FaultKinds = {"crash", "shutdown", "connection", "db"}
    MaxFaults = 2
INVARIANTS
    TypeOK
    DocumentsPerFault
    ListSteadyPerFault
PROPERTIES
    EveryEventGone
CHECK_DEADLOCK FALSE
