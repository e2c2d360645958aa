SPECIFICATION FairSpec
CONSTANTS
    Requests <- MCRequests
    Address <- MCAddress
    User <- MCUser
    Route <- MCRoute
    Services <- MCServices
    Garbled <- MCGarbled
    Admins = {"admin"}
    Limit = 2
    Window = 2
    Lifetime = 1
    MaxTime = 2
    MaxChanges = 1
INVARIANTS
    TypeOK
    RateBounded
PROPERTIES
    HealthFits
    ListsFit
    EveryRequestEnds
CHECK_DEADLOCK FALSE
