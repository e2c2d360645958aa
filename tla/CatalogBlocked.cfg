SPECIFICATION FairSpec
CONSTANTS
    Seed <- MCSeed
    Created <- MCCreated
    Stock <- MCStock
    Lines <- MCLines
    Baskets = {"mixed", "large"}
    MaxFaults = 0
PROPERTIES
    StartupNotBlocked
