SPECIFICATION FairSpec
CONSTANTS
    Seed <- MCSeed
    Created <- MCCreated
    Stock <- MCStock
    Lines <- MCLines
    Baskets = {"mixed", "large"}
    MaxFaults = 3
INVARIANTS
    TypeOK
    VerdictFits
    SeedIsPrefix
    AnnouncedIsStored
PROPERTIES
    StartupCompletes
