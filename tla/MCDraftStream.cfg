SPECIFICATION FairSpec
CONSTANTS
    page = page
    Pages <- MCPages
    Limit = 1
    MaxRevision = 3
    MaxLives = 2
    MaxFaults = 1
INVARIANTS
    TypeOK
    EventsInOrder
    WakesMeanNews
PROPERTIES
    StreamsCatchUp
    PagesCatchUp
CHECK_DEADLOCK FALSE
