SPECIFICATION FairSpec
CONSTANTS
    page = page
    Pages <- MCPages
    Limit = 1
    MaxRevision = 3
    MaxLives = 1
    MaxFaults = 1
PROPERTY
    ReconnectionsCatchUp
CHECK_DEADLOCK FALSE
