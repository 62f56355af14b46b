SPECIFICATION Spec
CONSTANTS
    s1 = s1
    s2 = s2
    k1 = k1
    k2 = k2
    k3 = k3
    season1 = season1
    season2 = season2
    Slots <- MCSlots
    Bases <- MCBases
    Commands <- MCCommands
    SeasonCommands <- MCSeasonCommands
    LockedCommands <- MCLockedCommands
    Keys <- MCKeys
    NoKey = NoKey
    AnyRevision = AnyRevision
    NoRoom = NoRoom
    NewStatus = "setup"
    Statuses <- MCStatuses
    StatusAfter <- MCStatusAfter
    Accepts <- MCAccepts
    Cancellable <- MCCancellable
    Expectations <- MCExpectations
    MaxRevision = 4
    MaxCreations = 1
SYMMETRY MCSymmetry
INVARIANTS
    ProjectionIsReplay
    RoomsStayReadable
    ReadsWereCommitted
    AnsweredOnce
PROPERTIES
    ImplementsLog
CHECK_DEADLOCK FALSE
