SPECIFICATION Spec
CONSTANTS
    t1 = t1
    t2 = t2
    a = a
    b = b
    c = c
    d = d
    back = back
    flex = flex
    NoSale = NoSale
    Teams <- MCTeams
    Players <- MCPlayers
    PositionOf <- MCPositionOf
    RosterSlots <- MCRosterSlots
    Eligible <- MCEligible
    RosterMaximum <- MCRosterMaximum
    Snake = TRUE
    DraftOrder <- MCDraftOrder
    RosterSize = 3
    Rounds = 3
    Budget = 3
    MinBid = 1
    SaleInputs <- MCSaleInputs
    RosterInputs <- MCRosterInputs
    MaxRevision = 7
INVARIANTS
    PicksInTurn
    ClockTeamHasRoom
    PlayersOnceUntilCorrectionUndone
    HolesOnlyAtTail
CHECK_DEADLOCK FALSE
