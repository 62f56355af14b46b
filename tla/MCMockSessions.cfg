SPECIFICATION MockSpec
CONSTANTS
    east = east
    west = west
    p1 = p1
    p2 = p2
    k1 = k1
    k2 = k2
    a = a
    b = b
    Seasons <- MCSeasons
    Slots <- MCSlots
    Keys <- MCKeys
    Texts <- MCTexts
    Submissions <- MCSubmissions
    NoSeason = NoSeason
    NoCommand = NoCommand
    Drafts <- MCDrafts
    FinishedDrafts <- MCFinishedDrafts
    MaxCommands = 2
    MaxActive = 2
    MaxActiveOfSeason = 1
    MaxCreations = 2
    Window = 1
    InactiveTtl = 1
    AbandonedRetention = 1
    CompletedRetention = 2
    MaxSessions = 3
    Played <- MCPlayed
    MaxRevision = 2
    MaxTime = 2
SYMMETRY MCSymmetry
INVARIANTS
    MockTypeOK
    ActiveWithinLimits
    CreationsWithinRate
    CheckedCommandsReplay
