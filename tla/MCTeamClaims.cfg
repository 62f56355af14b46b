SPECIFICATION ClaimsSpec
CONSTANTS
    founder = founder
    ann = ann
    bea = bea
    east = east
    west = west
    i1 = i1
    i2 = i2
    i3 = i3
    p1 = p1
    p2 = p2
    Nobody = Nobody
    NoTeam = NoTeam
    NoInvite = NoInvite
    Users <- MCUsers
    Teams <- MCTeams
    Invites <- MCInvites
    Processes <- MCProcesses
    Founders <- MCFounders
SYMMETRY MCSymmetry
INVARIANTS
    ClaimsTypeOK
    ManagersOwnOneTeam
    OneLinkEach
PROPERTIES
    NobodyIsDisplaced
    AdmittedByLiveInvitation
