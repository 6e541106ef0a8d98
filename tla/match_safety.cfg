CONSTANTS
    a = a
    b = b
    v1 = v1
    v2 = v2
    NoInv = NoInv
    NoClient = NoClient
    Clients <- Two
    Leavers <- Nobody
    Deaf <- Nobody
    Invs <- TwoInvs
    MaxClients = 2
    TargetRoles <- Second
    MaxPosts = 1
    LineWinners <- Nobody
SYMMETRY Same
SPECIFICATION Spec
INVARIANTS ListsSound RefsCoverEntries AckMeansDone PostedGameEnds
    GamesMatchStates
PROPERTIES ImplementsInvitation
CHECK_DEADLOCK FALSE
