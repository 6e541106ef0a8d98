CONSTANTS
    a = a
    b = b
    v1 = v1
    v2 = v2
    NoInv = NoInv
    NoClient = NoClient
    Clients <- Two
    Leavers <- Two
    Deaf <- Two
    Invs <- OneInv
    MaxClients = 2
    TargetRoles <- AnyRole
    MaxPosts = 1
    LineWinners <- Nobody
SPECIFICATION Spec
INVARIANTS AckMeansDone PostedGameEnds
PROPERTIES ServedUnlessStuck
CHECK_DEADLOCK FALSE
