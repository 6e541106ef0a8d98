CONSTANTS
    a = a
    b = b
    v1 = v1
    v2 = v2
    NoInv = NoInv
    NoClient = NoClient
    Clients <- Two
    Leavers <- Nobody
    Deaf <- Nobody
    Invs <- OneInv
    MaxClients = 2
    TargetRoles <- Second
    MaxPosts = 2
    LineWinners <- First
SPECIFICATION Spec
INVARIANT PostedOnce
CHECK_DEADLOCK FALSE
