CONSTANTS
    a = a
    b = b
    v1 = v1
    v2 = v2
    NoInv = NoInv
    NoClient = NoClient
    Clients <- Two
    Leavers <- OnlyB
    Deaf <- Nobody
    Invs <- OneInv
    MaxClients = 2
    TargetRoles <- Second
    MaxPosts = 1
    LineWinners <- First
SPECIFICATION Spec
PROPERTY LogoutReturns
CHECK_DEADLOCK FALSE
