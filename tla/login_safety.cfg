\* Three connections and their first three requests, three names, two slots in
\* either registry.
CONSTANTS
    n1 = n1
    n2 = n2
    n3 = n3
    NoName = NoName
    MaxConns = 3
    Names <- ThreeNames
    MaxClients = 2
    Capacity = 2
    MaxRequests = 3
SPECIFICATION Spec
INVARIANTS
    TypeOK
    OnePlayerPerName
    RefsCoverPointers
    ClientsKept
    LoginsMeanPlayers
    SharedOnlyByRace
PROPERTIES
    LoginIsForGood
    LoginsAnswered
CHECK_DEADLOCK FALSE
