CONSTANTS
    c1 = c1  c2 = c2  c3 = c3  main = main  none = none
    ann = ann  bob = bob  noname = noname
    Conns <- ThreeConns
    Main = main
    NoConn = none
    MaxClients = 2
    Names <- TwoNames
    NoName = noname
    Signalled <- AnyThread
SPECIFICATION Spec
CHECK_DEADLOCK FALSE
SYMMETRY SameConns
INVARIANTS TypeOK CountIsExact SemaphoreTracksEmpty NoExitUnderAClient TableSound
    LookupReturnsFound
