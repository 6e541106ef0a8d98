CONSTANTS
    c1 = c1  c2 = c2  c3 = c3  main = main  none = none
    ann = ann  bob = bob  noname = noname
    Conns <- TwoConns
    Main = main
    NoConn = none
    MaxClients = 2
    Names <- TwoNames
    NoName = noname
    Signalled <- MainOnly
SPECIFICATION Spec
CHECK_DEADLOCK FALSE
PROPERTIES RegisterReturns ShutConnectionsEnd TerminationEnds
