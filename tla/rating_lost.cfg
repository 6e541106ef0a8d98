CONSTANTS
    p1 = p1
    p2 = p2
    p3 = p3
    p4 = p4
    th1 = th1
    th2 = th2
    NoPlayer = NoPlayer
    Players <- FourPlayers
    Pairs <- TwoParties
    Threads <- TwoThreads
    StartRatings <- NewPlayers
    MaxPosts = 2
SPECIFICATION Spec
INVARIANT EveryResultCounts
CHECK_DEADLOCK FALSE
