CONSTANTS
    p1 = p1
    p2 = p2
    p3 = p3
    p4 = p4
    th1 = th1
    th2 = th2
    NoPlayer = NoPlayer
    Players <- FourPlayers
    Pairs <- AnyPairs
    Threads <- TwoThreads
    StartRatings <- Spread
    MaxPosts = 2
SPECIFICATION Spec
INVARIANTS RatingExplained
PROPERTIES ImplementsAbstractRating PostsEnd
CHECK_DEADLOCK FALSE
