\* Two senders and three packets, one interrupt or foreign byte;
\* one packet fills the connection.
CONSTANTS
    t = t
    u = u
    NoSender = NoSender
    Junk = Junk
    Senders <- TwoSenders
    HeaderSize = 2
    PayloadSizes <- Sizes
    Capacity = 4
    MaxPackets = 3
    MaxMishaps = 1
SPECIFICATION Spec
INVARIANTS
    TypeOK
    ReportedIsWhole
PROPERTIES
    ImplementsAbstractChannel
    
    ReceiverEnds
CHECK_DEADLOCK FALSE
