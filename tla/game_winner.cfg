CONSTANT Cords <- SplitCords
SPECIFICATION Spec
INVARIANT WinnerOwnsALine
CHECK_DEADLOCK FALSE
