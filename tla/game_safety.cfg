CONSTANT Cords <- SplitCords
SPECIFICATION Spec
INVARIANTS TurnBalance BoardIsReadable OverHasCause
PROPERTIES MarksArePermanent ImplementsAbstractGame AnsweredUnlessLeaked
CHECK_DEADLOCK FALSE
