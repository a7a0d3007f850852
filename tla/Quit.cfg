\* A fleet of two, every way to quit, two real signals of a kind.
CONSTANTS
    n1 = n1
    n2 = n2
    Nodes <- TwoNodes
    FleetStates <- AnyFleet
    Attempts = 2
    MaxRounds = 3
    MaxPresses = 2
SPECIFICATION LiveSpec
CHECK_DEADLOCK FALSE
INVARIANTS
    ExitCodeIsTrue
    NothingLeftUnasked
    NoneComesUpBehind
PROPERTY
    UnattendedEnds
