CONSTANTS
    N <- ThreeChannels
    RxChannels <- RxOfThree
    Gates <- NoGates
    Faults <- UnwoundFaults
    AllowMove = FALSE
SPECIFICATION Spec
CHECK_DEADLOCK FALSE
INVARIANTS
    TypeOK
    NoOops
    FreedRingsAreIdle
    IdleHoldsNothing
    UnwatchedIsQuiet
PROPERTIES
    OfflineIsSynchronous
    ConvergesUp
    ConvergesDown
    UnwatchTerminates
    ImplementsPath
