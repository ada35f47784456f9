CONSTANTS
    Faults = {"open_mem"}
    Races = {}
SPECIFICATION Spec
CHECK_DEADLOCK FALSE
INVARIANTS
    NapiPaired
    PollIsSafe
    RemovedIsQuiet
    EsdArmed
PROPERTIES
    RtnlReleased
    LinkNoticed
