CONSTANTS
    N <- TwoChannels
    RxChannels <- RxOfTwo
    Gates <- ChannelGates
    Faults <- AllFaults
    AllowMove = TRUE
SPECIFICATION Spec
CHECK_DEADLOCK FALSE
INVARIANTS
    SettledInterface
    DoorbellsNeedIpa
PROPERTIES
    TeardownErrorsShow
    RssResetAfterDisable
