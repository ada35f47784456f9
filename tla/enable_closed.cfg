CONSTANTS
    N <- TwoChannels
    RxChannels <- RxOfTwo
    Gates <- NoGates
    Faults = {}
    AllowMove = FALSE
SPECIFICATION Spec
CHECK_DEADLOCK FALSE
PROPERTY EnableReturns
