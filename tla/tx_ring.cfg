CONSTANTS
    NumDesc = 3
    MaxFrags = 1
    Wrap = 12
    PtrWrap = 4
    LsoPatch = FALSE
    Races = {}
SPECIFICATION Spec
INVARIANTS
    TypeOK
    RingIsAccounted
    ChipInStep
PROPERTIES
    NoOverwrite
    QueueRestarts
