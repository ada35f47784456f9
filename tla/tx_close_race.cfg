CONSTANTS
    NumDesc = 4
    MaxFrags = 1
    Wrap = 16
    PtrWrap = 8
    LsoPatch = FALSE
    Races = {}
SPECIFICATION Spec
INVARIANT AllCleanedUp
