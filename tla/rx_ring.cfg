CONSTANTS
    NumDesc = 4
    Budget = 2
    Wrap = 8
    Frames = {"good", "error"}
    Races = {}
SPECIFICATION Spec
INVARIANTS
    TypeOK
    InStep
    RingIsAccounted
    DmaHasBuffer
PROPERTY FramesTaken
