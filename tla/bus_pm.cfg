CONSTANTS
    Devices = {d1, d2}
    Races = {}
SPECIFICATION Spec
INVARIANTS
    TypeOK
    PmOpsSane
    SuspendPaired
    StoppedIsClean
PROPERTIES
    BoundIsProbed
