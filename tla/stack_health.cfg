SPECIFICATION Spec
CONSTANTS
    Checkers = {"timer", "manual"}
    NUnits = 2
    Qcmap = 1
    DedupeTimer = 2
    NRules = 1
    MaxAdds = 2
    MaxKills = 1
    Failures = {"restart"}
INVARIANT TypeOK
INVARIANT OneCheck
PROPERTY DownIsRetried
PROPERTY DuplicatesRemoved
PROPERTY TimerSuffices
