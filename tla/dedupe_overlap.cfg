SPECIFICATION Spec
CONSTANTS
    Checkers = {"timer"}
    NUnits = 2
    Qcmap = 1
    DedupeTimer = 2
    NRules = 1
    MaxAdds = 2
    MaxKills = 0
    Failures = {}
PROPERTY LastCopyKept
