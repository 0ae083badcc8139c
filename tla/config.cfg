\* Three objects one after the other, includes three files deep.
SPECIFICATION Spec
CONSTANTS
    File = {"f", "g", "h"}
    Key = {"a", "b"}
    Value = {"1", "2", "a", "b"}
    Split = {"=", "tab"}
    Disks <- MCDisks
    Limit = 2
    MaxLoads = 3
    MaxSets = 1
INVARIANTS TypeOK CountIsDepth LastWins SavedReloads
PROPERTY LoadReturns
CHECK_DEADLOCK FALSE
