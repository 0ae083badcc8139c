\* What the header says of SetValue.
SPECIFICATION Spec
CONSTANTS
    File = {"f", "g", "h"}
    Key = {"a", "b"}
    Value = {"1", "2", "a", "b"}
    Split = {"=", "tab"}
    Disks <- MCDisks
    Limit = 2
    MaxLoads = 1
    MaxSets = 2
INVARIANT SetValueModifies
CHECK_DEADLOCK FALSE
