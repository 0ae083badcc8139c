\* What the header says of the depth of the recursion, with the code's limit.
SPECIFICATION Spec
CONSTANTS
    File = {"f", "g", "h"}
    Key = {"a", "b"}
    Value = {"1", "2", "a", "b"}
    Split = {"=", "tab"}
    Disks <- MCDisks
    Limit = 10
    MaxLoads = 1
    MaxSets = 0
INVARIANT RecursionExcludesLimit
CHECK_DEADLOCK FALSE
