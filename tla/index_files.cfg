\* MakeNetIndex writing its index files, and both loaders.
CONSTANTS
    Dumps <- MCDumps
    MaxRuns = 2
SPECIFICATION Spec
INVARIANTS TypeOK NewTotalsOneDump MappedAsLoaded
PROPERTY AllOrNothing
\* after MaxRuns runs nothing has to happen any more
CHECK_DEADLOCK FALSE
