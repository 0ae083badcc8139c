\* Does a run that reports its dump leave it on the disk?
CONSTANTS
    Dumps <- MCDumps
    MaxRuns = 1
SPECIFICATION Spec
INVARIANT DumpedMeansWritten
CHECK_DEADLOCK FALSE
