\* What a comment in AddCooc says of SortIndex.
SPECIFICATION Spec
CONSTANTS
    Hash = {1, 2, 3}
    Lines <- LinesSmall
    K = 2
    MaxLines = 2
    MaxRuns = 1
INVARIANT MemoryAfterSort
CHECK_DEADLOCK FALSE
