SPECIFICATION Spec
CONSTANTS
    Worker = {w1, w2}
    TermNums = {2, 4}
    Dfs <- DfsAll
    HotSize = 3
INVARIANTS
    TypeOK
    ReadsDefined
    TopTerms
PROPERTIES
    CallsProgress
SYMMETRY Threads
CHECK_DEADLOCK FALSE
