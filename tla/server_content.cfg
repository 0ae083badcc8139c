SPECIFICATION Spec
CONSTANTS
    Worker = {w1, w2}
    Hash = {1, 2, 3, 4}
    Images <- ImagesDumped
    Requests <- RequestsSmall
    SizeTBits = 64
    Garbage = {0, 7}
INVARIANTS
    MissingContentRefused
SYMMETRY Threads
CHECK_DEADLOCK FALSE
