SPECIFICATION Spec
CONSTANTS
    Worker = {w1, w2}
    Hash = {1, 2, 3, 4}
    Images <- ImagesAll
    Requests <- RequestsSmall
    SizeTBits = 64
    Garbage = {0, 7}
INVARIANTS
    TypeOK
    OwnAnswer
    WalkDefined
    CoocRanked
SYMMETRY Threads
CHECK_DEADLOCK FALSE
