SPECIFICATION Spec
CONSTANTS
    Hash = {1, 2, 3}
    Lines <- LinesSmall
    K = 2
    MaxLines = 2
    MaxRuns = 2
INVARIANTS
    TypeOK
    SlotsExclusive
    IndexClosed
    RelateNumExact
    CoocWithinDf
    DfWithinWeibos
    RelationsSeen
    TotalExact
    CountsExact
    DumpFaithful
PROPERTIES
    FiltKeepsLeaders
    CountsWhole
CHECK_DEADLOCK FALSE
