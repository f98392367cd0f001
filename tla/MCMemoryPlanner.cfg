SPECIFICATION PlanSpec
CONSTANTS
    Graphs <- MCGraphs
    Alignment = 2
INVARIANTS
    PlanTypeOK
    OrderIsTopological
    FailsExactlyWhenMalformed
    NoConflictingByteOverlap
    SlotsAligned
    LowestOffset
    LifetimesExact
    ArenaBounds
