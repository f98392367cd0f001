SPECIFICATION FuseSpec
CONSTANT Graphs <- MCGraphs
INVARIANTS
    PreservesBiasChains
    NothingLeftToFuse
    FusedGraphSorts
