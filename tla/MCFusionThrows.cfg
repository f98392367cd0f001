SPECIFICATION FuseSpec
CONSTANT Graphs <- MCGraphs
INVARIANT NothingDependsOnDropped
