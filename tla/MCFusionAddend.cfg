SPECIFICATION FuseSpec
CONSTANT Graphs <- MCGraphs
INVARIANT PreservesNumerics
