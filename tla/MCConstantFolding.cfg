SPECIFICATION FoldSpec
CONSTANTS
    Graphs <- MCGraphs
    Registered = {"f", "g"}
INVARIANTS
    FoldKeepsValues
    FoldsToFixpoint
    ThrowsExactlyWithoutData
PROPERTY FoldEnds
