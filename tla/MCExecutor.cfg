SPECIFICATION CudaSpec
CONSTANTS
    Graphs <- MCGraphs
    Alignment = 2
    Allocators = {"naive", "planned", "device"}
    Unregistered = {4}
    UnknownIds = {99}
    MaxRuns = 2
INVARIANTS
    ResultsAreMeaning
    NeededTensorsIntact
    SharingIsPlanned
PROPERTIES
    RefinesEvaluator
    RunReturns
