SPECIFICATION ExecSpec
CONSTANTS
    Graphs <- IntermediateOutput
    Alignment = 2
    Allocators = {"naive", "planned"}
    Unregistered = {}
    UnknownIds = {}
    MaxRuns = 1
INVARIANT ResultsAreMeaning
