SPECIFICATION DecodeSpec
CONSTANTS
    Layers = 2
    Prompts <- MCPrompts
    Lengths <- MCLengths
    Positions = 4
    MaxNew = 3
INVARIANT BenchAgrees
