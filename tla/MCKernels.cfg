SPECIFICATION KernelSpec
CONSTANTS
    Tile = 2
    NeonTile = 2
    Block <- MCBlock
    NeonBlocks <- MCNeonBlocks
    Builds = {TRUE, FALSE}
    PoolThreads = 2
    MinRows = 3
    MinFlops = 30
    Problems <- MCProblems
    MaxCalls = 2
    Backends = {"cpu", "cuda"}
    BlockThreads = 3
    DeviceTile = 2
    WarpTile = 2
    WarpsPerSide = 2
    Operations <- MCOperations
INVARIANTS
    CIsProduct
    PackingStaysInside
    SameBitsForAnySplit
    OutputsAreMeaning
    DeviceIsProduct
    OneThreadPerCell
    BarriersMeet
