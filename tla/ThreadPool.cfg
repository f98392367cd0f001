SPECIFICATION FairSpec
CONSTANTS
    NumThreads = 0
    HardwareConcurrency = 3
    MaxN = 5
    MaxCalls = 2
INVARIANTS
    ExactlyOnce
    NoDanglingCallable
    NoLostWakeup
    IInv
PROPERTIES
    ReplacedOnlyWhenIdle
    RefinesParallelFor
    ShutdownCompletes
    ImplementsParallelFor
