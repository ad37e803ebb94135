SPECIFICATION FairSpec
CONSTANTS
    Threshold = 2
    Events <- MCEvents
    InputCap = 1
    PairLimit = 2
    CrossProcWinSize = 1
    BlockIOWinSize = 1
INVARIANTS EachEventOnce GraphAcyclic
PROPERTIES EdgesStable EventuallyFlushed
CHECK_DEADLOCK FALSE
