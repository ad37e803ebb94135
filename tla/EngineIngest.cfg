SPECIFICATION IngestSpec
CONSTANTS
    N = 3
    Invalid = {}
    Halves = {1, 2}
    CommitCap = 1
    DlqCap = 1
    CommitSize = 1
    CommitOutcomes = {TRUE}
    MaxRestarts = 1
    FlushSize = 1
    MaxRetries = 1
INVARIANTS AcknowledgedAccounted
PROPERTY LossOnlyByCrash
CHECK_DEADLOCK FALSE
