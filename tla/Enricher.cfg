SPECIFICATION Spec
CONSTANTS
    Feeds = {"thread", "disk", "mixed"}
    Feed <- MCFeed
    Lossy = {"thread", "disk"}
    Spans <- MCSpans
    PIDs = {1, 2}
    NumShards = 2
    EvictThreshold = 1
    InflightTTL = 0
    SpanTTL = 1
    SpanCap = 1
    SpanTrim = 1
    MaxClock = 1
INVARIANTS Accounted SyscallPairsAreCalls BlockPairsRecover
CHECK_DEADLOCK FALSE
