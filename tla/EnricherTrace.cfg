SPECIFICATION Spec
CONSTANTS
    Feeds = {"traced"}
    Feed <- MCFeed
    Lossy = {}
    Spans <- MCSpans
    PIDs = {1, 2}
    NumShards = 2
    EvictThreshold = 1
    InflightTTL = 0
    SpanTTL = 1
    SpanCap = 2
    SpanTrim = 1
    MaxClock = 1
INVARIANTS TraceInherited
CHECK_DEADLOCK FALSE
