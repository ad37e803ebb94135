SPECIFICATION FairSpec
CONSTANTS
    Events = {e1, e2, e3}
    Unencodable = {e3}
    Callers = {c1, c2}
    FlushSize = 2
    MaxRetries = 3
INVARIANTS Conservation NoLostWakeup SettledAccounted CloseDrains CopiesBounded
PROPERTIES EventuallySettled
CHECK_DEADLOCK FALSE
