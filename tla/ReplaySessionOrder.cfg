SPECIFICATION Spec
CONSTANTS
    EventCount = 3
    Gapped = {0}
    CallerEnds = FALSE
    MaxPlays = 2
    MaxRewinds = 0
INVARIANTS OriginalOrder
CHECK_DEADLOCK FALSE
