SPECIFICATION PagesSpec
CONSTANTS
    Wires <- MCWires
    MAX_MESSAGES = 2
    INITIAL_BACKOFF = 1
    MAX_BACKOFF = 4
    MaxDrops = 1
    EVENT_TYPES = {"tcp", "sys"}
    StreamCap = 1
    TimelineCap = 2
    Windows = {1}
    MaxView = 2
INVARIANTS NoDuplicates PageCurrent
PROPERTIES Reconnects LiveDespiteHistory
