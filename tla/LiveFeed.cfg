SPECIFICATION FairSpec
CONSTANTS
    N = 3
    Invalid = {2}
    Injects = 1
    Sockets = {s1}
    Streams = {g1}
    Cap = 1
INVARIANTS NoSendOnClosed SubscriberGetsEach
PROPERTIES GoneStreamsEnd StopsWithoutStreams
CHECK_DEADLOCK FALSE
