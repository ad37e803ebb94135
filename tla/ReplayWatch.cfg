SPECIFICATION WatchSpec
CONSTANTS
    EventCount = 2
    Gapped = {0}
    CallerEnds = TRUE
    MaxPlays = 2
    MaxRewinds = 1
    Watchers = {w1}
    WatchCap = 1
INVARIANTS WatcherGetsEach DeliveredOnce NothingSkipped PlayingIsLive
PROPERTIES PlaybackNotBlocked
CHECK_DEADLOCK FALSE
