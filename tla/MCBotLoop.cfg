SPECIFICATION FairSpec
CONSTANTS
    TTL = 1
    PageLimit = 2
    ChanCap = 1
    MaxUpdates = 3
    MaxTime = 2
    MaxFaults = 1
INVARIANTS Pipeline RunsOnce RunsInTime
PROPERTIES Handled BotStops
CHECK_DEADLOCK FALSE
