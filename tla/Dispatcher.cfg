CONSTANTS
    MaxTimers = 3
    Delays = {0, 2}
    Wrap = 9
    MaxLate = 1
    MaxInbox = 1
    MaxFrames = 2
    Careful = TRUE
SPECIFICATION FairSpec
INVARIANTS RunsAtMostOnce NoTimerLost
PROPERTIES InTimeOrder EveryTimerRuns
