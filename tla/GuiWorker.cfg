SPECIFICATION FairSpec
CONSTANTS
    Worker = {w1}
    NoWorker = NoWorker
    Platforms = {"gtk", "win32"}
    MaxMessages = 2
    ToGui = 4
    ToWorker = 4
    MaxDepth = 3
CHECK_DEADLOCK FALSE
INVARIANTS FreedWhenUnused NothingLeftBehind
PROPERTY MessagesGetThrough
