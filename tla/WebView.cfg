SPECIFICATION FairSpec
CONSTANTS
    Url = {u1, u2}
    NoUrl = NoUrl
    ManySheets = {u1}
    FewSheets = {u2}
    Many = 4
    Few = 1
    BadScript = {u2}
    SheetsOf <- MCSheets
    Task = {t1}
    QueueSize = 1
    ReplySize = 1
    MAX_REDIRECTS = 1
    LastRequest = 3
    MaxEntries = 2
    MaxLive = 2
CHECK_DEADLOCK FALSE
INVARIANTS LoadsTheCurrentEntry CancelsTheRightWorker WaitHasAnAnswer
PROPERTY EveryLoadEnds
