CONSTANTS
    MaxRequests = 2
    Delays = {0, 1}
    Thread = {p1, p2}
    Socket = {s1}
    MaxMessages = 1
    MaxClock = 1
SPECIFICATION FairSpec
INVARIANTS OneThreadInPoll SetOutlivesNotify NotSleptThrough CalledOnce
PROPERTY EveryCallbackCalled
CHECK_DEADLOCK FALSE
