SPECIFICATION TrafficSpec
CONSTANTS
    NoThread = NoThread
    Thread = {s1, s2}
    Sender = {s1, s2}
    Receiver = {}
    Chan = {c1, c2}
    SyncChan = {c1}
    Capacity = 1
    InitSize <- MCSize
    NewSizes = {2}
    Msg = {m1, m2, m3}
    Bad = {}
    SendTimeouts = {"none"}
    RecvTimeouts = {"none"}
    Sets = {set1}
    Address = {a1, a2}
    SetTimeouts = {"none", "timed"}
    Removable = {}
CHECK_DEADLOCK FALSE
INVARIANT SleepingSetHasNoMessage
PROPERTIES EveryMessageServed EverySendReturns
