SPECIFICATION Spec
CONSTANTS
    NoThread = NoThread
    Thread = {s1, s2, s3, r1, r2}
    Sender = {s1, s2, s3}
    Receiver = {r1, r2}
    Chan = {c1, c2}
    SyncChan = {c1}
    Capacity = 1
    InitSize <- MCSize
    NewSizes = {2}
    Msg = {m1, m2, m3}
    Bad = {m3}
    SendTimeouts = {"none", "zero", "timed"}
    RecvTimeouts = {"timed"}
    Sets = {}
    Address = {}
SYMMETRY Symmetry
CHECK_DEADLOCK FALSE
INVARIANTS SleepingSenderOffers NoStrandedReceiver AtMostOnce TrueMeansDelivered
PROPERTY KeepsPromise
