SPECIFICATION SetSpec
CONSTANTS
    NoThread = NoThread
    Thread = {s1, r1}
    Sender = {s1}
    Receiver = {r1}
    Chan = {c1, c2}
    SyncChan = {c1}
    Capacity = 1
    InitSize <- MCSize
    NewSizes = {}
    Msg = {m1, m2}
    Bad = {m2}
    SendTimeouts = {"none", "zero", "timed"}
    RecvTimeouts = {"none", "zero"}
    Sets = {set1}
    Address = {a1, a2}
    SetTimeouts = {"none", "zero", "timed"}
    Removable = {c1, c2}
SYMMETRY Symmetry
CHECK_DEADLOCK FALSE
INVARIANT ReadyIsListed
