SPECIFICATION ServingSpec
CONSTANTS
    Parent = {p1, p2}
    Creator = p1
    TaskThread = task
    max_messages = 1
    Msg = {m1, m2, m3}
    Bad = {m3}
    RecvTimeouts = {"none", "zero", "timed"}
CHECK_DEADLOCK FALSE
INVARIANTS NobodySleepsInVain FreedWhenUnused
PROPERTY EverySendReturns
