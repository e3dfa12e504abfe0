SPECIFICATION Spec
CONSTANTS
    Task = {t1, t2, t3}
    NumTasks = 3
    NoTask = NoTask
    Marker = {mk1}
    NoMarker = NoMarker
    CounterRange = 2
    MaxCalls = 3
    Systems = {TRUE, FALSE}
CHECK_DEADLOCK FALSE
INVARIANTS Rendezvous FirstHeapIsStopped NobodyLeftBehind
