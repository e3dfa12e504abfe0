CONSTANTS
    Values = {0, 1, 2}
    Garbage = Garbage
    LastPage = 20
    Process = {w}
    Writer = {w}
    MaxCalls = 1
    MaxDepth = 1
    MaxCrashes = 1
    LengthsOrdered = TRUE
    LongerAllowed = TRUE
CONSTANTS
    InitialContent <- MCInitialContent
    Writes <- MCWideWrites
    Sizes <- MCSizes
SPECIFICATION Spec
INVARIANT NeverCorrupted
CHECK_DEADLOCK FALSE
