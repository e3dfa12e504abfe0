CONSTANTS
    Values = {0, 1, 2}
    Garbage = Garbage
    LastPage = 20
    Process = {w, r}
    Writer = {w}
    MaxCalls = 3
    MaxDepth = 2
    MaxCrashes = 2
    LengthsOrdered = TRUE
    LongerAllowed = TRUE
CONSTANTS
    InitialContent <- MCInitialContent
    Writes <- MCWrites
    Sizes <- MCSizes
SPECIFICATION Spec
INVARIANTS ReadsItsOwnWrites NeverCorrupted ReadersSeeCommitted
PROPERTY Transactional
CHECK_DEADLOCK FALSE
