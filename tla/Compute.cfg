SPECIFICATION OrderedSpec
CONSTANTS
    Core = {c1, c2}
    Heap = {h1, h2, h3}
    NoHeap = NoHeap
    Main = Main
    Native = Native
    Job = {1, 2, 3, 4, 5, 6}
    WithFinish = {1, 2, 3}
    Failing = {4}
    Uncopied = {5}
    Calls = {"run", "finish_all", "check_finished", "run_parallel", "native"}
    Nested = {"run", "finish_all"}
    Raising = {3}
    Bound = 64
    Cores = {1, 2, 3, 6}
    Below = 2
    ToPoint = 22
    MaxMinIters = 8
    Points <- MCPoints
    MinIters <- MCMinIters
CHECK_DEADLOCK FALSE
INVARIANTS HeapsInOnePlace EveryJobAccountedFor EveryIterationOnce
PROPERTIES OnlyPartsDisturb EveryCallReturns
