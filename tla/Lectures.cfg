SPECIFICATION Spec
CONSTANTS
    Files <- MCFiles
    IntUnits = 2
    MemUnits = 3
    PipeUnits = 3
    Leftovers <- MCLeftovers
    Clients = {c1, c2, c3}
    c1 = c1
    c2 = c2
    c3 = c3
    MaxNumbers = 1
    FdLimit = 2
    Ids = {1, 2}
    Consumers = {k1, k2}
    k1 = k1
    k2 = k2
    MaxMessages = 1
    Spinners = {1, 2, 3}
    Loops = 2
    Codes = {200, 300}
    Waiters = {w1, w2, w3}
    w1 = w1
    w2 = w2
    w3 = w3
    MaxSignals = 3
INVARIANTS NeverBlocks LockAndCounts NoReorderWithFence SectionsWhole StackFreedOnce
    EventsMatch
PROPERTIES ImplementsSimpleSort SortEnds EveryClientServed BatchIsRead EveryIterationEnds
    SpinEnds
CHECK_DEADLOCK FALSE
