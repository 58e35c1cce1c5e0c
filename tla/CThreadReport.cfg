SPECIFICATION Spec
CONSTANTS
    N = 2
    Joins = FALSE
INVARIANT DetachedThreadsFinished
CHECK_DEADLOCK FALSE
