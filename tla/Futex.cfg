SPECIFICATION Spec
CONSTANTS
    t1 = t1
    t2 = t2
    t3 = t3
    Threads = {t1, t2, t3}
    Rounds = 2
INVARIANTS MutualExclusion NoLostWakeup
PROPERTY ImplementsAtomicCounter
CHECK_DEADLOCK FALSE
