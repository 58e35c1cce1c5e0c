SPECIFICATION Spec
CONSTANTS
    m = m
    t1 = t1
    t2 = t2
    Threads = {m, t1, t2}
    Main = m
    ClientOps = {"new", "dup", "resize", "free"}
    MaxBlocks = 3
INVARIANT CountIsLive
CHECK_DEADLOCK FALSE
