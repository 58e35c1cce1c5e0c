SPECIFICATION Spec
CONSTANTS
    m = m
    t1 = t1
    t2 = t2
    Threads = {m, t1, t2}
    Main = m
    ClientOps = {"new", "dup", "resize", "shrink", "free"}
    MaxBlocks = 4
INVARIANT CountTracksHeap
CHECK_DEADLOCK FALSE
