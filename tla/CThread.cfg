SPECIFICATION Spec
CONSTANTS
    N = 3
    Joins = TRUE
INVARIANTS NoStackFreedInUse RecordOnce
PROPERTY MainEnds
CHECK_DEADLOCK FALSE
