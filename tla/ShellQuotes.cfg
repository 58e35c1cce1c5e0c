SPECIFICATION Spec
CONSTANTS
    Plain <- MCPlain
    Quoted <- MCExample
    Ops <- MCOps
    AnyQuotes = TRUE
    MaxItems = 3
INVARIANT LineAsTyped
CHECK_DEADLOCK FALSE
