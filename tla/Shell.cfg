SPECIFICATION Spec
CONSTANTS
    Plain <- MCPlain
    Quoted <- MCQuoted
    Ops <- MCOps
    AnyQuotes = FALSE
    MaxItems = 3
INVARIANTS LineAsTyped CommandsAsMeant NothingLeft
PROPERTY EveryLineEnds
CHECK_DEADLOCK FALSE
