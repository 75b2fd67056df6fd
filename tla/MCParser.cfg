SPECIFICATION Spec
CONSTANTS
    Sources <- MCSources
INVARIANTS
    ContextKept
    ListsProgress
    RangesNested
    TreeWellFormed
    MissingNodesReported
    NoParenthesesAdded
    TreesAsWritten
PROPERTIES
    Terminates
CHECK_DEADLOCK FALSE
