SPECIFICATION Spec
CONSTANTS
    Sources <- CatchSources
INVARIANTS
    ListsProgress
CHECK_DEADLOCK FALSE
