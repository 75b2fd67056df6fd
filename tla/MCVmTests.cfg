SPECIFICATION Spec
CONSTANTS
    MaxTypes = 30
    GCQueueSize = 2
    RefGCQueueSize = 30
    MaxStack = 12
    MaxFrames = 6
    MaxLoops = 4
    MaxRuns = 2
    Sources <- TestAndStatementSources
INVARIANTS
    MatchesTests
    StatementsFaithful
    PrinterAgrees
