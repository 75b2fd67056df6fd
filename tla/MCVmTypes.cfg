SPECIFICATION Spec
CONSTANTS
    MaxTypes = 60
    GCQueueSize = 3
    RefGCQueueSize = 60
    MaxStack = 12
    MaxFrames = 5
    MaxLoops = 3
    MaxRuns = 2
    Sources <- TypeSources
INVARIANTS
    TypeOK
    NoFault
    NoDangling
    OwnersCounted
    CacheFaithful
    TailCallInTailPosition
    ReturnBalanced
    EverythingReleased
PROPERTY
    Terminates
