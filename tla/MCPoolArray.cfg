SPECIFICATION Spec
CONSTANTS
    Items = 4
    GCQueueSize = 4
    Classes <- SmallClasses
    Sizes = {2, 3, 4}
    MaxBlocks = 3
INVARIANTS
    FreeListsSound
    QueueInBounds
PROPERTY
    ImplementsAllocator
CHECK_DEADLOCK FALSE
