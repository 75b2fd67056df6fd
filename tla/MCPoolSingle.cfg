SPECIFICATION Spec
CONSTANTS
    SlotSize = 2
    BlockSize = 6
    GCQueueSize = 2
    MaxBlocks = 3
INVARIANTS
    NoAliasing
    FreeListSound
    NoSlotLost
    QueueInBounds
    DestructorReachesUsedBlocks
PROPERTIES
    ImplementsAllocator
    BlocksReused
CHECK_DEADLOCK FALSE
