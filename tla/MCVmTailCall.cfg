SPECIFICATION Spec
CONSTANTS
    MaxTypes = 36
    GCQueueSize = 3
    RefGCQueueSize = 30
    MaxStack = 12
    MaxFrames = 5
    MaxLoops = 3
    MaxRuns = 2
    Sources <- CallInFalseBranch
INVARIANT TailCallOutsideLoops
