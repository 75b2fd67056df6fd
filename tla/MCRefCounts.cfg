SPECIFICATION Spec
CONSTANTS
    Types = {t1, t2, t3, t4}
    Holders = {h1, h2}
    MaxMembers = 2
    GCQueueSize = 1
    Null = null
SYMMETRY Alike
INVARIANTS
    OwnersCounted
    NoDangling
    EverythingReleased
