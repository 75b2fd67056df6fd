SPECIFICATION Spec
CONSTANTS
    Texts = {t1, t2}
    Absent = absent
    Cut = cut
    EditWhileRunning = TRUE
    MaxWrites = 5
INVARIANT NoStaleCache
