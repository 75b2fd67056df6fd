SPECIFICATION Spec
CONSTANTS
    Texts = {t1, t2}
    Absent = absent
    Cut = cut
    EditWhileRunning = FALSE
    MaxWrites = 6
INVARIANT ExecutesSavedText
PROPERTY WarmWhenUnchanged
