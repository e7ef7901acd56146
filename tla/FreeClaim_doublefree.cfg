CONSTANTS
    t1 = t1 t2 = t2 t3 = t3 s1 = s1 s2 = s2 a = a b = b c = c
    Threads = {t1, t2, t3}
    NoThread = NoThread
    NoObject = NoObject
    Spans = {s1}
    Objects = {a, b}
    SpanOf <- OneSpan
    Tags = {"default", "foreign"}
    MaxEmptyCachedPerBin = 1
    Quarantine = FALSE
    DoubleFrees = TRUE
    FreesRaceVends = FALSE
SPECIFICATION Spec
SYMMETRY ThreadSymmetry
INVARIANT FreedOnce
