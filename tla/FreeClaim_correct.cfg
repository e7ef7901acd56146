CONSTANTS
    t1 = t1 t2 = t2 t3 = t3 s1 = s1 s2 = s2 a = a b = b c = c
    Threads = {t1, t2, t3}
    NoThread = NoThread
    NoObject = NoObject
    Spans = {s1, s2}
    Objects = {a, b, c}
    SpanOf <- UnevenSpans
    Tags = {"default", "hinted", "foreign"}
    MaxEmptyCachedPerBin = 1
    Quarantine = FALSE
    DoubleFrees = FALSE
    FreesRaceVends = TRUE
SPECIFICATION Spec
SYMMETRY ThreadSymmetry
INVARIANTS InOnePlace Backed MarksSound
