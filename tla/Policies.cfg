SPECIFICATION MCSpec
CONSTANTS
    Threads = {t1, t2, t3}
    Locks = {"fork", "arena", "backend", "huge"}
    Rank <- LockRanks
    ForkLock = "fork"
    MaxHeld = 3
    Nobody = nobody
    t1 = t1
    t2 = t2
    o1 = o1
    o2 = o2
    i1 = i1
    a0 = a0
    a1 = a1
    a2 = a2
    Foreign = foreign
    None = none
    Off = off
SYMMETRY Symmetry
INVARIANTS
    LocksSound RingSound PatternsSound BudgetsKept ProfilesSound RouterSound CallsSound
CHECK_DEADLOCK FALSE
