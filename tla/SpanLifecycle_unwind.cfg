SPECIFICATION Spec
CONSTANTS
    Threads = {t1, t2}
    Classes = {1, 2}
    Arenas = {a, b}
    Places = {p, q}
    AnyPlace = any
    Cap = 2
    WordBits = 1
    InlineWords = 1
    MaxEmpty = 1
    MaxBatch = 2
    MaxCreates = 3
    Does = {{"fail", "reset"}}
INVARIANT PoolWellFormed
CHECK_DEADLOCK FALSE
