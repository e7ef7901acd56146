SPECIFICATION Spec
CONSTANTS
    Threads = {t1, t2}
    Arenas = {a, b}
    Places = {p, q}
    AnyPlace = any
    Empty = empty
    None = none
    Off = off
SYMMETRY Symmetry
INVARIANTS SpansSound SnapshotsSound PagesSound PointersSound
PROPERTY MetadataSteps
CHECK_DEADLOCK FALSE
