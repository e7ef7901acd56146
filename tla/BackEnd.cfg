SPECIFICATION Spec
CONSTANTS
    Threads = {t1, t2}
    t1 = t1
    Explicit = explicit
    Sampled = sampled
    i1 = i1
    i2 = i2
    a0 = a0
    a1 = a1
    a2 = a2
    x = x
    y = y
    z = z
    None = none
    Off = off
SYMMETRY ThreadSymmetry
INVARIANTS ManagerSound LargeSound ProviderSound HooksSound AccountsSound RegionsSound
PROPERTY BackEndSteps
CHECK_DEADLOCK FALSE
