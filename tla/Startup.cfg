SPECIFICATION MCSpec
CONSTANTS
    Threads = {t1, t2, t3}
    Nobody = Nobody
    LoadOutcomes = {TRUE, FALSE}
    MaxFailures = 1
    MaxForks = 1
    Base = 2
    Capacity = 8
    Sizes = {0, 3}
    Aligns = {1, 4}
    MaxBlocks = 2
    Nothing = Nothing
    Probers = {t1, t2}
    Hosts <- MCHosts
INVARIANTS FirstCallSafe BootstrapSafe RseqSound
PROPERTIES NoBlindReturn EveryCallEnds
CHECK_DEADLOCK FALSE
