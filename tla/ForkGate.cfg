SPECIFICATION FairSpec
CONSTANTS
    Threads = {t1, t2}
    NoThread = NoThread
    NumShards = 2
    MaxNesting = 2
    MaxPasses = 2
    MaxForks = 2
INVARIANT GateSound
PROPERTIES ImplementsQuiesceGate EverythingEnds
