SPECIFICATION Spec
CONSTANTS
    Threads = {t1, t2}
    Nobody = Nobody
    MaxArenas = 3
    Rights = {"alloc"}
    U64Max = 3
    Quotas = {1, 2}
    Sizes = {1}
    Used = {1, 2}
    Asked = {{}, {"alloc"}}
    MaxGeneration = 3
SYMMETRY ThreadSymmetry
INVARIANTS TreeSound QuotaKept StaleHandlesStayStale
CHECK_DEADLOCK FALSE
