SPECIFICATION MCSpec
CONSTANTS
    d1 = d1
    d2 = d2
    t1 = t1
    t2 = t2
    NoDevice = NoDevice
    Nothing = Nothing
    Devices = {d1, d2}
    Threads = {t1, t2}
    MaxRevision = 5
    Capacity = 1
INVARIANTS TypeOK AnswersTrue EntryCurrent TrustSound
PROPERTIES AtomicQuery CallsReturn TrustReturns
CHECK_DEADLOCK FALSE
