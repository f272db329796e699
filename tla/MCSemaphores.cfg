SPECIFICATION MCSpec
CONSTANTS
    q1 = q1
    q2 = q2
    s1 = s1
    d1 = d1
    Queues = {q1, q2}
    Timelines = {s1}
    Binaries = {}
    Devices = {d1}
    Batches <- TokenBatches
    HostValues = {1, 2}
    MaxJobs = 3
    MaxEpoch = 0
    PresentResults = {}
    InternalResults = {}
    Calls = {"idle"}
    NoQueue = NoQueue
    NoRelease = NoRelease
    NoTxn = NoTxn
    Untouched = Untouched
    s2 = s2
    Semaphores = {s1, s2}
    Threads = {t1, t2}
    Fences = {f1, f2}
    Null = Null
    Submissions <- LegacySubmissions
    Lookups <- LegacyLookups
    LegacyHostValues = {1}
    MaxSignals = 3
VIEW MCView
SYMMETRY QueueSymmetry
INVARIANTS TypeOK CounterJustified TokensWaitedOnce PrivateObjectsOutliveUse FenceCoversSubmission LegacySound
PROPERTIES CountersGrow FirstAcquireCovers
CHECK_DEADLOCK FALSE
