SPECIFICATION LiveSpec
CONSTANTS
    q1 = q1
    q2 = q2
    s1 = s1
    d1 = d1
    b1 = b1
    Queues = {q1, q2}
    Timelines = {s1}
    Binaries = {b1}
    Devices = {d1}
    Batches <- LiveBatches
    HostValues = {}
    MaxJobs = 3
    MaxEpoch = 2
    PresentResults = {"enqueued", "oom", "error"}
    InternalResults = {"submitted"}
    Calls = {"present", "idle", "fence"}
    NoQueue = NoQueue
    NoRelease = NoRelease
    NoTxn = NoTxn
    Untouched = Untouched
PROPERTIES EveryJobRetires CallsReturn
CHECK_DEADLOCK FALSE
