SPECIFICATION BinarySpec
CONSTANTS
    q1 = q1
    q2 = q2
    s1 = s1
    d1 = d1
    b1 = b1
    Queues = {q1, q2}
    Timelines = {s1}
    Binaries = {b1}
    Devices = {d1}
    Batches <- BinaryBatches
    HostValues = {1}
    MaxJobs = 3
    MaxEpoch = 2
    PresentResults = {"enqueued", "oom"}
    InternalResults = {"submitted"}
    Calls = {"present", "acquire", "idle"}
    NoQueue = NoQueue
    NoRelease = NoRelease
    NoTxn = NoTxn
    Untouched = Untouched
VIEW BinaryView
SYMMETRY QueueSymmetry
INVARIANTS BinaryAlternates NoOrphanEpoch NothingStagedBehindIo
CHECK_DEADLOCK FALSE
