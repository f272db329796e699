SPECIFICATION Spec
CONSTANTS
    q1 = q1
    q2 = q2
    s1 = s1
    d1 = d1
    b1 = b1
    Queues = {q1, q2}
    Timelines = {s1}
    Binaries = {b1}
    Devices = {d1}
    Batches <- BinaryBatches
    HostValues = {1}
    MaxJobs = 3
    MaxEpoch = 2
    PresentResults = {"enqueued", "oom"}
    InternalResults = {"submitted", "refused"}
    Calls = {"present", "acquire"}
    NoQueue = NoQueue
    NoRelease = NoRelease
    NoTxn = NoTxn
    Untouched = Untouched
SYMMETRY QueueSymmetry
INVARIANTS NoResignalBeforeWait
CHECK_DEADLOCK FALSE
