SPECIFICATION MCSpec
CONSTANTS
    c1 = c1
    c2 = c2
    d1 = d1
    d2 = d2
    f1 = f1
    f2 = f2
    a1 = a1
    a2 = a2
    Flusher = flusher
    NoCache = NoCache
    Caches = {c1, c2}
    Devices = {d1}
    Paths = {f1, f2}
    PathOf <- TwoFiles
    Apps = {a1, a2}
    Pipelines = {1}
    MaxRevision = 2
    Null = Null
SYMMETRY DeviceSymmetry
INVARIANTS TypeOK NativeAccessSafe NothingForgotten DevicesSound ClosureSound
CHECK_DEADLOCK FALSE
