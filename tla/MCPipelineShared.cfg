SPECIFICATION FirstRun
CONSTANTS
    c1 = c1
    c2 = c2
    d1 = d1
    d2 = d2
    f1 = f1
    f2 = f2
    a1 = a1
    a2 = a2
    Flusher = flusher
    NoCache = NoCache
    Caches = {c1, c2}
    Devices = {d1, d2}
    Paths = {f1}
    PathOf <- OneFile
    Apps = {a1}
    Pipelines = {1, 2}
    MaxRevision = 1
INVARIANTS EveryCleanCacheSaved
CHECK_DEADLOCK FALSE
