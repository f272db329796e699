SPECIFICATION FairSpec
CONSTANTS
    c1 = c1
    c2 = c2
    d1 = d1
    d2 = d2
    f1 = f1
    f2 = f2
    a1 = a1
    a2 = a2
    Flusher = flusher
    NoCache = NoCache
    Caches = {c1}
    Devices = {d1}
    Paths = {f1}
    PathOf <- OnlyFile
    Apps = {a1, a2}
    Pipelines = {1, 2}
    MaxRevision = 2
INVARIANTS CleanMeansSaved
PROPERTIES FileNeverGoesBack DirtSaved ThreadsReturn
CHECK_DEADLOCK FALSE
