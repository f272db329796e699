CONSTANTS
    CommandBuffers = {c1}
    Threads = {t1, t2}
    Barriers = {b1, b2}
    Trackers = {x1, x2, x3}
    Generations = 2
    Pipelines = {p, q}
    Kinds <- DrawKinds
    Offsets = {o}
    Instances = {4}
    Counts = {2}
    Undefined = Undefined
    Devices = {d1, d2}
    Commands = {c1}
    Queues = {q1}
    Emulated = {2}
    MaxDevices = 2
    Null = Null
SYMMETRY Symmetry
VIEW MCView
SPECIFICATION MCSpec
INVARIANTS TypeOK CacheReachesMap RoutesSound
PROPERTIES DropsOnlyDuplicates DrawsSound
