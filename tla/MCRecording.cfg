SPECIFICATION MCSpec
CONSTANTS
    g1 = g1
    g2 = g2
    VkDevices = {g1, g2}
    Nothing = Nothing
    Profiles <- AnyOne
    CommandBuffers = {c}
    Devices = {d1, d2}
    VertexLimit = 2
    DrawLimit = 2
    CommandLimit = 1
    Cap = 4
    MaxScopes = 2
    Buffers = {c}
    a = a
    b = b
    e1 = e1
    Layouts = {a, b}
    SetHandles = {h1}
    PipeHandles = {p}
    Templates = {t}
    Elements = {e1, e2}
    Values = {x}
    Lengths = {2}
    PoolSize = 2
    Batch = 2
    MaxPools = 2
    Undefined = Undefined
    Null = Null
VIEW MCView
SYMMETRY Symmetry
INVARIANTS TilerSound PushesSound NothingMissed
