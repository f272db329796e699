SPECIFICATION MCSpec
CONSTANTS
    Threads = {t1, t2}
    v1 = v1
    v2 = v2
    Views = {v1, v2}
    Formats = {rgba, depth}
    Attachments <- Lists
    AppPasses = {p}
    PassHandles = {h1, h2, h3}
    FrameHandles = {b1, b2}
    Synthetic = {s1, s2}
    Passes = {p1, p2}
    Natives = {n1, n2}
    Null = Null
SYMMETRY Symmetry
INVARIANTS RenderingStays ObjectsSound FramebuffersSound
