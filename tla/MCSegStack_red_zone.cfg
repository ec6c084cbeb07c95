CONSTANTS
    Coroutines = {k1}
    Segments = {s1, s2}
    NULL = null
    Frames = {264}
    Params = {0}
    InitialSize = 256
    MinSegment = 0
    SyscallSegment = 8192
    SmallFrame = 256
    Padding = 128
    RedZone = 128
    MaxCalls = 1
SPECIFICATION Spec
INVARIANT RedZoneFits
