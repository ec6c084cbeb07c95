CONSTANTS
    Coroutines = {k1, k2}
    Segments = {s1, s2, s3}
    NULL = null
    Frames = {248, 520}
    Params = {304}
    InitialSize = 272
    MinSegment = 0
    SyscallSegment = 16
    SmallFrame = 256
    Padding = 128
    RedZone = 128
    MaxCalls = 2
SPECIFICATION Spec
SYMMETRY Symmetry
INVARIANT TypeOK
INVARIANT StackTopIsOfSegmentInUse
INVARIANT FramesFit
INVARIANT SegmentsAccountedFor
