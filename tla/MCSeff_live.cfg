CONSTANTS
    k1 = k1
    k2 = k2
    k3 = k3
    t1 = t1
    t2 = t2
    Coroutines <- TwoCoroutines
    Threads <- TwoThreads
    Effects = {e0}
    Effect0 = e0
    ReturnEffect = ret
    NULL = null
    Junk = junk
    NDEBUG = TRUE
    MaxMainSp = 0
SPECIFICATION FairSpec
PROPERTY LocateTerminates
INVARIANT PointersFormChains
