CONSTANTS
    k1 = k1
    k2 = k2
    k3 = k3
    t1 = t1
    t2 = t2
    Coroutines <- ThreeCoroutines
    Threads <- OneThread
    Effects = {e0}
    Effect0 = e0
    ReturnEffect = ret
    NULL = null
    Junk = junk
    NDEBUG = FALSE
    MaxMainSp = 1
SPECIFICATION Spec
SYMMETRY Symmetry
INVARIANT TypeOK
INVARIANT CurrentIsRunning
INVARIANT OneShot
INVARIANT ContextsLive
INVARIANT LocateReadsValidBlocks
INVARIANT SystemStackIsFree
PROPERTY ImplementsEffectHandlers
