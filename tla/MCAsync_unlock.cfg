CONSTANTS
    Builds = {"cl"}
    NWorkers = 3
    Branching = 2
    Depth = 3
    Blocks = {a, b, c, d, e}
    TicketSlots = 8
    NULL = null
SPECIFICATION Spec
SYMMETRY Symmetry
CHECK_DEADLOCK FALSE
INVARIANT FutureLocks
