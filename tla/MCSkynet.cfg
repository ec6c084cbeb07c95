CONSTANTS
    NWorkers = 2
    Tasks = {a, b, c, d}
    NULL = null
    MaxScheduled = 1
    MaxRequests = 30
    Styles = {"sleep", "poll"}
    Branching = 3
    Depth = 2
    TicketSlots = 8
    Branchings = {2, 3}
    Depths = {1, 2, 3}
SPECIFICATION SkynetSpec
INVARIANT ProgramTypeOK
INVARIANT FutureLocks
INVARIANT AwaitedIsReady
INVARIANT SleepersAreAwaited
INVARIANT TotalIsRight
PROPERTY RunReturns
