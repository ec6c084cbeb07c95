CONSTANTS
    owner = owner
    thief1 = thief1
    thief2 = thief2
    Threads <- Three
    Owner = owner
    InitSize = 1
    MaxPush = 4
    TKInitSize = 2
    TKMaxPush = 3
SPECIFICATION QueuesSpec
SYMMETRY Symmetry
VIEW LiveState
INVARIANT QueuesTypeOK
INVARIANT NoFreedAccess
INVARIANT DequeTypeOK
INVARIANT TakenOnce
INVARIANT NoneLost
PROPERTY ImplementsWorkQueue
PROPERTY TicketImplementsWorkQueue
