CONSTANTS
    owner = owner
    thief1 = thief1
    Threads <- Two
    Owner = owner
    InitSize = 1
    MaxPush = 4
SPECIFICATION Spec
INVARIANT TakenOnce
