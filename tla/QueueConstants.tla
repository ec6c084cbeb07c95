--------------------------- MODULE QueueConstants ---------------------------
\* What the locked queue and the Chase-Lev deque are created with and used by.
EXTENDS Integers

CONSTANTS
    Threads,
    Owner,      \* the unique producer
    InitSize,   \* slots of the first array
    MaxPush     \* bound: elements handed in

ASSUME QueueAssumption ==
    /\ Owner \in Threads
    /\ InitSize \in Nat \ {0}
    /\ MaxPush \in Nat
=============================================================================
