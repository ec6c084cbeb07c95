------------------------------ MODULE MCQueues ------------------------------
(***************************************************************************)
(* A work queue used by its owner and two thieves, for TLC: the spinlock   *)
(* queue, the ticket queue or the Chase-Lev deque.  Those that are not     *)
(* used stay empty.                                                        *)
(***************************************************************************)
EXTENDS TLQueueRefinement, TLC

CONSTANTS
    owner, thief1, thief2,
    TKInitSize, TKMaxPush   \* InitSize and MaxPush of the ticket queue

Three == {owner, thief1, thief2}

VARIABLES
    queue,      \* "tl", "tk" or "cl"
    kpc, kelt, karr, kh, khead, ktail, kbuffer, karray, kslot, kgot, ktimes,
    kgiven, replacing,
    cpc, celt, carr, ch, top, bottom, inBottom, carray, inArray, cslot, stores,
    ctimes, cgiven

TK == INSTANCE TKQueue WITH
        InitSize <- TKInitSize, MaxPush <- TKMaxPush, pc <- kpc, elt <- kelt,
        arr <- karr, h <- kh, head <- khead, tail <- ktail,
        buffer <- kbuffer, array <- karray, slot <- kslot, got <- kgot,
        times <- ktimes, given <- kgiven

ASSUME QueuesAssumption == TK!TKQueueAssumption

tkVars == <<kpc, kelt, karr, kh, khead, ktail, kbuffer, karray, kslot, kgot,
            ktimes, kgiven, replacing>>

CL == INSTANCE CLQueue WITH
        pc <- cpc, elt <- celt, arr <- carr, h <- ch, array <- carray,
        slot <- cslot, times <- ctimes, given <- cgiven

clVars == <<cpc, celt, carr, ch, top, bottom, inBottom, carray, inArray, cslot,
            stores, ctimes, cgiven>>

queuesVars == <<queue, vars, tkVars, clVars>>

QueuesInit == queue \in {"tl", "tk", "cl"} /\ Init /\ TK!Init /\ CL!Init

TLStep == queue = "tl" /\ Next /\ UNCHANGED <<queue, tkVars, clVars>>
TKStep == queue = "tk" /\ TK!Next /\ UNCHANGED <<queue, vars, clVars>>
CLStep == queue = "cl" /\ CL!Next /\ UNCHANGED <<queue, vars, tkVars>>

QueuesNext == TLStep \/ TKStep \/ CLStep

QueuesSpec == QueuesInit /\ [][QueuesNext]_queuesVars

\* The type invariants of the locked and the ticket queue: every field keeps
\* its type, and head, tail and the installed array stay a window of at most
\* one lap.
QueuesTypeOK == TypeOK /\ TK!TypeOK

\* CLQueue's type invariant: bottom falls one below top at most, and the
\* elements between them fit in the array.
DequeTypeOK == CL!TypeOK

\* CLQueue's property: whatever is still in the owner's store buffer, no
\* element of the deque is returned twice.
TakenOnce == CL!TakenOnce

\* CLQueue's property: when every call has returned, what was pushed on the
\* deque and not returned is in it.
NoneLost == CL!NoneLost

\* TKQueue's property: as long as no thief is overtaken by a replacement of
\* the array, elements come out of the ticket queue in order, each once.
TicketImplementsWorkQueue == TK!ImplementsWorkQueue

\* What TLC tells states apart by: everything but the locals of the deque's
\* calls that no later step reads.
LiveState ==
    <<queue, vars, tkVars, cpc,
      [t \in Threads |-> IF cpc[t] = "cas" THEN celt[t] ELSE CL!EMPTY],
      [t \in Threads |-> IF cpc[t] = "get" THEN carr[t] ELSE InitSize],
      [t \in Threads |-> IF cpc[t] \in {"idle", "top"} THEN 0 ELSE ch[t]],
      top, bottom, inBottom, carray, inArray, cslot, stores, ctimes, cgiven>>

Symmetry == Permutations(Threads \ {Owner})
=============================================================================
