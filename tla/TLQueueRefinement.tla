-------------------------- MODULE TLQueueRefinement --------------------------
(***************************************************************************)
(* TLQueue implements WorkQueue: pushes take effect at the store of tail,  *)
(* pops and steals at the store of head or when they read an empty queue.  *)
(***************************************************************************)
EXTENDS TLQueue, Sequences

\* The element a priority_push has moved out of the buffer is set aside until
\* it has joined the FIFO, and the one that replaced it is not handed in yet.
Replacing == op[Owner] = "priority_push" /\ pc[Owner] \notin {"idle", "unlock"}
Pushing   == op[Owner] = "push" /\ pc[Owner] \notin {"idle", "unlock"}

Abstract == INSTANCE WorkQueue WITH
    items <- [i \in 1..(tail - head) |-> At(array, head + i - 1)],
    spare <- IF Replacing THEN elt[Owner] ELSE buffer,
    given <- IF Replacing \/ Pushing THEN given - 1 ELSE given

\* Seen from outside, whatever the interleaving of the owner and the thieves
\* and however often the array is replaced, elements come out in the order in
\* which they went in, each once.
ImplementsWorkQueue == Abstract!Spec
=============================================================================
