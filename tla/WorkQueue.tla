------------------------------ MODULE WorkQueue ------------------------------
(***************************************************************************)
(* What a scheduler queue promises: a FIFO from which its owner pops and   *)
(* anybody steals, and one element set aside for the owner's next pop.     *)
(* Elements are numbered in the order in which they are handed in.         *)
(***************************************************************************)
EXTENDS Naturals, Sequences

CONSTANTS Threads, Owner, EMPTY

VARIABLES
    items,      \* the FIFO
    spare,      \* the element set aside, or EMPTY
    got,        \* thread -> what its last pop or steal returned
    given       \* how many elements have been handed in

vars == <<items, spare, got, given>>

Init ==
    /\ items = <<>>
    /\ spare = EMPTY
    /\ got   = [t \in Threads |-> EMPTY]
    /\ given = 0

Push ==
    /\ given' = given + 1
    /\ items' = Append(items, given')
    /\ UNCHANGED <<spare, got>>

\* The new element is set aside; the one that was joins the FIFO.
PriorityPush ==
    /\ given' = given + 1
    /\ spare' = given'
    /\ items' = IF spare = EMPTY THEN items ELSE Append(items, spare)
    /\ UNCHANGED got

TakeHead(t) ==
    /\ UNCHANGED <<spare, given>>
    /\ \/ /\ items # <<>>
          /\ got'   = [got EXCEPT ![t] = Head(items)]
          /\ items' = Tail(items)
       \/ /\ items = <<>>
          /\ got' = [got EXCEPT ![t] = EMPTY]
          /\ UNCHANGED items

Pop ==
    \/ /\ spare # EMPTY
       /\ got'   = [got EXCEPT ![Owner] = spare]
       /\ spare' = EMPTY
       /\ UNCHANGED <<items, given>>
    \/ spare = EMPTY /\ TakeHead(Owner)

Steal(t) == TakeHead(t)

Next == Push \/ PriorityPush \/ Pop \/ \E t \in Threads \ {Owner} : Steal(t)

Spec == Init /\ [][Next]_vars
=============================================================================
