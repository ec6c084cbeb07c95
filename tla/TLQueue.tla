------------------------------- MODULE TLQueue -------------------------------
(***************************************************************************)
(* The queue of src/utils/tl_queue.c, the one the scheduler is built with: *)
(* a circular array under a spinlock, and a buffer for the owner alone.    *)
(* A step of a thread is one access to the lock, to head and tail, to the  *)
(* pointer to the array, or to a slot.                                     *)
(*                                                                         *)
(* Elements are numbered as they are handed in.                            *)
(***************************************************************************)
EXTENDS CircularArray, QueueConstants

EMPTY  == 0
Values == 1..MaxPush \cup {EMPTY, Garbage}

VARIABLES
    pc,         \* thread -> the next step of its call
    op,         \* thread -> the call
    elt,        \* thread -> elt, the element it carries
    arr,        \* thread -> arr
    h, tl,      \* thread -> head and tail as it read them
    locked, head, tail, buffer, array,
    freed,      \* arrays that have been freed
    got,        \* thread -> what its last pop or steal returned
    given       \* elements handed in so far

locals == <<op, elt, arr, h, tl>>
shared == <<locked, head, tail, buffer, array, slot, freed>>
vars   == <<pc, locals, shared, got, given>>

Labels == {"idle", "lock", "read", "grow", "free", "install", "set", "tail",
           "get", "head", "unlock"}

TypeOK ==
    /\ pc \in [Threads -> Labels]
    /\ op \in [Threads -> {"push", "priority_push", "take"}]
    /\ elt \in [Threads -> Values]
    /\ arr \in [Threads -> DOMAIN slot]
    /\ h \in [Threads -> Nat]
    /\ tl \in [Threads -> Nat]
    /\ locked \in BOOLEAN
    /\ head \in Nat
    /\ tail \in Nat
    /\ buffer \in Values
    /\ array \in DOMAIN slot
    /\ ArraysOK(Values)
    /\ freed \in SUBSET DOMAIN slot
    /\ got \in [Threads -> Values]
    /\ given \in 0..MaxPush

Init ==
    /\ pc     = [t \in Threads |-> "idle"]
    /\ op     = [t \in Threads |-> "take"]
    /\ elt    = [t \in Threads |-> EMPTY]
    /\ arr    = [t \in Threads |-> InitSize]
    /\ h      = [t \in Threads |-> 0]
    /\ tl     = [t \in Threads |-> 0]
    /\ locked = FALSE
    /\ head   = 0
    /\ tail   = 0
    /\ buffer = EMPTY
    /\ array  = InitSize
    /\ slot   = NewArray(InitSize)
    /\ freed  = {}
    /\ got    = [t \in Threads |-> EMPTY]
    /\ given  = 0

Goto(t, label) == pc' = [pc EXCEPT ![t] = label]

----------------------------------------------------------------------------
(* The calls.  push, priority_push and pop are the owner's; anybody else   *)
(* steals.                                                                 *)

StartPush(e, call) ==
    /\ op'  = [op EXCEPT ![Owner] = call]
    /\ elt' = [elt EXCEPT ![Owner] = e]
    /\ Goto(Owner, "lock")

Push ==
    /\ pc[Owner] = "idle"
    /\ given < MaxPush
    /\ given' = given + 1
    /\ StartPush(given', "push")
    /\ UNCHANGED <<arr, h, tl, shared, got>>

PriorityPush ==
    /\ pc[Owner] = "idle"
    /\ given < MaxPush
    /\ given'  = given + 1
    /\ buffer' = given'
    /\ IF buffer # EMPTY THEN StartPush(buffer, "priority_push")
                         ELSE UNCHANGED <<pc, op, elt>>
    /\ UNCHANGED <<arr, h, tl, locked, head, tail, array, slot, freed, got>>

StartTake(t) ==
    /\ pc[t] = "idle"
    /\ op' = [op EXCEPT ![t] = "take"]
    /\ Goto(t, "lock")
    /\ UNCHANGED <<elt, arr, h, tl, shared, got, given>>

Pop ==
    \/ /\ pc[Owner] = "idle"
       /\ buffer # EMPTY
       /\ got'    = [got EXCEPT ![Owner] = buffer]
       /\ buffer' = EMPTY
       /\ UNCHANGED <<pc, locals, locked, head, tail, array, slot, freed, given>>
    \/ buffer = EMPTY /\ StartTake(Owner)

Steal(t) == t # Owner /\ StartTake(t)

----------------------------------------------------------------------------
(* The critical section.                                                   *)

\* Mutation: the lock is taken whether it is free or not.
AcquireAnyway(t) ==
    /\ pc[t] = "lock"
    /\ locked' = TRUE
    /\ Goto(t, "read")
    /\ UNCHANGED <<locals, head, tail, buffer, array, slot, freed, got, given>>

\* ACQUIRE_LOCK: the exchange that finds the lock free
Acquire(t) ==
    /\ pc[t] = "lock"
    /\ ~locked
    /\ locked' = TRUE
    /\ Goto(t, "read")
    /\ UNCHANGED <<locals, head, tail, buffer, array, slot, freed, got, given>>

\* Mutation: the array is replaced one element too late.
ContinueLate(t) ==
    IF op[t] = "take" THEN IF head = tail THEN "unlock" ELSE "get"
    ELSE IF tail - head > array THEN "grow" ELSE "set"

\* Where to go once array, head and tail are read
Continue(t) ==
    IF op[t] = "take" THEN IF head = tail THEN "unlock" ELSE "get"
    ELSE IF tail - head > array - 1 THEN "grow" ELSE "set"

Read(t) ==
    /\ pc[t] = "read"
    /\ arr' = [arr EXCEPT ![t] = array]
    /\ h'   = [h EXCEPT ![t] = head]
    /\ tl'  = [tl EXCEPT ![t] = tail]
    /\ got' = IF Continue(t) = "unlock" THEN [got EXCEPT ![t] = EMPTY] ELSE got
    /\ Goto(t, Continue(t))
    /\ UNCHANGED <<op, elt, shared, given>>

\* circular_array_resize
Grow(t) ==
    /\ pc[t] = "grow"
    /\ Resize(arr[t], [i \in h[t]..(tl[t] - 1) |-> At(arr[t], i)])
    /\ Goto(t, "free")
    /\ UNCHANGED <<locals, locked, head, tail, buffer, array, freed, got, given>>

FreeArray(t) ==
    /\ pc[t] = "free"
    /\ freed' = freed \cup {array}
    /\ Goto(t, "install")
    /\ UNCHANGED <<locals, locked, head, tail, buffer, array, slot, got, given>>

Install(t) ==
    /\ pc[t] = "install"
    /\ array' = 2 * arr[t]
    /\ arr'   = [arr EXCEPT ![t] = 2 * @]
    /\ Goto(t, "set")
    /\ UNCHANGED <<op, elt, h, tl, locked, head, tail, buffer, slot, freed, got,
                   given>>

SetSlot(t) ==
    /\ pc[t] = "set"
    /\ SetAt(arr[t], tl[t], elt[t])
    /\ Goto(t, "tail")
    /\ UNCHANGED <<locals, locked, head, tail, buffer, array, freed, got, given>>

StoreTail(t) ==
    /\ pc[t] = "tail"
    /\ tail' = tl[t] + 1
    /\ Goto(t, "unlock")
    /\ UNCHANGED <<locals, locked, head, buffer, array, slot, freed, got, given>>

GetSlot(t) ==
    /\ pc[t] = "get"
    /\ elt' = [elt EXCEPT ![t] = At(arr[t], h[t])]
    /\ Goto(t, "head")
    /\ UNCHANGED <<op, arr, h, tl, shared, got, given>>

StoreHead(t) ==
    /\ pc[t] = "head"
    /\ head' = h[t] + 1
    /\ got'  = [got EXCEPT ![t] = elt[t]]
    /\ Goto(t, "unlock")
    /\ UNCHANGED <<locals, locked, tail, buffer, array, slot, freed, given>>

Release(t) ==
    /\ pc[t] = "unlock"
    /\ locked' = FALSE
    /\ Goto(t, "idle")
    /\ UNCHANGED <<locals, head, tail, buffer, array, slot, freed, got, given>>

----------------------------------------------------------------------------
Call(t) ==
    \/ t = Owner /\ (Push \/ PriorityPush \/ Pop)
    \/ Steal(t)

Section(t) ==
    \/ Read(t) \/ Grow(t) \/ FreeArray(t) \/ Install(t) \/ SetSlot(t)
    \/ StoreTail(t) \/ GetSlot(t) \/ StoreHead(t) \/ Release(t)

Next == \E t \in Threads : Call(t) \/ Acquire(t) \/ Section(t)

Spec == Init /\ [][Next]_vars

----------------------------------------------------------------------------
(* Properties.                                                             *)

\* push frees the array it replaces at once, which is right only because
\* nobody can hold a pointer to it: no slot is read or written in an array
\* that has been freed.
NoFreedAccess ==
    \A t \in Threads :
        pc[t] \in {"grow", "set", "get"} => arr[t] \notin freed
=============================================================================
