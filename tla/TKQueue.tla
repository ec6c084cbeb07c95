------------------------------- MODULE TKQueue -------------------------------
(***************************************************************************)
(* The queue of src/utils/tk_queue.c: a circular array whose head is moved *)
(* by compare-and-swap, with a tail and a buffer that are the owner's.     *)
(* A step of a thread is one access to memory another thread writes, in    *)
(* program order.                                                          *)
(***************************************************************************)
EXTENDS CircularArray, Sequences

CONSTANTS
    Threads,
    Owner,      \* the unique producer
    InitSize,   \* slots of the first array
    MaxPush     \* bound: elements handed in

TKQueueAssumption ==
    /\ Owner \in Threads
    /\ InitSize \in Nat \ {0}
    /\ MaxPush \in Nat

EMPTY  == 0
Values == 1..MaxPush \cup {EMPTY, Garbage}

VARIABLES
    pc,         \* thread -> the next step of its call
    elt,        \* thread -> elt, the element it carries
    arr,        \* thread -> arr
    h,          \* thread -> head as it read it
    head, tail, buffer, array,
    got,        \* thread -> what its last pop or steal returned
    times,      \* element -> how often it has been returned
    given,      \* elements handed in so far
    replacing   \* the push under way moves the old buffer

vars == <<pc, elt, arr, h, head, tail, buffer, array, slot, got, times,
          given, replacing>>

Labels == {"idle", "push", "grow", "set", "tail", "pop", "array", "head",
           "empty", "get", "cas"}

TypeOK ==
    /\ pc \in [Threads -> Labels]
    /\ elt \in [Threads -> Values]
    /\ arr \in [Threads -> DOMAIN slot]
    /\ h \in [Threads -> Nat]
    /\ head \in Nat
    /\ tail \in Nat
    /\ tail - head \in 0..array
    /\ buffer \in Values
    /\ array \in DOMAIN slot
    /\ ArraysOK(Values)
    /\ got \in [Threads -> Values]
    /\ times \in [1..MaxPush -> Nat]
    /\ given \in 0..MaxPush
    /\ replacing \in BOOLEAN

Init ==
    /\ pc     = [t \in Threads |-> "idle"]
    /\ elt    = [t \in Threads |-> EMPTY]
    /\ arr    = [t \in Threads |-> InitSize]
    /\ h      = [t \in Threads |-> 0]
    /\ head   = 0
    /\ tail   = 0
    /\ buffer = EMPTY
    /\ array  = InitSize
    /\ slot   = NewArray(InitSize)
    /\ got    = [t \in Threads |-> EMPTY]
    /\ times  = [e \in 1..MaxPush |-> 0]
    /\ given  = 0
    /\ replacing = FALSE

Goto(t, label) == pc' = [pc EXCEPT ![t] = label]

\* t's call returns e.
Answer(t, e) ==
    /\ Goto(t, "idle")
    /\ got'   = [got EXCEPT ![t] = e]
    /\ times' = IF e \in 1..MaxPush THEN [times EXCEPT ![e] = @ + 1] ELSE times

----------------------------------------------------------------------------
(* push and priority_push                                                  *)

StartPush(e, old) ==
    /\ elt' = [elt EXCEPT ![Owner] = e]
    /\ replacing' = old
    /\ Goto(Owner, "push")

Push ==
    /\ pc[Owner] = "idle"
    /\ given < MaxPush
    /\ given' = given + 1
    /\ StartPush(given', FALSE)
    /\ UNCHANGED <<arr, h, head, tail, buffer, array, slot, got, times>>

PriorityPush ==
    /\ pc[Owner] = "idle"
    /\ given < MaxPush
    /\ given'  = given + 1
    /\ buffer' = given'
    /\ IF buffer # EMPTY THEN StartPush(buffer, TRUE)
                         ELSE UNCHANGED <<pc, elt, replacing>>
    /\ UNCHANGED <<arr, h, head, tail, array, slot, got, times>>

\* Mutation: the array is replaced one element too late.
FullLate == tail - head > array

Full == tail - head > array - 1

\* The owner reads head; array and tail are its own.
PushRead ==
    /\ pc[Owner] = "push"
    /\ arr' = [arr EXCEPT ![Owner] = array]
    /\ h'   = [h EXCEPT ![Owner] = head]
    /\ Goto(Owner, IF Full THEN "grow" ELSE "set")
    /\ UNCHANGED <<elt, head, tail, buffer, array, slot, got, times, given,
                   replacing>>

\* circular_array_resize, and the store of the new array; the old one stays.
Grow ==
    /\ pc[Owner] = "grow"
    /\ Resize(array, [i \in h[Owner]..(tail - 1) |-> At(array, i)])
    /\ array' = 2 * array
    /\ arr'   = [arr EXCEPT ![Owner] = 2 * array]
    /\ Goto(Owner, "set")
    /\ UNCHANGED <<elt, h, head, tail, buffer, got, times, given, replacing>>

SetSlot ==
    /\ pc[Owner] = "set"
    /\ SetAt(arr[Owner], tail, elt[Owner])
    /\ Goto(Owner, "tail")
    /\ UNCHANGED <<elt, arr, h, head, tail, buffer, array, got, times, given,
                   replacing>>

StoreTail ==
    /\ pc[Owner] = "tail"
    /\ tail' = tail + 1
    /\ replacing' = FALSE
    /\ Goto(Owner, "idle")
    /\ UNCHANGED <<elt, arr, h, head, buffer, array, slot, got, times, given>>

----------------------------------------------------------------------------
(* pop and steal                                                           *)

Pop ==
    /\ pc[Owner] = "idle"
    /\ \/ /\ buffer # EMPTY
          /\ Answer(Owner, buffer)
          /\ buffer' = EMPTY
       \/ /\ buffer = EMPTY
          /\ Goto(Owner, "pop")
          /\ UNCHANGED <<buffer, got, times>>
    /\ UNCHANGED <<elt, arr, h, head, tail, array, slot, given, replacing>>

PopRead ==
    /\ pc[Owner] = "pop"
    /\ arr' = [arr EXCEPT ![Owner] = array]
    /\ h'   = [h EXCEPT ![Owner] = head]
    /\ IF head = tail THEN Answer(Owner, EMPTY)
                      ELSE Goto(Owner, "get") /\ UNCHANGED <<got, times>>
    /\ UNCHANGED <<elt, head, tail, buffer, array, slot, given, replacing>>

Steal(t) ==
    /\ t # Owner
    /\ pc[t] = "idle"
    /\ Goto(t, "array")
    /\ UNCHANGED <<elt, arr, h, head, tail, buffer, array, slot, got, times,
                   given, replacing>>

\* Once for all the rounds of the loop
StealArray(t) ==
    /\ pc[t] = "array"
    /\ arr' = [arr EXCEPT ![t] = array]
    /\ Goto(t, "head")
    /\ UNCHANGED <<elt, h, head, tail, buffer, array, slot, got, times, given,
                   replacing>>

StealHead(t) ==
    /\ pc[t] = "head"
    /\ h' = [h EXCEPT ![t] = head]
    /\ Goto(t, "empty")
    /\ UNCHANGED <<elt, arr, head, tail, buffer, array, slot, got, times,
                   given, replacing>>

StealTail(t) ==
    /\ pc[t] = "empty"
    /\ IF h[t] = tail THEN Answer(t, EMPTY)
                      ELSE Goto(t, "get") /\ UNCHANGED <<got, times>>
    /\ UNCHANGED <<elt, arr, h, head, tail, buffer, array, slot, given,
                   replacing>>

GetSlot(t) ==
    /\ pc[t] = "get"
    /\ elt' = [elt EXCEPT ![t] = At(arr[t], h[t])]
    /\ Goto(t, "cas")
    /\ UNCHANGED <<arr, h, head, tail, buffer, array, slot, got, times, given,
                   replacing>>

\* Mutation: head is stored without the comparison.
StoreHeadAnyway(t) ==
    /\ pc[t] = "cas"
    /\ head' = h[t] + 1
    /\ Answer(t, elt[t])
    /\ UNCHANGED <<elt, arr, h, tail, buffer, array, slot, given, replacing>>

\* The compare-and-swap of head; who fails reads head again.
CasHead(t) ==
    /\ pc[t] = "cas"
    /\ IF head = h[t]
       THEN head' = head + 1 /\ Answer(t, elt[t])
       ELSE /\ Goto(t, IF t = Owner THEN "pop" ELSE "head")
            /\ UNCHANGED <<head, got, times>>
    /\ UNCHANGED <<elt, arr, h, tail, buffer, array, slot, given, replacing>>

----------------------------------------------------------------------------
Pushing == PushRead \/ Grow \/ SetSlot \/ StoreTail

Taking(t) ==
    \/ t = Owner /\ PopRead
    \/ StealArray(t) \/ StealHead(t) \/ StealTail(t)
    \/ GetSlot(t) \/ CasHead(t)

Next ==
    \/ Push \/ PriorityPush \/ Pop \/ Pushing
    \/ \E t \in Threads : Steal(t) \/ Taking(t)

Spec == Init /\ [][Next]_vars

----------------------------------------------------------------------------
(* Properties.                                                             *)

\* As in TLQueueRefinement: a push takes effect at the store of tail.
InPush == pc[Owner] \in {"push", "grow", "set", "tail"}

Abstract == INSTANCE WorkQueue WITH
    items <- [i \in 1..(tail - head) |-> At(array, head + i - 1)],
    spare <- IF InPush /\ replacing THEN elt[Owner] ELSE buffer,
    given <- IF InPush THEN given - 1 ELSE given

\* A thief in its loop whose array has been replaced since it read it.
Overtaken(t) == pc[t] \in {"head", "empty", "get", "cas"} /\ arr[t] # array

\* Pops and steals that race for the head get the elements in order, each once,
\* while the array wraps around and is replaced; the only steps of which this
\* is not claimed are those of a thief that was overtaken (see TakenOnce).
ImplementsWorkQueue ==
    /\ Abstract!Init
    /\ [][Abstract!Next \/ \E t \in Threads : Overtaken(t) /\ CasHead(t)
         ]_Abstract!vars

\* No element is returned twice, by pop or by steal.
TakenOnce == \A e \in 1..MaxPush : times[e] <= 1
=============================================================================
