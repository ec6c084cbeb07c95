------------------------------- MODULE CLQueue -------------------------------
(***************************************************************************)
(* The Chase-Lev deque of src/utils/cl_queue.c on the machine libseff runs *)
(* on, x86-64: the owner's stores go through a store buffer, in order; a   *)
(* sequentially consistent fence and a compare-and-swap wait until it is   *)
(* empty; relaxed, acquire and release accesses are plain ones.  The owner *)
(* is the only one that stores, thieves only compare and swap top.         *)
(*                                                                         *)
(* What the owner alone reads (its bottom, its array) it reads from its    *)
(* own store buffer; the variables in* are what is in memory.              *)
(***************************************************************************)
EXTENDS CircularArray, QueueConstants, Sequences

EMPTY  == 0
ABORT  == -2
Values == 1..MaxPush \cup {EMPTY, Garbage, ABORT}

VARIABLES
    pc,         \* thread -> the next step of its call
    elt,        \* thread -> elt
    arr,        \* thread -> arr
    h,          \* thread -> top as it read it
    top,
    bottom, inBottom,   \* as the owner has it, and in memory
    array, inArray,
    stores,     \* the owner's store buffer, oldest first
    times,      \* element -> how often it has been returned
    given       \* elements handed in so far

vars == <<pc, elt, arr, h, top, bottom, inBottom, array, inArray, slot,
          stores, times, given>>

Store ==
    [to : {"bottom"}, val : Int]
    \cup [to : {"array"}, val : DOMAIN slot]
    \cup [to : {"slot"}, arr : DOMAIN slot, at : Nat, val : Values]

TypeOK ==
    /\ pc \in [Threads -> {"idle", "top", "bottom", "array", "get", "cas"}]
    /\ elt \in [Threads -> Values]
    /\ arr \in [Threads -> DOMAIN slot]
    /\ h \in [Threads -> Nat]
    /\ top \in Nat
    /\ bottom \in Int /\ inBottom \in Int
    /\ bottom - top \in -1..array
    /\ array \in DOMAIN slot /\ inArray \in DOMAIN slot
    /\ ArraysOK(Values)
    /\ stores \in Seq(Store)
    /\ times \in [1..MaxPush -> Nat]
    /\ given \in 0..MaxPush

Init ==
    /\ pc       = [t \in Threads |-> "idle"]
    /\ elt      = [t \in Threads |-> EMPTY]
    /\ arr      = [t \in Threads |-> InitSize]
    /\ h        = [t \in Threads |-> 0]
    /\ top      = 0
    /\ bottom   = 0
    /\ inBottom = 0
    /\ array    = InitSize
    /\ inArray  = InitSize
    /\ slot     = NewArray(InitSize)
    /\ stores   = <<>>
    /\ times    = [e \in 1..MaxPush |-> 0]
    /\ given    = 0

Goto(t, label) == pc' = [pc EXCEPT ![t] = label]

Answer(t, e) ==
    /\ Goto(t, "idle")
    /\ times' = IF e \in 1..MaxPush THEN [times EXCEPT ![e] = @ + 1] ELSE times

\* The oldest store reaches memory.
Flush ==
    /\ stores # <<>>
    /\ stores' = Tail(stores)
    /\ LET s == Head(stores)
       IN  CASE s.to = "bottom" -> /\ inBottom' = s.val
                                   /\ UNCHANGED <<inArray, slot>>
             [] s.to = "array"  -> /\ inArray' = s.val
                                   /\ UNCHANGED <<inBottom, slot>>
             [] s.to = "slot"   -> /\ slot' = [slot EXCEPT ![s.arr][s.at] = s.val]
                                   /\ UNCHANGED <<inBottom, inArray>>
    /\ UNCHANGED <<pc, elt, arr, h, top, bottom, array, times, given>>

\* What the owner reads from a slot: its last store to it, if that has not
\* reached memory, or memory.
Pending(n, i) ==
    {j \in DOMAIN stores : /\ stores[j].to = "slot"
                           /\ stores[j].arr = n
                           /\ stores[j].at = i}

OwnGet(n, i) ==
    LET J == Pending(n, Index(n, i))
    IN  IF J = {} THEN At(n, i)
        ELSE stores[CHOOSE j \in J : \A k \in J : k <= j].val

StoreBottom(b) == [to |-> "bottom", val |-> b]

----------------------------------------------------------------------------
(* The owner's calls                                                       *)

StoreElement(n, e, before) ==
    /\ stores' = stores \o before
                 \o <<[to |-> "slot", arr |-> n, at |-> Index(n, bottom),
                       val |-> e],
                      StoreBottom(bottom + 1)>>
    /\ array'  = n
    /\ bottom' = bottom + 1

Full == bottom - top > array - 1

\* push loads top once; everything else it does is buffered, but for the new
\* array, which nobody sees before its address.  priority_push is push.
Push ==
    /\ pc[Owner] = "idle"
    /\ given < MaxPush
    /\ given' = given + 1
    /\ IF Full
       THEN /\ Resize(array, [i \in top..(bottom - 1) |-> OwnGet(array, i)])
            /\ StoreElement(2 * array, given',
                            <<[to |-> "array", val |-> 2 * array]>>)
       ELSE /\ UNCHANGED slot
            /\ StoreElement(array, given', <<>>)
    /\ UNCHANGED <<pc, elt, arr, h, top, inBottom, inArray, times>>

Pop ==
    /\ pc[Owner] = "idle"
    /\ bottom' = bottom - 1
    /\ stores' = Append(stores, StoreBottom(bottom - 1))
    /\ Goto(Owner, "top")
    /\ UNCHANGED <<elt, arr, h, top, inBottom, array, inArray, slot, times,
                   given>>

\* Mutation: there is no fence between the store of bottom and the load of top.
Unfenced == TRUE

\* atomic_thread_fence(memory_order_seq_cst)
Fenced == stores = <<>>

\* Mutation: bottom stays down.
LeaveBottom == UNCHANGED <<bottom, stores>>

\* pop reserved the last element, or none: bottom goes back up.
RestoreBottom ==
    /\ bottom' = bottom + 1
    /\ stores' = Append(stores, StoreBottom(bottom + 1))

\* top is loaded once the new bottom is in memory.
PopTop ==
    /\ pc[Owner] = "top"
    /\ Fenced
    /\ h' = [h EXCEPT ![Owner] = top]
    /\ \/ /\ top < bottom
          /\ Answer(Owner, OwnGet(array, bottom))
          /\ UNCHANGED <<elt, bottom, stores>>
       \/ /\ top = bottom
          /\ elt' = [elt EXCEPT ![Owner] = OwnGet(array, bottom)]
          /\ Goto(Owner, "cas")
          /\ UNCHANGED <<bottom, stores, times>>
       \/ /\ top > bottom
          /\ Answer(Owner, EMPTY)
          /\ RestoreBottom
          /\ UNCHANGED elt
    /\ UNCHANGED <<arr, top, inBottom, array, inArray, slot, given>>

\* The race for the last element
PopCas ==
    /\ pc[Owner] = "cas"
    /\ stores = <<>>
    /\ IF top = h[Owner]
       THEN top' = top + 1 /\ Answer(Owner, elt[Owner])
       ELSE UNCHANGED top /\ Answer(Owner, EMPTY)
    /\ RestoreBottom
    /\ UNCHANGED <<elt, arr, h, inBottom, array, inArray, slot, given>>

----------------------------------------------------------------------------
(* steal                                                                   *)

Steal(t) ==
    /\ t # Owner
    /\ pc[t] = "idle"
    /\ h' = [h EXCEPT ![t] = top]
    /\ Goto(t, "bottom")
    /\ UNCHANGED <<elt, arr, top, bottom, inBottom, array, inArray, slot,
                   stores, times, given>>

StealBottom(t) ==
    /\ pc[t] = "bottom"
    /\ IF h[t] < inBottom THEN Goto(t, "array") /\ UNCHANGED times
                          ELSE Answer(t, EMPTY)
    /\ UNCHANGED <<elt, arr, h, top, bottom, inBottom, array, inArray, slot,
                   stores, given>>

StealArray(t) ==
    /\ pc[t] = "array"
    /\ arr' = [arr EXCEPT ![t] = inArray]
    /\ Goto(t, "get")
    /\ UNCHANGED <<elt, h, top, bottom, inBottom, array, inArray, slot,
                   stores, times, given>>

StealGet(t) ==
    /\ pc[t] = "get"
    /\ elt' = [elt EXCEPT ![t] = At(arr[t], h[t])]
    /\ Goto(t, "cas")
    /\ UNCHANGED <<arr, h, top, bottom, inBottom, array, inArray, slot,
                   stores, times, given>>

StealCas(t) ==
    /\ t # Owner
    /\ pc[t] = "cas"
    /\ IF top = h[t]
       THEN top' = top + 1 /\ Answer(t, elt[t])
       ELSE UNCHANGED top /\ Answer(t, ABORT)
    /\ UNCHANGED <<elt, arr, h, bottom, inBottom, array, inArray, slot,
                   stores, given>>

----------------------------------------------------------------------------
Next ==
    \/ Push \/ Pop \/ PopTop \/ PopCas \/ Flush
    \/ \E t \in Threads : \/ Steal(t) \/ StealBottom(t) \/ StealArray(t)
                          \/ StealGet(t) \/ StealCas(t)

Spec == Init /\ [][Next]_vars

----------------------------------------------------------------------------
(* Properties.                                                             *)

\* The owner's pop races with any number of steals, for the last element and
\* across replacements of the array, while stores are still buffered: no
\* element is returned twice.
TakenOnce == \A e \in 1..MaxPush : times[e] <= 1

\* And none is lost: whenever nobody is inside a call, what has been handed in
\* and not returned is between top and bottom.
NoneLost ==
    (\A t \in Threads : pc[t] = "idle") =>
        \A e \in 1..given :
            times[e] = 0 => \E i \in top..(bottom - 1) : OwnGet(array, i) = e
=============================================================================
