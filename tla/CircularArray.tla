---------------------------- MODULE CircularArray ----------------------------
(***************************************************************************)
(* The arrays of src/utils/circular_array.h, in which the three queues     *)
(* keep their elements.  An array is known by its size: a queue replaces   *)
(* its array only by one of twice the size, so no two are alike.           *)
(***************************************************************************)
EXTENDS Integers

VARIABLE slot       \* array -> its slots, for the arrays allocated so far

Garbage  == -1      \* a slot nobody has written
Slots(n) == 0..(n - 1)

\* circular_array_new: the first array of a queue
NewArray(n) == [m \in {n} |-> [i \in Slots(n) |-> Garbage]]

\* idx & arr->mask
Index(n, i) == i % n

\* CA_GET and CA_SET
At(n, i) == slot[n][Index(n, i)]

SetAt(n, i, e) == slot' = [slot EXCEPT ![n][Index(n, i)] = e]

\* circular_array_resize: an array twice the size of n, with the elements that
\* were read at the indices from head (top) to tail (bottom).
Resize(n, elements) ==
    slot' = [m \in DOMAIN slot \cup {2 * n} |->
               IF m # 2 * n THEN slot[m]
               ELSE [i \in Slots(2 * n) |->
                       IF \E j \in DOMAIN elements : Index(2 * n, j) = i
                       THEN elements[CHOOSE j \in DOMAIN elements :
                                       Index(2 * n, j) = i]
                       ELSE Garbage]]

\* Every array has its slots, and they hold values.
ArraysOK(Values) ==
    /\ DOMAIN slot \subseteq Nat \ {0}
    /\ \A n \in DOMAIN slot : slot[n] \in [Slots(n) -> Values]
=============================================================================
