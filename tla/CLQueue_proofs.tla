---------------------------- MODULE CLQueue_proofs ----------------------------
(***************************************************************************)
(* The Chase-Lev deque of cl_queue.c returns no element twice and loses    *)
(* none, for any number of thieves, any size of the first array and any    *)
(* number of replacements, on a machine with a store buffer.               *)
(*                                                                         *)
(* The argument: the elements at the indices from top on are the ones not  *)
(* returned; each array in memory, or on its way there, has or will have   *)
(* the elements pushed before it was replaced; and bottom is raised over   *)
(* an index in memory only when the element is there.                      *)
(***************************************************************************)
EXTENDS CLQueue, CircularArray_proofs, SequenceTheorems

----------------------------------------------------------------------------
(* The inductive invariant.  V is a witness: V[i] is the element that was  *)
(* last pushed at index i.                                                 *)

\* The indices below Reach have elements: pop's element is its own until the
\* race for it is over.
Reach == IF pc[Owner] \in {"top", "cas"} THEN bottom + 1 ELSE bottom

\* Store j is the one by which a pop reserves its element.
Lowers(j) == pc[Owner] = "top" /\ j = Len(stores)

\* Store j publishes an element, or restores bottom.
Raises(j) == j \in DOMAIN stores /\ stores[j].to = "bottom" /\ ~Lowers(j)

\* The index of the element that store j publishes
Publishes(j) == stores[j].val - 1

Owners(V) ==
    /\ pc[Owner] \in {"idle", "top", "cas"}
    /\ \A t \in Threads \ {Owner} : pc[t] # "top"
    /\ pc[Owner] = "top" =>
          IF stores = <<>> THEN inBottom = bottom
                           ELSE stores[Len(stores)] = StoreBottom(bottom)
    /\ pc[Owner] = "cas" =>
          /\ stores = <<>> /\ inBottom = bottom
          /\ h[Owner] = bottom /\ top >= bottom
          /\ top = bottom => elt[Owner] = V[bottom]

Window ==
    /\ top <= Reach /\ Reach - top <= array
    /\ inBottom <= Reach

\* The elements at the indices from top to Reach are those that have been
\* handed in and not been returned.
Live(V) ==
    /\ \A i \in top..(Reach - 1) : V[i] \in 1..given /\ times[V[i]] = 0
    /\ \A i, j \in top..(Reach - 1) : V[i] = V[j] => i = j
    /\ \A e \in 1..MaxPush : times[e] <= 1 /\ (e > given => times[e] = 0)
    /\ \A e \in 1..given : times[e] = 0 => \E i \in top..(Reach - 1) : V[i] = e

\* The store buffer: each element is stored before bottom is raised over it.
ArraysAscend ==
    /\ \A j \in DOMAIN stores : stores[j].to = "array" => inArray <= stores[j].val
    /\ \A j, k \in DOMAIN stores :
          stores[j].to = "array" /\ stores[k].to = "array" /\ j < k =>
             stores[j].val <= stores[k].val

Ascends ==
    /\ \A j \in DOMAIN stores : Raises(j) => inBottom < stores[j].val /\ stores[j].val <= Reach
    /\ \A j, k \in DOMAIN stores :
          Raises(j) /\ Raises(k) /\ j < k => stores[j].val < stores[k].val

\* The element of index i has a slot of its own in array m.
Fits(m, i) == top <= i /\ i - top < m

Stored(V, j) ==
    /\ Raises(j + 1)
    /\ Fits(stores[j].arr, Publishes(j + 1))
    /\ stores[j].at = Index(stores[j].arr, Publishes(j + 1))
    /\ stores[j].val = V[Publishes(j + 1)]

Buffer(V) ==
    /\ Ascends
    /\ ArraysAscend
    /\ \A j \in DOMAIN stores : stores[j].to = "slot" => Stored(V, j)
    /\ \A j \in DOMAIN stores : stores[j].to = "array" => Raises(j + 2)

\* The current array is the largest, and its address is on its way to memory.
Largest ==
    /\ \A m \in DOMAIN slot : m <= array
    /\ \/ inArray = array
       \/ \E j \in DOMAIN stores : stores[j].to = "array" /\ stores[j].val = array

\* Array m is replaced before the element of index i is stored.
Replaced(m, i) ==
    \E j \in DOMAIN stores : /\ stores[j].to = "array"
                             /\ stores[j].val > m
                             /\ Publishes(j + 2) <= i

\* The element of index i is on its way to array m.
Coming(m, i) ==
    \E j \in DOMAIN stores : /\ stores[j].to = "slot"
                             /\ stores[j].arr = m
                             /\ Publishes(j + 1) = i

Contents(V) ==
    \A m \in DOMAIN slot : m >= inArray =>
        \A i \in top..(Reach - 1) :
            \/ Replaced(m, i)
            \/ /\ Fits(m, i)
               /\ At(m, i) = V[i] \/ Coming(m, i)

\* A thief that read top, and bottom after it: the element at top is there,
\* or it is the last one and the owner, too, is after it.
Sees(t) ==
    \/ h[t] < inBottom
    \/ /\ h[t] = bottom /\ inBottom = bottom
       /\ stores = <<>> /\ pc[Owner] \in {"top", "cas"}

Thief(V, t) ==
    /\ h[t] <= top
    /\ (h[t] = top /\ pc[t] \in {"array", "get", "cas"}) =>
          /\ Sees(t)
          /\ pc[t] = "get" => At(arr[t], top) = V[top]
          /\ pc[t] = "cas" => elt[t] = V[top]

DequeInv(V) ==
    /\ TypeOK
    /\ Owners(V)
    /\ Window
    /\ Live(V)
    /\ Buffer(V)
    /\ Largest
    /\ Contents(V)
    /\ \A t \in Threads \ {Owner} : Thief(V, t)

----------------------------------------------------------------------------
(* Types.                                                                  *)

LEMMA Types ==
    ASSUME TypeOK
    PROVE  /\ top \in Nat /\ bottom \in Int /\ inBottom \in Int
           /\ array \in Nat \ {0} /\ array \in DOMAIN slot
           /\ inArray \in Nat \ {0} /\ inArray \in DOMAIN slot
           /\ DOMAIN slot \subseteq Nat \ {0}
           /\ Reach \in Int /\ given \in Nat
  BY DEF TypeOK, ArraysOK, Reach

LEMMA StoreKinds ==
    ASSUME TypeOK
    PROVE  /\ Len(stores) \in Nat /\ DOMAIN stores = 1..Len(stores)
           /\ \A j \in DOMAIN stores :
                 /\ stores[j].to \in {"bottom", "array", "slot"}
                 /\ stores[j].to = "bottom" => stores[j].val \in Int
                 /\ stores[j].to = "array" => stores[j].val \in DOMAIN slot
                 /\ stores[j].to = "slot" =>
                       /\ stores[j].arr \in DOMAIN slot
                       /\ stores[j].at \in Nat /\ stores[j].val \in Values
<1>1. stores \in Seq(Store)
  BY DEF TypeOK
<1>2. Len(stores) \in Nat /\ DOMAIN stores = 1..Len(stores)
  BY <1>1
<1>3. \A j \in DOMAIN stores : stores[j] \in Store
  BY <1>1
<1> QED
  BY <1>2, <1>3 DEF Store

\* The types of the store buffer, if no array goes away.
LEMMA StoresTyped ==
    ASSUME stores \in Seq(Store), DOMAIN slot \subseteq DOMAIN slot'
    PROVE  stores \in Seq(Store')
<1>1. Store \subseteq Store'
  BY DEF Store
<1> QED
  BY <1>1

LEMMA PublishesInt ==
    ASSUME TypeOK, NEW j, Raises(j)
    PROVE  /\ j \in DOMAIN stores /\ stores[j].val \in Int
           /\ Publishes(j) \in Int /\ stores[j].val = Publishes(j) + 1
  BY StoreKinds DEF Raises, Publishes

\* While the owner is not inside a pop, or is done with the store buffer,
\* every store of bottom raises it.
LEMMA GotoSets ==
    ASSUME TypeOK, NEW t \in Threads, NEW label, Goto(t, label)
    PROVE  \A u \in Threads : pc'[u] = IF u = t THEN label ELSE pc[u]
  BY DEF TypeOK, Goto

----------------------------------------------------------------------------
(* What the owner reads.                                                   *)

\* A pending store to a slot is of the element of its index.
LEMMA StoredAt ==
    ASSUME NEW V, DequeInv(V), NEW j \in DOMAIN stores, stores[j].to = "slot"
    PROVE  /\ stores[j].arr \in Nat \ {0} /\ stores[j].arr \in DOMAIN slot
           /\ j + 1 \in DOMAIN stores
           /\ Publishes(j + 1) \in top..(Reach - 1)
           /\ Fits(stores[j].arr, Publishes(j + 1))
           /\ inBottom <= Publishes(j + 1)
           /\ stores[j].at = Index(stores[j].arr, Publishes(j + 1))
           /\ stores[j].val = V[Publishes(j + 1)]
<1>1. TypeOK /\ Stored(V, j) /\ Ascends
  BY DEF DequeInv, Buffer
<1>2. /\ Raises(j + 1) /\ j + 1 \in DOMAIN stores /\ Publishes(j + 1) \in Int
      /\ stores[j + 1].val = Publishes(j + 1) + 1
  BY <1>1, PublishesInt DEF Stored
<1>3. inBottom < stores[j + 1].val /\ stores[j + 1].val <= Reach
  BY <1>1, <1>2 DEF Ascends
<1>4. stores[j].arr \in Nat \ {0} /\ stores[j].arr \in DOMAIN slot
  BY <1>1, StoreKinds, Types
<1> QED
  BY <1>1, <1>2, <1>3, <1>4, Types DEF Stored, Fits

\* Indices of elements that fit an array have slots of their own there.
LEMMA SameSlot ==
    ASSUME TypeOK, NEW n \in Nat \ {0}, NEW i \in Int, NEW j \in Int,
           Fits(n, i), Fits(n, j), Index(n, i) = Index(n, j)
    PROVE  i = j
<1>1. j - i < n /\ i - j < n
  BY Types DEF Fits
<1>2. ~(i < j) /\ ~(j < i)
  BY <1>1, SlotsApart
<1> QED
  BY <1>2

\* The index of an element determines the store of it.
LEMMA OneStore ==
    ASSUME NEW V, DequeInv(V), NEW j \in DOMAIN stores, NEW k \in DOMAIN stores,
           stores[j].to = "slot", stores[k].to = "slot",
           Publishes(j + 1) = Publishes(k + 1)
    PROVE  j = k
<1>1. TypeOK /\ Ascends /\ Raises(j + 1) /\ Raises(k + 1)
  BY DEF DequeInv, Buffer, Stored
<1>2. /\ j + 1 \in DOMAIN stores /\ k + 1 \in DOMAIN stores /\ j \in Int /\ k \in Int
      /\ stores[j + 1].val \in Int /\ stores[j + 1].val = stores[k + 1].val
  BY <1>1, PublishesInt, StoreKinds
<1>3. ~(j + 1 < k + 1) /\ ~(k + 1 < j + 1)
  BY <1>1, <1>2 DEF Ascends
<1> QED
  BY <1>2, <1>3

LEMMA NotReplaced ==
    ASSUME NEW V, DequeInv(V), NEW i PROVE ~Replaced(array, i)
<1>1. TypeOK /\ Largest
  BY DEF DequeInv
<1>2. ASSUME NEW j \in DOMAIN stores, stores[j].to = "array"
      PROVE  ~(stores[j].val > array)
  <2>1. PICK m \in DOMAIN slot : m = stores[j].val
    BY <1>1, <1>2, StoreKinds
  <2>2. m <= array /\ m \in Int /\ array \in Int
    BY <1>1, Types DEF Largest
  <2> QED
    BY <2>1, <2>2
<1> QED
  BY <1>2 DEF Replaced

\* The owner finds the elements that are in the queue, in its store buffer or
\* in memory.
LEMMA OwnGetIs ==
    ASSUME NEW V, DequeInv(V), NEW i \in top..(Reach - 1)
    PROVE  OwnGet(array, i) = V[i]
<1> DEFINE J == Pending(array, Index(array, i))
<1>1. TypeOK /\ Contents(V) /\ Largest
  BY DEF DequeInv
<1>2. /\ array \in Nat \ {0} /\ array \in DOMAIN slot /\ array >= inArray
      /\ top \in Int /\ i \in Int
  BY <1>1, Types DEF Largest
<1>3. Fits(array, i) /\ (At(array, i) = V[i] \/ Coming(array, i))
  BY <1>1, <1>2, NotReplaced DEF Contents
<1>4. ASSUME NEW j \in J
      PROVE  /\ j \in DOMAIN stores /\ stores[j].to = "slot"
             /\ Publishes(j + 1) = i /\ stores[j].val = V[i]
  <2>1. j \in DOMAIN stores /\ stores[j].to = "slot" /\ stores[j].arr = array
        /\ stores[j].at = Index(array, i)
    BY DEF Pending
  <2>2. PICK p \in Int : p = Publishes(j + 1)
    BY <2>1, StoredAt, Types, <1>1
  <2>3. /\ Fits(array, p) /\ Index(array, p) = Index(array, i)
        /\ stores[j].val = V[p]
    BY <2>1, <2>2, StoredAt, Types, <1>1
  <2>4. p = i
    BY <1>1, <1>2, <1>3, <2>3, SameSlot
  <2> QED
    BY <2>1, <2>2, <2>3, <2>4
<1>5. CASE J = {}
  <2>1. ~Coming(array, i)
    <3> SUFFICES ASSUME NEW j \in DOMAIN stores, stores[j].to = "slot",
                        stores[j].arr = array, Publishes(j + 1) = i
                 PROVE  FALSE
      BY DEF Coming
    <3>1. j \in J
      BY StoredAt DEF Pending
    <3> QED
      BY <1>5, <3>1
  <2> QED
    BY <1>3, <1>5, <2>1 DEF OwnGet
<1>6. CASE J # {}
  <2>1. PICK j \in J : TRUE
    BY <1>6
  <2>2. \A k \in J : k = j
    BY <1>4, <2>1, OneStore
  <2>3. j \in Int
    BY <1>4, <2>1, StoreKinds, <1>1
  <2>4. (CHOOSE k \in J : \A l \in J : l <= k) = j
    <3> HIDE DEF J
    <3>1. j \in J /\ \A l \in J : l <= j
      BY <2>1, <2>2, <2>3
    <3> QED
      BY <2>2, <3>1
  <2> QED
    BY <1>4, <1>6, <2>1, <2>4 DEF OwnGet
<1> QED
  BY <1>5, <1>6

----------------------------------------------------------------------------
(* The steps by which a thief reads.                                       *)

\* Nothing that the owner sees changes.
OwnerSame ==
    /\ UNCHANGED <<bottom, inBottom, array, inArray, slot, stores, given>>
    /\ pc'[Owner] = pc[Owner] /\ h'[Owner] = h[Owner] /\ elt'[Owner] = elt[Owner]

LEMMA SameStores ==
    ASSUME OwnerSame
    PROVE  /\ Reach' = Reach
           /\ \A j : Raises(j)' <=> Raises(j)
           /\ \A j : Publishes(j)' = Publishes(j)
           /\ \A m, i : Replaced(m, i)' <=> Replaced(m, i)
           /\ \A m, i : Coming(m, i)' <=> Coming(m, i)
<1> USE DEF OwnerSame
<1>1. Reach' = Reach
  BY DEF Reach
<1>2. \A j : Raises(j)' <=> Raises(j)
  BY DEF Raises, Lowers
<1>3. \A j : Publishes(j)' = Publishes(j)
  BY DEF Publishes
<1>4. \A m, i : Replaced(m, i)' <=> Replaced(m, i)
  BY DEF Replaced, Publishes
<1>5. \A m, i : Coming(m, i)' <=> Coming(m, i)
  BY DEF Coming, Publishes
<1> QED
  BY <1>1, <1>2, <1>3, <1>4, <1>5

LEMMA ThiefReads ==
    ASSUME NEW V, DequeInv(V), NEW t \in Threads \ {Owner},
           OwnerSame, UNCHANGED <<top, times>>,
           \A u \in Threads \ {t} : /\ pc'[u] = pc[u] /\ h'[u] = h[u]
                                    /\ elt'[u] = elt[u] /\ arr'[u] = arr[u],
           pc'[t] # "top", TypeOK', Thief(V, t)'
    PROVE  DequeInv(V)'
<1> USE QueueAssumption
<1>1. Owners(V)'
  BY DEF DequeInv, Owners, OwnerSame
<1>2. Window'
  BY SameStores DEF DequeInv, Window, OwnerSame
<1>3. Live(V)'
  BY SameStores DEF DequeInv, Live, OwnerSame
<1>4. Buffer(V)'
  <2>1. Ascends'
    BY SameStores DEF DequeInv, Buffer, Ascends, OwnerSame
  <2>2. \A j \in DOMAIN stores : Stored(V, j) => Stored(V, j)'
    BY SameStores DEF Stored, Fits, OwnerSame
  <2> QED
    BY <2>1, <2>2, SameStores DEF DequeInv, Buffer, ArraysAscend, OwnerSame
<1>5. Largest'
  BY DEF DequeInv, Largest, OwnerSame
<1>6. Contents(V)'
  BY SameStores DEF DequeInv, Contents, Fits, At, OwnerSame
<1>7. ASSUME NEW u \in Threads \ {Owner} PROVE Thief(V, u)'
  <2>1. CASE u = t
    BY <2>1
  <2>2. CASE u # t
    BY <2>2 DEF DequeInv, Thief, Sees, At, OwnerSame
  <2> QED
    BY <2>1, <2>2
<1> QED
  BY <1>1, <1>2, <1>3, <1>4, <1>5, <1>6, <1>7 DEF DequeInv

\* An array store comes with the element that made the array too small.
LEMMA ReplacedAt ==
    ASSUME NEW V, DequeInv(V), NEW j \in DOMAIN stores, stores[j].to = "array"
    PROVE  /\ j + 2 \in DOMAIN stores /\ Raises(j + 2) /\ Publishes(j + 2) \in Int
           /\ stores[j + 2].val = Publishes(j + 2) + 1
           /\ inBottom <= Publishes(j + 2) /\ Publishes(j + 2) < Reach
<1>1. TypeOK /\ Raises(j + 2) /\ Ascends
  BY DEF DequeInv, Buffer
<1>2. /\ j + 2 \in DOMAIN stores /\ Publishes(j + 2) \in Int
      /\ stores[j + 2].val = Publishes(j + 2) + 1
  BY <1>1, PublishesInt
<1>3. inBottom < stores[j + 2].val /\ stores[j + 2].val <= Reach
  BY <1>1, <1>2 DEF Ascends
<1> QED
  BY <1>1, <1>2, <1>3, Types

\* The element that a thief sees at top is in the array that is in memory.
LEMMA InMemory ==
    ASSUME NEW V, DequeInv(V), NEW t \in Threads, h[t] = top, Sees(t)
    PROVE  top \in top..(Reach - 1) /\ At(inArray, top) = V[top]
<1>1. TypeOK /\ Window /\ Contents(V)
  BY DEF DequeInv
<1>2. top < Reach /\ (stores = <<>> \/ top < inBottom)
  BY <1>1, Types DEF Window, Sees, Reach
<1>3. ~Replaced(inArray, top)
  <2> SUFFICES ASSUME NEW j \in DOMAIN stores, stores[j].to = "array", Publishes(j + 2) <= top
               PROVE  FALSE
    BY DEF Replaced
  <2>1. top < inBottom
    BY <1>2
  <2> QED
    BY <1>1, <2>1, ReplacedAt, Types
<1>4. ~Coming(inArray, top)
  <2> SUFFICES ASSUME NEW j \in DOMAIN stores, stores[j].to = "slot", Publishes(j + 1) = top
               PROVE  FALSE
    BY DEF Coming
  <2>1. top < inBottom
    BY <1>2
  <2> QED
    BY <1>1, <2>1, StoredAt, Types
<1>5. inArray \in DOMAIN slot /\ inArray >= inArray /\ top \in top..(Reach - 1)
  BY <1>1, <1>2, Types
<1> QED
  BY <1>1, <1>3, <1>4, <1>5 DEF Contents

LEMMA AnswerSets ==
    ASSUME TypeOK, NEW t \in Threads, NEW e, Answer(t, e)
    PROVE  /\ \A u \in Threads : pc'[u] = IF u = t THEN "idle" ELSE pc[u]
           /\ e \notin 1..MaxPush => times' = times
           /\ \A i \in 1..MaxPush : times'[i] = IF i = e THEN times[i] + 1 ELSE times[i]
           /\ times' \in [1..MaxPush -> Nat]
  BY DEF TypeOK, Answer, Goto

LEMMA StealInv ==
    ASSUME NEW V, DequeInv(V), NEW t \in Threads, Steal(t)
    PROVE  DequeInv(V)'
<1> USE QueueAssumption
<1>1. TypeOK /\ t \in Threads \ {Owner}
  BY DEF DequeInv, Steal
<1>2. \A u \in Threads : pc'[u] = IF u = t THEN "bottom" ELSE pc[u]
  BY <1>1, GotoSets DEF Steal
<1>3. h' \in [Threads -> Nat] /\ \A u \in Threads \ {t} : h'[u] = h[u]
  BY <1>1, Types DEF Steal, TypeOK
<1>4. TypeOK'
  BY <1>1, <1>3 DEF Steal, TypeOK, Goto, ArraysOK, Store
<1>5. OwnerSame /\ UNCHANGED <<top, times, elt, arr>>
  BY <1>1, <1>2, <1>3 DEF OwnerSame, Steal
<1>6. Thief(V, t)'
  <2>1. h'[t] = top /\ top' = top
    BY <1>1 DEF Steal, TypeOK
  <2> QED
    BY <1>1, <1>2, <2>1, Types DEF Thief
<1> QED
  BY <1>1, <1>2, <1>3, <1>4, <1>5, <1>6, ThiefReads

LEMMA StealBottomInv ==
    ASSUME NEW V, DequeInv(V), NEW t \in Threads, StealBottom(t)
    PROVE  DequeInv(V)'
<1> USE QueueAssumption
<1>1. TypeOK /\ t \in Threads \ {Owner} /\ Thief(V, t)
  BY DEF DequeInv, Owners, StealBottom
<1>2. /\ \A u \in Threads \ {t} : pc'[u] = pc[u]
      /\ \/ pc'[t] = "array" /\ h[t] < inBottom
         \/ pc'[t] = "idle"
      /\ times' = times
  <2>1. CASE h[t] < inBottom
    BY <1>1, <2>1, GotoSets DEF StealBottom
  <2>2. CASE ~(h[t] < inBottom)
    BY <1>1, <2>2, AnswerSets DEF StealBottom, EMPTY
  <2> QED
    BY <2>1, <2>2
<1>4. TypeOK'
  <2>1. pc' \in [Threads -> {"idle", "top", "bottom", "array", "get", "cas"}]
    BY <1>1, <1>2 DEF StealBottom, Answer, Goto, TypeOK
  <2> QED
    BY <1>1, <1>2, <2>1 DEF StealBottom, TypeOK, ArraysOK, Store
<1>5. OwnerSame /\ UNCHANGED <<top, times, elt, arr, h>>
  BY <1>1, <1>2 DEF OwnerSame, StealBottom
<1>6. Thief(V, t)'
  BY <1>1, <1>2, <1>5 DEF Thief, Sees, OwnerSame
<1> QED
  BY <1>1, <1>2, <1>4, <1>5, <1>6, ThiefReads

LEMMA StealArrayInv ==
    ASSUME NEW V, DequeInv(V), NEW t \in Threads, StealArray(t)
    PROVE  DequeInv(V)'
<1> USE QueueAssumption
<1>1. TypeOK /\ t \in Threads \ {Owner} /\ Thief(V, t)
  BY DEF DequeInv, Owners, StealArray
<1>2. \A u \in Threads : pc'[u] = IF u = t THEN "get" ELSE pc[u]
  BY <1>1, GotoSets DEF StealArray
<1>3. \A u \in Threads : arr'[u] = IF u = t THEN inArray ELSE arr[u]
  BY <1>1 DEF StealArray, TypeOK
<1>4. TypeOK'
  BY <1>1 DEF StealArray, TypeOK, Goto, ArraysOK, Store
<1>5. OwnerSame /\ UNCHANGED <<top, times, elt, h>>
  BY <1>1, <1>2, <1>3 DEF OwnerSame, StealArray
<1>6. Thief(V, t)'
  <2>1. h[t] = top => Sees(t) /\ At(inArray, top) = V[top]
    BY <1>1, InMemory DEF Thief, StealArray
  <2> QED
    BY <1>1, <1>2, <1>3, <1>5, <2>1 DEF Thief, Sees, OwnerSame, At
<1> QED
  BY <1>1, <1>2, <1>3, <1>4, <1>5, <1>6, ThiefReads

LEMMA StealGetInv ==
    ASSUME NEW V, DequeInv(V), NEW t \in Threads, StealGet(t)
    PROVE  DequeInv(V)'
<1> USE QueueAssumption
<1>1. TypeOK /\ t \in Threads \ {Owner} /\ Thief(V, t)
  BY DEF DequeInv, Owners, StealGet
<1>2. \A u \in Threads : pc'[u] = IF u = t THEN "cas" ELSE pc[u]
  BY <1>1, GotoSets DEF StealGet
<1>3. \A u \in Threads : elt'[u] = IF u = t THEN At(arr[t], h[t]) ELSE elt[u]
  BY <1>1 DEF StealGet, TypeOK
<1>4. At(arr[t], h[t]) \in Values
  BY <1>1, SlotExists DEF TypeOK
<1>5. TypeOK'
  BY <1>1, <1>4 DEF StealGet, TypeOK, Goto, ArraysOK, Store
<1>6. OwnerSame /\ UNCHANGED <<top, times, arr, h>>
  BY <1>1, <1>2, <1>3 DEF OwnerSame, StealGet
<1>7. Thief(V, t)'
  BY <1>1, <1>2, <1>3, <1>6 DEF Thief, Sees, OwnerSame, StealGet
<1> QED
  BY <1>1, <1>2, <1>3, <1>5, <1>6, <1>7, ThiefReads

----------------------------------------------------------------------------
(* The compare-and-swap of a thief.                                        *)

\* The element at top is returned.
LEMMA TakesTop ==
    ASSUME NEW V, DequeInv(V), top < Reach, top' = top + 1, Reach' = Reach, given' = given,
           \A i \in 1..MaxPush : times'[i] = IF i = V[top] THEN times[i] + 1 ELSE times[i]
    PROVE  Live(V)'
<1>1. TypeOK /\ Live(V) /\ top \in Int /\ Reach \in Int
  BY Types DEF DequeInv
<1>0. given \in 0..MaxPush /\ times \in [1..MaxPush -> Nat]
  BY <1>1 DEF TypeOK
<1>00. MaxPush \in Nat
  BY QueueAssumption
<1>2. /\ V[top] \in 1..MaxPush /\ V[top] \in 1..given /\ times[V[top]] = 0
      /\ top \in top..(Reach - 1)
  <2>1. top \in top..(Reach - 1)
    BY <1>1
  <2>2. V[top] \in 1..given /\ times[V[top]] = 0
    BY <1>1, <2>1 DEF Live
  <2> QED
    BY <1>0, <1>00, <2>1, <2>2
<1>3. \A i \in (top + 1)..(Reach - 1) : i \in top..(Reach - 1) /\ V[i] # V[top]
  BY <1>1, <1>2 DEF Live
<1>4. ASSUME NEW i \in (top + 1)..(Reach - 1)
      PROVE  V[i] \in 1..given /\ times'[V[i]] = 0
  <2>1. V[i] \in 1..given /\ times[V[i]] = 0 /\ V[i] # V[top]
    BY <1>1, <1>3 DEF Live
  <2>2. V[i] \in 1..MaxPush
    BY <1>0, <1>00, <2>1
  <2> QED
    BY <2>1, <2>2
<1>5. \A i, j \in (top + 1)..(Reach - 1) : V[i] = V[j] => i = j
  BY <1>1, <1>3 DEF Live
<1>6. \A e \in 1..MaxPush : times'[e] <= 1 /\ (e > given => times'[e] = 0)
  BY <1>1, <1>2 DEF Live, TypeOK
<1>7. ASSUME NEW e \in 1..given, times'[e] = 0
      PROVE  \E i \in (top + 1)..(Reach - 1) : V[i] = e
  <2>1. e # V[top] /\ times[e] = 0
    <3>1. e \in 1..MaxPush /\ times[e] \in Nat
      BY <1>0, <1>00, <1>7
    <3> QED
      BY <1>2, <1>7, <3>1
  <2>2. PICK i \in top..(Reach - 1) : V[i] = e
    BY <1>1, <2>1 DEF Live
  <2>3. i # top /\ i \in (top + 1)..(Reach - 1)
    BY <1>1, <2>1, <2>2
  <2> QED
    BY <2>2, <2>3
<1> QED
  BY <1>4, <1>5, <1>6, <1>7 DEF Live

LEMMA StealCasInv ==
    ASSUME NEW V, DequeInv(V), NEW t \in Threads, StealCas(t)
    PROVE  DequeInv(V)'
<1> USE QueueAssumption
<1>1. TypeOK /\ t \in Threads \ {Owner} /\ Thief(V, t) /\ pc[t] = "cas"
  BY DEF DequeInv, StealCas
<1>2. \A u \in Threads : pc'[u] = IF u = t THEN "idle" ELSE pc[u]
  BY <1>1, AnswerSets DEF StealCas
<1>3. OwnerSame /\ UNCHANGED <<elt, arr, h>>
  BY <1>1, <1>2 DEF OwnerSame, StealCas
<1>4. Reach' = Reach /\ top \in Nat /\ Reach \in Int /\ bottom \in Int /\ array \in Nat
  BY <1>1, <1>3, SameStores, Types
<1>5. CASE top # h[t]
  <2>1. UNCHANGED <<top, times>>
    BY <1>1, <1>5, AnswerSets DEF StealCas, ABORT
  <2>2. TypeOK'
    BY <1>1, <1>5, <2>1 DEF StealCas, Answer, Goto, TypeOK, ArraysOK, Store
  <2>3. Thief(V, t)'
    BY <1>1, <1>2, <1>3, <2>1 DEF Thief
  <2> QED
    BY <1>1, <1>2, <1>3, <2>1, <2>2, <2>3, ThiefReads
<1>6. CASE top = h[t]
  <2>1. /\ Sees(t) /\ elt[t] = V[top] /\ top' = top + 1 /\ Answer(t, elt[t])
    BY <1>1, <1>6 DEF Thief, StealCas
  <2>2. top < Reach /\ (stores = <<>> \/ top < inBottom)
    BY <1>1, <1>4, <1>6, <2>1, InMemory DEF Sees
  <2>3. Live(V)'
    <3>1. given' = given
      BY DEF StealCas
    <3> QED
      BY <1>1, <1>4, <2>1, <2>2, <3>1, AnswerSets, TakesTop
  <2>4. Window'
    BY <1>3, <1>4, <2>1, <2>2 DEF Window, OwnerSame, DequeInv
  <2>5. TypeOK'
    <3>1. bottom' - top' \in -1..array' /\ top' \in Nat
      BY <1>3, <1>4, <2>1, <2>2, <2>4 DEF Window, Reach, OwnerSame
    <3>2. times' \in [1..MaxPush -> Nat] /\ pc' \in [Threads -> {"idle", "top", "bottom", "array", "get", "cas"}]
      BY <1>1, <2>1, AnswerSets DEF TypeOK, Answer, Goto
    <3> QED
      BY <1>1, <1>3, <3>1, <3>2 DEF TypeOK, OwnerSame, ArraysOK, Store
  <2>6. Owners(V)'
    BY <1>1, <1>2, <1>3, <1>4, <2>1 DEF DequeInv, Owners, OwnerSame
  <2>7. Buffer(V)'
    <3>1. Ascends'
      BY <1>3, SameStores DEF DequeInv, Buffer, Ascends, OwnerSame
    <3>2. ASSUME NEW j \in DOMAIN stores, stores[j].to = "slot" PROVE Stored(V, j)'
      <4>1. Publishes(j + 1) \in Int /\ top < Publishes(j + 1) /\ Stored(V, j)
            /\ stores[j].arr \in Nat
        BY <1>1, <1>4, <2>2, <3>2, StoredAt, Types DEF DequeInv, Buffer
      <4>2. Fits(stores[j].arr, Publishes(j + 1))'
        BY <1>3, <1>4, <2>1, <4>1 DEF Stored, Fits, Publishes, OwnerSame
      <4> QED
        BY <1>3, <4>1, <4>2, SameStores DEF Stored, OwnerSame
    <3> QED
      BY <1>3, <3>1, <3>2, SameStores DEF DequeInv, Buffer, ArraysAscend, OwnerSame
  <2>70. Largest'
    BY <1>3 DEF DequeInv, Largest, OwnerSame
  <2>8. Contents(V)'
    <3> SUFFICES ASSUME NEW m \in DOMAIN slot, m >= inArray, NEW i \in (top + 1)..(Reach - 1)
                 PROVE  \/ Replaced(m, i)
                        \/ /\ Fits(m, i)'
                           /\ At(m, i)' = V[i] \/ Coming(m, i)
      BY <1>3, <1>4, <2>1, SameStores DEF Contents, OwnerSame
    <3>1. i \in top..(Reach - 1) /\ m \in Nat
      BY <1>1, <1>4, Types
    <3>2. Fits(m, i) => Fits(m, i)'
      BY <1>4, <2>1, <3>1 DEF Fits
    <3>3. At(m, i)' = At(m, i)
      BY <1>3 DEF At, OwnerSame
    <3> QED
      BY <3>1, <3>2, <3>3 DEF DequeInv, Contents
  <2>9. ASSUME NEW u \in Threads \ {Owner} PROVE Thief(V, u)'
    <3>1. h[u] <= top /\ h[u] \in Nat
      BY <1>1 DEF DequeInv, Thief, TypeOK
    <3> QED
      BY <1>3, <1>4, <2>1, <3>1 DEF Thief
  <2> QED
    BY <2>3, <2>4, <2>5, <2>6, <2>7, <2>70, <2>8, <2>9 DEF DequeInv
<1> QED
  BY <1>5, <1>6

----------------------------------------------------------------------------
(* pop.                                                                    *)

LEMMA StoreBottomTyped == ASSUME NEW b \in Int PROVE StoreBottom(b) \in Store
  BY DEF StoreBottom, Store

LEMMA Appended ==
    ASSUME TypeOK, NEW s \in Store, stores' = Append(stores, s)
    PROVE  /\ Len(stores)' = Len(stores) + 1
           /\ DOMAIN stores' = DOMAIN stores \cup {Len(stores) + 1}
           /\ Len(stores) + 1 \notin DOMAIN stores
           /\ \A j \in DOMAIN stores : stores'[j] = stores[j]
           /\ stores'[Len(stores) + 1] = s
           /\ stores' \in Seq(Store)
<1>1. stores \in Seq(Store)
  BY DEF TypeOK
<1>2. /\ stores' \in Seq(Store) /\ Len(stores') = Len(stores) + 1
      /\ \A j \in 1..Len(stores) : stores'[j] = stores[j]
      /\ stores'[Len(stores) + 1] = s
  BY <1>1, AppendProperties
<1>3. DOMAIN stores = 1..Len(stores) /\ Len(stores) \in Nat
  BY <1>1
<1>4. DOMAIN stores' = 1..Len(stores')
  BY <1>2
<1> QED
  BY <1>2, <1>3, <1>4

\* What has been stored stays in the store buffer as the buffer grows.
LEMMA BufferGrows ==
    ASSUME NEW V, DequeInv(V),
           \A j \in DOMAIN stores : j \in DOMAIN stores' /\ stores'[j] = stores[j]
    PROVE  /\ \A j \in DOMAIN stores : Publishes(j)' = Publishes(j)
           /\ \A m, i : Replaced(m, i) => Replaced(m, i)'
           /\ \A m, i : Coming(m, i) => Coming(m, i)'
<1>1. \A j \in DOMAIN stores : Publishes(j)' = Publishes(j)
  BY DEF Publishes
<1>2. ASSUME NEW m, NEW i, Replaced(m, i) PROVE Replaced(m, i)'
  <2>1. PICK j \in DOMAIN stores :
            stores[j].to = "array" /\ stores[j].val > m /\ Publishes(j + 2) <= i
    BY <1>2 DEF Replaced
  <2>2. j \in DOMAIN stores' /\ stores'[j] = stores[j] /\ Publishes(j + 2)' = Publishes(j + 2)
    BY <1>1, <2>1, ReplacedAt
  <2> QED
    BY <2>1, <2>2 DEF Replaced
<1>3. ASSUME NEW m, NEW i, Coming(m, i) PROVE Coming(m, i)'
  <2>1. PICK j \in DOMAIN stores :
            stores[j].to = "slot" /\ stores[j].arr = m /\ Publishes(j + 1) = i
    BY <1>3 DEF Coming
  <2>2. j \in DOMAIN stores' /\ stores'[j] = stores[j] /\ Publishes(j + 1)' = Publishes(j + 1)
    BY <1>1, <2>1, StoredAt
  <2> QED
    BY <2>1, <2>2 DEF Coming
<1> QED
  BY <1>1, <1>2, <1>3

LEMMA PopInv ==
    ASSUME NEW V, DequeInv(V), Pop PROVE DequeInv(V)'
<1> USE QueueAssumption
<1>1. TypeOK /\ pc[Owner] = "idle" /\ bottom' = bottom - 1
  BY DEF DequeInv, Pop
<1>2. \A u \in Threads : pc'[u] = IF u = Owner THEN "top" ELSE pc[u]
  BY <1>1, GotoSets DEF Pop
<1>3. /\ bottom \in Int /\ top \in Nat /\ array \in Nat /\ inBottom \in Int
      /\ Reach = bottom /\ Reach' = Reach
  BY <1>1, <1>2, Types DEF Reach
<1>4. PICK s \in Store : s = StoreBottom(bottom - 1)
  <2>1. StoreBottom(bottom - 1) \in Store
    BY <1>3, StoreBottomTyped
  <2> QED
    BY <2>1
<1>5. stores' = Append(stores, s)
  BY <1>4 DEF Pop
<1>6. /\ Len(stores)' = Len(stores) + 1
      /\ DOMAIN stores' = DOMAIN stores \cup {Len(stores) + 1}
      /\ Len(stores) + 1 \notin DOMAIN stores
      /\ \A j \in DOMAIN stores : stores'[j] = stores[j]
      /\ stores'[Len(stores) + 1] = s
      /\ stores' \in Seq(Store)
  BY <1>1, <1>5, Appended
<1>7. \A j : Raises(j)' <=> Raises(j)
  BY <1>1, <1>2, <1>6 DEF Raises, Lowers
<1>8. \A j \in DOMAIN stores' : stores'[j].to # "bottom" => j \in DOMAIN stores
  BY <1>4, <1>6 DEF StoreBottom
<1>9. Window'
  BY <1>3 DEF DequeInv, Window, Pop
<1>10. TypeOK'
  <2>1. bottom' - top' \in -1..array' /\ bottom' \in Int
    BY <1>1, <1>3 DEF DequeInv, Window, Pop
  <2>2. stores' \in Seq(Store')
    BY <1>6 DEF Pop, Store
  <2>3. pc' \in [Threads -> {"idle", "top", "bottom", "array", "get", "cas"}]
    BY <1>1 DEF Pop, Goto, TypeOK
  <2> QED
    BY <1>1, <2>1, <2>2, <2>3 DEF Pop, TypeOK, ArraysOK
<1>11. Owners(V)'
  <2>1. stores' # <<>> /\ stores'[Len(stores')] = StoreBottom(bottom')
    BY <1>1, <1>4, <1>6, StoreKinds
  <2> QED
    BY <1>2, <2>1 DEF DequeInv, Owners, StoreBottom
<1>12. Live(V)'
  BY <1>3 DEF DequeInv, Live, Pop
<1>13. Buffer(V)'
  <2>1. Ascends'
    BY <1>1, <1>3, <1>6, <1>7 DEF DequeInv, Buffer, Ascends, Raises, Pop
  <2>2. ASSUME NEW j \in DOMAIN stores, stores[j].to = "slot" PROVE Stored(V, j)'
    <3>1. Stored(V, j) /\ Raises(j + 1)
      BY <2>2 DEF DequeInv, Buffer, Stored
    <3>2. Publishes(j + 1)' = Publishes(j + 1) /\ stores'[j] = stores[j] /\ top' = top
      BY <1>6, <3>1, BufferGrows DEF Raises, Pop
    <3> QED
      BY <1>7, <3>1, <3>2 DEF Stored, Fits
  <2>3. ArraysAscend'
    BY <1>6, <1>8 DEF DequeInv, Buffer, ArraysAscend, Pop
  <2> QED
    BY <1>6, <1>7, <1>8, <2>1, <2>2, <2>3 DEF DequeInv, Buffer
<1>14. Largest'
  BY <1>6 DEF DequeInv, Largest, Pop
<1>15. Contents(V)'
  <2>1. \A m, i : /\ Replaced(m, i) => Replaced(m, i)'
                  /\ Coming(m, i) => Coming(m, i)'
    BY <1>6, BufferGrows
  <2> QED
    BY <1>3, <2>1 DEF DequeInv, Contents, Fits, At, Pop
<1>16. ASSUME NEW t \in Threads \ {Owner} PROVE Thief(V, t)'
  BY <1>1, <1>2 DEF DequeInv, Thief, Sees, At, Pop
<1> QED
  BY <1>9, <1>10, <1>11, <1>12, <1>13, <1>14, <1>15, <1>16 DEF DequeInv

\* The stores of a pop that puts bottom back, when the queue is empty.
LEMMA Restored ==
    ASSUME NEW V, DequeInv(V), RestoreBottom,
           stores = <<>>, inBottom = bottom, pc[Owner] \in {"top", "cas"},
           \A u \in Threads : pc'[u] = IF u = Owner THEN "idle" ELSE pc[u],
           top >= bottom, top' = bottom + 1,
           UNCHANGED <<inBottom, array, inArray, slot>>,
           \A u \in Threads \ {Owner} : h'[u] = h[u]
    PROVE  /\ Reach' = Reach /\ bottom' - top' = 0
           /\ stores' \in Seq(Store)
           /\ Owners(V)' /\ Window' /\ Buffer(V)' /\ Largest' /\ Contents(V)'
           /\ \A t \in Threads \ {Owner} : Thief(V, t)'
<1> USE QueueAssumption
<1>1. TypeOK /\ bottom' = bottom + 1 /\ pc'[Owner] = "idle"
  BY DEF DequeInv, RestoreBottom
<1>2. /\ bottom \in Int /\ top \in Nat /\ array \in Nat \ {0} /\ Reach = bottom + 1
      /\ Reach' = bottom + 1 /\ inBottom \in Int
  BY <1>1, Types DEF Reach
<1>3. PICK s \in Store : s = StoreBottom(bottom + 1)
  <2>1. StoreBottom(bottom + 1) \in Store
    BY <1>2, StoreBottomTyped
  <2> QED
    BY <2>1
<1>4. stores' = Append(stores, s)
  BY <1>3 DEF RestoreBottom
<1>5. Len(stores) = 0 /\ DOMAIN stores = {}
  OBVIOUS
<1>6. /\ DOMAIN stores' = {1} /\ stores'[1] = s /\ stores' \in Seq(Store)
  BY <1>1, <1>4, <1>5, Appended
<1>7. s.to = "bottom" /\ s.val = bottom + 1
  BY <1>3 DEF StoreBottom
<1>8. Owners(V)'
  BY <1>1 DEF DequeInv, Owners
<1>9. Window'
  BY <1>2 DEF DequeInv, Window
<1>10. Buffer(V)'
  BY <1>2, <1>6, <1>7 DEF Buffer, Ascends, ArraysAscend, Raises
<1>11. Largest'
  BY <1>5 DEF DequeInv, Largest
<1>12. Contents(V)'
  BY <1>2 DEF Contents
<1>13. ASSUME NEW t \in Threads \ {Owner} PROVE Thief(V, t)'
  <2>1. h[t] <= top /\ h[t] \in Nat /\ (top = bottom \/ top = bottom + 1)
    <3>1. top <= bottom + 1 /\ top >= bottom
      BY <1>2 DEF DequeInv, Window
    <3>2. h[t] <= top /\ h[t] \in Nat
      BY <1>1 DEF DequeInv, Thief, TypeOK
    <3> QED
      BY <1>2, <3>1, <3>2
  <2>2. h[t] = bottom + 1 => ~(pc[t] \in {"array", "get", "cas"})
    BY <1>2, <2>1 DEF DequeInv, Thief, Sees
  <2> QED
    BY <1>2, <2>1, <2>2 DEF Thief
<1> QED
  BY <1>1, <1>2, <1>6, <1>8, <1>9, <1>10, <1>11, <1>12, <1>13

LEMMA PopCasInv ==
    ASSUME NEW V, DequeInv(V), PopCas PROVE DequeInv(V)'
<1> USE QueueAssumption
<1>1. TypeOK /\ pc[Owner] = "cas" /\ stores = <<>> /\ RestoreBottom /\ Window /\ Owners(V)
  BY DEF DequeInv, PopCas
<1>2. /\ inBottom = bottom /\ h[Owner] = bottom /\ top >= bottom
      /\ top = bottom => elt[Owner] = V[bottom]
      /\ Reach = bottom + 1 /\ top <= Reach
  BY <1>1 DEF Owners, Window, Reach
<1>3. bottom \in Int /\ top \in Nat /\ Reach \in Int /\ array \in Nat
  BY <1>1, Types
<1>4. \/ top = bottom /\ top' = top + 1 /\ Answer(Owner, V[top])
      \/ top = bottom + 1 /\ top' = top /\ Answer(Owner, EMPTY)
  BY <1>2, <1>3 DEF PopCas
<1>5. \A u \in Threads : pc'[u] = IF u = Owner THEN "idle" ELSE pc[u]
  BY <1>1, <1>4, AnswerSets
<1>6. /\ Reach' = Reach /\ bottom' - top' = 0
      /\ stores' \in Seq(Store)
      /\ Owners(V)' /\ Window' /\ Buffer(V)' /\ Largest' /\ Contents(V)'
      /\ \A t \in Threads \ {Owner} : Thief(V, t)'
  <2>1. top' = bottom + 1 /\ UNCHANGED <<inBottom, array, inArray, slot, h>>
    BY <1>3, <1>4 DEF PopCas
  <2> QED
    BY <1>1, <1>2, <1>5, <2>1, Restored
<1>7. Live(V)'
  <2>1. given' = given
    BY DEF PopCas
  <2>2. CASE top = bottom /\ top' = top + 1 /\ Answer(Owner, V[top])
    <3>1. \A i \in 1..MaxPush : times'[i] = IF i = V[top] THEN times[i] + 1 ELSE times[i]
      BY <1>1, <2>2, AnswerSets
    <3> QED
      BY <1>2, <1>3, <1>6, <2>1, <2>2, <3>1, TakesTop
  <2>3. CASE top = bottom + 1 /\ top' = top /\ Answer(Owner, EMPTY)
    <3>1. times' = times
      BY <1>1, <2>3, AnswerSets DEF EMPTY
    <3> QED
      BY <1>6, <2>1, <2>3, <3>1 DEF DequeInv, Live
  <2> QED
    BY <1>4, <2>2, <2>3
<1>8. TypeOK'
  <2>1. times' \in [1..MaxPush -> Nat] /\ pc' \in [Threads -> {"idle", "top", "bottom", "array", "get", "cas"}]
    BY <1>1, <1>4, AnswerSets DEF TypeOK, Answer, Goto
  <2>2. top' \in Nat /\ bottom' \in Int /\ bottom' - top' \in -1..array'
    BY <1>3, <1>4, <1>6 DEF PopCas, RestoreBottom
  <2>3. stores' \in Seq(Store')
    BY <1>6 DEF PopCas, Store
  <2> QED
    BY <1>1, <2>1, <2>2, <2>3 DEF PopCas, TypeOK, ArraysOK
<1> QED
  BY <1>6, <1>7, <1>8 DEF DequeInv

\* The element before Reach is returned.
LEMMA TakesLast ==
    ASSUME NEW V, DequeInv(V), top < Reach, top' = top,
           Reach' = Reach - 1, given' = given,
           \A i \in 1..MaxPush :
               times'[i] = IF i = V[Reach - 1] THEN times[i] + 1 ELSE times[i]
    PROVE  Live(V)'
<1> DEFINE l == Reach - 1
<1>1. TypeOK /\ Live(V) /\ top \in Int /\ Reach \in Int
  BY Types DEF DequeInv
<1>2. given \in 0..MaxPush /\ times \in [1..MaxPush -> Nat] /\ MaxPush \in Nat
  BY <1>1, QueueAssumption DEF TypeOK
<1>3. V[l] \in 1..MaxPush /\ V[l] \in 1..given /\ times[V[l]] = 0 /\ l \in top..(Reach - 1)
  <2>1. l \in top..(Reach - 1)
    BY <1>1
  <2>2. V[l] \in 1..given /\ times[V[l]] = 0
    BY <1>1, <2>1 DEF Live
  <2> QED
    BY <1>2, <2>1, <2>2
<1>4. \A i \in top..(l - 1) : i \in top..(Reach - 1) /\ V[i] # V[l]
  BY <1>1, <1>3 DEF Live
<1>5. ASSUME NEW i \in top..(l - 1)
      PROVE  V[i] \in 1..given /\ times'[V[i]] = 0
  <2>1. V[i] \in 1..given /\ times[V[i]] = 0 /\ V[i] # V[l]
    BY <1>1, <1>4 DEF Live
  <2>2. V[i] \in 1..MaxPush
    BY <1>2, <2>1
  <2> QED
    BY <2>1, <2>2
<1>6. \A i, j \in top..(l - 1) : V[i] = V[j] => i = j
  BY <1>1, <1>4 DEF Live
<1>7. \A e \in 1..MaxPush : times'[e] <= 1 /\ (e > given => times'[e] = 0)
  BY <1>1, <1>3 DEF Live, TypeOK
<1>8. ASSUME NEW e \in 1..given, times'[e] = 0
      PROVE  \E i \in top..(l - 1) : V[i] = e
  <2>1. e # V[l] /\ times[e] = 0
    <3>1. e \in 1..MaxPush /\ times[e] \in Nat
      BY <1>2, <1>8
    <3> QED
      BY <1>3, <1>8, <3>1
  <2>2. PICK i \in top..(Reach - 1) : V[i] = e
    BY <1>1, <2>1 DEF Live
  <2>3. i # l /\ i \in top..(l - 1)
    BY <1>1, <2>1, <2>2
  <2> QED
    BY <2>2, <2>3
<1> QED
  BY <1>5, <1>6, <1>7, <1>8 DEF Live

LEMMA PopTopInv ==
    ASSUME NEW V, DequeInv(V), PopTop PROVE DequeInv(V)'
<1> USE QueueAssumption
<1>1. TypeOK /\ pc[Owner] = "top" /\ stores = <<>> /\ Window /\ Owners(V)
  BY DEF DequeInv, PopTop, Fenced
<1>2. inBottom = bottom /\ Reach = bottom + 1 /\ top <= Reach
  BY <1>1 DEF Owners, Window, Reach
<1>3. bottom \in Int /\ top \in Nat /\ Reach \in Int /\ array \in Nat
  BY <1>1, Types
<1>4. /\ UNCHANGED <<arr, top, inBottom, array, inArray, slot, given>>
      /\ h' = [h EXCEPT ![Owner] = top]
  BY DEF PopTop
<1>5. /\ h' \in [Threads -> Nat] /\ h'[Owner] = top
      /\ \A u \in Threads \ {Owner} : h'[u] = h[u]
  BY <1>1, <1>3, <1>4 DEF TypeOK
<1>6. top <= bottom => OwnGet(array, bottom) = V[bottom] /\ V[bottom] \in Values
  <2> SUFFICES ASSUME top <= bottom
               PROVE  OwnGet(array, bottom) = V[bottom] /\ V[bottom] \in Values
    OBVIOUS
  <2>1. bottom \in top..(Reach - 1)
    BY <1>2, <1>3
  <2>2. OwnGet(array, bottom) = V[bottom]
    BY <2>1, OwnGetIs
  <2>3. V[bottom] \in 1..given /\ given \in 0..MaxPush /\ MaxPush \in Nat
    BY <1>1, <2>1 DEF DequeInv, Live, TypeOK
  <2> QED
    BY <2>2, <2>3 DEF Values
<1>7. CASE top < bottom /\ Answer(Owner, OwnGet(array, bottom)) /\ UNCHANGED <<elt, bottom, stores>>
  <2>1. Answer(Owner, V[bottom])
    BY <1>3, <1>6, <1>7
  <2>2. \A u \in Threads : pc'[u] = IF u = Owner THEN "idle" ELSE pc[u]
    BY <1>1, <2>1, AnswerSets
  <2>3. Reach' = Reach - 1 /\ Reach - 1 = bottom
    BY <1>2, <1>3, <1>7, <2>2 DEF Reach
  <2>4. TypeOK'
    <3>1. times' \in [1..MaxPush -> Nat] /\ pc' \in [Threads -> {"idle", "top", "bottom", "array", "get", "cas"}]
      BY <1>1, <2>1, AnswerSets DEF TypeOK, Answer, Goto
    <3> QED
      BY <1>1, <1>4, <1>5, <1>7, <3>1 DEF TypeOK, ArraysOK, Store
  <2>5. Owners(V)'
    BY <2>2 DEF DequeInv, Owners
  <2>6. Window'
    BY <1>2, <1>3, <1>4, <1>7, <2>3 DEF DequeInv, Window
  <2>7. Live(V)'
    <3>1. \A i \in 1..MaxPush : times'[i] = IF i = V[bottom] THEN times[i] + 1 ELSE times[i]
      BY <1>1, <2>1, AnswerSets
    <3> QED
      BY <1>2, <1>3, <1>4, <1>7, <2>3, <3>1, TakesLast
  <2>8. Buffer(V)' /\ Largest'
    BY <1>1, <1>4, <1>7 DEF DequeInv, Buffer, Ascends, ArraysAscend, Largest
  <2>9. Contents(V)'
    <3> SUFFICES ASSUME NEW m \in DOMAIN slot, m >= inArray, NEW i \in top..(bottom - 1)
                 PROVE  Fits(m, i) /\ At(m, i) = V[i]
      BY <1>4, <2>3 DEF Contents, Fits, At
    <3>1. i \in top..(Reach - 1)
      BY <1>2, <1>3
    <3>2. ~Replaced(m, i) /\ ~Coming(m, i)
      BY <1>1 DEF Replaced, Coming
    <3> QED
      BY <3>1, <3>2 DEF DequeInv, Contents
  <2>10. ASSUME NEW t \in Threads \ {Owner} PROVE Thief(V, t)'
    <3>1. h[t] = top => h[t] < inBottom
      BY <1>2, <1>7
    <3> QED
      BY <1>4, <1>5, <1>7, <2>2, <3>1 DEF DequeInv, Thief, Sees, At
  <2> QED
    BY <2>4, <2>5, <2>6, <2>7, <2>8, <2>9, <2>10 DEF DequeInv
<1>8. CASE /\ top = bottom /\ elt' = [elt EXCEPT ![Owner] = OwnGet(array, bottom)]
           /\ Goto(Owner, "cas") /\ UNCHANGED <<bottom, stores, times>>
  <2>1. \A u \in Threads : pc'[u] = IF u = Owner THEN "cas" ELSE pc[u]
    BY <1>1, <1>8, GotoSets
  <2>2. /\ elt' \in [Threads -> Values] /\ elt'[Owner] = V[bottom]
        /\ \A u \in Threads \ {Owner} : elt'[u] = elt[u]
    BY <1>1, <1>3, <1>6, <1>8 DEF TypeOK
  <2>3. Reach' = Reach
    BY <1>1, <1>8, <2>1 DEF Reach
  <2>4. TypeOK'
    <3>1. pc' \in [Threads -> {"idle", "top", "bottom", "array", "get", "cas"}]
      BY <1>1, <1>8 DEF TypeOK, Goto
    <3> QED
      BY <1>1, <1>4, <1>5, <1>8, <2>2, <3>1 DEF TypeOK, ArraysOK, Store
  <2>5. Owners(V)'
    BY <1>1, <1>2, <1>3, <1>4, <1>5, <1>8, <2>1, <2>2 DEF Owners
  <2>6. Window' /\ Live(V)' /\ Largest'
    BY <1>4, <1>8, <2>3 DEF DequeInv, Window, Live, Largest
  <2>7. Buffer(V)'
    BY <1>1, <1>4, <1>8 DEF DequeInv, Buffer, Ascends, ArraysAscend
  <2>8. Contents(V)'
    BY <1>4, <1>8, <2>3 DEF DequeInv, Contents, Fits, At, Replaced, Coming, Publishes
  <2>9. ASSUME NEW t \in Threads \ {Owner} PROVE Thief(V, t)'
    BY <1>1, <1>4, <1>5, <1>8, <2>1, <2>2 DEF DequeInv, Thief, Sees, At
  <2> QED
    BY <2>4, <2>5, <2>6, <2>7, <2>8, <2>9 DEF DequeInv
<1>9. CASE top > bottom /\ Answer(Owner, EMPTY) /\ RestoreBottom /\ UNCHANGED elt
  <2>1. /\ \A u \in Threads : pc'[u] = IF u = Owner THEN "idle" ELSE pc[u]
        /\ times' = times
    BY <1>1, <1>9, AnswerSets DEF EMPTY
  <2>2. top = bottom + 1 /\ top >= bottom
    BY <1>2, <1>3, <1>9
  <2>3. /\ Reach' = Reach /\ bottom' - top' = 0
        /\ stores' \in Seq(Store)
        /\ Owners(V)' /\ Window' /\ Buffer(V)' /\ Largest' /\ Contents(V)'
        /\ \A t \in Threads \ {Owner} : Thief(V, t)'
    BY <1>1, <1>2, <1>4, <1>5, <1>9, <2>1, <2>2, Restored
  <2>4. Live(V)'
    BY <1>4, <2>1, <2>3 DEF DequeInv, Live
  <2>5. TypeOK'
    <3>1. pc' \in [Threads -> {"idle", "top", "bottom", "array", "get", "cas"}]
      BY <1>1, <1>9 DEF TypeOK, Answer, Goto
    <3>2. bottom' \in Int /\ bottom' - top' \in -1..array'
      BY <1>3, <1>4, <1>9, <2>3 DEF RestoreBottom
    <3>3. stores' \in Seq(Store')
      BY <1>4, <2>3 DEF Store
    <3> QED
      BY <1>1, <1>4, <1>5, <1>9, <2>1, <3>1, <3>2, <3>3 DEF TypeOK, ArraysOK
  <2> QED
    BY <2>3, <2>4, <2>5 DEF DequeInv
<1> QED
  BY <1>7, <1>8, <1>9 DEF PopTop

----------------------------------------------------------------------------
(* A store reaches memory.                                                 *)

LEMMA Flushed ==
    ASSUME NEW V, DequeInv(V), Flush
    PROVE  /\ 1 \in DOMAIN stores /\ Len(stores) \in Nat
           /\ DOMAIN stores = 1..Len(stores) /\ DOMAIN stores' = 1..(Len(stores) - 1)
           /\ stores' \in Seq(Store) /\ Len(stores') = Len(stores) - 1
           /\ \A j \in DOMAIN stores' :
                 j + 1 \in DOMAIN stores /\ stores'[j] = stores[j + 1]
           /\ \A j \in DOMAIN stores \ {1} :
                 j - 1 \in DOMAIN stores' /\ stores'[j - 1] = stores[j]
           /\ \A j \in Nat \ {0} : Raises(j)' <=> Raises(j + 1)
           /\ Head(stores) = stores[1]
           /\ Reach' = Reach
<1>1. stores \in Seq(Store) /\ stores # <<>> /\ stores' = Tail(stores) /\ pc' = pc
      /\ bottom' = bottom
  BY DEF DequeInv, TypeOK, Flush
<1>2. /\ Len(stores) \in Nat /\ Len(stores) > 0 /\ DOMAIN stores = 1..Len(stores)
      /\ Head(stores) = stores[1]
  BY <1>1
<1>3. /\ stores' \in Seq(Store) /\ Len(stores') = Len(stores) - 1
      /\ \A j \in 1..(Len(stores) - 1) : stores'[j] = stores[j + 1]
  BY <1>1, <1>2, HeadTailProperties
<1>4. DOMAIN stores' = 1..(Len(stores) - 1)
  BY <1>3
<1>5. \A j \in DOMAIN stores' : j + 1 \in DOMAIN stores /\ stores'[j] = stores[j + 1]
  BY <1>2, <1>3, <1>4
<1>6. ASSUME NEW j \in DOMAIN stores \ {1}
      PROVE  j - 1 \in DOMAIN stores' /\ stores'[j - 1] = stores[j]
  <2>1. j - 1 \in 1..(Len(stores) - 1) /\ (j - 1) + 1 = j
    BY <1>2
  <2> QED
    BY <1>3, <1>4, <2>1
<1>7. ASSUME NEW j \in Nat \ {0} PROVE Raises(j)' <=> Raises(j + 1)
  <2>1. /\ j \in DOMAIN stores' <=> j + 1 \in DOMAIN stores
        /\ j = Len(stores') <=> j + 1 = Len(stores)
    BY <1>2, <1>3, <1>4
  <2>2. CASE j \in DOMAIN stores'
    BY <1>1, <1>5, <2>1, <2>2 DEF Raises, Lowers
  <2>3. CASE j \notin DOMAIN stores'
    BY <2>1, <2>3 DEF Raises
  <2> QED
    BY <2>2, <2>3
<1>8. Reach' = Reach
  BY <1>1 DEF Reach
<1> QED
  BY <1>2, <1>3, <1>4, <1>5, <1>6, <1>7, <1>8

LEMMA FlushedBuffer ==
    ASSUME NEW V, DequeInv(V), Flush
    PROVE  /\ \A j \in Nat \ {0} : Raises(j + 1) => Publishes(j)' = Publishes(j + 1)
           /\ \A j \in DOMAIN stores' : stores'[j].to = "slot" => Stored(V, j)'
           /\ \A j \in DOMAIN stores' : stores'[j].to = "array" => Raises(j + 2)'
<1>1. top' = top
  BY DEF Flush
<1>0. DOMAIN stores' \subseteq Nat \ {0}
  <2>1. DOMAIN stores' = 1..(Len(stores) - 1) /\ Len(stores) \in Nat
    BY Flushed
  <2> QED
    BY <2>1
<1>2. \A j \in Nat \ {0} : Raises(j)' <=> Raises(j + 1)
  BY Flushed
<1>3. ASSUME NEW j \in Nat \ {0}, Raises(j + 1) PROVE Publishes(j)' = Publishes(j + 1)
  <2>1. j \in DOMAIN stores'
    BY <1>2, <1>3 DEF Raises
  <2> QED
    BY <2>1, Flushed DEF Publishes
<1>4. ASSUME NEW j \in DOMAIN stores', stores'[j].to = "slot" PROVE Stored(V, j)'
  <2>1. j \in Nat \ {0} /\ j + 1 \in Nat \ {0} /\ j + 1 \in DOMAIN stores
        /\ stores'[j] = stores[j + 1]
    <3>1. j + 1 \in DOMAIN stores /\ stores'[j] = stores[j + 1]
      BY Flushed
    <3>2. j \in Nat \ {0}
      BY <1>0
    <3> QED
      BY <3>1, <3>2
  <2>2. Stored(V, j + 1)
    BY <1>4, <2>1 DEF DequeInv, Buffer
  <2>3. Raises((j + 1) + 1)
    BY <2>2 DEF Stored
  <2>4. Publishes(j + 1)' = Publishes((j + 1) + 1) /\ Raises(j + 1)'
    BY <1>2, <1>3, <2>1, <2>3
  <2> QED
    BY <1>1, <2>1, <2>2, <2>4 DEF Stored, Fits
<1>5. ASSUME NEW j \in DOMAIN stores', stores'[j].to = "array" PROVE Raises(j + 2)'
  <2>1. j \in Nat \ {0} /\ j + 2 \in Nat \ {0} /\ j + 1 \in DOMAIN stores
        /\ stores'[j] = stores[j + 1]
    <3>1. j + 1 \in DOMAIN stores /\ stores'[j] = stores[j + 1]
      BY Flushed
    <3>2. j \in Nat \ {0}
      BY <1>0
    <3> QED
      BY <3>1, <3>2
  <2>2. Raises((j + 1) + 2) /\ (j + 1) + 2 = (j + 2) + 1
    BY <1>5, <2>1 DEF DequeInv, Buffer
  <2> QED
    BY <1>2, <2>1, <2>2
<1> QED
  BY <1>3, <1>4, <1>5

LEMMA FlushedKeeps ==
    ASSUME NEW V, DequeInv(V), Flush
    PROVE  /\ \A m, i : Replaced(m, i) =>
                 \/ Replaced(m, i)'
                 \/ stores[1].to = "array" /\ stores[1].val > m
           /\ \A m, i : Coming(m, i) =>
                 \/ Coming(m, i)'
                 \/ stores[1].to = "slot" /\ stores[1].arr = m /\ Publishes(2) = i
<1>1. ASSUME NEW m, NEW i, Replaced(m, i), ~(stores[1].to = "array" /\ stores[1].val > m)
      PROVE  Replaced(m, i)'
  <2>1. PICK j \in DOMAIN stores :
            stores[j].to = "array" /\ stores[j].val > m /\ Publishes(j + 2) <= i
    BY <1>1 DEF Replaced
  <2>2. j \in DOMAIN stores \ {1}
    BY <1>1, <2>1
  <2>20. j - 1 \in DOMAIN stores' /\ stores'[j - 1] = stores[j]
    BY <2>2, Flushed
  <2>21. (j - 1) + 2 \in Nat \ {0} /\ ((j - 1) + 2) + 1 = j + 2
    <3>1. j \in Nat \ {0}
      BY StoreKinds DEF DequeInv
    <3> QED
      BY <3>1
  <2>3. Raises(j + 2)
    BY <2>1 DEF DequeInv, Buffer
  <2>4. Publishes((j - 1) + 2)' = Publishes(j + 2)
    BY <2>21, <2>3, FlushedBuffer
  <2> QED
    BY <2>1, <2>20, <2>4 DEF Replaced
<1>2. ASSUME NEW m, NEW i, Coming(m, i),
             ~(stores[1].to = "slot" /\ stores[1].arr = m /\ Publishes(2) = i)
      PROVE  Coming(m, i)'
  <2>1. PICK j \in DOMAIN stores :
            stores[j].to = "slot" /\ stores[j].arr = m /\ Publishes(j + 1) = i
    BY <1>2 DEF Coming
  <2>2. j \in DOMAIN stores \ {1}
    BY <1>2, <2>1
  <2>20. j - 1 \in DOMAIN stores' /\ stores'[j - 1] = stores[j]
    BY <2>2, Flushed
  <2>21. (j - 1) + 1 \in Nat \ {0} /\ ((j - 1) + 1) + 1 = j + 1
    <3>1. j \in Nat \ {0}
      BY StoreKinds DEF DequeInv
    <3> QED
      BY <3>1
  <2>3. Raises(j + 1)
    BY <2>1 DEF DequeInv, Buffer, Stored
  <2>4. Publishes((j - 1) + 1)' = Publishes(j + 1)
    BY <2>21, <2>3, FlushedBuffer
  <2> QED
    BY <2>1, <2>20, <2>4 DEF Coming
<1> QED
  BY <1>1, <1>2

LEMMA FlushedDomain ==
    ASSUME NEW V, DequeInv(V), Flush, NEW j \in DOMAIN stores'
    PROVE  /\ j \in Nat \ {0} /\ stores' # <<>>
           /\ j + 1 \in DOMAIN stores /\ stores'[j] = stores[j + 1]
<1>1. j + 1 \in DOMAIN stores /\ stores'[j] = stores[j + 1]
  BY Flushed
<1>2. DOMAIN stores' = 1..(Len(stores) - 1) /\ Len(stores) \in Nat
  BY Flushed
<1>3. j \in Nat \ {0} /\ stores' # <<>>
  BY <1>2
<1> QED
  BY <1>1, <1>3

LEMMA FlushedAscends ==
    ASSUME NEW V, DequeInv(V), Flush
    PROVE  /\ \A j, k \in DOMAIN stores' :
                 Raises(j)' /\ Raises(k)' /\ j < k => stores'[j].val < stores'[k].val
           /\ \A j \in DOMAIN stores' :
                 stores'[j].to = "array" => inArray' <= stores'[j].val
           /\ \A j, k \in DOMAIN stores' :
                 stores'[j].to = "array" /\ stores'[k].to = "array" /\ j < k =>
                    stores'[j].val <= stores'[k].val
<1>1. Ascends /\ ArraysAscend
  BY DEF DequeInv, Buffer
<1>2. ASSUME NEW j \in DOMAIN stores', NEW k \in DOMAIN stores', Raises(j)', Raises(k)', j < k
      PROVE  stores'[j].val < stores'[k].val
  <2>1. /\ Raises(j + 1) /\ Raises(k + 1) /\ j + 1 < k + 1
        /\ j + 1 \in DOMAIN stores /\ stores'[j] = stores[j + 1]
        /\ k + 1 \in DOMAIN stores /\ stores'[k] = stores[k + 1]
    <3>1. /\ j \in Nat \ {0} /\ j + 1 \in DOMAIN stores /\ stores'[j] = stores[j + 1]
          /\ k \in Nat \ {0} /\ k + 1 \in DOMAIN stores /\ stores'[k] = stores[k + 1]
      BY FlushedDomain
    <3>2. \A l \in Nat \ {0} : Raises(l)' <=> Raises(l + 1)
      BY Flushed
    <3>3. Raises(j + 1) /\ Raises(k + 1)
      BY <1>2, <3>1, <3>2
    <3> QED
      BY <1>2, <3>1, <3>3
  <2> QED
    BY <1>1, <2>1 DEF Ascends
<1>3. ASSUME NEW j \in DOMAIN stores', NEW k \in DOMAIN stores',
             stores'[j].to = "array", stores'[k].to = "array", j < k
      PROVE  stores'[j].val <= stores'[k].val
  <2>1. /\ j + 1 < k + 1
        /\ j + 1 \in DOMAIN stores /\ stores'[j] = stores[j + 1]
        /\ k + 1 \in DOMAIN stores /\ stores'[k] = stores[k + 1]
    BY <1>3, FlushedDomain
  <2> QED
    BY <1>1, <1>3, <2>1 DEF ArraysAscend
<1>4. ASSUME NEW j \in DOMAIN stores', stores'[j].to = "array"
      PROVE  inArray' <= stores'[j].val
  <2>1. /\ j + 1 \in DOMAIN stores /\ stores'[j] = stores[j + 1] /\ 1 < j + 1
        /\ 1 \in DOMAIN stores /\ Head(stores) = stores[1]
    <3>1. j + 1 \in DOMAIN stores /\ stores'[j] = stores[j + 1] /\ j \in Nat \ {0}
      BY FlushedDomain
    <3> QED
      BY <3>1, Flushed
  <2>2. inArray' = IF stores[1].to = "array" THEN stores[1].val ELSE inArray
    <3>1. stores[1].to \in {"bottom", "array", "slot"}
      BY <2>1, StoreKinds DEF DequeInv
    <3> QED
      BY <2>1, <3>1 DEF Flush
  <2> QED
    BY <1>1, <1>4, <2>1, <2>2 DEF ArraysAscend
<1> QED
  BY <1>2, <1>3, <1>4

LEMMA FlushedLargest ==
    ASSUME NEW V, DequeInv(V), Flush, DOMAIN slot' = DOMAIN slot PROVE Largest'
<1>1. Largest /\ array' = array /\ TypeOK
  BY DEF DequeInv, Flush
<1>2. 1 \in DOMAIN stores /\ Head(stores) = stores[1]
  BY Flushed
<1>3. inArray' = IF stores[1].to = "array" THEN stores[1].val ELSE inArray
  <2>1. stores[1].to \in {"bottom", "array", "slot"}
    BY <1>1, <1>2, StoreKinds
  <2> QED
    BY <1>2, <2>1 DEF Flush
<1>4. CASE \E j \in DOMAIN stores : stores[j].to = "array" /\ stores[j].val = array
  <2>1. PICK j \in DOMAIN stores : stores[j].to = "array" /\ stores[j].val = array
    BY <1>4
  <2>2. CASE j = 1
    BY <1>1, <1>3, <2>1, <2>2 DEF Largest
  <2>3. CASE j # 1
    <3>1. j - 1 \in DOMAIN stores' /\ stores'[j - 1] = stores[j]
      BY <2>3, Flushed
    <3> QED
      BY <1>1, <2>1, <3>1 DEF Largest
  <2> QED
    BY <2>2, <2>3
<1>5. CASE ~\E j \in DOMAIN stores : stores[j].to = "array" /\ stores[j].val = array
  <2>1. inArray = array
    BY <1>1, <1>5 DEF Largest
  <2>2. stores[1].to # "array"
    <3> SUFFICES ASSUME stores[1].to = "array" PROVE FALSE
      OBVIOUS
    <3>1. stores[1].val \in DOMAIN slot /\ stores[1].val >= inArray
      BY <1>1, <1>2, StoreKinds DEF DequeInv, Buffer, ArraysAscend
    <3>2. PICK m \in DOMAIN slot : m = stores[1].val
      BY <3>1
    <3>3. m \in Nat /\ array \in Nat /\ m <= array /\ m >= array
      BY <1>1, <2>1, <3>1, <3>2, Types DEF Largest
    <3> QED
      BY <1>2, <1>5, <3>2, <3>3
  <2> QED
    BY <1>1, <1>3, <2>1, <2>2 DEF Largest
<1> QED
  BY <1>4, <1>5

\* The oldest store raises bottom in memory, or lowers it and is the last one.
LEMMA FlushBottom ==
    ASSUME NEW V, DequeInv(V), Flush, stores[1].to = "bottom"
    PROVE  DequeInv(V)'
<1> USE QueueAssumption
<1>1. /\ TypeOK /\ Head(stores) = stores[1] /\ 1 \in DOMAIN stores
      /\ inBottom' = stores[1].val /\ stores[1].val \in Int
      /\ UNCHANGED <<inArray, slot, pc, elt, arr, h, top, bottom, array, times, given>>
  <2>1. TypeOK /\ Head(stores) = stores[1] /\ 1 \in DOMAIN stores
    BY Flushed DEF DequeInv
  <2> QED
    BY <2>1, StoreKinds DEF Flush
<1>2. /\ bottom \in Int /\ inBottom \in Int /\ Reach \in Int /\ top \in Int
      /\ Reach' = Reach /\ inBottom <= Reach
  BY <1>1, Types, Flushed DEF DequeInv, Window
<1>3. \/ Raises(1) /\ inBottom < inBottom' /\ inBottom' <= Reach
      \/ /\ pc[Owner] = "top" /\ inBottom' = bottom /\ Reach = bottom + 1
         /\ stores' = <<>> /\ Len(stores) = 1
  <2>1. CASE Raises(1)
    BY <1>1, <2>1 DEF DequeInv, Buffer, Ascends
  <2>2. CASE ~Raises(1)
    <3>1. pc[Owner] = "top" /\ Len(stores) = 1
      BY <1>1, <2>2 DEF Raises, Lowers
    <3>2. stores[1] = StoreBottom(bottom)
      BY <3>1, Flushed DEF DequeInv, Owners
    <3>3. stores' = <<>>
      BY <3>1, Flushed
    <3> QED
      BY <1>1, <1>2, <3>1, <3>2, <3>3 DEF StoreBottom, Reach
  <2> QED
    BY <2>1, <2>2
<1>4. TypeOK'
  <2>1. stores' \in Seq(Store)
    BY Flushed
  <2> QED
    BY <1>1, <2>1 DEF TypeOK, ArraysOK, Store
<1>5. Owners(V)'
  <2>1. Owners(V) /\ stores # <<>>
    BY DEF DequeInv, Flush
  <2>2. ASSUME pc[Owner] = "top", stores' # <<>> PROVE stores'[Len(stores')] = StoreBottom(bottom)
    <3>1. Len(stores') \in DOMAIN stores' /\ Len(stores') + 1 = Len(stores)
      BY <2>2, Flushed
    <3>2. stores'[Len(stores')] = stores[Len(stores)]
      BY <3>1, Flushed
    <3> QED
      BY <2>1, <2>2, <3>2 DEF Owners
  <2>3. ASSUME pc[Owner] = "top", stores' = <<>> PROVE inBottom' = bottom
    <3>1. Len(stores) = 1
      BY <2>3, Flushed
    <3>2. stores[1] = StoreBottom(bottom)
      BY <2>1, <2>3, <3>1 DEF Owners
    <3> QED
      BY <1>1, <3>2 DEF StoreBottom
  <2> QED
    BY <1>1, <2>1, <2>2, <2>3 DEF Owners, StoreBottom
<1>6. Window'
  BY <1>1, <1>2, <1>3 DEF DequeInv, Window
<1>7. Live(V)'
  BY <1>1, <1>2 DEF DequeInv, Live
<1>8. Buffer(V)'
  <2>1. ASSUME NEW j \in DOMAIN stores', Raises(j)'
        PROVE  inBottom' < stores'[j].val /\ stores'[j].val <= Reach'
    <3>1. /\ j \in Nat \ {0} /\ stores' # <<>>
          /\ j + 1 \in DOMAIN stores /\ stores'[j] = stores[j + 1]
      BY <2>1, FlushedDomain
    <3>2. Raises(j + 1) /\ Raises(1) /\ 1 < j + 1
      BY <1>3, <2>1, <3>1, Flushed, SMTT(30)
    <3> QED
      BY <1>1, <1>2, <3>1, <3>2 DEF DequeInv, Buffer, Ascends
  <2>2. Ascends' /\ ArraysAscend'
    BY <1>1, <2>1, FlushedAscends DEF Ascends, ArraysAscend
  <2> QED
    BY <2>2, FlushedBuffer DEF Buffer
<1>9. Largest'
  BY <1>1, FlushedLargest
<1>10. Contents(V)'
  <2>1. \A m, i : /\ Replaced(m, i) => Replaced(m, i)'
                  /\ Coming(m, i) => Coming(m, i)'
    BY <1>1, FlushedKeeps
  <2> QED
    BY <1>1, <1>2, <2>1 DEF DequeInv, Contents, Fits, At
<1>11. ASSUME NEW t \in Threads \ {Owner} PROVE Thief(V, t)'
  <2>1. h[t] = top /\ pc[t] \in {"array", "get", "cas"} => Sees(t)'
    <3> SUFFICES ASSUME h[t] = top, pc[t] \in {"array", "get", "cas"} PROVE Sees(t)'
      OBVIOUS
    <3>1. h[t] < inBottom /\ h[t] \in Int
      BY <1>1 DEF DequeInv, Thief, Sees, Flush, TypeOK
    <3> QED
      BY <1>1, <1>2, <1>3, <3>1 DEF Sees
  <2> QED
    BY <1>1, <2>1 DEF DequeInv, Thief, At
<1> QED
  BY <1>4, <1>5, <1>6, <1>7, <1>8, <1>9, <1>10, <1>11 DEF DequeInv

\* The oldest store replaces the array in memory.
LEMMA FlushArray ==
    ASSUME NEW V, DequeInv(V), Flush, stores[1].to = "array"
    PROVE  DequeInv(V)'
<1> USE QueueAssumption
<1>1. /\ TypeOK /\ 1 \in DOMAIN stores
      /\ inArray' = stores[1].val /\ stores[1].val \in DOMAIN slot /\ inArray <= inArray'
      /\ UNCHANGED <<inBottom, slot, pc, elt, arr, h, top, bottom, array, times, given>>
  <2>1. TypeOK /\ Head(stores) = stores[1] /\ 1 \in DOMAIN stores
    BY Flushed DEF DequeInv
  <2>2. inArray' = stores[1].val /\ stores[1].val \in DOMAIN slot
    BY <2>1, StoreKinds DEF Flush
  <2>3. inArray <= stores[1].val
    BY <2>1 DEF DequeInv, Buffer, ArraysAscend
  <2> QED
    BY <2>1, <2>2, <2>3 DEF Flush
<1>2. Reach' = Reach /\ stores # <<>>
  BY Flushed DEF Flush
<1>3. ~Raises(1) /\ Raises(3)
  BY <1>1 DEF DequeInv, Buffer, Raises
<1>4. TypeOK'
  <2>1. stores' \in Seq(Store)
    BY Flushed
  <2> QED
    BY <1>1, <2>1 DEF TypeOK, ArraysOK, Store
<1>5. Owners(V)'
  <2>1. Owners(V)
    BY DEF DequeInv
  <2>2. Len(stores) >= 3 /\ Len(stores) \in Nat
    BY <1>3, Flushed DEF Raises
  <2>3. Len(stores') \in DOMAIN stores' /\ Len(stores') + 1 = Len(stores) /\ stores' # <<>>
    BY <2>2, Flushed
  <2>4. stores'[Len(stores')] = stores[Len(stores)]
    BY <2>3, Flushed
  <2> QED
    BY <1>1, <1>2, <2>1, <2>3, <2>4 DEF Owners, StoreBottom
<1>6. Window' /\ Live(V)'
  BY <1>1, <1>2 DEF DequeInv, Window, Live
<1>7. Buffer(V)'
  <2>1. ASSUME NEW j \in DOMAIN stores', Raises(j)'
        PROVE  inBottom' < stores'[j].val /\ stores'[j].val <= Reach'
    <3>1. /\ j \in Nat \ {0} /\ j + 1 \in DOMAIN stores /\ stores'[j] = stores[j + 1]
      BY <2>1, FlushedDomain
    <3>2. Raises(j + 1)
      BY <2>1, <3>1, Flushed
    <3> QED
      BY <1>1, <1>2, <3>1, <3>2 DEF DequeInv, Buffer, Ascends
  <2>2. Ascends' /\ ArraysAscend'
    BY <1>1, <2>1, FlushedAscends DEF Ascends, ArraysAscend
  <2> QED
    BY <2>2, FlushedBuffer DEF Buffer
<1>8. Largest'
  BY <1>1, FlushedLargest
<1>9. Contents(V)'
  <2> SUFFICES ASSUME NEW m \in DOMAIN slot, m >= inArray', NEW i \in top..(Reach - 1)
               PROVE  \/ Replaced(m, i)'
                      \/ /\ Fits(m, i)
                         /\ At(m, i) = V[i] \/ Coming(m, i)'
    BY <1>1, <1>2 DEF Contents, Fits, At
  <2>1. m \in Int /\ inArray \in Int /\ inArray' \in Int
    BY <1>1, Types
  <2>2. m >= inArray /\ ~(stores[1].val > m)
    BY <1>1, <2>1
  <2>3. /\ Replaced(m, i) => Replaced(m, i)'
        /\ Coming(m, i) => Coming(m, i)'
    BY <1>1, <2>2, FlushedKeeps
  <2> QED
    BY <2>2, <2>3 DEF DequeInv, Contents
<1>10. ASSUME NEW t \in Threads \ {Owner} PROVE Thief(V, t)'
  BY <1>1, <1>2 DEF DequeInv, Thief, Sees, At
<1> QED
  BY <1>4, <1>5, <1>6, <1>7, <1>8, <1>9, <1>10 DEF DequeInv

\* The oldest store puts an element in a slot; an element that is there and
\* fits the array is in a slot of its own.
LEMMA FlushedSlot ==
    ASSUME NEW V, DequeInv(V), Flush, stores[1].to = "slot"
    PROVE  /\ 1 \in DOMAIN stores /\ stores # <<>>
           /\ UNCHANGED <<inArray, inBottom, pc, elt, arr, h, top, bottom, array, times, given>>
           /\ DOMAIN slot' = DOMAIN slot /\ ArraysOK(Values)'
           /\ \A m \in DOMAIN slot : \A i \in Int :
                 Fits(m, i) /\ At(m, i) = V[i] => At(m, i)' = V[i]
           /\ \A m \in DOMAIN slot : \A i \in Int :
                 stores[1].arr = m /\ Publishes(2) = i => At(m, i)' = V[i]
<1>1. TypeOK /\ Head(stores) = stores[1] /\ 1 \in DOMAIN stores /\ stores # <<>>
  BY Flushed DEF DequeInv, Flush
<1>2. /\ UNCHANGED <<inArray, inBottom, pc, elt, arr, h, top, bottom, array, times, given>>
      /\ slot' = [slot EXCEPT ![stores[1].arr][stores[1].at] = stores[1].val]
  BY <1>1 DEF Flush
<1>3. PICK n, p, e : n = stores[1].arr /\ p = Publishes(2) /\ e = stores[1].val
  OBVIOUS
<1>4. /\ n \in DOMAIN slot /\ n \in Nat \ {0} /\ e \in Values
      /\ p \in Int /\ Fits(n, p) /\ stores[1].at = Index(n, p) /\ e = V[p]
  <2>1. 1 + 1 = 2 /\ top \in Int /\ Reach \in Int
    BY <1>1, Types
  <2>2. /\ n \in DOMAIN slot /\ n \in Nat \ {0}
        /\ p \in top..(Reach - 1) /\ Fits(n, p) /\ stores[1].at = Index(n, p) /\ e = V[p]
    BY <1>1, <1>3, <2>1, StoredAt
  <2>3. e \in Values
    BY <1>1, <1>3, StoreKinds
  <2> QED
    BY <2>1, <2>2, <2>3
<1>5. SetAt(n, p, e) /\ ArraysOK(Values)
  BY <1>1, <1>2, <1>3, <1>4 DEF SetAt, TypeOK
<1>6. /\ DOMAIN slot' = DOMAIN slot
      /\ DOMAIN slot' \subseteq Nat \ {0}
      /\ \A m \in DOMAIN slot' : slot'[m] \in [Slots(m) -> Values]
      /\ slot'[n][Index(n, p)] = e
      /\ \A m \in DOMAIN slot : \A j \in Slots(m) :
            m # n \/ j # Index(n, p) => slot'[m][j] = slot[m][j]
  BY <1>4, <1>5, SetAtKeeps
<1>7. ArraysOK(Values)'
  BY <1>6 DEF ArraysOK
<1>8. ASSUME NEW m \in DOMAIN slot, NEW i \in Int, Fits(m, i), At(m, i) = V[i]
      PROVE  slot'[m][Index(m, i)] = V[i]
  <2>1. Index(m, i) \in Slots(m)
    BY <1>5, SlotExists
  <2>2. CASE m = n /\ Index(m, i) = Index(n, p)
    BY <1>1, <1>4, <1>6, <1>8, <2>2, SameSlot
  <2>3. CASE ~(m = n /\ Index(m, i) = Index(n, p))
    BY <1>6, <1>8, <2>1, <2>3 DEF At
  <2> QED
    BY <2>2, <2>3
<1> QED
  BY <1>1, <1>2, <1>3, <1>4, <1>6, <1>7, <1>8 DEF At

LEMMA FlushSlot ==
    ASSUME NEW V, DequeInv(V), Flush, stores[1].to = "slot"
    PROVE  DequeInv(V)'
<1> USE QueueAssumption
<1>1. /\ TypeOK /\ 1 \in DOMAIN stores /\ stores # <<>>
      /\ UNCHANGED <<inArray, inBottom, pc, elt, arr, h, top, bottom, array, times, given>>
      /\ DOMAIN slot' = DOMAIN slot /\ ArraysOK(Values)'
  BY FlushedSlot DEF DequeInv
<1>2. Reach' = Reach
  BY Flushed
<1>3. ~Raises(1) /\ Raises(2)
  <2>1. Raises(1 + 1) /\ 1 + 1 = 2
    BY <1>1 DEF DequeInv, Buffer, Stored
  <2> QED
    BY <2>1 DEF Raises
<1>4. TypeOK'
  <2>1. stores' \in Seq(Store) /\ Store' = Store
    BY <1>1, Flushed DEF Store
  <2> QED
    BY <1>1, <2>1 DEF TypeOK
<1>5. Owners(V)'
  <2>1. Owners(V)
    BY DEF DequeInv
  <2>2. Len(stores) >= 2 /\ Len(stores) \in Nat
    BY <1>3, Flushed DEF Raises
  <2>3. Len(stores') \in DOMAIN stores' /\ Len(stores') + 1 = Len(stores) /\ stores' # <<>>
    BY <2>2, Flushed
  <2>4. stores'[Len(stores')] = stores[Len(stores)]
    BY <2>3, Flushed
  <2> QED
    BY <1>1, <1>2, <2>1, <2>3, <2>4 DEF Owners, StoreBottom
<1>6. Window' /\ Live(V)'
  BY <1>1, <1>2 DEF DequeInv, Window, Live
<1>7. Buffer(V)'
  <2>1. ASSUME NEW j \in DOMAIN stores', Raises(j)'
        PROVE  inBottom' < stores'[j].val /\ stores'[j].val <= Reach'
    <3>1. /\ j \in Nat \ {0} /\ j + 1 \in DOMAIN stores /\ stores'[j] = stores[j + 1]
      BY <2>1, FlushedDomain
    <3>2. Raises(j + 1)
      BY <2>1, <3>1, Flushed
    <3> QED
      BY <1>1, <1>2, <3>1, <3>2 DEF DequeInv, Buffer, Ascends
  <2>2. Ascends' /\ ArraysAscend'
    BY <1>1, <2>1, FlushedAscends DEF Ascends, ArraysAscend
  <2> QED
    BY <2>2, FlushedBuffer DEF Buffer
<1>8. Largest'
  BY <1>1, FlushedLargest
<1>9. Contents(V)'
  <2> SUFFICES ASSUME NEW m \in DOMAIN slot, m >= inArray, NEW i \in top..(Reach - 1)
               PROVE  \/ Replaced(m, i)'
                      \/ /\ Fits(m, i)
                         /\ At(m, i)' = V[i] \/ Coming(m, i)'
    BY <1>1, <1>2 DEF Contents, Fits
  <2>1. i \in Int
    BY <1>1, Types
  <2>2. CASE Replaced(m, i)
    BY <2>2, FlushedKeeps
  <2>3. CASE Fits(m, i) /\ At(m, i) = V[i]
    BY <2>1, <2>3, FlushedSlot
  <2>4. CASE Fits(m, i) /\ Coming(m, i)
    BY <2>1, <2>4, FlushedKeeps, FlushedSlot
  <2> QED
    BY <2>2, <2>3, <2>4 DEF DequeInv, Contents
<1>10. ASSUME NEW t \in Threads \ {Owner} PROVE Thief(V, t)'
  <2>1. ASSUME At(arr[t], top) = V[top] PROVE At(arr[t], top)' = V[top]
    <3>1. PICK m \in DOMAIN slot : m = arr[t]
      BY <1>1 DEF TypeOK
    <3>2. m \in Nat \ {0} /\ top \in Int
      BY <1>1, Types
    <3>3. Fits(m, top)
      BY <3>2 DEF Fits
    <3>4. PICK i \in Int : i = top
      BY <3>2
    <3>5. slot'[m][Index(m, i)] = V[i]
      BY <2>1, <3>1, <3>3, <3>4, FlushedSlot DEF At
    <3> QED
      BY <1>1, <3>1, <3>4, <3>5 DEF At
  <2> QED
    BY <1>1, <2>1 DEF DequeInv, Thief, Sees
<1> QED
  BY <1>4, <1>5, <1>6, <1>7, <1>8, <1>9, <1>10 DEF DequeInv

LEMMA FlushInv ==
    ASSUME NEW V, DequeInv(V), Flush PROVE DequeInv(V)'
<1>1. stores[1].to \in {"bottom", "array", "slot"}
  BY Flushed, StoreKinds DEF DequeInv
<1> QED
  BY <1>1, FlushBottom, FlushArray, FlushSlot

----------------------------------------------------------------------------
(* push.                                                                   *)

StoreSlot(n, e) ==
    [to |-> "slot", arr |-> n, at |-> Index(n, bottom), val |-> e]

\* What push does to the arrays and to the store buffer; the store to the slot
\* is the one after k.
Pushes(k) ==
    /\ k \in Nat /\ DOMAIN stores' = 1..(k + 2) /\ Len(stores') = k + 2
    /\ stores' \in Seq(Store')
    /\ \A j \in DOMAIN stores : j <= k /\ stores'[j] = stores[j]
    /\ stores'[k + 1] = StoreSlot(array', given + 1)
    /\ stores'[k + 2] = StoreBottom(bottom + 1)
    /\ \A j \in 1..k : \/ j \in DOMAIN stores
                       \/ /\ j = k
                          /\ stores'[j] = [to |-> "array", val |-> array']
    /\ bottom' = bottom + 1 /\ given' = given + 1
    /\ DOMAIN slot' = DOMAIN slot \cup {array'} /\ ArraysOK(Values)'
    /\ \A m \in DOMAIN slot : slot'[m] = slot[m]
    /\ Fits(array', bottom)

\* The array stays, or a new one has what the old one had.
Grows(V, k) ==
    \/ array' = array
    \/ /\ array' > array /\ k \in 1..k
       /\ stores'[k] = [to |-> "array", val |-> array']
       /\ \A i \in top..(bottom - 1) : slot'[array'][Index(array', i)] = V[i]

LEMMA PushedStores ==
    ASSUME NEW V, DequeInv(V), pc[Owner] = "idle", pc' = pc, NEW k, Pushes(k)
    PROVE  /\ \A j \in DOMAIN stores : j \in DOMAIN stores' /\ stores'[j] = stores[j]
           /\ k + 1 \in DOMAIN stores' /\ k + 2 \in DOMAIN stores'
           /\ k + 1 \notin DOMAIN stores /\ k + 2 \notin DOMAIN stores
           /\ Raises(k + 2)' /\ Publishes(k + 2)' = bottom
           /\ \A j : Raises(j) => Raises(j)' /\ Publishes(j)' = Publishes(j)
           /\ \A j : Raises(j)' => Raises(j) \/ j = k + 2
<1>1. /\ k \in Nat /\ DOMAIN stores' = 1..(k + 2)
      /\ \A j \in DOMAIN stores : j <= k /\ stores'[j] = stores[j]
      /\ DOMAIN stores = 1..Len(stores) /\ Len(stores) \in Nat /\ bottom \in Int
  BY StoreKinds, Types DEF Pushes, DequeInv
<1>2. /\ k + 1 \in DOMAIN stores' /\ k + 2 \in DOMAIN stores'
      /\ k + 1 \notin DOMAIN stores /\ k + 2 \notin DOMAIN stores
  BY <1>1
<1>3. ASSUME NEW j \in DOMAIN stores PROVE j \in DOMAIN stores' /\ stores'[j] = stores[j]
  BY <1>1
<1>4. Raises(k + 2)' /\ Publishes(k + 2)' = bottom
  BY <1>1, <1>2 DEF Pushes, Raises, Lowers, StoreBottom, Publishes
<1>5. \A j : Raises(j) => Raises(j)' /\ Publishes(j)' = Publishes(j)
  BY <1>3 DEF Raises, Lowers, Publishes
<1>6. ASSUME NEW j, Raises(j)', j # k + 2 PROVE Raises(j)
  <2>1. j \in 1..(k + 2) /\ stores'[j].to = "bottom"
    BY <1>1, <1>6 DEF Raises
  <2>2. j # k + 1
    BY <2>1 DEF Pushes, StoreSlot
  <2>3. j \in 1..k
    BY <1>1, <1>6, <2>1, <2>2
  <2>4. j \in DOMAIN stores
    BY <2>1, <2>3 DEF Pushes
  <2> QED
    BY <1>3, <2>1, <2>4 DEF Raises, Lowers
<1> QED
  BY <1>2, <1>3, <1>4, <1>5, <1>6

\* The other stores of a push, besides the one that raises bottom
LEMMA PushedKinds ==
    ASSUME NEW V, DequeInv(V), pc[Owner] = "idle", pc' = pc, NEW k, Pushes(k),
           NEW j \in DOMAIN stores'
    PROVE  /\ stores'[j].to = "slot" => j \in DOMAIN stores \/ j = k + 1
           /\ stores'[j].to = "array" =>
                 j \in DOMAIN stores \/ (j = k /\ stores'[j].val = array')
<1>1. k \in Nat /\ j \in 1..(k + 2)
  BY DEF Pushes
<1>2. CASE j = k + 1
  BY <1>2 DEF Pushes, StoreSlot
<1>3. CASE j = k + 2
  BY <1>3 DEF Pushes, StoreBottom
<1>4. CASE j \in 1..k
  BY <1>4 DEF Pushes
<1> QED
  BY <1>1, <1>2, <1>3, <1>4

\* The element that is handed in becomes the one at bottom.
Extends(V, W) == W[bottom] = given + 1 /\ \A i \in top..(bottom - 1) : W[i] = V[i]

LEMMA PushedInv ==
    ASSUME NEW V, DequeInv(V), pc[Owner] = "idle", given < MaxPush,
           UNCHANGED <<pc, elt, arr, h, top, inBottom, inArray, times>>,
           NEW k, Pushes(k), Grows(V, k), NEW W, Extends(V, W)
    PROVE  DequeInv(W)'
<1> USE QueueAssumption
<1>0. W[bottom] = given + 1 /\ \A i \in top..(bottom - 1) : W[i] = V[i]
  BY DEF Extends
<1>1. /\ TypeOK /\ Window /\ Reach = bottom /\ Reach' = bottom + 1 /\ bottom' = bottom + 1
      /\ given' = given + 1
  BY DEF DequeInv, Reach, Pushes
<1>2. /\ top \in Nat /\ bottom \in Int /\ inBottom \in Int /\ array \in Nat \ {0}
      /\ array \in DOMAIN slot /\ inArray \in DOMAIN slot /\ inArray \in Nat
      /\ DOMAIN slot \subseteq Nat \ {0} /\ given \in Nat /\ given \in 0..MaxPush
      /\ top <= bottom /\ inBottom <= bottom /\ MaxPush \in Nat
  BY <1>1, Types DEF Window, TypeOK
<1>3. /\ DOMAIN slot' = DOMAIN slot \cup {array'}
      /\ DOMAIN slot' \subseteq Nat \ {0} /\ array' \in Nat \ {0}
      /\ \A m \in DOMAIN slot : slot'[m] = slot[m]
      /\ array <= array'
  <2>1. /\ DOMAIN slot' = DOMAIN slot \cup {array'} /\ DOMAIN slot' \subseteq Nat \ {0}
        /\ \A m \in DOMAIN slot : slot'[m] = slot[m]
    BY DEF Pushes, ArraysOK
  <2>2. array' = array \/ array' > array
    BY DEF Grows
  <2> QED
    BY <1>2, <2>1, <2>2
<1>4. Fits(array', bottom) /\ bottom - top < array'
  BY DEF Pushes, Fits
<1>5. Window'
  BY <1>1, <1>2, <1>3, <1>4 DEF Window
<1>6. TypeOK'
  <2>1. bottom' \in Int /\ bottom' - top' \in -1..array' /\ given' \in 0..MaxPush
    BY <1>1, <1>2, <1>3, <1>4
  <2>2. stores' \in Seq(Store') /\ ArraysOK(Values)'
    BY DEF Pushes
  <2>3. array' \in DOMAIN slot' /\ inArray' \in DOMAIN slot'
    BY <1>2, <1>3
  <2>4. arr' \in [Threads -> DOMAIN slot']
    BY <1>1, <1>3 DEF TypeOK
  <2>5. /\ pc' \in [Threads -> {"idle", "top", "bottom", "array", "get", "cas"}]
        /\ elt' \in [Threads -> Values] /\ h' \in [Threads -> Nat]
        /\ top' \in Nat /\ inBottom' \in Int /\ times' \in [1..MaxPush -> Nat]
    BY <1>1 DEF TypeOK
  <2> QED
    BY <2>1, <2>2, <2>3, <2>4, <2>5 DEF TypeOK
<1>7. Owners(W)'
  BY DEF DequeInv, Owners
<1>8. Live(W)'
  <2>1. \A i \in top..(Reach' - 1) : i = bottom \/ i \in top..(Reach - 1)
    BY <1>1, <1>2
  <2>2. \A i \in top..(Reach - 1) : W[i] = V[i] /\ V[i] \in 1..given /\ times[V[i]] = 0
    BY <1>0, <1>1 DEF DequeInv, Live
  <2>3. \A i \in top..(Reach' - 1) : W[i] \in 1..(given + 1) /\ times[W[i]] = 0
    <3>1. given + 1 \in 1..MaxPush /\ given + 1 > given
      BY <1>2
    <3>2. times[given + 1] = 0
      BY <3>1 DEF DequeInv, Live
    <3> QED
      BY <1>0, <1>2, <2>1, <2>2, <3>2
  <2>4. ASSUME NEW i \in top..(Reach' - 1), NEW j \in top..(Reach' - 1), W[i] = W[j]
        PROVE  i = j
    <3>1. CASE i = bottom /\ j # bottom
      BY <1>0, <1>2, <2>1, <2>2, <2>4, <3>1
    <3>2. CASE j = bottom /\ i # bottom
      BY <1>0, <1>2, <2>1, <2>2, <2>4, <3>2
    <3>3. CASE i # bottom /\ j # bottom
      BY <2>1, <2>2, <2>4, <3>3 DEF DequeInv, Live
    <3> QED
      BY <3>1, <3>2, <3>3
  <2>5. \A e \in 1..MaxPush : times[e] <= 1 /\ (e > given + 1 => times[e] = 0)
    BY <1>2 DEF DequeInv, Live
  <2>6. ASSUME NEW e \in 1..(given + 1), times[e] = 0
        PROVE  \E i \in top..(Reach' - 1) : W[i] = e
    <3>1. CASE e = given + 1
      <4>1. bottom \in top..(Reach' - 1)
        BY <1>1, <1>2
      <4> QED
        BY <1>0, <3>1, <4>1
    <3>2. CASE e # given + 1
      <4>1. e \in 1..given
        BY <1>2, <3>2
      <4>2. PICK i \in top..(Reach - 1) : V[i] = e
        BY <2>6, <4>1 DEF DequeInv, Live
      <4>3. i \in top..(Reach' - 1)
        BY <1>1, <1>2
      <4> QED
        BY <2>2, <4>2, <4>3
    <3> QED
      BY <3>1, <3>2
  <2> QED
    BY <1>1, <2>3, <2>4, <2>5, <2>6 DEF Live
<1>9. Buffer(W)'
  <2>1. Ascends'
    <3>1. ASSUME NEW j \in DOMAIN stores', Raises(j)'
          PROVE  /\ inBottom < stores'[j].val /\ stores'[j].val <= bottom + 1
                 /\ stores'[j].val \in Int
                 /\ j # k + 2 => stores'[j].val <= bottom
      <4>1. CASE j = k + 2
        BY <1>2, <4>1 DEF Pushes, StoreBottom
      <4>2. CASE j # k + 2
        <5>1. Raises(j) /\ j \in DOMAIN stores /\ stores'[j] = stores[j]
          BY <3>1, <4>2, PushedStores DEF Raises
        <5>2. stores[j].val \in Int
          BY <1>1, <5>1, PublishesInt
        <5> QED
          BY <1>1, <1>2, <5>1, <5>2 DEF DequeInv, Buffer, Ascends
      <4> QED
        BY <4>1, <4>2
    <3>2. ASSUME NEW j \in DOMAIN stores', NEW l \in DOMAIN stores', Raises(j)', Raises(l)', j < l
          PROVE  stores'[j].val < stores'[l].val
      <4>0. k \in Nat /\ l \in 1..(k + 2) /\ j \in 1..(k + 2)
        BY DEF Pushes
      <4>1. j # k + 2 /\ Raises(j) /\ j \in DOMAIN stores /\ stores'[j] = stores[j]
        BY <3>2, <4>0, PushedStores DEF Raises
      <4>2. CASE l = k + 2
        <5>1. stores'[l].val = bottom + 1 /\ stores'[j].val <= bottom /\ stores'[j].val \in Int
          BY <3>1, <3>2, <4>1, <4>2 DEF Pushes, StoreBottom
        <5> QED
          BY <1>2, <5>1
      <4>3. CASE l # k + 2
        <5>1. Raises(l) /\ l \in DOMAIN stores /\ stores'[l] = stores[l]
          BY <3>2, <4>3, PushedStores DEF Raises
        <5> QED
          BY <3>2, <4>1, <5>1 DEF DequeInv, Buffer, Ascends
      <4> QED
        BY <4>2, <4>3
    <3> QED
      BY <1>1, <3>1, <3>2 DEF Ascends
  <2>2. ArraysAscend'
    <3>1. ASSUME NEW j \in DOMAIN stores', stores'[j].to = "array"
          PROVE  /\ inArray <= stores'[j].val /\ stores'[j].val <= array'
                 /\ j \in DOMAIN stores \/ (j = k /\ stores'[j].val = array')
      <4>1. CASE j \in DOMAIN stores
        <5>1. stores'[j] = stores[j] /\ stores[j].to = "array"
          BY <3>1, <4>1, PushedStores
        <5>2. stores[j].val \in DOMAIN slot /\ inArray <= stores[j].val
          BY <1>1, <4>1, <5>1, StoreKinds DEF DequeInv, Buffer, ArraysAscend
        <5>3. PICK m \in DOMAIN slot : m = stores[j].val
          BY <5>2
        <5>4. m \in Nat /\ m <= array
          BY <1>2 DEF DequeInv, Largest
        <5> QED
          BY <1>2, <1>3, <4>1, <5>1, <5>2, <5>3, <5>4
      <4>2. CASE j \notin DOMAIN stores
        <5>1. j = k /\ stores'[j].val = array'
          BY <3>1, <4>2, PushedKinds
        <5>2. inArray <= array
          BY <1>2 DEF DequeInv, Largest
        <5> QED
          BY <1>2, <1>3, <5>1, <5>2
      <4> QED
        BY <4>1, <4>2
    <3>2. ASSUME NEW j \in DOMAIN stores', NEW l \in DOMAIN stores',
                 stores'[j].to = "array", stores'[l].to = "array", j < l
          PROVE  stores'[j].val <= stores'[l].val
      <4>1. CASE l \notin DOMAIN stores
        BY <3>1, <3>2, <4>1
      <4>2. CASE l \in DOMAIN stores
        <5>1. j \in DOMAIN stores
          <6>1. l \in 1..Len(stores) /\ Len(stores) \in Nat /\ j \in 1..(k + 2) /\ k \in Nat
            BY <1>1, <4>2, StoreKinds DEF Pushes
          <6> QED
            BY <1>1, <3>2, <6>1, StoreKinds
        <5>2. stores'[j] = stores[j] /\ stores'[l] = stores[l]
          BY <4>2, <5>1, PushedStores
        <5> QED
          BY <3>2, <4>2, <5>1, <5>2 DEF DequeInv, Buffer, ArraysAscend
      <4> QED
        BY <4>1, <4>2
    <3> QED
      BY <3>1, <3>2 DEF ArraysAscend
  <2>3. ASSUME NEW j \in DOMAIN stores', stores'[j].to = "slot" PROVE Stored(W, j)'
    <3>1. CASE j \in DOMAIN stores
      <4>1. stores'[j] = stores[j] /\ stores[j].to = "slot"
        BY <2>3, <3>1, PushedStores
      <4>2. Stored(V, j) /\ Raises(j + 1) /\ Publishes(j + 1) \in top..(Reach - 1)
        BY <3>1, <4>1, StoredAt DEF DequeInv, Buffer, Stored
      <4>3. Raises(j + 1)' /\ Publishes(j + 1)' = Publishes(j + 1)
        BY <4>2, PushedStores
      <4>4. W[Publishes(j + 1)] = V[Publishes(j + 1)]
        BY <1>0, <1>1, <4>2
      <4> QED
        BY <4>1, <4>2, <4>3, <4>4 DEF Stored, Fits
    <3>2. CASE j = k + 1
      <4>1. j + 1 = k + 2
        BY <3>2 DEF Pushes
      <4>2. Raises(j + 1)' /\ Publishes(j + 1)' = bottom
        BY <4>1, PushedStores
      <4>3. stores'[j] = StoreSlot(array', given + 1)
        BY <3>2 DEF Pushes
      <4> QED
        BY <1>0, <1>4, <4>2, <4>3 DEF Stored, Fits, StoreSlot
    <3> QED
      BY <2>3, <3>1, <3>2, PushedKinds
  <2>4. ASSUME NEW j \in DOMAIN stores', stores'[j].to = "array" PROVE Raises(j + 2)'
    <3>1. CASE j \in DOMAIN stores
      <4>1. Raises(j + 2)
        BY <2>4, <3>1, PushedStores DEF DequeInv, Buffer
      <4> QED
        BY <4>1, PushedStores
    <3>2. CASE j = k
      BY <3>2, PushedStores
    <3> QED
      BY <2>4, <3>1, <3>2, PushedKinds
  <2> QED
    BY <2>1, <2>2, <2>3, <2>4 DEF Buffer
<1>10. Largest'
  <2>1. \A m \in DOMAIN slot' : m <= array'
    BY <1>2, <1>3 DEF DequeInv, Largest
  <2>2. CASE array' = array
    <3>1. \A j \in DOMAIN stores : j \in DOMAIN stores' /\ stores'[j] = stores[j]
      BY PushedStores
    <3> QED
      BY <2>1, <2>2, <3>1 DEF DequeInv, Largest
  <2>3. CASE array' # array
    <3>1. k \in 1..k /\ stores'[k] = [to |-> "array", val |-> array'] /\ k \in DOMAIN stores'
      BY <2>3 DEF Grows, Pushes
    <3> QED
      BY <2>1, <3>1 DEF Largest
  <2> QED
    BY <2>2, <2>3
<1>11. Contents(W)'
  <2>1. \A m, i : /\ Replaced(m, i) => Replaced(m, i)'
                  /\ Coming(m, i) => Coming(m, i)'
    BY PushedStores, BufferGrows
  <2> SUFFICES ASSUME NEW m \in DOMAIN slot', m >= inArray, NEW i \in top..bottom
               PROVE  \/ Replaced(m, i)'
                      \/ /\ Fits(m, i)
                         /\ At(m, i)' = W[i] \/ Coming(m, i)'
    <3>1. Reach' - 1 = bottom
      BY <1>1, <1>2
    <3> QED
      BY <3>1 DEF Contents, Fits
  <2>2. m \in Nat /\ i \in Int
    BY <1>2, <1>3
  <2>3. CASE i = bottom /\ m = array'
    <3>1. Coming(m, i)'
      <4>1. (k + 1) + 1 = k + 2 /\ stores'[k + 1] = StoreSlot(array', given + 1)
        BY DEF Pushes
      <4>2. k + 1 \in DOMAIN stores' /\ Publishes((k + 1) + 1)' = bottom
        BY <4>1, PushedStores
      <4> QED
        BY <2>3, <4>1, <4>2 DEF Coming, StoreSlot
    <3> QED
      BY <1>4, <2>3, <3>1
  <2>4. CASE i = bottom /\ m # array'
    <3>1. m \in DOMAIN slot /\ m <= array
      BY <1>3, <2>4 DEF DequeInv, Largest
    <3>2. CASE array' = array
      <4>1. inArray # array
        BY <1>2, <2>2, <2>4, <3>1, <3>2
      <4>2. PICK j \in DOMAIN stores : stores[j].to = "array" /\ stores[j].val = array
        BY <4>1 DEF DequeInv, Largest
      <4>3. stores[j].val > m
        BY <1>2, <2>2, <2>4, <3>1, <3>2, <4>2
      <4>4. Publishes(j + 2) <= bottom
        BY <1>1, <1>2, <4>2, ReplacedAt
      <4> QED
        BY <2>1, <2>4, <4>2, <4>3, <4>4 DEF Replaced
    <3>3. CASE array' # array
      <4>1. k \in DOMAIN stores' /\ stores'[k] = [to |-> "array", val |-> array'] /\ array' > m
        BY <1>2, <1>3, <2>2, <3>1, <3>3 DEF Grows, Pushes
      <4>2. Publishes(k + 2)' <= i
        <5>1. Publishes(k + 2)' = bottom
          BY PushedStores
        <5> QED
          BY <1>2, <2>4, <5>1
      <4> QED
        BY <4>1, <4>2 DEF Replaced
    <3> QED
      BY <3>2, <3>3
  <2>5. CASE i # bottom
    <3>1. i \in top..(bottom - 1) /\ i \in top..(Reach - 1) /\ W[i] = V[i]
      <4>1. i \in top..(bottom - 1)
        BY <1>2, <2>5
      <4> QED
        BY <1>0, <1>1, <4>1
    <3>2. CASE m \in DOMAIN slot
      <4>1. At(m, i)' = At(m, i)
        BY <1>3, <3>2 DEF At
      <4> QED
        BY <2>1, <3>1, <3>2, <4>1 DEF DequeInv, Contents
    <3>3. CASE m \notin DOMAIN slot
      <4>1. m = array' /\ array' # array
        BY <1>2, <1>3, <3>3
      <4>2. slot'[m][Index(m, i)] = V[i]
        BY <3>1, <4>1 DEF Grows
      <4>3. Fits(m, i)
        BY <1>2, <1>4, <2>2, <3>1, <4>1 DEF Fits
      <4> QED
        BY <3>1, <4>2, <4>3 DEF At
    <3> QED
      BY <3>2, <3>3
  <2> QED
    BY <2>3, <2>4, <2>5
<1>12. ASSUME NEW t \in Threads \ {Owner} PROVE Thief(W, t)'
  <2>1. arr[t] \in DOMAIN slot /\ h[t] \in Nat
    BY <1>1 DEF TypeOK
  <2>2. At(arr[t], top)' = At(arr[t], top)
    BY <1>3, <2>1 DEF At
  <2>3. h[t] = top /\ h[t] < inBottom => W[top] = V[top]
    <3> SUFFICES ASSUME h[t] = top, h[t] < inBottom PROVE W[top] = V[top]
      OBVIOUS
    <3>1. top \in top..(bottom - 1)
      BY <1>2
    <3> QED
      BY <1>0, <3>1
  <2> QED
    BY <2>2, <2>3 DEF DequeInv, Thief, Sees
<1> QED
  BY <1>5, <1>6, <1>7, <1>8, <1>9, <1>10, <1>11, <1>12 DEF DequeInv

LEMMA TwoMore ==
    ASSUME NEW S, NEW s \in Seq(S), NEW a \in S, NEW b \in S
    PROVE  /\ s \o <<a, b>> \in Seq(S)
           /\ Len(s \o <<a, b>>) = Len(s) + 2
           /\ \A j \in 1..Len(s) : (s \o <<a, b>>)[j] = s[j]
           /\ (s \o <<a, b>>)[Len(s) + 1] = a
           /\ (s \o <<a, b>>)[Len(s) + 2] = b
  OBVIOUS

\* An element that is pushed is stored in the array that is in force.
LEMMA PushedSeq ==
    ASSUME NEW V, DequeInv(V), Push,
           NEW n, array' = n, n \in DOMAIN slot', DOMAIN slot \subseteq DOMAIN slot',
           DOMAIN slot' \subseteq Nat \ {0}, NEW before \in Seq(Store'),
           stores' = (stores \o before) \o <<StoreSlot(n, given + 1), StoreBottom(bottom + 1)>>
    PROVE  LET k == Len(stores) + Len(before)
           IN  /\ k \in Nat /\ DOMAIN stores' = 1..(k + 2) /\ Len(stores') = k + 2
               /\ stores' \in Seq(Store')
               /\ \A j \in DOMAIN stores : j <= k /\ stores'[j] = stores[j]
               /\ stores'[k + 1] = StoreSlot(n, given + 1)
               /\ stores'[k + 2] = StoreBottom(bottom + 1)
               /\ \A j \in 1..k : \/ j \in DOMAIN stores
                                  \/ /\ j - Len(stores) \in DOMAIN before
                                     /\ stores'[j] = before[j - Len(stores)]
<1> USE QueueAssumption
<1> DEFINE k == Len(stores) + Len(before)
           first == StoreSlot(n, given + 1)
           second == StoreBottom(bottom + 1)
           s == stores \o before
<1>1. TypeOK /\ bottom \in Int /\ given < MaxPush /\ given \in 0..MaxPush /\ MaxPush \in Nat
  BY Types DEF DequeInv, Push, TypeOK
<1>2. stores \in Seq(Store')
  BY <1>1, StoresTyped DEF TypeOK
<1>3. first \in Store' /\ second \in Store'
  <2>1. Index(n, bottom) \in Nat
    <3>1. n \in Nat \ {0}
      OBVIOUS
    <3>2. Index(n, bottom) \in Slots(n)
      BY <1>1, <3>1, IndexIsSlot
    <3> QED
      BY <3>1, <3>2 DEF Slots
  <2>2. given + 1 \in Values
    BY <1>1 DEF Values
  <2> QED
    BY <1>1, <2>1, <2>2 DEF StoreSlot, StoreBottom, Store
<1> HIDE DEF first, second
<1>4. /\ s \in Seq(Store') /\ Len(s) = k /\ k \in Nat
      /\ \A j \in 1..Len(stores) : s[j] = stores[j]
      /\ \A j \in 1..k : j > Len(stores) => s[j] = before[j - Len(stores)]
  BY <1>2
<1> HIDE DEF s
<1>5. /\ stores' \in Seq(Store') /\ Len(stores') = k + 2
      /\ \A j \in 1..k : stores'[j] = s[j]
      /\ stores'[k + 1] = first /\ stores'[k + 2] = second
  <2>1. stores' = s \o <<first, second>>
    BY DEF s, first, second
  <2>2. PICK all : all = Store'
    OBVIOUS
  <2>3. /\ stores' \in Seq(all) /\ Len(stores') = Len(s) + 2
        /\ \A j \in 1..Len(s) : stores'[j] = s[j]
        /\ stores'[Len(s) + 1] = first /\ stores'[Len(s) + 2] = second
    <3>1. s \in Seq(all) /\ first \in all /\ second \in all
      BY <1>3, <1>4, <2>2
    <3>2. PICK u, a, b : u = s /\ a = first /\ b = second
      OBVIOUS
    <3>3. u \in Seq(all) /\ a \in all /\ b \in all
      BY <3>1, <3>2
    <3>4. PICK v : v = u \o <<a, b>>
      OBVIOUS
    <3>5. v \in Seq(all) /\ Len(v) = Len(u) + 2 /\ v[Len(u) + 1] = a /\ v[Len(u) + 2] = b
      BY <3>3, <3>4, TwoMore
    <3>6. \A j \in 1..Len(u) : v[j] = u[j]
      BY <3>3, <3>4, TwoMore
    <3> QED
      BY <2>1, <3>2, <3>4, <3>5, <3>6
  <2> QED
    BY <1>4, <2>2, <2>3
<1>6. DOMAIN stores' = 1..(k + 2) /\ DOMAIN stores = 1..Len(stores) /\ Len(stores) \in Nat
      /\ DOMAIN before = 1..Len(before) /\ Len(before) \in Nat
  BY <1>2, <1>5
<1>7. \A j \in DOMAIN stores : j <= k /\ stores'[j] = stores[j]
  <2> SUFFICES ASSUME NEW j \in DOMAIN stores PROVE j <= k /\ stores'[j] = stores[j]
    OBVIOUS
  <2>1. j \in 1..Len(stores) /\ j \in 1..k
    BY <1>6
  <2> QED
    BY <1>4, <1>5, <2>1
<1>8. ASSUME NEW j \in 1..k, j \notin DOMAIN stores
      PROVE  j - Len(stores) \in DOMAIN before /\ stores'[j] = before[j - Len(stores)]
  <2>1. j > Len(stores) /\ j - Len(stores) \in 1..Len(before)
    BY <1>6, <1>8
  <2> QED
    BY <1>4, <1>5, <1>6, <2>1
<1> QED
  BY <1>4, <1>5, <1>6, <1>7, <1>8 DEF first, second

LEMMA PushInv ==
    ASSUME NEW V, DequeInv(V), Push
    PROVE  \E W : DequeInv(W)'
<1> USE QueueAssumption
<1>1. /\ TypeOK /\ pc[Owner] = "idle" /\ given < MaxPush /\ given' = given + 1
      /\ UNCHANGED <<pc, elt, arr, h, top, inBottom, inArray, times>>
      /\ Reach = bottom /\ Window
  BY DEF DequeInv, Push, Reach
<1>2. /\ top \in Nat /\ bottom \in Int /\ array \in Nat \ {0} /\ array \in DOMAIN slot
      /\ DOMAIN slot \subseteq Nat \ {0} /\ top <= bottom /\ bottom - top <= array
      /\ ArraysOK(Values)
  BY <1>1, Types DEF Window, TypeOK
<1>3. PICK W : Extends(V, W)
  <2> DEFINE U == [i \in Int |-> IF i = bottom THEN given + 1 ELSE V[i]]
  <2>1. Extends(V, U)
    BY <1>2 DEF Extends
  <2> QED
    BY <2>1
<1>4. CASE ~Full /\ UNCHANGED slot /\ StoreElement(array, given', <<>>)
  <2>1. /\ stores' = (stores \o <<>>) \o <<StoreSlot(array, given + 1), StoreBottom(bottom + 1)>>
        /\ array' = array /\ bottom' = bottom + 1
    BY <1>1, <1>4 DEF StoreElement, StoreSlot
  <2>2. PICK before \in Seq(Store') : before = <<>>
    <3>1. <<>> \in Seq(Store')
      OBVIOUS
    <3> QED
      BY <3>1
  <2>3. PICK k : k = Len(stores) + Len(before)
    OBVIOUS
  <2>4. /\ k \in Nat /\ DOMAIN stores' = 1..(k + 2) /\ Len(stores') = k + 2
        /\ stores' \in Seq(Store')
        /\ \A j \in DOMAIN stores : j <= k /\ stores'[j] = stores[j]
        /\ stores'[k + 1] = StoreSlot(array, given + 1)
        /\ stores'[k + 2] = StoreBottom(bottom + 1)
        /\ \A j \in 1..k : \/ j \in DOMAIN stores
                           \/ /\ j - Len(stores) \in DOMAIN before
                              /\ stores'[j] = before[j - Len(stores)]
    BY <1>2, <1>4, <2>1, <2>2, <2>3, PushedSeq, ZenonT(60)
  <2>5. DOMAIN before = {}
    BY <2>2
  <2>6. Fits(array, bottom)
    BY <1>2, <1>4 DEF Full, Fits
  <2>7. Pushes(k) /\ Grows(V, k)
    <3>1. StoreSlot(array', given + 1) = StoreSlot(array, given + 1)
          /\ Fits(array', bottom) /\ ArraysOK(Values)'
          /\ DOMAIN slot' = DOMAIN slot \cup {array'}
      BY <1>2, <1>4, <2>1, <2>6 DEF ArraysOK
    <3> QED
      BY <1>1, <1>4, <2>1, <2>4, <2>5, <3>1 DEF Pushes, Grows
  <2>8. DequeInv(W)'
    BY <1>1, <1>3, <2>7, PushedInv
  <2> QED
    BY <2>8
<1>5. CASE /\ Full /\ Resize(array, [i \in top..(bottom - 1) |-> OwnGet(array, i)])
           /\ StoreElement(2 * array, given', <<[to |-> "array", val |-> 2 * array]>>)
  <2> DEFINE e == [i \in top..(bottom - 1) |-> OwnGet(array, i)]
  <2>1. PICK n : n = Doubled(array)
    OBVIOUS
  <2>2. n = 2 * array /\ n \in Nat \ {0} /\ n > array
    BY <1>2, <2>1 DEF Doubled
  <2>3. \A i \in top..(bottom - 1) : e[i] = V[i] /\ e[i] \in Values
    <3> SUFFICES ASSUME NEW i \in top..(bottom - 1) PROVE OwnGet(array, i) = V[i] /\ V[i] \in Values
      OBVIOUS
    <3>1. i \in top..(Reach - 1)
      BY <1>1
    <3>2. OwnGet(array, i) = V[i]
      BY <3>1, OwnGetIs
    <3>3. V[i] \in 1..given /\ given \in 0..MaxPush /\ MaxPush \in Nat
      BY <1>1, <3>1 DEF DequeInv, Live, TypeOK
    <3> QED
      BY <3>2, <3>3 DEF Values
  <2>4. Resize(array, e) /\ DOMAIN e = top..(bottom - 1)
    BY <1>5
  <2> HIDE DEF e
  <2>5. DOMAIN e \subseteq Int /\ Apart(DOMAIN e, Doubled(array))
    <3>1. bottom - top <= n
      BY <1>2, <2>2
    <3> QED
      BY <1>2, <2>1, <2>2, <2>4, <3>1, RangeApart
  <2>6. \A i \in DOMAIN e : slot'[n][Index(n, i)] = e[i]
    BY <1>2, <2>1, <2>4, <2>5, ResizeCopies
  <2>7. \A i \in DOMAIN e : e[i] \in Values
    BY <2>3, <2>4
  <2>8. /\ DOMAIN slot' = DOMAIN slot \cup {n}
        /\ DOMAIN slot' \subseteq Nat \ {0}
        /\ \A m \in DOMAIN slot' : slot'[m] \in [Slots(m) -> Values]
        /\ \A m \in DOMAIN slot \ {n} : slot'[m] = slot[m]
    <3>1. Garbage \in Values
      BY DEF Values
    <3> QED
      BY <1>2, <2>1, <2>4, <2>7, <3>1, ResizeKeeps
  <2>9. n \notin DOMAIN slot
    BY <1>2, <2>2 DEF DequeInv, Largest
  <2>10. PICK store : store = [to |-> "array", val |-> n]
    OBVIOUS
  <2>11. store \in Store'
    BY <2>8, <2>10 DEF Store
  <2>12. PICK before \in Seq(Store') : before = <<store>>
    <3>1. <<store>> \in Seq(Store')
      BY <2>11
    <3> QED
      BY <3>1
  <2>13. /\ stores' = (stores \o before) \o <<StoreSlot(n, given + 1), StoreBottom(bottom + 1)>>
         /\ array' = n /\ bottom' = bottom + 1
    BY <1>1, <1>5, <2>2, <2>10, <2>12 DEF StoreElement, StoreSlot
  <2>14. PICK k : k = Len(stores) + Len(before)
    OBVIOUS
  <2>15. /\ k \in Nat /\ DOMAIN stores' = 1..(k + 2) /\ Len(stores') = k + 2
         /\ stores' \in Seq(Store')
         /\ \A j \in DOMAIN stores : j <= k /\ stores'[j] = stores[j]
         /\ stores'[k + 1] = StoreSlot(n, given + 1)
         /\ stores'[k + 2] = StoreBottom(bottom + 1)
         /\ \A j \in 1..k : \/ j \in DOMAIN stores
                            \/ /\ j - Len(stores) \in DOMAIN before
                               /\ stores'[j] = before[j - Len(stores)]
    BY <2>8, <2>13, <2>14, PushedSeq
  <2>16. /\ DOMAIN before = {1} /\ before[1] = store /\ k = Len(stores) + 1
         /\ Len(stores) \in Nat /\ DOMAIN stores = 1..Len(stores)
    <3>1. Len(stores) \in Nat /\ DOMAIN stores = 1..Len(stores)
      BY <1>1, StoreKinds
    <3> QED
      BY <2>12, <2>14, <3>1
  <2>17. \A j \in 1..k : j \in DOMAIN stores \/ (j = k /\ stores'[j] = store)
    <3> SUFFICES ASSUME NEW j \in 1..k, j \notin DOMAIN stores PROVE j = k /\ stores'[j] = store
      OBVIOUS
    <3>1. j - Len(stores) = 1 /\ stores'[j] = before[j - Len(stores)]
      BY <2>15, <2>16
    <3> QED
      BY <2>16, <3>1
  <2>18. k \in 1..k /\ stores'[k] = store
    <3>1. k \in 1..k /\ k \notin DOMAIN stores
      BY <2>16
    <3> QED
      BY <2>17, <3>1
  <2>19. Fits(n, bottom)
    BY <1>2, <2>2 DEF Fits
  <2>20. Pushes(k)
    <3>1. StoreSlot(array', given + 1) = StoreSlot(n, given + 1)
          /\ Fits(array', bottom) /\ ArraysOK(Values)'
          /\ DOMAIN slot' = DOMAIN slot \cup {array'}
          /\ \A m \in DOMAIN slot : slot'[m] = slot[m]
      BY <2>8, <2>9, <2>13, <2>19 DEF ArraysOK
    <3> QED
      BY <1>1, <2>10, <2>13, <2>15, <2>17, <3>1 DEF Pushes
  <2>21. Grows(V, k)
    BY <2>2, <2>3, <2>4, <2>6, <2>10, <2>13, <2>18 DEF Grows
  <2>22. DequeInv(W)'
    BY <1>1, <1>3, <2>20, <2>21, PushedInv
  <2> QED
    BY <2>22
<1> QED
  BY <1>4, <1>5 DEF Push

----------------------------------------------------------------------------
(* The invariant is inductive, and the theorems.                           *)

Inductive == \E V : DequeInv(V)

LEMMA InitInv == ASSUME Init PROVE Inductive
<1> USE QueueAssumption
<1>1. TypeOK
  <2>1. /\ DOMAIN slot = {InitSize} /\ slot[InitSize] = [i \in Slots(InitSize) |-> Garbage]
        /\ Garbage \in Values /\ EMPTY \in Values /\ InitSize \in Nat \ {0}
    BY DEF Init, NewArray, Values
  <2>2. ArraysOK(Values)
    BY <2>1 DEF ArraysOK
  <2>3. stores \in Seq(Store)
    BY DEF Init
  <2>4. bottom - top \in -1..array
    BY DEF Init
  <2> QED
    BY <2>1, <2>2, <2>3, <2>4 DEF Init, TypeOK
<1>2. /\ stores = <<>> /\ DOMAIN stores = {} /\ Reach = 0 /\ top = 0 /\ bottom = 0
      /\ pc \in [Threads -> {"idle"}]
  BY DEF Init, Reach
<1>3. top..(Reach - 1) = {}
  BY <1>2
<1> DEFINE V == [i \in Int |-> 0]
<1>4. Owners(V) /\ Window
  BY <1>2 DEF Init, Owners, Window
<1>5. Live(V)
  BY <1>3 DEF Init, Live
<1>6. Buffer(V)
  BY <1>2 DEF Buffer, Ascends, ArraysAscend
<1>7. Largest /\ Contents(V)
  BY <1>2, <1>3 DEF Init, Largest, Contents, NewArray
<1>8. \A t \in Threads \ {Owner} : Thief(V, t)
  BY DEF Init, Thief
<1> HIDE DEF V
<1> QED
  BY <1>1, <1>4, <1>5, <1>6, <1>7, <1>8 DEF DequeInv, Inductive

LEMMA NextInv == ASSUME Inductive, [Next]_vars PROVE Inductive'
<1>1. PICK V : DequeInv(V)
  BY DEF Inductive
<1>2. CASE UNCHANGED vars
  <2>1. DequeInv(V)'
    BY <1>1, <1>2
       DEF vars, DequeInv, TypeOK, Store, ArraysOK, Owners, Window, Reach, Live, Buffer,
           Ascends, ArraysAscend, Raises, Lowers, Publishes, Stored, Fits, Largest,
           Contents, Replaced, Coming, At, Thief, Sees
  <2> QED
    BY <2>1 DEF Inductive
<1>3. CASE Push
  BY <1>1, <1>3, PushInv DEF Inductive
<1>4. CASE Pop \/ PopTop \/ PopCas \/ Flush
  <2>1. DequeInv(V)'
    BY <1>1, <1>4, PopInv, PopTopInv, PopCasInv, FlushInv
  <2> QED
    BY <2>1 DEF Inductive
<1>5. CASE \E t \in Threads : Steal(t) \/ StealBottom(t) \/ StealArray(t) \/ StealGet(t) \/ StealCas(t)
  <2>1. DequeInv(V)'
    BY <1>1, <1>5, StealInv, StealBottomInv, StealArrayInv, StealGetInv, StealCasInv
  <2> QED
    BY <2>1 DEF Inductive
<1> QED
  BY <1>2, <1>3, <1>4, <1>5 DEF Next

LEMMA Invariance == Spec => []Inductive
<1>1. Init => Inductive
  BY InitInv
<1>2. Inductive /\ [Next]_vars => Inductive'
  BY NextInv
<1> QED
  BY <1>1, <1>2, PTL DEF Spec

\* Every variable of the deque keeps its type: every slot that is read or
\* written is one of an array that has been allocated, and bottom is at most
\* one below top.
THEOREM TypeCorrectness == Spec => []TypeOK
<1>1. Inductive => TypeOK
  BY DEF Inductive, DequeInv
<1> QED
  BY <1>1, Invariance, PTL

\* No element is returned by two calls: by the owner's pop and a thief that race
\* for the last one, or by two thieves, one of which reads an array that the
\* owner has replaced meanwhile.
THEOREM NoElementTwice == Spec => []TakenOnce
<1>1. Inductive => TakenOnce
  BY DEF Inductive, DequeInv, Live, TakenOnce
<1> QED
  BY <1>1, Invariance, PTL

\* When nobody is inside a call, every element that was pushed and not returned
\* is in the deque, between top and bottom, where the owner reads it.
THEOREM NoElementLost == Spec => []NoneLost
<1>1. ASSUME Inductive PROVE NoneLost
  <2>1. PICK V : DequeInv(V)
    BY <1>1 DEF Inductive
  <2> SUFFICES ASSUME \A t \in Threads : pc[t] = "idle", NEW e \in 1..given, times[e] = 0
               PROVE  \E i \in top..(bottom - 1) : OwnGet(array, i) = e
    BY DEF NoneLost
  <2>2. Reach = bottom
    BY <1>1, QueueAssumption DEF Reach
  <2>3. PICK i \in top..(Reach - 1) : V[i] = e
    BY <2>1 DEF DequeInv, Live
  <2>4. OwnGet(array, i) = e
    BY <2>1, <2>3, OwnGetIs
  <2> QED
    BY <2>2, <2>3, <2>4
<1> QED
  BY <1>1, Invariance, PTL
=============================================================================
