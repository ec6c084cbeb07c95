------------------------- MODULE CircularArray_proofs -------------------------
(***************************************************************************)
(* What the queues' proofs use of their circular arrays.                   *)
(***************************************************************************)
EXTENDS CircularArray, TLAPS

\* Indices of S have slots of their own in an array of n.
Apart(S, n) == \A i, j \in S : Index(n, i) = Index(n, j) => i = j

\* idx & mask is a slot of the array.
LEMMA IndexIsSlot ==
    ASSUME NEW n \in Nat \ {0}, NEW i \in Int PROVE Index(n, i) \in Slots(n)
  BY DEF Index, Slots

\* Indices less than a whole array apart have different slots.
LEMMA SlotsApart ==
    ASSUME NEW n \in Nat \ {0}, NEW i \in Int, NEW j \in Int, i < j, j - i < n
    PROVE  Index(n, i) # Index(n, j)
<1> DEFINE p == i \div n
           q == j \div n
<1>1. p \in Int /\ q \in Int /\ i = n * p + (i % n) /\ j = n * q + (j % n)
  OBVIOUS
<1> HIDE DEF p, q
<1>2. ASSUME i % n = j % n PROVE FALSE
  <2>1. j - i = n * (q - p) /\ q - p \in Int
    BY <1>1, <1>2
  <2>2. CASE q - p <= 0
    BY <2>1, <2>2
  <2>3. CASE q - p >= 1
    BY <2>1, <2>3
  <2> QED
    BY <2>1, <2>2, <2>3
<1> QED
  BY <1>2 DEF Index

LEMMA RangeApart ==
    ASSUME NEW n \in Nat \ {0}, NEW a \in Int, NEW b \in Int, b - a <= n
    PROVE  Apart(a..(b - 1), n)
<1> SUFFICES ASSUME NEW i \in a..(b - 1), NEW j \in a..(b - 1), Index(n, i) = Index(n, j)
             PROVE  i = j
  BY DEF Apart
<1>1. i \in Int /\ j \in Int /\ i - j < n /\ j - i < n
  OBVIOUS
<1>2. ~(i < j) /\ ~(j < i)
  BY <1>1, SlotsApart
<1> QED
  BY <1>1, <1>2

\* The size of the array that replaces one of n
Doubled(n) == 2 * n

\* circular_array_resize: the new array has the elements at their indices, the
\* other arrays are as they were.
LEMMA ResizeIs ==
    ASSUME NEW n, NEW e, Resize(n, e), NEW i \in Slots(Doubled(n))
    PROVE  \/ /\ slot'[Doubled(n)][i] = Garbage
              /\ \A j \in DOMAIN e : Index(Doubled(n), j) # i
           \/ \E j \in DOMAIN e :
                 Index(Doubled(n), j) = i /\ slot'[Doubled(n)][i] = e[j]
<1> DEFINE from == CHOOSE j \in DOMAIN e : Index(Doubled(n), j) = i
<1>1. slot'[Doubled(n)][i] = IF \E j \in DOMAIN e : Index(Doubled(n), j) = i
                             THEN e[from] ELSE Garbage
  BY DEF Resize, Doubled
<1>2. CASE \E j \in DOMAIN e : Index(Doubled(n), j) = i
  <2>1. from \in DOMAIN e /\ Index(Doubled(n), from) = i
    BY <1>2
  <2> QED
    BY <1>1, <1>2, <2>1
<1> QED
  BY <1>1, <1>2

LEMMA ResizeCopies ==
    ASSUME NEW n \in Nat \ {0}, NEW e, DOMAIN e \subseteq Int,
           Apart(DOMAIN e, Doubled(n)), Resize(n, e), NEW i \in DOMAIN e
    PROVE  slot'[Doubled(n)][Index(Doubled(n), i)] = e[i]
<1>1. Index(Doubled(n), i) \in Slots(Doubled(n))
  BY IndexIsSlot DEF Doubled
<1>2. PICK j \in DOMAIN e : /\ Index(Doubled(n), j) = Index(Doubled(n), i)
                            /\ slot'[Doubled(n)][Index(Doubled(n), i)] = e[j]
  BY <1>1, ResizeIs
<1> QED
  BY <1>2 DEF Apart

LEMMA ResizeKeeps ==
    ASSUME NEW n \in Nat \ {0}, NEW e, NEW V, Garbage \in V, \A i \in DOMAIN e : e[i] \in V,
           Resize(n, e), ArraysOK(V)
    PROVE  /\ DOMAIN slot' = DOMAIN slot \cup {Doubled(n)}
           /\ DOMAIN slot' \subseteq Nat \ {0}
           /\ \A m \in DOMAIN slot' : slot'[m] \in [Slots(m) -> V]
           /\ \A m \in DOMAIN slot \ {Doubled(n)} : slot'[m] = slot[m]
<1>1. /\ DOMAIN slot' = DOMAIN slot \cup {Doubled(n)}
      /\ \A m \in DOMAIN slot \ {Doubled(n)} : slot'[m] = slot[m]
  BY DEF Resize, Doubled
<1>2. slot'[Doubled(n)] \in [Slots(Doubled(n)) -> V]
  <2>1. \A i \in Slots(Doubled(n)) : slot'[Doubled(n)][i] \in V
    BY ResizeIs
  <2>2. slot'[Doubled(n)] = [i \in Slots(Doubled(n)) |-> slot'[Doubled(n)][i]]
    BY DEF Resize, Doubled
  <2> QED
    BY <2>1, <2>2
<1>3. Doubled(n) \in Nat \ {0}
  BY DEF Doubled
<1> QED
  BY <1>1, <1>2, <1>3 DEF ArraysOK

LEMMA SetAtKeeps ==
    ASSUME NEW V, ArraysOK(V), NEW n \in DOMAIN slot, NEW i \in Int, NEW e \in V,
           SetAt(n, i, e)
    PROVE  /\ DOMAIN slot' = DOMAIN slot
           /\ DOMAIN slot' \subseteq Nat \ {0}
           /\ \A m \in DOMAIN slot' : slot'[m] \in [Slots(m) -> V]
           /\ slot'[n][Index(n, i)] = e
           /\ \A m \in DOMAIN slot : \A j \in Slots(m) :
                 m # n \/ j # Index(n, i) => slot'[m][j] = slot[m][j]
<1>1. n \in Nat \ {0} /\ Index(n, i) \in Slots(n) /\ slot[n] \in [Slots(n) -> V]
  BY IndexIsSlot DEF ArraysOK
<1>2. /\ DOMAIN slot' = DOMAIN slot /\ \A m \in DOMAIN slot \ {n} : slot'[m] = slot[m]
      /\ slot'[n] = [slot[n] EXCEPT ![Index(n, i)] = e]
  BY DEF SetAt
<1>3. slot'[n] \in [Slots(n) -> V]
  BY <1>1, <1>2
<1>4. /\ DOMAIN slot' \subseteq Nat \ {0}
      /\ \A m \in DOMAIN slot' : slot'[m] \in [Slots(m) -> V]
  BY <1>2, <1>3 DEF ArraysOK
<1> QED
  BY <1>1, <1>2, <1>4

LEMMA SlotExists ==
    ASSUME NEW V, ArraysOK(V), NEW n \in DOMAIN slot, NEW i \in Int
    PROVE  n \in Nat \ {0} /\ Index(n, i) \in Slots(n) /\ At(n, i) \in V
<1>1. n \in Nat \ {0}
  BY DEF ArraysOK
<1>2. Index(n, i) \in Slots(n)
  BY <1>1, IndexIsSlot
<1> QED
  BY <1>1, <1>2 DEF ArraysOK, At
=============================================================================
