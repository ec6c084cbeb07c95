--------------------------- MODULE SegStack_proofs ---------------------------
(***************************************************************************)
(* Segmented stacks of any number of coroutines and segments, any frames   *)
(* and any depth of calls: the properties of SegStack as theorems.         *)
(*                                                                         *)
(* The invariant has three parts: what the segments' pointers mean, which  *)
(* coroutines are in which chain, and how far down contexts reach.         *)
(***************************************************************************)
EXTENDS SegStack, FiniteSetTheorems, SequenceTheorems, WellFoundedInduction, TLAPS

USE SegStackAssumption

----------------------------------------------------------------------------
(* The loops of seff_coroutine_release.                                    *)

LEMMA Least == \A S : S \subseteq Nat /\ S # {} => \E n \in S : \A m \in S : n <= m
<1> SUFFICES ASSUME NEW S, S \subseteq Nat, S # {}
             PROVE  \E n \in S : \A m \in S : n <= m
  OBVIOUS
<1>1. PICK n \in S : \A m \in S : <<m, n>> \notin OpToRel(<, Nat)
  BY NatLessThanWellFounded, WFMin
<1>2. \A m \in S : ~(m < n)
  BY <1>1 DEF OpToRel
<1> QED
  BY <1>2

\* Along follows any sequence h that takes the same steps.
LEMMA AlongIs ==
    ASSUME NEW field, NEW s, NEW n \in Nat, NEW h,
           h[0] = s,
           \A i \in 0..(n - 1) : h[i + 1] = IF field[h[i]] = NULL THEN h[i] ELSE field[h[i]]
    PROVE  Along(field, s, n) = h[n]
<1> DEFINE Step(at) == [i \in 0..n |-> IF i = 0 THEN s
                                      ELSE IF field[at[i - 1]] = NULL THEN at[i - 1]
                                      ELSE field[at[i - 1]]]
           at == CHOOSE f : f = Step(f)
           H == [i \in 0..n |-> h[i]]
<1>1. H = Step(H)
  <2>1. ASSUME NEW i \in 0..n PROVE H[i] = Step(H)[i]
    <3>1. CASE i = 0
      BY <3>1
    <3>2. CASE i # 0
      <4>1. PICK j \in 0..(n - 1) : i = j + 1
        BY <3>2
      <4>2. H[j] = h[j] /\ i - 1 = j
        BY <4>1
      <4>3. h[i] = IF field[h[j]] = NULL THEN h[j] ELSE field[h[j]]
        BY <4>1
      <4> QED
        BY <3>2, <4>2, <4>3
    <3> QED
      BY <3>1, <3>2
  <2> QED
    BY <2>1
<1>2. at = Step(at)
  <2> HIDE DEF H
  <2>1. \E f : f = Step(f)
    BY <1>1
  <2> QED
    BY <2>1
<1>3. Along(field, s, n) = at[n]
  BY DEF Along
<1> HIDE DEF at
<1>4. ASSUME NEW i \in 0..n PROVE at[i] = h[i]
  <2> DEFINE S == {j \in 0..n : at[j] # h[j]}
  <2> SUFFICES ASSUME S # {} PROVE FALSE
    BY <1>4
  <2>1. PICK j \in S : \A k \in S : j <= k
    <3>1. S \subseteq Nat
      OBVIOUS
    <3> HIDE DEF S
    <3> QED
      BY <3>1, Least
  <2>2. at[j] = IF j = 0 THEN s ELSE IF field[at[j - 1]] = NULL THEN at[j - 1]
                ELSE field[at[j - 1]]
    BY <1>2, <2>1
  <2>3. j # 0
    BY <2>1, <2>2
  <2>4. PICK k \in 0..(n - 1) : j = k + 1
    BY <2>1, <2>3
  <2>5. k \notin S /\ j - 1 = k
    BY <2>1, <2>4
  <2>6. at[k] = h[k]
    BY <2>4, <2>5
  <2> QED
    BY <2>1, <2>2, <2>3, <2>4, <2>5, <2>6
<1> QED
  BY <1>3, <1>4

----------------------------------------------------------------------------
(* Chains.                                                                 *)

\* The chain that runs is that of NULL, and a paused coroutine has the one it
\* was paused with.
Live == {NULL} \cup {k \in Coroutines : state[k] = "paused"}
ChainOf(h) == IF h = NULL THEN chain ELSE captured[h]

\* x is at position i of the chain of h, or at its end.
At(h, i, x) == i \in 1..Len(ChainOf(h)) /\ x = ChainOf(h)[i]
Last(h, x) == Len(ChainOf(h)) # 0 /\ At(h, Len(ChainOf(h)), x)

\* A coroutine is in at most one chain, once; the one that a resumption names
\* is first in its chain, and no other member can be resumed or deleted.
Chains ==
    /\ \A h \in Live, i \in Int, x \in Coroutines : At(h, i, x) =>
          state[x] = IF i = 1 /\ h # NULL THEN "paused" ELSE "running"
    /\ \A h \in Live : h # NULL => At(h, 1, h)
    /\ \A g, h \in Live, i, j \in Int, x \in Coroutines :
          At(g, i, x) /\ At(h, j, x) => g = h /\ i = j

LEMMA ChainTypes ==
    ASSUME TypeOK, NEW h \in Live
    PROVE  /\ ChainOf(h) \in Seq(Coroutines) /\ Len(ChainOf(h)) \in Nat
           /\ \A i \in Int : \A x : At(h, i, x) => x \in Coroutines
<1>1. ChainOf(h) \in Seq(Coroutines)
  BY DEF TypeOK, Live, ChainOf
<1>2. PICK c : c = ChainOf(h)
  OBVIOUS
<1>3. c \in Seq(Coroutines) /\ Len(c) \in Nat /\ \A i \in 1..Len(c) : c[i] \in Coroutines
  BY <1>1, <1>2
<1> QED
  BY <1>2, <1>3 DEF At

----------------------------------------------------------------------------
(* Segments.                                                               *)

\* L[k] is the list of k's segments, in positions 1 to m[k].
Lists(L, m) ==
    /\ L \in [Coroutines -> [Int -> Segments \cup {NULL}]]
    /\ m \in [Coroutines -> Nat]
    /\ \A k \in Existing, i \in Int : L[k][i] # NULL <=> i \in 1..m[k]
    /\ \A k \in Existing, i \in Int : i \in 1..m[k] =>
          /\ size[L[k][i]] # NULL
          /\ prev[L[k][i]] = L[k][i - 1]
          /\ next[L[k][i]] = L[k][i + 1]
    /\ \A j, k \in Existing, h, i \in Int :
          h \in 1..m[j] /\ i \in 1..m[k] /\ L[j][h] = L[k][i] => j = k /\ h = i
    /\ \A s \in Segments : size[s] # NULL =>
          \E k \in Existing, i \in Int : i \in 1..m[k] /\ s = L[k][i]

\* A coroutine with the list A of n segments, segment f in use and calls c in
\* progress: e[i] is the position of the segment in which the i-th call was
\* made, and after the last call the one of the segment in use.
DepthsOf(A, n, e, f, c) ==
    /\ f = A[e[Len(c) + 1]]
    /\ \A i \in 1..(Len(c) + 1) : e[i] \in 1..n
    /\ \A i, j \in 1..(Len(c) + 1) : i <= j => e[i] <= e[j]
    /\ \A i \in 1..Len(c) :
          IF c[i].back = NULL THEN e[i + 1] = e[i]
          ELSE e[i + 1] = e[i] + 1 /\ c[i].back.seg = A[e[i]]

Positions == [Int -> Int]

Depths(L, m, d) ==
    /\ d \in [Coroutines -> Positions]
    /\ \A k \in Existing : DepthsOf(L[k], m[k], d[k], frame_ptr[k], calls[k])

SegmentsInv == \E L, m, d : Lists(L, m) /\ Depths(L, m, d)

LEMMA ReleasedIs ==
    ASSUME TypeOK, NEW L, NEW m, NEW d, Lists(L, m), Depths(L, m, d), NEW k \in Existing
    PROVE  Released(k) = {L[k][i] : i \in 1..m[k]}
<1> DEFINE N == Cardinality(Segments)
           p == d[k][Len(calls[k]) + 1]
           A == L[k]
<1>1. k \in Coroutines /\ Len(calls[k]) \in Nat
  BY DEF Existing, TypeOK
<1>2. m[k] \in Nat /\ p \in 1..m[k] /\ frame_ptr[k] = A[p] /\ A \in [Int -> Segments \cup {NULL}]
  <2>1. m[k] \in Nat /\ A \in [Int -> Segments \cup {NULL}]
    BY <1>1 DEF Lists
  <2>2. p \in 1..m[k]
    <3>1. Len(calls[k]) + 1 \in 1..(Len(calls[k]) + 1)
      BY <1>1
    <3>2. \A i \in 1..(Len(calls[k]) + 1) : d[k][i] \in 1..m[k]
      BY DEF Depths, DepthsOf
    <3> QED
      BY <3>1, <3>2
  <2>3. frame_ptr[k] = A[p]
    BY DEF Depths, DepthsOf
  <2> QED
    BY <2>1, <2>2, <2>3
<1>3. N \in Nat
  BY FS_CardinalityType
<1>4. m[k] <= N
  <2> DEFINE f == [i \in 1..m[k] |-> A[i]]
  <2>1. f \in [1..m[k] -> Segments]
    <3>1. \A i \in 1..m[k] : A[i] # NULL /\ i \in Int
      BY <1>1, <1>2 DEF Lists
    <3> HIDE DEF A
    <3>2. \A i \in 1..m[k] : A[i] \in Segments
      BY <1>2, <3>1
    <3> QED
      BY <3>2
  <2>2. \A h, i \in 1..m[k] : f[h] = f[i] => h = i
    <3>1. \A h, i \in Int : h \in 1..m[k] /\ i \in 1..m[k] /\ A[h] = A[i] => h = i
      BY DEF Lists
    <3> QED
      BY <3>1
  <2>3. f \in Injection(1..m[k], Segments)
    BY <2>1, <2>2 DEF Injection, IsInjective
  <2>4. Cardinality(1..m[k]) <= N
    BY <2>3, FS_Injection
  <2>5. PICK n \in Nat : n = m[k] /\ 1 \in Int /\ n \in Int
    BY <1>2
  <2>6. Cardinality(1..n) = n
    BY <2>5, FS_Interval
  <2> QED
    BY <2>4, <2>5, <2>6
<1>5. \A i \in Int : i \in 1..m[k] => /\ prev[A[i]] = A[i - 1] /\ next[A[i]] = A[i + 1]
  BY DEF Lists
<1>6. \A i \in Int : A[i] # NULL <=> i \in 1..m[k]
  BY DEF Lists
<1> HIDE DEF A, p, N
<1>7. Along(prev, frame_ptr[k], N) = A[1]
  <2> DEFINE h == [i \in 0..N |-> A[IF i < p THEN p - i ELSE 1]]
  <2>1. h[0] = frame_ptr[k] /\ h[N] = A[1]
    BY <1>2, <1>3, <1>4
  <2>2. ASSUME NEW i \in 0..(N - 1)
        PROVE  h[i + 1] = IF prev[h[i]] = NULL THEN h[i] ELSE prev[h[i]]
    <3>1. CASE i < p - 1
      <4>1. p - i \in 1..m[k] /\ p - i - 1 \in 1..m[k] /\ i + 1 < p /\ i + 1 \in 0..N
        BY <1>2, <1>3, <3>1
      <4>2. h[i] = A[p - i] /\ h[i + 1] = A[p - i - 1]
        BY <1>2, <1>3, <3>1, <4>1
      <4> QED
        BY <1>5, <1>6, <4>1, <4>2
    <3>2. CASE ~(i < p - 1)
      <4>1. h[i] = A[1] /\ h[i + 1] = A[1]
        BY <1>2, <1>3, <3>2
      <4>2. prev[A[1]] = NULL
        BY <1>2, <1>5, <1>6
      <4> QED
        BY <4>1, <4>2
    <3> QED
      BY <3>1, <3>2
  <2> HIDE DEF h
  <2> QED
    BY <1>3, <2>1, <2>2, AlongIs
<1>8. ASSUME NEW n \in 0..N PROVE Along(next, A[1], n) = A[IF n < m[k] THEN n + 1 ELSE m[k]]
  <2> DEFINE h == [i \in 0..n |-> A[IF i < m[k] THEN i + 1 ELSE m[k]]]
  <2>1. h[0] = A[1] /\ h[n] = A[IF n < m[k] THEN n + 1 ELSE m[k]]
    BY <1>2, <1>3
  <2>2. ASSUME NEW i \in 0..(n - 1)
        PROVE  h[i + 1] = IF next[h[i]] = NULL THEN h[i] ELSE next[h[i]]
    <3>1. CASE i < m[k] - 1
      <4>1. i + 1 \in 1..m[k] /\ i + 2 \in 1..m[k] /\ i + 1 \in 0..n
        BY <1>2, <1>3, <3>1
      <4>2. h[i] = A[i + 1] /\ h[i + 1] = A[i + 2]
        BY <1>2, <1>3, <3>1, <4>1
      <4> QED
        BY <1>5, <1>6, <4>1, <4>2
    <3>2. CASE ~(i < m[k] - 1)
      <4>1. h[i] = A[m[k]] /\ h[i + 1] = A[m[k]]
        BY <1>2, <1>3, <3>2
      <4>2. next[A[m[k]]] = NULL
        BY <1>2, <1>5, <1>6
      <4> QED
        BY <4>1, <4>2
    <3> QED
      BY <3>1, <3>2
  <2> HIDE DEF h
  <2>3. n \in Nat
    BY <1>3
  <2> QED
    BY <2>1, <2>2, <2>3, AlongIs
<1>9. Released(k) = {Along(next, A[1], n) : n \in 0..N}
  BY <1>7 DEF Released, N
<1>10. {Along(next, A[1], n) : n \in 0..N} = {A[i] : i \in 1..m[k]}
  <2>1. ASSUME NEW n \in 0..N PROVE \E i \in 1..m[k] : Along(next, A[1], n) = A[i]
    <3>1. (IF n < m[k] THEN n + 1 ELSE m[k]) \in 1..m[k]
      BY <1>2, <1>3
    <3> QED
      BY <1>8, <3>1
  <2>2. ASSUME NEW i \in 1..m[k] PROVE \E n \in 0..N : A[i] = Along(next, A[1], n)
    <3>1. i - 1 \in 0..N /\ i - 1 < m[k] /\ (i - 1) + 1 = i
      BY <1>2, <1>3, <1>4
    <3> QED
      BY <1>8, <3>1
  <2> QED
    BY <2>1, <2>2
<1> QED
  BY <1>9, <1>10 DEF A

LEMMA AppendSeq ==
    ASSUME NEW S, NEW c \in Seq(S), NEW x \in S
    PROVE  /\ Append(c, x) \in Seq(S) /\ Len(c) \in Nat
           /\ Len(Append(c, x)) = Len(c) + 1
           /\ \A i \in 1..Len(c) : Append(c, x)[i] = c[i]
           /\ Append(c, x)[Len(c) + 1] = x
OBVIOUS

LEMMA FrontSeq ==
    ASSUME NEW S, NEW c \in Seq(S), c # <<>>
    PROVE  LET r == SubSeq(c, 1, Len(c) - 1)
           IN  /\ r \in Seq(S) /\ Len(c) \in Nat \ {0} /\ Len(r) = Len(c) - 1
               /\ \A i \in 1..Len(r) : r[i] = c[i]
<1>1. PICK n \in Nat : n = Len(c) /\ n # 0
  OBVIOUS
<1>2. PICK r : r = SubSeq(c, 1, n - 1)
  OBVIOUS
<1>3. r \in Seq(S) /\ Len(r) = n - 1 /\ \A i \in 1..(n - 1) : r[i] = c[i]
  BY <1>1, <1>2
<1> QED
  BY <1>1, <1>2, <1>3

CallT == [frame : Nat, back : AddrT \cup {NULL}]

\* Two lists are the same up to position y.
SameUpTo(A, B, y) == \A i \in Int : i <= y => B[i] = A[i]

\* Positions in a list, one for each call.
LEMMA ExtendAt ==
    ASSUME NEW e \in Positions, NEW z \in Nat, NEW p \in Int
    PROVE  \E g \in Positions : g[z + 2] = p /\ \A i \in 1..(z + 1) : g[i] = e[i]
<1> DEFINE g == [e EXCEPT ![z + 2] = p]
<1>1. g \in Positions /\ g[z + 2] = p /\ \A i \in 1..(z + 1) : g[i] = e[i]
  BY DEF Positions
<1> QED
  BY <1>1

LEMMA AppendIs ==
    ASSUME NEW S, NEW c \in Seq(S), NEW z \in Nat, Len(c) = z, NEW x \in S, NEW r, r = Append(c, x)
    PROVE  Len(r) = z + 1 /\ r[z + 1] = x /\ \A i \in 1..z : r[i] = c[i]
<1>1. Len(Append(c, x)) = z + 1
  OBVIOUS
<1>2. Append(c, x)[z + 1] = x
  OBVIOUS
<1>3. \A i \in 1..z : Append(c, x)[i] = c[i]
  OBVIOUS
<1> QED
  BY <1>1, <1>2, <1>3

\* After a call, made with z calls in progress, the list is B with q segments
\* and segment f2 = B[p] in use: the one in use before, or the next.
Pushed(A, n, e, f, c, z, B, q, p, f2, r) ==
    /\ n \in Nat /\ e \in Positions /\ DepthsOf(A, n, e, f, c) /\ z \in Nat /\ Len(c) = z
    /\ Len(r) = z + 1 /\ \A i \in 1..z : r[i] = c[i]
    /\ q \in Nat /\ n <= q /\ SameUpTo(A, B, e[z + 1]) /\ p \in Int /\ f2 = B[p]
    /\ \/ r[z + 1].back = NULL /\ p = e[z + 1]
       \/ /\ r[z + 1].back # NULL /\ r[z + 1].back.seg = f
          /\ p = e[z + 1] + 1 /\ p <= q

LEMMA PushDepths ==
    ASSUME NEW A, NEW n, NEW e, NEW f, NEW c, NEW z, NEW B, NEW q, NEW p, NEW f2, NEW r,
           Pushed(A, n, e, f, c, z, B, q, p, f2, r)
    PROVE  \E g \in Positions : DepthsOf(B, q, g, f2, r)
<1>0. /\ n \in Nat /\ e \in Positions /\ DepthsOf(A, n, e, f, c) /\ z \in Nat /\ Len(c) = z
      /\ Len(r) = z + 1 /\ \A i \in 1..z : r[i] = c[i]
      /\ q \in Nat /\ n <= q /\ SameUpTo(A, B, e[z + 1]) /\ p \in Int /\ f2 = B[p]
      /\ \/ r[z + 1].back = NULL /\ p = e[z + 1]
         \/ /\ r[z + 1].back # NULL /\ r[z + 1].back.seg = f
            /\ p = e[z + 1] + 1 /\ p <= q
  BY DEF Pushed
<1> USE <1>0
<1>a. PICK g \in Positions : g[z + 2] = p /\ \A i \in 1..(z + 1) : g[i] = e[i]
  BY ExtendAt
<1>1. f = A[e[z + 1]] /\ \A i \in 1..(z + 1) : e[i] \in 1..n
  BY DEF DepthsOf
<1>2. \A i, j \in 1..(z + 1) : i <= j => e[i] <= e[j]
  BY DEF DepthsOf
<1>3. \A i \in 1..z : IF c[i].back = NULL THEN e[i + 1] = e[i]
                       ELSE e[i + 1] = e[i] + 1 /\ c[i].back.seg = A[e[i]]
  BY DEF DepthsOf
<1>4. z + 1 \in 1..(z + 1)
  OBVIOUS
<1>5. e[z + 1] \in 1..n
  BY <1>1, <1>4
<1>6. p \in 1..q /\ e[z + 1] <= p
  BY <1>5
<1>7. ASSUME NEW i \in 1..(z + 1) PROVE e[i] \in 1..n /\ e[i] <= e[z + 1] /\ B[e[i]] = A[e[i]]
  <2>1. e[i] \in 1..n
    BY <1>1
  <2>2. e[i] <= e[z + 1]
    BY <1>2, <1>4
  <2> QED
    BY <2>1, <2>2 DEF SameUpTo
<1>8. ASSUME NEW i \in 1..(z + 2) PROVE g[i] \in 1..q
  <2>1. CASE i = z + 2
    BY <1>a, <1>6, <2>1
  <2>2. CASE i \in 1..(z + 1)
    BY <1>a, <1>5, <1>6, <1>7, <2>2
  <2> QED
    BY <2>1, <2>2
<1>9. ASSUME NEW i \in 1..(z + 2), NEW j \in 1..(z + 2), i <= j PROVE g[i] <= g[j]
  <2>1. CASE j \in 1..(z + 1)
    <3>1. i \in 1..(z + 1)
      BY <1>9, <2>1
    <3> QED
      BY <1>a, <1>2, <1>9, <2>1, <3>1
  <2>2. CASE j = z + 2 /\ i = z + 2
    BY <1>a, <1>6, <2>2
  <2>3. CASE j = z + 2 /\ i \in 1..(z + 1)
    <3>1. e[i] \in 1..n /\ e[i] <= e[z + 1]
      BY <1>7, <2>3
    <3> QED
      BY <1>a, <1>5, <1>6, <2>3, <3>1
  <2> QED
    BY <2>1, <2>2, <2>3
<1>10. ASSUME NEW i \in 1..(z + 1)
       PROVE  IF r[i].back = NULL THEN g[i + 1] = g[i]
              ELSE g[i + 1] = g[i] + 1 /\ r[i].back.seg = B[g[i]]
  <2>1. CASE i = z + 1
    <3>1. g[i] = e[z + 1] /\ g[i + 1] = p
      BY <1>a, <2>1, <1>4
    <3>2. B[e[z + 1]] = f
      BY <1>1, <1>4, <1>7
    <3> QED
      BY <2>1, <3>1, <3>2
  <2>2. CASE i \in 1..z
    <3>1. i + 1 \in 1..(z + 1) /\ i \in 1..(z + 1)
      BY <2>2
    <3>2. r[i] = c[i] /\ g[i] = e[i] /\ g[i + 1] = e[i + 1] /\ B[e[i]] = A[e[i]]
      BY <1>a, <1>7, <2>2, <3>1
    <3> QED
      BY <1>3, <2>2, <3>2
  <2> QED
    BY <2>1, <2>2
<1>11. Len(r) + 1 = z + 2
  OBVIOUS
<1>12. f2 = B[g[z + 2]]
  BY <1>a
<1>13. DepthsOf(B, q, g, f2, r)
  BY <1>8, <1>9, <1>10, <1>11, <1>12 DEF DepthsOf
<1> QED
  BY <1>13

\* A return, with z calls in progress, to the segment the call was made in.
Popped(A, n, e, f, c, z, r) ==
    /\ n \in Nat /\ DepthsOf(A, n, e, f, c) /\ z \in Nat /\ Len(c) = z /\ z # 0
    /\ Len(r) = z - 1 /\ \A i \in 1..(z - 1) : r[i] = c[i]

LEMMA PopDepths ==
    ASSUME NEW A, NEW n, NEW e, NEW f, NEW c, NEW z, NEW r, Popped(A, n, e, f, c, z, r)
    PROVE  /\ DepthsOf(A, n, e, A[e[z]], r)
           /\ e[z] \in 1..n /\ e[z + 1] \in 1..n /\ f = A[e[z + 1]]
           /\ (c[z].back = NULL => e[z] = e[z + 1])
           /\ (c[z].back # NULL => e[z] = e[z + 1] - 1 /\ c[z].back.seg = A[e[z]])
<1>0. /\ n \in Nat /\ DepthsOf(A, n, e, f, c) /\ z \in Nat /\ Len(c) = z /\ z # 0
      /\ Len(r) = z - 1 /\ \A i \in 1..(z - 1) : r[i] = c[i]
  BY DEF Popped
<1> USE <1>0
<1>1. f = A[e[z + 1]] /\ \A i \in 1..(z + 1) : e[i] \in 1..n
  BY DEF DepthsOf
<1>2. \A i, j \in 1..(z + 1) : i <= j => e[i] <= e[j]
  BY DEF DepthsOf
<1>3. \A i \in 1..z : IF c[i].back = NULL THEN e[i + 1] = e[i]
                       ELSE e[i + 1] = e[i] + 1 /\ c[i].back.seg = A[e[i]]
  BY DEF DepthsOf
<1>4. Len(r) + 1 = z /\ z \in 1..z /\ z \in 1..(z + 1) /\ z + 1 \in 1..(z + 1)
  OBVIOUS
<1>5. e[z] \in 1..n /\ e[z + 1] \in 1..n
  BY <1>1, <1>4
<1>6. IF c[z].back = NULL THEN e[z + 1] = e[z]
      ELSE e[z + 1] = e[z] + 1 /\ c[z].back.seg = A[e[z]]
  BY <1>3, <1>4
<1>7. DepthsOf(A, n, e, A[e[z]], r)
  <2>1. ASSUME NEW i \in 1..(z - 1)
        PROVE  IF r[i].back = NULL THEN e[i + 1] = e[i]
               ELSE e[i + 1] = e[i] + 1 /\ r[i].back.seg = A[e[i]]
    <3>1. i \in 1..z /\ r[i] = c[i]
      OBVIOUS
    <3> QED
      BY <1>3, <3>1
  <2>2. \A i \in 1..z : i \in 1..(z + 1)
    OBVIOUS
  <2> QED
    BY <1>1, <1>2, <1>4, <2>1, <2>2 DEF DepthsOf
<1> QED
  BY <1>1, <1>5, <1>6, <1>7

LEMMA DepthsOfExisting ==
    ASSUME TypeOK, NEW L, NEW m, NEW d, Lists(L, m), Depths(L, m, d), NEW k \in Existing
    PROVE  /\ k \in Coroutines /\ L[k] \in [Int -> Segments \cup {NULL}] /\ m[k] \in Nat
           /\ d[k] \in Positions /\ calls[k] \in Seq(CallT)
           /\ DepthsOf(L[k], m[k], d[k], frame_ptr[k], calls[k])
<1>1. k \in Coroutines
  BY DEF Existing
<1>2. L[k] \in [Int -> Segments \cup {NULL}] /\ m[k] \in Nat
  BY <1>1 DEF Lists
<1>3. d[k] \in Positions /\ DepthsOf(L[k], m[k], d[k], frame_ptr[k], calls[k])
  BY <1>1 DEF Depths
<1>4. calls[k] \in Seq(CallT)
  BY <1>1 DEF TypeOK, CallT
<1> QED
  BY <1>1, <1>2, <1>3, <1>4

LEMMA SegmentsInit ==
    ASSUME Init PROVE SegmentsInv
<1> DEFINE L == [k \in Coroutines |-> [i \in Int |-> NULL]]
           m == [k \in Coroutines |-> 0]
           d == [k \in Coroutines |-> [i \in Int |-> 0]]
<1>1. Existing = {}
  BY DEF Init, Existing
<1>2. Lists(L, m)
  BY <1>1 DEF Init, Lists
<1>3. Depths(L, m, d)
  BY <1>1 DEF Depths, Positions
<1> QED
  BY <1>2, <1>3 DEF SegmentsInv

LEMMA ListsKept ==
    ASSUME NEW L, NEW m, Lists(L, m), UNCHANGED segVars, Existing' = Existing
    PROVE  Lists(L, m)'
<1>1. size' = size /\ prev' = prev /\ next' = next
  BY DEF segVars
<1>2. \A k \in Existing, i \in Int : i \in 1..m[k] =>
        /\ size'[L[k][i]] # NULL
        /\ prev'[L[k][i]] = L[k][i - 1] /\ next'[L[k][i]] = L[k][i + 1]
  BY ONLY <1>1, Lists(L, m) DEF Lists
<1>3. \A s \in Segments : size'[s] # NULL =>
        \E k \in Existing, i \in Int : i \in 1..m[k] /\ s = L[k][i]
  BY ONLY <1>1, Lists(L, m) DEF Lists
<1> QED
  BY ONLY <1>2, <1>3, Lists(L, m), Existing' = Existing DEF Lists

LEMMA SegmentsKept ==
    ASSUME SegmentsInv, UNCHANGED <<segVars, frame_ptr, calls>>, Existing' = Existing
    PROVE  SegmentsInv'
<1>1. PICK L, m, d : Lists(L, m) /\ Depths(L, m, d)
  BY DEF SegmentsInv
<1>2. Lists(L, m)'
  BY <1>1, ListsKept
<1>3. Depths(L, m, d)'
  BY <1>1 DEF Depths
<1> QED
  BY <1>2, <1>3 DEF SegmentsInv

LEMMA NewSegments ==
    ASSUME TypeOK, SegmentsInv, NEW k \in Coroutines, NEW s \in Segments, New(k, s)
    PROVE  SegmentsInv'
<1>1. PICK L, m, d : Lists(L, m) /\ Depths(L, m, d)
  BY DEF SegmentsInv
<1> DEFINE A == [i \in Int |-> IF i = 1 THEN s ELSE NULL]
           L2 == [L EXCEPT ![k] = A]
           m2 == [m EXCEPT ![k] = 1]
           d2 == [d EXCEPT ![k] = [i \in Int |-> 1]]
<1>2. /\ k \notin Existing /\ size[s] = NULL
      /\ size' = [size EXCEPT ![s] = InitialSize + 16]
      /\ prev' = [prev EXCEPT ![s] = NULL] /\ next' = [next EXCEPT ![s] = NULL]
      /\ frame_ptr' = [frame_ptr EXCEPT ![k] = s]
      /\ calls' = [calls EXCEPT ![k] = <<>>]
      /\ state' = [state EXCEPT ![k] = "paused"]
  BY DEF New, Existing
<1>3. Existing' = Existing \cup {k}
  BY <1>2 DEF Existing, TypeOK
<1>4. /\ L \in [Coroutines -> [Int -> Segments \cup {NULL}]] /\ m \in [Coroutines -> Nat]
      /\ d \in [Coroutines -> Positions]
  BY <1>1 DEF Lists, Depths
<1>5. /\ L2[k] = A /\ m2[k] = 1 /\ d2[k] = [i \in Int |-> 1]
      /\ \A j \in Existing : j \in Coroutines \ {k} /\ L2[j] = L[j] /\ m2[j] = m[j] /\ d2[j] = d[j]
  BY <1>2, <1>4 DEF Existing
<1>6. /\ L2 \in [Coroutines -> [Int -> Segments \cup {NULL}]] /\ m2 \in [Coroutines -> Nat]
      /\ d2 \in [Coroutines -> Positions]
  BY <1>4 DEF Positions
<1>7. A[1] = s /\ s # NULL /\ \A i \in Int : i # 1 => A[i] = NULL
  OBVIOUS
<1>8. /\ size'[s] # NULL /\ prev'[s] = NULL /\ next'[s] = NULL
      /\ \A r \in Segments \ {s} : size'[r] = size[r] /\ prev'[r] = prev[r] /\ next'[r] = next[r]
  BY <1>2 DEF TypeOK
<1>9. \A j \in Existing, i \in Int : i \in 1..m[j] => L[j][i] \in Segments \ {s}
  <2> SUFFICES ASSUME NEW j \in Existing, NEW i \in Int, i \in 1..m[j]
               PROVE  L[j][i] \in Segments \ {s}
    OBVIOUS
  <2>1. size[L[j][i]] # NULL /\ L[j][i] # NULL
    BY <1>1 DEF Lists
  <2>2. L[j] \in [Int -> Segments \cup {NULL}]
    BY <1>4, <1>5
  <2>3. L[j][i] \in Segments \cup {NULL}
    BY <2>2
  <2>4. L[j][i] # s
    BY <1>2, <2>1
  <2> QED
    BY <2>1, <2>3, <2>4
<1> HIDE DEF A, L2, m2, d2
<1>10. Lists(L2, m2)'
  <2>1. \A j \in Existing', i \in Int : L2[j][i] # NULL <=> i \in 1..m2[j]
    <3>1. \A i \in Int : i \in 1..1 <=> i = 1
      OBVIOUS
    <3> QED
      BY <1>1, <1>3, <1>5, <1>7, <3>1 DEF Lists
  <2>2. ASSUME NEW j \in Existing', NEW i \in Int, i \in 1..m2[j]
        PROVE  /\ size'[L2[j][i]] # NULL
               /\ prev'[L2[j][i]] = L2[j][i - 1]
               /\ next'[L2[j][i]] = L2[j][i + 1]
    <3>1. CASE j = k
      <4>1. i = 1 /\ i - 1 # 1 /\ i + 1 # 1 /\ i - 1 \in Int /\ i + 1 \in Int
        BY <1>5, <2>2, <3>1
      <4> QED
        BY <1>5, <1>7, <1>8, <3>1, <4>1
    <3>2. CASE j \in Existing
      <4>1. i \in 1..m[j] /\ L2[j] = L[j]
        BY <1>5, <2>2, <3>2
      <4>2. L[j][i] \in Segments \ {s}
        BY <1>9, <3>2, <4>1
      <4>3. size[L[j][i]] # NULL /\ prev[L[j][i]] = L[j][i - 1] /\ next[L[j][i]] = L[j][i + 1]
        BY <1>1, <3>2, <4>1 DEF Lists
      <4> QED
        BY <1>8, <4>1, <4>2, <4>3
    <3> QED
      BY <1>3, <3>1, <3>2
  <2>3. ASSUME NEW j \in Existing', NEW g \in Existing', NEW h \in Int, NEW i \in Int,
               h \in 1..m2[j], i \in 1..m2[g], L2[j][h] = L2[g][i]
        PROVE  j = g /\ h = i
    <3>1. CASE j \in Existing /\ g \in Existing
      BY <1>1, <1>5, <2>3, <3>1 DEF Lists
    <3>2. CASE j = k /\ g = k
      BY <1>5, <2>3, <3>2
    <3>3. \A n \in Int : n \in 1..1 => n = 1
      OBVIOUS
    <3>4. CASE j = k /\ g \in Existing
      BY <1>5, <1>7, <1>9, <2>3, <3>3, <3>4
    <3>5. CASE g = k /\ j \in Existing
      BY <1>5, <1>7, <1>9, <2>3, <3>3, <3>5
    <3> QED
      BY <1>3, <3>1, <3>2, <3>4, <3>5
  <2>4. ASSUME NEW r \in Segments, size'[r] # NULL
        PROVE  \E j \in Existing', i \in Int : i \in 1..m2[j] /\ r = L2[j][i]
    <3>1. CASE r = s
      <4>1. 1 \in Int /\ 1 \in 1..m2[k] /\ k \in Existing'
        BY <1>3, <1>5
      <4> QED
        BY <1>5, <1>7, <3>1, <4>1
    <3>2. CASE r # s
      <4>1. PICK j \in Existing, i \in Int : i \in 1..m[j] /\ r = L[j][i]
        BY <1>1, <1>8, <2>4, <3>2 DEF Lists
      <4> QED
        BY <1>3, <1>5, <4>1
    <3> QED
      BY <3>1, <3>2
  <2> QED
    BY <1>6, <2>1, <2>2, <2>3, <2>4 DEF Lists
<1>11. Depths(L2, m2, d2)'
  <2>1. ASSUME NEW j \in Existing
        PROVE  DepthsOf(L2[j], m2[j], d2[j], frame_ptr'[j], calls'[j])
    <3>1. frame_ptr'[j] = frame_ptr[j] /\ calls'[j] = calls[j]
      BY <1>2, <1>5 DEF TypeOK
    <3> QED
      BY <1>1, <1>5, <3>1 DEF Depths
  <2>2. DepthsOf(L2[k], m2[k], d2[k], frame_ptr'[k], calls'[k])
    <3>1. frame_ptr'[k] = s /\ calls'[k] = <<>>
      BY <1>2 DEF TypeOK
    <3>2. DepthsOf(A, 1, [i \in Int |-> 1], s, <<>>)
      BY <1>7 DEF DepthsOf
    <3> QED
      BY <1>5, <3>1, <3>2
  <2> QED
    BY <1>3, <1>6, <2>1, <2>2 DEF Depths
<1> QED
  BY <1>10, <1>11 DEF SegmentsInv

LEMMA DeleteSegments ==
    ASSUME TypeOK, Chains, SegmentsInv, NEW k \in Coroutines, Delete(k)
    PROVE  SegmentsInv' /\ Existing' = Existing \ {k}
<1>1. PICK L, m, d : Lists(L, m) /\ Depths(L, m, d)
  BY DEF SegmentsInv
<1>2. /\ k \in Existing
      /\ size' = [s \in Segments |-> IF s \in Released(k) THEN NULL ELSE size[s]]
      /\ UNCHANGED <<frame_ptr, calls, prev, next>>
  BY DEF Delete, Existing
<1>3. Existing' = Existing \ {k}
  <2> DEFINE inner == IF state[k] = "paused"
                      THEN {captured[k][i] : i \in 2..Len(captured[k])} ELSE {}
  <2>1. state' = [j \in Coroutines |-> IF j = k THEN "none"
                                      ELSE IF j \in inner THEN "abandoned" ELSE state[j]]
    BY DEF Delete
  <2>2. ASSUME NEW j \in inner PROVE state[j] = "running"
    <3>1. k # NULL /\ state[k] = "paused"
      BY <2>2
    <3>2. PICK i \in 2..Len(captured[k]) : j = captured[k][i]
      BY <2>2, <3>1
    <3>3. k \in Live /\ ChainOf(k) = captured[k]
      BY <3>1 DEF Live, ChainOf
    <3>4. Len(captured[k]) \in Nat
      BY DEF TypeOK
    <3>5. i \in Int /\ i \in 1..Len(captured[k]) /\ i # 1
      BY <3>4
    <3>6. At(k, i, j)
      BY <3>2, <3>3, <3>5 DEF At
    <3>7. j \in Coroutines
      BY <3>3, <3>5, <3>6, ChainTypes
    <3> QED
      BY <3>3, <3>5, <3>6, <3>7 DEF Chains
  <2> HIDE DEF inner
  <2> QED
    BY <2>1, <2>2 DEF Existing
<1>4. Released(k) = {L[k][i] : i \in 1..m[k]}
  BY <1>1, <1>2, ReleasedIs
<1>5. /\ L \in [Coroutines -> [Int -> Segments \cup {NULL}]] /\ m \in [Coroutines -> Nat]
      /\ \A j \in Existing : j \in Coroutines
  BY <1>1 DEF Lists, Existing
<1>6. \A j \in Existing', i \in Int : i \in 1..m[j] =>
        L[j][i] \in Segments /\ L[j][i] \notin Released(k)
  <2> SUFFICES ASSUME NEW j \in Existing', NEW i \in Int, i \in 1..m[j]
               PROVE  L[j][i] \in Segments /\ L[j][i] \notin Released(k)
    OBVIOUS
  <2>1. L[j][i] # NULL
    BY <1>1, <1>3 DEF Lists
  <2>2. \A h \in 1..m[k] : h \in Int /\ L[k][h] # L[j][i]
    BY <1>1, <1>2, <1>3, <1>5 DEF Lists
  <2> QED
    BY <1>3, <1>4, <1>5, <2>1, <2>2
<1>7. Lists(L, m)'
  <2>1. \A j \in Existing', i \in Int : i \in 1..m[j] =>
          /\ size'[L[j][i]] # NULL
          /\ prev'[L[j][i]] = L[j][i - 1] /\ next'[L[j][i]] = L[j][i + 1]
    BY <1>1, <1>2, <1>3, <1>6 DEF Lists
  <2>2. ASSUME NEW s \in Segments, size'[s] # NULL
        PROVE  \E j \in Existing', i \in Int : i \in 1..m[j] /\ s = L[j][i]
    <3>1. size[s] # NULL /\ s \notin Released(k)
      BY <1>2, <2>2
    <3>2. PICK j \in Existing, i \in Int : i \in 1..m[j] /\ s = L[j][i]
      BY <1>1, <3>1 DEF Lists
    <3>3. j # k
      BY <1>4, <3>1, <3>2
    <3> QED
      BY <1>3, <3>2, <3>3
  <2>3. /\ \A j \in Existing', i \in Int : L[j][i] # NULL <=> i \in 1..m[j]
        /\ \A j, g \in Existing', h, i \in Int :
              h \in 1..m[j] /\ i \in 1..m[g] /\ L[j][h] = L[g][i] => j = g /\ h = i
    BY <1>1, <1>3 DEF Lists
  <2> QED
    BY <1>5, <2>1, <2>2, <2>3 DEF Lists
<1>8. Depths(L, m, d)'
  BY <1>1, <1>2, <1>3 DEF Depths
<1> QED
  BY <1>3, <1>7, <1>8 DEF SegmentsInv

\* Any call of a coroutine that exists, once its list is as it should be.
CallOf(L, m, d, k, z, x, L2, m2, p) ==
    /\ Lists(L, m) /\ Depths(L, m, d) /\ k \in Existing /\ z \in Nat /\ Len(calls[k]) = z
    /\ x \in CallT /\ calls' = [calls EXCEPT ![k] = Append(@, x)] /\ Existing' = Existing
    /\ Lists(L2, m2)' /\ \A j \in Existing \ {k} : L2[j] = L[j] /\ m2[j] = m[j]
    /\ m[k] <= m2[k] /\ SameUpTo(L[k], L2[k], d[k][z + 1])
    /\ p \in Int /\ frame_ptr' = [frame_ptr EXCEPT ![k] = L2[k][p]]
    /\ \/ x.back = NULL /\ p = d[k][z + 1]
       \/ /\ x.back # NULL /\ x.back.seg = frame_ptr[k]
          /\ p = d[k][z + 1] + 1 /\ p <= m2[k]

LEMMA PushSegments ==
    ASSUME TypeOK, NEW L, NEW m, NEW d, NEW k, NEW z, NEW x, NEW L2, NEW m2, NEW p,
           CallOf(L, m, d, k, z, x, L2, m2, p)
    PROVE  SegmentsInv'
<1>0. /\ Lists(L, m) /\ Depths(L, m, d) /\ k \in Existing /\ z \in Nat /\ Len(calls[k]) = z
      /\ x \in CallT /\ calls' = [calls EXCEPT ![k] = Append(@, x)] /\ Existing' = Existing
      /\ Lists(L2, m2)' /\ \A j \in Existing \ {k} : L2[j] = L[j] /\ m2[j] = m[j]
      /\ m[k] <= m2[k] /\ SameUpTo(L[k], L2[k], d[k][z + 1])
      /\ p \in Int /\ frame_ptr' = [frame_ptr EXCEPT ![k] = L2[k][p]]
      /\ \/ x.back = NULL /\ p = d[k][z + 1]
         \/ /\ x.back # NULL /\ x.back.seg = frame_ptr[k]
            /\ p = d[k][z + 1] + 1 /\ p <= m2[k]
  BY DEF CallOf
<1> USE <1>0
<1>1. /\ k \in Coroutines /\ m[k] \in Nat /\ d[k] \in Positions /\ calls[k] \in Seq(CallT)
      /\ DepthsOf(L[k], m[k], d[k], frame_ptr[k], calls[k])
  BY DepthsOfExisting
<1>2. m2[k] \in Nat
  BY <1>1 DEF Lists
<1>3. d \in [Coroutines -> Positions]
  BY DEF Depths
<1>4. PICK r : r = Append(calls[k], x)
  OBVIOUS
<1>a. Len(r) = z + 1 /\ r[z + 1] = x /\ \A i \in 1..z : r[i] = calls[k][i]
  BY <1>1, <1>4, AppendIs
<1>5. PICK g \in Positions : DepthsOf(L2[k], m2[k], g, L2[k][p], r)
  <2>1. /\ m[k] \in Nat /\ m2[k] \in Nat /\ d[k] \in Positions
        /\ DepthsOf(L[k], m[k], d[k], frame_ptr[k], calls[k])
    BY <1>1, <1>2
  <2>2. Len(r) = z + 1 /\ \A i \in 1..z : r[i] = calls[k][i]
    BY <1>a
  <2>3. \/ r[z + 1].back = NULL /\ p = d[k][z + 1]
        \/ /\ r[z + 1].back # NULL /\ r[z + 1].back.seg = frame_ptr[k]
           /\ p = d[k][z + 1] + 1 /\ p <= m2[k]
    BY <1>a
  <2>4. Pushed(L[k], m[k], d[k], frame_ptr[k], calls[k], z, L2[k], m2[k], p, L2[k][p], r)
    BY <2>1, <2>2, <2>3 DEF Pushed
  <2>5. \E g \in Positions : DepthsOf(L2[k], m2[k], g, L2[k][p], r)
    BY <2>4, PushDepths
  <2> QED
    BY <2>5
<1>6. frame_ptr'[k] = L2[k][p] /\ calls'[k] = r
  <2>1. k \in DOMAIN frame_ptr /\ k \in DOMAIN calls
    BY <1>1 DEF TypeOK
  <2> QED
    BY <1>4, <2>1
<1> DEFINE d2 == [d EXCEPT ![k] = g]
<1>7. d2 \in [Coroutines -> Positions] /\ d2[k] = g /\ \A j \in Existing \ {k} : d2[j] = d[j]
  <2>1. \A j \in Existing : j \in Coroutines
    BY DEF Existing
  <2> QED
    BY <1>1, <1>3, <2>1
<1> HIDE DEF d2
<1>9. ASSUME NEW j \in Existing \ {k}
      PROVE  DepthsOf(L2[j], m2[j], d2[j], frame_ptr'[j], calls'[j])
  <2>1. frame_ptr'[j] = frame_ptr[j] /\ calls'[j] = calls[j]
    BY DEF TypeOK, Existing
  <2>2. L2[j] = L[j] /\ m2[j] = m[j] /\ d2[j] = d[j]
    BY <1>7
  <2> QED
    BY <2>1, <2>2 DEF Depths
<1>10. Depths(L2, m2, d2)'
  BY <1>5, <1>6, <1>7, <1>9 DEF Depths
<1> QED
  BY <1>10 DEF SegmentsInv

\* The coroutine that runs is the last of the chain.
LEMMA MeRuns ==
    ASSUME TypeOK, Chains, Me # NULL
    PROVE  /\ Len(chain) \in Nat \ {0} /\ Me = chain[Len(chain)]
           /\ Me \in Existing /\ Me \in Coroutines /\ state[Me] = "running"
<1>1. chain # <<>> /\ Me = chain[Len(chain)]
  BY DEF Me
<1>2. Len(chain) \in Nat \ {0} /\ Me \in Coroutines
  BY <1>1 DEF TypeOK
<1>3. NULL \in Live /\ At(NULL, Len(chain), Me) /\ Len(chain) \in Int
  BY <1>1, <1>2 DEF Live, ChainOf, At
<1>4. state[Me] = "running"
  BY <1>2, <1>3 DEF Chains
<1> QED
  BY <1>1, <1>2, <1>4 DEF Existing

LEMMA InPlaceSegments ==
    ASSUME TypeOK, Chains, SegmentsInv, NEW frame \in Nat, NEW nonsplit \in BOOLEAN,
           CallInPlace(frame, nonsplit)
    PROVE  SegmentsInv'
<1>1. PICK L, m, d : Lists(L, m) /\ Depths(L, m, d)
  BY DEF SegmentsInv
<1> DEFINE x == [frame |-> frame, back |-> NULL]
<1>2. Me # NULL /\ UNCHANGED <<state, frame_ptr, segVars>> /\ calls' = [calls EXCEPT ![Me] = Append(@, x)]
  BY DEF CallInPlace, CanCall, PushCall
<1>3. Me \in Existing
  BY <1>2, MeRuns
<1>4. PICK k : k = Me
  OBVIOUS
<1>5. /\ k \in Coroutines /\ m[k] \in Nat /\ d[k] \in Positions /\ calls[k] \in Seq(CallT)
      /\ DepthsOf(L[k], m[k], d[k], frame_ptr[k], calls[k])
  BY <1>1, <1>3, <1>4, DepthsOfExisting
<1>6. PICK z \in Nat : Len(calls[k]) = z
  BY <1>5
<1>7. frame_ptr[k] = L[k][d[k][z + 1]] /\ d[k][z + 1] \in Int
  BY <1>5, <1>6 DEF DepthsOf
<1>8. frame_ptr' = [frame_ptr EXCEPT ![k] = L[k][d[k][z + 1]]]
  <2>1. frame_ptr \in [Coroutines -> Segments \cup {NULL}]
    BY DEF TypeOK
  <2> QED
    BY <1>2, <1>5, <1>7, <2>1
<1>9. Existing' = Existing /\ Lists(L, m)'
  <2>1. Existing' = Existing
    BY <1>2 DEF Existing
  <2> QED
    BY <1>1, <1>2, <2>1, ListsKept
<1>10. SameUpTo(L[k], L[k], d[k][z + 1]) /\ m[k] <= m[k]
  BY <1>5 DEF SameUpTo
<1>11. x \in CallT /\ x.back = NULL
  BY DEF CallT
<1> HIDE DEF x
<1>12. CallOf(L, m, d, k, z, x, L, m, d[k][z + 1])
  BY <1>1, <1>2, <1>3, <1>4, <1>6, <1>7, <1>8, <1>9, <1>10, <1>11 DEF CallOf
<1> QED
  BY <1>12, PushSegments

----------------------------------------------------------------------------
(* A new segment in a list.                                                *)

\* B is the list A of M segments with n behind the p-th.
Inserted(A, M, p, n, B) ==
    /\ M \in Nat /\ p \in Nat /\ 1 <= p /\ p <= M
    /\ \A i \in Int : i <= p => B[i] = A[i]
    /\ B[p + 1] = n
    /\ \A i \in Int : i > p + 1 => B[i] = A[i - 1]

LEMMA InsertedExists ==
    ASSUME NEW A \in [Int -> Segments \cup {NULL}], NEW M \in Nat, NEW p \in 1..M, NEW n \in Segments
    PROVE  \E B \in [Int -> Segments \cup {NULL}] : Inserted(A, M, p, n, B)
<1> DEFINE B == [i \in Int |-> IF i <= p THEN A[i] ELSE IF i = p + 1 THEN n ELSE A[i - 1]]
<1>1. B \in [Int -> Segments \cup {NULL}]
  OBVIOUS
<1>2. Inserted(A, M, p, n, B)
  BY DEF Inserted
<1> QED
  BY <1>1, <1>2

\* A position of B is that of n or comes from one of A.
LEMMA InsertedMembers ==
    ASSUME NEW A, NEW M, NEW p, NEW n, NEW B, Inserted(A, M, p, n, B)
    PROVE  /\ \A i \in Int : i \in 1..(M + 1) =>
                 \/ i = p + 1 /\ B[i] = n
                 \/ \E j \in Int : j \in 1..M /\ i = (IF j <= p THEN j ELSE j + 1) /\ B[i] = A[j]
           /\ \A j \in Int : j \in 1..M =>
                 \E i \in Int : i \in 1..(M + 1) /\ B[i] = A[j]
           /\ p + 1 \in Int /\ p + 1 \in 1..(M + 1) /\ B[p + 1] = n
<1>1. M \in Nat /\ p \in Nat /\ 1 <= p /\ p <= M /\ B[p + 1] = n
  BY DEF Inserted
<1>2. ASSUME NEW i \in Int, i \in 1..(M + 1), i # p + 1
      PROVE  \E j \in Int : j \in 1..M /\ i = (IF j <= p THEN j ELSE j + 1) /\ B[i] = A[j]
  <2>1. CASE i <= p
    <3>1. B[i] = A[i] /\ i \in 1..M
      BY <1>1, <1>2, <2>1 DEF Inserted
    <3> QED
      BY <2>1, <3>1
  <2>2. CASE i > p + 1
    <3>1. B[i] = A[i - 1]
      BY <2>2 DEF Inserted
    <3>2. PICK j \in Int : j = i - 1
      OBVIOUS
    <3>3. j \in 1..M /\ i = (IF j <= p THEN j ELSE j + 1)
      BY <1>1, <1>2, <2>2, <3>2
    <3> QED
      BY <3>1, <3>2, <3>3
  <2> QED
    BY <1>1, <1>2, <2>1, <2>2
<1>3. ASSUME NEW j \in Int, j \in 1..M
      PROVE  \E i \in Int : i \in 1..(M + 1) /\ B[i] = A[j]
  <2>1. CASE j <= p
    <3>1. B[j] = A[j] /\ j \in 1..(M + 1)
      BY <1>1, <1>3, <2>1 DEF Inserted
    <3> QED
      BY <3>1
  <2>2. CASE j > p
    <3>1. PICK i \in Int : i = j + 1
      OBVIOUS
    <3>2. i > p + 1 /\ i \in 1..(M + 1) /\ i - 1 = j
      BY <1>1, <1>3, <2>2, <3>1
    <3>3. B[i] = A[i - 1]
      BY <3>2 DEF Inserted
    <3> QED
      BY <3>2, <3>3
  <2> QED
    BY <1>1, <2>1, <2>2
<1>4. p + 1 \in Int /\ p + 1 \in 1..(M + 1)
  BY <1>1
<1> QED
  BY <1>1, <1>2, <1>3, <1>4

\* The positions of a list and what its segments' pointers are.
ListIs(A, M, P, N) ==
    /\ \A i \in Int : A[i] # NULL <=> i \in 1..M
    /\ \A i \in Int : i \in 1..M => P[A[i]] = A[i - 1] /\ N[A[i]] = A[i + 1]
    /\ \A i, j \in Int : i \in 1..M /\ j \in 1..M /\ A[i] = A[j] => i = j

LinkedIn(A, M, p, n, P, N, P2, N2) ==
    /\ P2[n] = A[p] /\ N2[n] = A[p + 1] /\ N2[A[p]] = n
    /\ \A i \in Int : i \in 1..M =>
          /\ P2[A[i]] = IF A[i] = A[p + 1] THEN n ELSE P[A[i]]
          /\ (i # p => N2[A[i]] = N[A[i]])

LEMMA LinkedInserted ==
    ASSUME NEW A, NEW M, NEW p, NEW n, NEW B, Inserted(A, M, p, n, B),
           NEW P, NEW N, NEW P2, NEW N2, ListIs(A, M, P, N), n # NULL,
           LinkedIn(A, M, p, n, P, N, P2, N2)
    PROVE  /\ \A i \in Int : B[i] # NULL <=> i \in 1..(M + 1)
           /\ \A i \in Int : i \in 1..(M + 1) => P2[B[i]] = B[i - 1] /\ N2[B[i]] = B[i + 1]
<1>1. M \in Nat /\ p \in Nat /\ 1 <= p /\ p <= M /\ B[p + 1] = n
  BY DEF Inserted
<1>2. \A i \in Int : i <= p => B[i] = A[i]
  BY DEF Inserted
<1>3. \A i \in Int : i > p + 1 => B[i] = A[i - 1]
  BY DEF Inserted
<1>4. \A i \in Int : A[i] # NULL <=> i \in 1..M
  BY DEF ListIs
<1>5. \A i \in Int : i \in 1..M => P[A[i]] = A[i - 1] /\ N[A[i]] = A[i + 1]
  BY DEF ListIs
<1>6. \A i, j \in Int : i \in 1..M /\ j \in 1..M /\ A[i] = A[j] => i = j
  BY DEF ListIs
<1>7. P2[n] = A[p] /\ N2[n] = A[p + 1] /\ N2[A[p]] = n
  BY DEF LinkedIn
<1>8. /\ \A i \in Int : i \in 1..M => P2[A[i]] = IF A[i] = A[p + 1] THEN n ELSE P[A[i]]
      /\ \A i \in Int : i \in 1..M /\ i # p => N2[A[i]] = N[A[i]]
  BY DEF LinkedIn
<1>9. ASSUME NEW i \in Int, i \in 1..M, i # p + 1 PROVE A[i] # A[p + 1]
  <2>1. CASE p + 1 \in 1..M
    BY <1>1, <1>6, <1>9, <2>1
  <2>2. CASE p + 1 \notin 1..M
    BY <1>1, <1>4, <1>9, <2>2
  <2> QED
    BY <2>1, <2>2
<1>10. ASSUME NEW i \in Int PROVE B[i] # NULL <=> i \in 1..(M + 1)
  <2>1. CASE i <= p
    BY <1>1, <1>2, <1>4, <2>1
  <2>2. CASE i = p + 1
    BY <1>1, <2>2
  <2>3. CASE i > p + 1
    <3>1. i - 1 \in Int /\ (i - 1 \in 1..M <=> i \in 1..(M + 1))
      BY <1>1, <2>3
    <3> QED
      BY <1>3, <1>4, <2>3, <3>1
  <2> QED
    BY <1>1, <2>1, <2>2, <2>3
<1>11. ASSUME NEW i \in Int, i \in 1..(M + 1)
       PROVE  P2[B[i]] = B[i - 1] /\ N2[B[i]] = B[i + 1]
  <2>1. CASE i <= p
    <3>1. i \in 1..M /\ i - 1 \in Int /\ i - 1 <= p /\ i # p + 1
      BY <1>1, <1>11, <2>1
    <3>2. B[i] = A[i] /\ B[i - 1] = A[i - 1]
      BY <1>2, <2>1, <3>1
    <3>3. P2[A[i]] = A[i - 1]
      BY <1>5, <1>8, <1>9, <3>1
    <3>4. N2[A[i]] = B[i + 1]
      <4>1. CASE i = p
        BY <1>1, <1>7, <4>1
      <4>2. CASE i # p
        <5>1. i + 1 \in Int /\ i + 1 <= p
          BY <1>1, <2>1, <4>2
        <5> QED
          BY <1>2, <1>5, <1>8, <3>1, <4>2, <5>1
      <4> QED
        BY <4>1, <4>2
    <3> QED
      BY <3>2, <3>3, <3>4
  <2>2. CASE i = p + 1
    <3>1. i - 1 = p /\ p <= p /\ p \in Int /\ i + 1 \in Int /\ i + 1 > p + 1 /\ (i + 1) - 1 = p + 1
      BY <1>1, <2>2
    <3>2. B[i - 1] = A[p] /\ B[i + 1] = A[p + 1] /\ B[i] = n
      BY <1>1, <1>2, <1>3, <2>2, <3>1
    <3> QED
      BY <1>7, <3>2
  <2>3. CASE i > p + 1
    <3>1. PICK j \in Int : j = i - 1
      OBVIOUS
    <3>2. j \in 1..M /\ j > p /\ j # p /\ i + 1 \in Int /\ i + 1 > p + 1 /\ (i + 1) - 1 = j + 1
      BY <1>1, <1>11, <2>3, <3>1
    <3>3. B[i] = A[j] /\ B[i + 1] = A[j + 1]
      BY <1>3, <2>3, <3>1, <3>2
    <3>4. P2[A[j]] = B[i - 1]
      <4>1. CASE j = p + 1
        BY <1>1, <1>8, <3>1, <3>2, <4>1
      <4>2. CASE j # p + 1
        <5>1. i - 1 \in Int /\ i - 1 > p + 1 /\ (i - 1) - 1 = j - 1
          BY <1>1, <3>1, <3>2, <4>2
        <5> QED
          BY <1>3, <1>5, <1>8, <1>9, <3>2, <4>2, <5>1
      <4> QED
        BY <4>1, <4>2
    <3>5. N2[A[j]] = A[j + 1]
      BY <1>5, <1>8, <3>2
    <3> QED
      BY <3>3, <3>4, <3>5
  <2> QED
    BY <1>1, <2>1, <2>2, <2>3
<1> QED
  BY <1>10, <1>11

\* k's list of segments grows by n, of size v, behind the p-th.
GrowthOf(L, m, k, p, n, v) ==
    /\ Lists(L, m) /\ k \in Existing /\ p \in Int /\ p \in 1..m[k]
    /\ n \in Segments /\ EnterNew(L[k][p], n)
    /\ v \in Nat /\ size' = [size EXCEPT ![n] = v] /\ Existing' = Existing

LEMMA GrowLists ==
    ASSUME TypeOK, NEW L, NEW m, NEW k, NEW p, NEW n, NEW v, GrowthOf(L, m, k, p, n, v)
    PROVE  \E L2, m2 : /\ Lists(L2, m2)'
                       /\ m2[k] = m[k] + 1 /\ L2[k][p + 1] = n
                       /\ \A i \in Int : i <= p => L2[k][i] = L[k][i]
                       /\ \A j \in Existing \ {k} : L2[j] = L[j] /\ m2[j] = m[j]
<1>0. /\ Lists(L, m) /\ k \in Existing /\ p \in Int /\ p \in 1..m[k]
      /\ n \in Segments /\ EnterNew(L[k][p], n)
      /\ v \in Nat /\ size' = [size EXCEPT ![n] = v] /\ Existing' = Existing
  BY DEF GrowthOf
<1> USE <1>0
<1>1. /\ L \in [Coroutines -> [Int -> Segments \cup {NULL}]] /\ m \in [Coroutines -> Nat]
      /\ k \in Coroutines /\ \A j \in Existing : j \in Coroutines
  BY DEF Lists, Existing
<1>2. L[k] \in [Int -> Segments \cup {NULL}] /\ m[k] \in Nat
  BY <1>1
<1>3. PICK B \in [Int -> Segments \cup {NULL}] : Inserted(L[k], m[k], p, n, B)
  BY <1>2, InsertedExists
<1>4. PICK L2, m2 : L2 = [L EXCEPT ![k] = B] /\ m2 = [m EXCEPT ![k] = m[k] + 1]
  OBVIOUS
<1>5. /\ L2 \in [Coroutines -> [Int -> Segments \cup {NULL}]] /\ m2 \in [Coroutines -> Nat]
      /\ L2[k] = B /\ m2[k] = m[k] + 1
      /\ \A j \in Existing \ {k} : L2[j] = L[j] /\ m2[j] = m[j]
  BY <1>1, <1>2, <1>4
<1>6. \A j \in Existing, i \in Int : i \in 1..m[j] =>
        /\ L[j][i] \in Segments /\ size[L[j][i]] # NULL
        /\ prev[L[j][i]] = L[j][i - 1] /\ next[L[j][i]] = L[j][i + 1]
  <2> SUFFICES ASSUME NEW j \in Existing, NEW i \in Int, i \in 1..m[j]
               PROVE  /\ L[j][i] \in Segments /\ size[L[j][i]] # NULL
                      /\ prev[L[j][i]] = L[j][i - 1] /\ next[L[j][i]] = L[j][i + 1]
    OBVIOUS
  <2>1. L[j][i] # NULL
    BY DEF Lists
  <2>2. L[j] \in [Int -> Segments \cup {NULL}]
    BY <1>1
  <2>3. L[j][i] \in Segments
    BY <2>1, <2>2
  <2> QED
    BY <2>3 DEF Lists
<1>7. \A j, g \in Existing, h, i \in Int :
        h \in 1..m[j] /\ i \in 1..m[g] /\ L[j][h] = L[g][i] => j = g /\ h = i
  BY DEF Lists
<1>8. \A j \in Existing, i \in Int : L[j][i] # NULL <=> i \in 1..m[j]
  BY DEF Lists
<1>9. PICK s \in Segments : s = L[k][p]
  BY <1>6
<1>10. /\ size[n] = NULL /\ size[s] # NULL /\ n # s /\ next[s] = L[k][p + 1]
  BY <1>6, <1>9 DEF EnterNew
<1>11. /\ \A r \in Segments : prev'[r] = IF r = n THEN s ELSE IF r = next[s] THEN n ELSE prev[r]
       /\ next'[n] = next[s] /\ next'[s] = n /\ size'[n] = v /\ v # NULL
       /\ \A r \in Segments \ {n, s} : next'[r] = next[r]
       /\ \A r \in Segments \ {n} : size'[r] = size[r]
  <2>1. next \in [Segments -> Segments \cup {NULL}] /\ size \in [Segments -> Nat \cup {NULL}]
    BY DEF TypeOK
  <2>2. /\ prev' = [r \in Segments |-> IF r = n THEN s ELSE IF r = next[s] THEN n ELSE prev[r]]
        /\ next' = [next EXCEPT ![s] = n, ![n] = next[s]]
    BY <1>9 DEF EnterNew
  <2> QED
    BY <1>10, <2>1, <2>2
<1>12. \A j \in Existing, i \in Int : i \in 1..m[j] => L[j][i] # n
  BY <1>6, <1>10
\* The list of k.
<1>13. /\ \A i \in Int : B[i] # NULL <=> i \in 1..(m[k] + 1)
       /\ \A i \in Int : i \in 1..(m[k] + 1) => prev'[B[i]] = B[i - 1] /\ next'[B[i]] = B[i + 1]
  <2>1. ListIs(L[k], m[k], prev, next)
    BY <1>6, <1>7, <1>8 DEF ListIs
  <2>2. LinkedIn(L[k], m[k], p, n, prev, next, prev', next')
    <3>1. ASSUME NEW i \in Int, i \in 1..m[k]
          PROVE  /\ prev'[L[k][i]] = IF L[k][i] = L[k][p + 1] THEN n ELSE prev[L[k][i]]
                 /\ (i # p => next'[L[k][i]] = next[L[k][i]])
      <4>1. L[k][i] \in Segments \ {n}
        BY <1>6, <1>12, <3>1
      <4>2. i # p => L[k][i] # s
        BY <1>7, <1>9, <3>1
      <4> QED
        BY <1>10, <1>11, <4>1, <4>2
    <3>2. prev'[n] = L[k][p] /\ next'[n] = L[k][p + 1] /\ next'[L[k][p]] = n
      BY <1>9, <1>10, <1>11
    <3> QED
      BY <3>1, <3>2 DEF LinkedIn
  <2> QED
    BY <1>3, <2>1, <2>2, LinkedInserted
<1>14. /\ \A i \in Int : i \in 1..(m[k] + 1) =>
             \/ i = p + 1 /\ B[i] = n
             \/ \E j \in Int : j \in 1..m[k] /\ i = (IF j <= p THEN j ELSE j + 1) /\ B[i] = L[k][j]
       /\ \A j \in Int : j \in 1..m[k] => \E i \in Int : i \in 1..(m[k] + 1) /\ B[i] = L[k][j]
       /\ p + 1 \in Int /\ p + 1 \in 1..(m[k] + 1) /\ B[p + 1] = n
  BY <1>3, InsertedMembers
<1>15. ASSUME NEW j \in Existing
       PROVE  /\ \A i \in Int : L2[j][i] # NULL <=> i \in 1..m2[j]
              /\ \A i \in Int : i \in 1..m2[j] =>
                    /\ size'[L2[j][i]] # NULL
                    /\ prev'[L2[j][i]] = L2[j][i - 1] /\ next'[L2[j][i]] = L2[j][i + 1]
  <2>1. CASE j = k
    <3>1. ASSUME NEW i \in Int, i \in 1..(m[k] + 1) PROVE size'[B[i]] # NULL
      <4>1. CASE B[i] = n
        BY <1>11, <4>1
      <4>2. CASE B[i] # n
        <5>1. PICK h \in Int : h \in 1..m[k] /\ B[i] = L[k][h]
          BY <1>14, <3>1, <4>2
        <5> QED
          BY <1>6, <1>11, <4>2, <5>1
      <4> QED
        BY <4>1, <4>2
    <3> QED
      BY <1>5, <1>13, <2>1, <3>1
  <2>2. CASE j # k
    <3>1. L2[j] = L[j] /\ m2[j] = m[j]
      BY <1>5, <2>2
    <3>2. ASSUME NEW i \in Int, i \in 1..m[j]
          PROVE  /\ size'[L[j][i]] # NULL
                 /\ prev'[L[j][i]] = L[j][i - 1] /\ next'[L[j][i]] = L[j][i + 1]
      <4>1. L[j][i] \in Segments \ {n} /\ L[j][i] # s
        BY <1>6, <1>7, <1>9, <1>12, <2>2, <3>2
      <4>2. L[j][i] # next[s]
        <5>1. ASSUME L[j][i] = L[k][p + 1] PROVE FALSE
          <6>1. L[k][p + 1] # NULL /\ p + 1 \in Int
            BY <1>8, <3>2, <5>1
          <6>2. p + 1 \in 1..m[k]
            BY <1>8, <6>1
          <6> QED
            BY <1>7, <2>2, <3>2, <5>1, <6>1, <6>2
        <5> QED
          BY <1>10, <5>1
      <4> QED
        BY <1>6, <1>11, <3>2, <4>1, <4>2
    <3> QED
      BY <1>8, <3>1, <3>2
  <2> QED
    BY <2>1, <2>2
<1>16. ASSUME NEW j \in Existing, NEW h \in Int, NEW i \in Int, h \in 1..m2[j], i \in 1..m2[k],
              L2[j][h] = L2[k][i]
       PROVE  j = k /\ h = i
  <2>1. i \in 1..(m[k] + 1) /\ L2[j][h] = B[i]
    BY <1>5, <1>16
  <2>2. CASE j # k
    <3>1. L[j][h] = B[i] /\ h \in 1..m[j]
      BY <1>5, <1>16, <2>1, <2>2
    <3>2. B[i] # n
      BY <1>12, <3>1
    <3>3. PICK g \in Int : g \in 1..m[k] /\ B[i] = L[k][g]
      BY <1>14, <2>1, <3>2
    <3> QED
      BY <1>7, <2>2, <3>1, <3>3
  <2>3. CASE j = k
    <3>1. h \in 1..(m[k] + 1) /\ B[h] = B[i]
      BY <1>5, <1>16, <2>1, <2>3
    <3>2. CASE B[i] = n
      <4>1. \A g \in Int : g \in 1..m[k] => L[k][g] # n
        BY <1>12
      <4> QED
        BY <1>14, <2>1, <2>3, <3>1, <3>2, <4>1
    <3>3. CASE B[i] # n
      <4>1. PICK g \in Int : g \in 1..m[k] /\ i = (IF g <= p THEN g ELSE g + 1) /\ B[i] = L[k][g]
        BY <1>14, <2>1, <3>3
      <4>2. PICK f \in Int : f \in 1..m[k] /\ h = (IF f <= p THEN f ELSE f + 1) /\ B[h] = L[k][f]
        BY <1>14, <3>1, <3>3
      <4>3. f = g
        BY <1>7, <3>1, <4>1, <4>2
      <4> QED
        BY <2>3, <4>1, <4>2, <4>3
    <3> QED
      BY <3>2, <3>3
  <2> QED
    BY <2>2, <2>3
<1>17. ASSUME NEW j \in Existing, NEW g \in Existing, NEW h \in Int, NEW i \in Int,
              h \in 1..m2[j], i \in 1..m2[g], L2[j][h] = L2[g][i]
       PROVE  j = g /\ h = i
  <2>1. CASE g = k
    BY <1>16, <1>17, <2>1
  <2>2. CASE j = k
    BY <1>16, <1>17, <2>2
  <2>3. CASE j # k /\ g # k
    BY <1>5, <1>7, <1>17, <2>3
  <2> QED
    BY <2>1, <2>2, <2>3
<1>18. ASSUME NEW r \in Segments, size'[r] # NULL
       PROVE  \E j \in Existing, i \in Int : i \in 1..m2[j] /\ r = L2[j][i]
  <2>1. CASE r = n
    BY <1>5, <1>14, <2>1
  <2>2. CASE r # n
    <3>1. PICK j \in Existing, i \in Int : i \in 1..m[j] /\ r = L[j][i]
      BY <1>11, <1>18, <2>2 DEF Lists
    <3>2. CASE j = k
      BY <1>5, <1>14, <3>1, <3>2
    <3>3. CASE j # k
      BY <1>5, <3>1, <3>3
    <3> QED
      BY <3>2, <3>3
  <2> QED
    BY <2>1, <2>2
<1>19. Lists(L2, m2)'
  <2>1. \A j \in Existing, i \in Int : L2[j][i] # NULL <=> i \in 1..m2[j]
    BY <1>15
  <2>2. \A j \in Existing, i \in Int : i \in 1..m2[j] =>
          /\ size'[L2[j][i]] # NULL
          /\ prev'[L2[j][i]] = L2[j][i - 1] /\ next'[L2[j][i]] = L2[j][i + 1]
    BY <1>15
  <2>3. \A j, g \in Existing, h, i \in Int :
          h \in 1..m2[j] /\ i \in 1..m2[g] /\ L2[j][h] = L2[g][i] => j = g /\ h = i
    BY <1>17
  <2>4. \A r \in Segments : size'[r] # NULL =>
          \E j \in Existing, i \in Int : i \in 1..m2[j] /\ r = L2[j][i]
    BY <1>18
  <2>5. /\ L2 \in [Coroutines -> [Int -> Segments \cup {NULL}]] /\ m2 \in [Coroutines -> Nat]
    BY <1>5
  <2>6. Existing' = Existing
    OBVIOUS
  <2> QED
    BY ONLY <2>1, <2>2, <2>3, <2>4, <2>5, <2>6 DEF Lists
<1>20. L2[k][p + 1] = n /\ \A i \in Int : i <= p => L2[k][i] = L[k][i]
  BY <1>3, <1>5 DEF Inserted
<1> QED
  BY <1>5, <1>19, <1>20

----------------------------------------------------------------------------
(* __morestack and its way back.                                           *)

\* What a call through __morestack leaves behind, in segment n.
LEMMA MoreStackEnters ==
    ASSUME TypeOK, Chains, SegmentsInv, regs.rsp.seg = frame_ptr[Me],
           NEW frame \in Nat, NEW nonsplit \in BOOLEAN, NEW params \in Nat,
           NEW need \in Nat, need = Need(frame, nonsplit),
           CallMoreStack(frame, nonsplit, params)
    PROVE  \E n \in Segments :
              /\ Enter(frame, params, n)
              /\ size'[n] \in Nat /\ size'[n] >= need + params
              /\ size' \in [Segments -> Nat \cup {NULL}]
              /\ prev' \in [Segments -> Segments \cup {NULL}]
              /\ next' \in [Segments -> Segments \cup {NULL}]
              /\ SegmentsInv'
<1>1. PICK L, m, d : Lists(L, m) /\ Depths(L, m, d)
  BY DEF SegmentsInv
<1>2. CanCall /\ Me # NULL
  BY DEF CallMoreStack, CanCall
<1>3. PICK k : k = Me
  OBVIOUS
<1>4. k \in Existing
  BY <1>2, <1>3, MeRuns
<1>5. /\ k \in Coroutines /\ m[k] \in Nat /\ d[k] \in Positions /\ calls[k] \in Seq(CallT)
      /\ DepthsOf(L[k], m[k], d[k], frame_ptr[k], calls[k])
  BY <1>1, <1>4, DepthsOfExisting
<1>6. PICK z \in Nat : Len(calls[k]) = z
  BY <1>5
<1>7. PICK e : e = d[k][z + 1]
  OBVIOUS
<1>8. frame_ptr[k] = L[k][e] /\ e \in 1..m[k] /\ e \in Int
  <2>1. frame_ptr[k] = L[k][d[k][z + 1]] /\ \A i \in 1..(z + 1) : d[k][i] \in 1..m[k]
    BY <1>5, <1>6 DEF DepthsOf
  <2>2. z + 1 \in 1..(z + 1)
    OBVIOUS
  <2> QED
    BY <1>7, <2>1, <2>2
<1>9. PICK s : s = frame_ptr[k]
  OBVIOUS
<1>10. s \in Segments /\ size[s] # NULL /\ next[s] = L[k][e + 1]
  <2>1. L[k][e] # NULL /\ size[L[k][e]] # NULL /\ next[L[k][e]] = L[k][e + 1]
    BY <1>1, <1>4, <1>8 DEF Lists
  <2>2. frame_ptr[k] \in Segments \cup {NULL}
    BY <1>5 DEF TypeOK
  <2> QED
    BY <1>8, <1>9, <2>1, <2>2
<1>11. PICK x : x = [frame |-> frame, back |-> regs.rsp]
  OBVIOUS
<1>12. x \in CallT /\ x.back # NULL /\ x.back.seg = frame_ptr[k]
  <2>1. regs.rsp \in AddrT
    BY DEF TypeOK, ContextT
  <2>2. NULL \notin AddrT
    OBVIOUS
  <2> QED
    BY <1>3, <1>11, <2>1, <2>2 DEF CallT
<1>13. ASSUME NEW n, Enter(frame, params, n)
       PROVE  /\ calls' = [calls EXCEPT ![k] = Append(@, x)] /\ Existing' = Existing
              /\ frame_ptr' = [frame_ptr EXCEPT ![k] = n]
  <2>1. PushCall(frame, regs.rsp) /\ state' = state /\ frame_ptr' = [frame_ptr EXCEPT ![Me] = n]
    BY <1>13 DEF Enter
  <2>2. Existing' = Existing
    BY <2>1 DEF Existing
  <2> QED
    BY <1>3, <1>11, <2>1, <2>2 DEF PushCall
<1>14. CASE NextFits(s, need, params) /\ UNCHANGED segVars /\ Enter(frame, params, next[s])
  <2>1. next[s] # NULL /\ size[next[s]] >= need + params
    BY <1>14 DEF NextFits
  <2>2. e + 1 \in Int /\ e + 1 \in 1..m[k]
    BY <1>1, <1>4, <1>8, <1>10, <2>1 DEF Lists
  <2>3. next[s] \in Segments
    BY <1>10, <2>1 DEF TypeOK
  <2>4. size[next[s]] \in Nat
    <3>1. size[next[s]] # NULL
      BY <1>1, <1>4, <1>10, <2>2 DEF Lists
    <3>2. size \in [Segments -> Nat \cup {NULL}]
      BY DEF TypeOK
    <3> QED
      BY <2>3, <3>1, <3>2
  <2>5. /\ calls' = [calls EXCEPT ![k] = Append(@, x)] /\ Existing' = Existing
        /\ frame_ptr' = [frame_ptr EXCEPT ![k] = L[k][e + 1]]
    BY <1>10, <1>13, <1>14
  <2>6. Lists(L, m)'
    BY <1>1, <1>14, <2>5, ListsKept
  <2>7. SameUpTo(L[k], L[k], d[k][z + 1]) /\ m[k] <= m[k]
    BY <1>5 DEF SameUpTo
  <2>8. e + 1 = d[k][z + 1] + 1 /\ e + 1 <= m[k]
    BY <1>5, <1>7, <2>2
  <2>9. CallOf(L, m, d, k, z, x, L, m, e + 1)
    BY <1>1, <1>4, <1>6, <1>12, <2>2, <2>5, <2>6, <2>7, <2>8 DEF CallOf
  <2>10. SegmentsInv'
    BY <2>9, PushSegments
  <2>11. size' = size /\ prev' = prev /\ next' = next
    BY <1>14 DEF segVars
  <2>12. /\ size \in [Segments -> Nat \cup {NULL}] /\ prev \in [Segments -> Segments \cup {NULL}]
         /\ next \in [Segments -> Segments \cup {NULL}]
    BY DEF TypeOK
  <2> QED
    BY <1>14, <2>1, <2>3, <2>4, <2>10, <2>11, <2>12
<1>15. ASSUME NEW n \in Segments, EnterNew(s, n), Enter(frame, params, n),
              size' = [size EXCEPT ![n] = IF need + params < MinSegment
                                          THEN MinSegment ELSE need + params]
       PROVE  \E g \in Segments :
                 /\ Enter(frame, params, g)
                 /\ size'[g] \in Nat /\ size'[g] >= need + params
                 /\ size' \in [Segments -> Nat \cup {NULL}]
                 /\ prev' \in [Segments -> Segments \cup {NULL}]
                 /\ next' \in [Segments -> Segments \cup {NULL}]
                 /\ SegmentsInv'
  <2>1. PICK v \in Nat : v >= need + params /\ size' = [size EXCEPT ![n] = v]
    <3> DEFINE w == IF need + params < MinSegment THEN MinSegment ELSE need + params
    <3>1. w \in Nat /\ w >= need + params
      OBVIOUS
    <3>2. size' = [size EXCEPT ![n] = w]
      BY <1>15
    <3> HIDE DEF w
    <3> QED
      BY <3>1, <3>2
  <2>2. /\ calls' = [calls EXCEPT ![k] = Append(@, x)] /\ Existing' = Existing
        /\ frame_ptr' = [frame_ptr EXCEPT ![k] = n]
    BY <1>13, <1>15
  <2>3. EnterNew(L[k][e], n)
    BY <1>8, <1>9, <1>15
  <2>4. PICK L2, m2 : /\ Lists(L2, m2)'
                      /\ m2[k] = m[k] + 1 /\ L2[k][e + 1] = n
                      /\ \A i \in Int : i <= e => L2[k][i] = L[k][i]
                      /\ \A j \in Existing \ {k} : L2[j] = L[j] /\ m2[j] = m[j]
    <3>1. GrowthOf(L, m, k, e, n, v)
      BY <1>1, <1>4, <1>8, <2>1, <2>2, <2>3 DEF GrowthOf
    <3> QED
      BY <3>1, GrowLists
  <2>5. SameUpTo(L[k], L2[k], d[k][z + 1])
    BY <1>7, <2>4 DEF SameUpTo
  <2>6. e + 1 \in Int /\ e + 1 = d[k][z + 1] + 1 /\ e + 1 <= m2[k] /\ m[k] <= m2[k]
    BY <1>5, <1>7, <1>8, <2>4
  <2>7. frame_ptr' = [frame_ptr EXCEPT ![k] = L2[k][e + 1]]
    BY <2>2, <2>4
  <2>8. CallOf(L, m, d, k, z, x, L2, m2, e + 1)
    BY <1>1, <1>4, <1>6, <1>12, <2>2, <2>4, <2>5, <2>6, <2>7 DEF CallOf
  <2>9. SegmentsInv'
    BY <2>8, PushSegments
  <2>10. /\ size \in [Segments -> Nat \cup {NULL}] /\ prev \in [Segments -> Segments \cup {NULL}]
         /\ next \in [Segments -> Segments \cup {NULL}]
    BY DEF TypeOK
  <2>11. size' \in [Segments -> Nat \cup {NULL}] /\ size'[n] = v
    BY <2>1, <2>10
  <2>12. /\ prev' = [r \in Segments |-> IF r = n THEN s ELSE IF r = next[s] THEN n ELSE prev[r]]
         /\ next' = [next EXCEPT ![s] = n, ![n] = next[s]]
    BY <1>15 DEF EnterNew
  <2>13. prev' \in [Segments -> Segments \cup {NULL}] /\ next' \in [Segments -> Segments \cup {NULL}]
    BY <1>10, <2>10, <2>12
  <2> QED
    BY <1>15, <2>1, <2>9, <2>11, <2>13
<1> QED
  <2>1. \/ NextFits(s, need, params) /\ UNCHANGED segVars /\ Enter(frame, params, next[s])
        \/ \E n \in Segments :
              /\ EnterNew(s, n)
              /\ size' = [size EXCEPT ![n] = IF need + params < MinSegment
                                             THEN MinSegment ELSE need + params]
              /\ Enter(frame, params, n)
    BY <1>3, <1>9 DEF CallMoreStack
  <2> QED
    BY <1>14, <1>15, <2>1

\* What a return finds: the segment in which the call was made.
LEMMA ReturnSegments ==
    ASSUME TypeOK, Chains, SegmentsInv, CallReturns
    PROVE  /\ SegmentsInv'
           /\ LastCall \in CallT
           /\ LastCall.back # NULL =>
                 /\ prev[frame_ptr[Me]] \in Segments
                 /\ LastCall.back.seg = prev[frame_ptr[Me]]
<1>1. PICK L, m, d : Lists(L, m) /\ Depths(L, m, d)
  BY DEF SegmentsInv
<1>2. PICK k : k = Me
  OBVIOUS
<1>3. /\ Me # NULL /\ calls[k] # <<>> /\ UNCHANGED <<state, segVars>>
      /\ calls' = [calls EXCEPT ![k] = SubSeq(@, 1, Len(@) - 1)]
  BY <1>2 DEF CallReturns
<1>4. k \in Existing
  BY <1>2, <1>3, MeRuns
<1>5. /\ k \in Coroutines /\ m[k] \in Nat /\ d[k] \in Positions /\ calls[k] \in Seq(CallT)
      /\ DepthsOf(L[k], m[k], d[k], frame_ptr[k], calls[k])
  BY <1>1, <1>4, DepthsOfExisting
<1>6. PICK r : r = SubSeq(calls[k], 1, Len(calls[k]) - 1)
  OBVIOUS
<1>7. PICK z \in Nat : Len(calls[k]) = z /\ z # 0
  BY <1>3, <1>5
<1>8. Len(r) = z - 1 /\ \A i \in 1..(z - 1) : r[i] = calls[k][i]
  BY <1>3, <1>5, <1>6, <1>7, FrontSeq
<1>9. LastCall = calls[k][z] /\ LastCall \in CallT
  <2>1. calls[k][z] \in CallT
    BY <1>5, <1>7
  <2> QED
    BY <1>2, <1>7, <2>1 DEF LastCall
<1>10. PICK e, y, f : e = d[k][z + 1] /\ y = d[k][z] /\ f = L[k][d[k][z]]
  OBVIOUS
<1>11. /\ DepthsOf(L[k], m[k], d[k], f, r)
       /\ y \in 1..m[k] /\ e \in 1..m[k] /\ frame_ptr[k] = L[k][e] /\ f = L[k][y]
       /\ (LastCall.back = NULL => y = e)
       /\ (LastCall.back # NULL => y = e - 1 /\ LastCall.back.seg = L[k][y])
  <2>1. Popped(L[k], m[k], d[k], frame_ptr[k], calls[k], z, r)
    BY <1>5, <1>7, <1>8 DEF Popped
  <2>2. /\ DepthsOf(L[k], m[k], d[k], L[k][d[k][z]], r)
        /\ d[k][z] \in 1..m[k] /\ d[k][z + 1] \in 1..m[k] /\ frame_ptr[k] = L[k][d[k][z + 1]]
        /\ (calls[k][z].back = NULL => d[k][z] = d[k][z + 1])
        /\ (calls[k][z].back # NULL =>
              d[k][z] = d[k][z + 1] - 1 /\ calls[k][z].back.seg = L[k][d[k][z]])
    BY <2>1, PopDepths
  <2> QED
    BY <1>9, <1>10, <2>2
<1>12. Existing' = Existing
  BY <1>3 DEF Existing
<1>13. Lists(L, m)'
  BY <1>1, <1>3, <1>12, ListsKept
<1>14. e \in Int /\ y \in Int
  BY <1>5, <1>11
<1>15. L[k][y] \in Segments /\ prev[L[k][e]] = L[k][e - 1]
  <2>1. L[k][y] # NULL /\ prev[L[k][e]] = L[k][e - 1]
    BY <1>1, <1>4, <1>11, <1>14 DEF Lists
  <2>2. L[k] \in [Int -> Segments \cup {NULL}]
    BY <1>1, <1>5 DEF Lists
  <2>3. L[k][y] \in Segments \cup {NULL}
    BY <1>14, <2>2
  <2> QED
    BY <2>1, <2>3
<1>16. LastCall.back # NULL => prev[frame_ptr[k]] = L[k][y] /\ LastCall.back.seg = prev[frame_ptr[k]]
  BY <1>11, <1>15
<1>17. frame_ptr' = [frame_ptr EXCEPT ![k] = f]
  <2>1. frame_ptr \in [Coroutines -> Segments \cup {NULL}]
    BY DEF TypeOK
  <2>2. CASE LastCall.back = NULL
    <3>1. frame_ptr' = frame_ptr
      BY <2>2 DEF CallReturns
    <3>2. frame_ptr[k] = f
      BY <1>11, <2>2
    <3> QED
      BY <1>5, <2>1, <3>1, <3>2
  <2>3. CASE LastCall.back # NULL
    <3>1. frame_ptr' = [frame_ptr EXCEPT ![k] = prev[@]]
      BY <1>2, <2>3 DEF CallReturns
    <3> QED
      BY <1>11, <1>16, <2>3, <3>1
  <2> QED
    BY <2>2, <2>3
<1>18. frame_ptr'[k] = f /\ calls'[k] = r
       /\ \A j \in Existing \ {k} : frame_ptr'[j] = frame_ptr[j] /\ calls'[j] = calls[j]
  <2>1. DOMAIN frame_ptr = Coroutines /\ DOMAIN calls = Coroutines
    BY DEF TypeOK
  <2>2. \A j \in Existing : j \in Coroutines
    BY DEF Existing
  <2> QED
    BY <1>3, <1>5, <1>6, <1>17, <2>1, <2>2
<1>19. Depths(L, m, d)'
  <2>1. ASSUME NEW j \in Existing PROVE DepthsOf(L[j], m[j], d[j], frame_ptr'[j], calls'[j])
    <3>1. CASE j = k
      BY <1>11, <1>18, <3>1
    <3>2. CASE j # k
      BY <1>1, <1>18, <3>2 DEF Depths
    <3> QED
      BY <3>1, <3>2
  <2>2. d \in [Coroutines -> Positions]
    BY <1>1 DEF Depths
  <2> QED
    BY <1>12, <2>1, <2>2 DEF Depths
<1>20. SegmentsInv'
  BY <1>13, <1>19 DEF SegmentsInv
<1> QED
  BY <1>2, <1>9, <1>15, <1>16, <1>20

----------------------------------------------------------------------------
(* Chains and contexts.                                                    *)

\* The contexts of StackTopIsOfSegmentInUse, by their place in a chain.
Current == IF wrapped = NULL THEN regs ELSE wrapped

Contexts ==
    /\ ContextOf(Current, Me)
    /\ \A h \in Live, i \in Int, x, y \in Coroutines :
          At(h, i, x) /\ At(h, i + 1, y) => ContextOf(rp[y], x)
    /\ \A y \in Coroutines : At(NULL, 1, y) => ContextOf(rp[y], NULL)
    /\ \A h \in Live, x \in Coroutines : h # NULL /\ Last(h, x) => ContextOf(rp[h], x)

LEMMA NullLives ==
    /\ NULL \in Live /\ NULL \notin Coroutines
    /\ \A i, x : At(NULL, i, x) <=> i \in 1..Len(chain) /\ x = chain[i]
    /\ \A h \in Live : h # NULL => h \in Coroutines /\ state[h] = "paused"
    /\ \A k \in Coroutines : state[k] = "paused" => k \in Live
    /\ \A k \in Coroutines : \A i, x : At(k, i, x) <=> i \in 1..Len(captured[k]) /\ x = captured[k][i]
BY DEF Live, At, ChainOf

\* Me is NULL, or the last of the chain that runs.
LEMMA MeIsLast ==
    ASSUME TypeOK
    PROVE  /\ Len(chain) \in Nat
           /\ Len(chain) = 0 => Me = NULL
           /\ Len(chain) # 0 => Me \in Coroutines /\ Me # NULL /\ At(NULL, Len(chain), Me)
<1>1. chain \in Seq(Coroutines)
  BY DEF TypeOK
<1>2. Len(chain) \in Nat /\ (Len(chain) = 0 <=> chain = <<>>)
  BY <1>1
<1>3. Len(chain) # 0 => Len(chain) \in 1..Len(chain) /\ chain[Len(chain)] \in Coroutines
  BY <1>1
<1> QED
  BY <1>2, <1>3, NullLives DEF Me

\* Of a step that changes neither chains nor what can be resumed.
LEMMA ChainsKept ==
    ASSUME Chains, UNCHANGED <<state, captured, chain>>
    PROVE  Chains' /\ Live' = Live /\ Me' = Me
           /\ \A h, i, x : (At(h, i, x)' <=> At(h, i, x)) /\ (Last(h, x)' <=> Last(h, x))
<1>1. Live' = Live /\ Me' = Me
  BY DEF Live, Me
<1>2. \A h : ChainOf(h)' = ChainOf(h)
  BY DEF ChainOf
<1>3. \A h, i, x : (At(h, i, x)' <=> At(h, i, x)) /\ (Last(h, x)' <=> Last(h, x))
  BY <1>2 DEF At, Last
<1>4. Chains'
  BY <1>1, <1>3 DEF Chains
<1> QED
  BY <1>1, <1>3, <1>4

\* A member of a chain other than the one that runs, or with one behind it,
\* is not the one that runs.
LEMMA OnlyMeIsLast ==
    ASSUME TypeOK, Chains, NEW h \in Live, NEW i \in Int, NEW x \in Coroutines, At(h, i, x),
           \/ h # NULL
           \/ \E y \in Coroutines : At(h, i + 1, y)
    PROVE  x # Me
<1> SUFFICES ASSUME x = Me PROVE FALSE
  OBVIOUS
<1>1. Len(chain) \in Nat /\ Len(chain) # 0 /\ At(NULL, Len(chain), x)
  BY MeIsLast, NullLives
<1>2. NULL = h /\ Len(chain) = i
  BY <1>1, NullLives DEF Chains
<1>3. \A y : ~At(NULL, i + 1, y)
  BY <1>1, <1>2, NullLives
<1> QED
  BY <1>2, <1>3

\* Of a step on the stack of the one that runs.
LEMMA CallContexts ==
    ASSUME TypeOK, Chains, Contexts, UNCHANGED <<state, captured, chain, rp, wrapped>>,
           wrapped = NULL, Me # NULL,
           \A k \in Coroutines : k # Me => frame_ptr'[k] = frame_ptr[k],
           regs'.rsp.seg = frame_ptr'[Me], regs'.top.seg = frame_ptr'[Me]
    PROVE  Chains' /\ Contexts'
<1>1. Chains' /\ Live' = Live /\ Me' = Me
      /\ \A h, i, x : (At(h, i, x)' <=> At(h, i, x)) /\ (Last(h, x)' <=> Last(h, x))
  BY ChainsKept
<1>2. ContextOf(Current, Me)'
  BY <1>1 DEF ContextOf, Current
<1>3. ASSUME NEW h \in Live, NEW i \in Int, NEW x \in Coroutines, NEW y \in Coroutines,
             At(h, i, x), At(h, i + 1, y)
      PROVE  ContextOf(rp[y], x)'
  <2>1. x # Me /\ x # NULL
    BY <1>3, OnlyMeIsLast, NullLives
  <2>2. ContextOf(rp[y], x)
    BY <1>3 DEF Contexts
  <2> QED
    BY <2>1, <2>2 DEF ContextOf
<1>4. ASSUME NEW y \in Coroutines, At(NULL, 1, y) PROVE ContextOf(rp[y], NULL)'
  BY <1>4 DEF Contexts, ContextOf
<1>5. ASSUME NEW h \in Live, NEW x \in Coroutines, h # NULL, Last(h, x)
      PROVE  ContextOf(rp[h], x)'
  <2>1. At(h, Len(ChainOf(h)), x) /\ Len(ChainOf(h)) \in Int
    BY <1>5, ChainTypes DEF Last
  <2>2. x # Me /\ x # NULL
    BY <1>5, <2>1, OnlyMeIsLast, NullLives
  <2>3. ContextOf(rp[h], x)
    BY <1>5 DEF Contexts
  <2> QED
    BY <2>2, <2>3 DEF ContextOf
<1>6. Contexts'
  BY <1>1, <1>2, <1>3, <1>4, <1>5 DEF Contexts
<1> QED
  BY <1>1, <1>6

LEMMA ChainsInit ==
    ASSUME Init PROVE Chains /\ Contexts
<1>1. Live = {NULL} /\ chain = <<>> /\ Me = NULL /\ wrapped = NULL
  BY DEF Init, Live, Me
<1>2. \A i, x : ~At(NULL, i, x)
  BY <1>1, NullLives
<1>3. Chains
  BY <1>1, <1>2 DEF Chains
<1>4. ContextOf(Current, Me)
  BY <1>1 DEF Init, ContextOf, Current, System, Addr
<1>5. Contexts
  BY <1>1, <1>2, <1>4 DEF Contexts
<1> QED
  BY <1>3, <1>5

\* One chain more, of one coroutine.
LEMMA NewChains ==
    ASSUME TypeOK, Chains, Contexts, NEW k \in Coroutines, NEW s \in Segments, New(k, s)
    PROVE  Chains' /\ Contexts'
<1>1. /\ state[k] = "none" /\ state' = [state EXCEPT ![k] = "paused"]
      /\ captured' = [captured EXCEPT ![k] = <<k>>]
      /\ frame_ptr' = [frame_ptr EXCEPT ![k] = s]
      /\ rp' = [rp EXCEPT ![k] = [rsp |-> Addr(s, Aligned(InitialSize + 16)), top |-> Addr(s, 0)]]
      /\ UNCHANGED <<chain, regs, wrapped>>
  BY DEF New
<1>2. /\ state'[k] = "paused" /\ captured'[k] = <<k>> /\ frame_ptr'[k] = s
      /\ rp'[k].rsp.seg = s /\ rp'[k].top.seg = s
      /\ \A j \in Coroutines \ {k} : /\ state'[j] = state[j] /\ captured'[j] = captured[j]
                                     /\ frame_ptr'[j] = frame_ptr[j] /\ rp'[j] = rp[j]
  <2>1. /\ DOMAIN state = Coroutines /\ DOMAIN captured = Coroutines
        /\ DOMAIN frame_ptr = Coroutines /\ DOMAIN rp = Coroutines
    BY DEF TypeOK
  <2> QED
    BY <1>1, <2>1 DEF Addr
<1>3. Live' = Live \cup {k} /\ k \notin Live /\ Me' = Me /\ k # NULL
  BY <1>1, <1>2, NullLives DEF Live, Me
<1>4. \A i, x : At(k, i, x)' <=> i = 1 /\ x = k
  <2>1. ChainOf(k)' = <<k>>
    BY <1>2, <1>3 DEF ChainOf
  <2>2. Len(<<k>>) = 1 /\ <<k>>[1] = k
    OBVIOUS
  <2>3. \A i : i \in 1..1 <=> i = 1
    OBVIOUS
  <2> QED
    BY <2>1, <2>2, <2>3 DEF At
<1>5. \A h \in Live : ChainOf(h)' = ChainOf(h)
  BY <1>1, <1>2, <1>3, NullLives DEF ChainOf
<1>6. \A h \in Live : \A i, x : (At(h, i, x)' <=> At(h, i, x)) /\ (Last(h, x)' <=> Last(h, x))
  BY <1>5 DEF At, Last
<1>7. \A x : Last(k, x)' => x = k
  BY <1>4 DEF Last
<1>8. \A h \in Live, i \in Int, x \in Coroutines : At(h, i, x) => x # k
  BY <1>1 DEF Chains
<1>9. Chains'
  <2>1. \A h \in Live', i \in Int, x \in Coroutines : At(h, i, x)' =>
          state'[x] = IF i = 1 /\ h # NULL THEN "paused" ELSE "running"
    BY <1>2, <1>3, <1>4, <1>6, <1>8 DEF Chains
  <2>2. \A h \in Live' : h # NULL => At(h, 1, h)'
    BY <1>3, <1>4, <1>6 DEF Chains
  <2>3. \A g, h \in Live', i, j \in Int, x \in Coroutines :
          At(g, i, x)' /\ At(h, j, x)' => g = h /\ i = j
    BY <1>3, <1>4, <1>6, <1>8 DEF Chains
  <2> QED
    BY <2>1, <2>2, <2>3 DEF Chains
<1>10. Contexts'
  <2>1. ContextOf(Current, Me)'
    <3>1. ContextOf(Current, Me) /\ Current' = Current
      BY <1>1 DEF Contexts, Current
    <3>2. Me = NULL \/ (Me \in Coroutines /\ Me # k)
      BY <1>8, NullLives, MeIsLast
    <3> QED
      BY <1>2, <1>3, <3>1, <3>2 DEF ContextOf
  <2>2. ASSUME NEW h \in Live', NEW i \in Int, NEW x \in Coroutines, NEW y \in Coroutines,
               At(h, i, x)', At(h, i + 1, y)'
        PROVE  ContextOf(rp[y], x)'
    <3>1. h # k
      BY <1>4, <2>2
    <3>2. h \in Live /\ At(h, i, x) /\ At(h, i + 1, y) /\ i + 1 \in Int
      BY <1>3, <1>6, <2>2, <3>1
    <3>3. x # k /\ y # k /\ x # NULL
      BY <1>8, <3>2, NullLives
    <3>4. ContextOf(rp[y], x)
      BY <3>2 DEF Contexts
    <3> QED
      BY <1>2, <3>3, <3>4 DEF ContextOf
  <2>3. ASSUME NEW y \in Coroutines, At(NULL, 1, y)' PROVE ContextOf(rp[y], NULL)'
    <3>1. At(NULL, 1, y) /\ y # k
      BY <1>6, <1>8, <2>3, NullLives
    <3> QED
      BY <1>2, <3>1 DEF Contexts, ContextOf
  <2>4. ASSUME NEW h \in Live', NEW x \in Coroutines, h # NULL, Last(h, x)'
        PROVE  ContextOf(rp[h], x)'
    <3>1. CASE h = k
      BY <1>2, <1>3, <1>7, <2>4, <3>1 DEF ContextOf
    <3>2. CASE h # k
      <4>1. h \in Live /\ Last(h, x) /\ h \in Coroutines
        BY <1>3, <1>6, <2>4, <3>2, NullLives
      <4>2. x # k /\ x # NULL
        BY <1>8, <4>1, ChainTypes, NullLives DEF Last
      <4>3. ContextOf(rp[h], x)
        BY <2>4, <4>1 DEF Contexts
      <4> QED
        BY <1>2, <3>2, <4>1, <4>2, <4>3 DEF ContextOf
    <3> QED
      BY <3>1, <3>2
  <2> QED
    BY <2>1, <2>2, <2>3, <2>4 DEF Contexts
<1> QED
  BY <1>9, <1>10

\* One chain less.
LEMMA DeleteChains ==
    ASSUME TypeOK, Chains, Contexts, NEW k \in Coroutines, Delete(k)
    PROVE  Chains' /\ Contexts'
<1> DEFINE inner == IF state[k] = "paused"
                    THEN {captured[k][i] : i \in 2..Len(captured[k])} ELSE {}
<1>1. /\ state[k] \in {"paused", "finished", "abandoned"}
      /\ state' = [j \in Coroutines |-> IF j = k THEN "none"
                                        ELSE IF j \in inner THEN "abandoned" ELSE state[j]]
      /\ UNCHANGED <<frame_ptr, rp, captured, chain, regs, wrapped>>
  BY DEF Delete
<1>2. \A j \in inner : k \in Live /\ \E i \in Int : i # 1 /\ At(k, i, j)
  <2> SUFFICES ASSUME NEW j \in inner PROVE k \in Live /\ \E i \in Int : i # 1 /\ At(k, i, j)
    OBVIOUS
  <2>1. k # NULL /\ state[k] = "paused" /\ k \in Live
    BY NullLives
  <2>2. PICK i \in 2..Len(captured[k]) : j = captured[k][i]
    BY <2>1
  <2>3. captured[k] \in Seq(Coroutines)
    BY DEF TypeOK
  <2>4. Len(captured[k]) \in Nat
    BY <2>3
  <2>5. i \in Int /\ i \in 1..Len(captured[k]) /\ i # 1
    BY <2>4
  <2> QED
    BY <2>1, <2>2, <2>5, NullLives
<1> HIDE DEF inner
<1>3. \A h, i, x : (At(h, i, x)' <=> At(h, i, x)) /\ (Last(h, x)' <=> Last(h, x))
  BY <1>1 DEF At, Last, ChainOf
<1>4. \A j \in inner \cap Coroutines : state[j] = "running"
  BY <1>2 DEF Chains
<1>5. Live' = Live \ {k} /\ Me' = Me
  BY <1>1, <1>4, NullLives DEF Live, Me
<1>6. \A h \in Live', i \in Int, x \in Coroutines : At(h, i, x) => x # k /\ x \notin inner
  <2> SUFFICES ASSUME NEW h \in Live', NEW i \in Int, NEW x \in Coroutines, At(h, i, x)
               PROVE  x # k /\ x \notin inner
    OBVIOUS
  <2>1. x \notin inner
    BY <1>2, <1>5 DEF Chains
  <2>2. ASSUME x = k PROVE FALSE
    <3>1. state[k] = "paused"
      BY <1>1, <1>5, <2>2 DEF Chains
    <3>2. At(k, 1, k) /\ k \in Live
      BY <3>1, NullLives DEF Chains
    <3> QED
      BY <1>5, <2>2, <3>2 DEF Chains
  <2> QED
    BY <2>1, <2>2
<1>7. Chains'
  <2>1. \A h \in Live', i \in Int, x \in Coroutines : At(h, i, x)' =>
          state'[x] = IF i = 1 /\ h # NULL THEN "paused" ELSE "running"
    BY <1>1, <1>3, <1>5, <1>6 DEF Chains
  <2> QED
    BY <1>3, <1>5, <2>1 DEF Chains
<1>8. Contexts'
  BY <1>1, <1>3, <1>5 DEF Contexts, ContextOf, Current
<1> QED
  BY <1>7, <1>8

\* What the sequence operators of a switch return.
LEMMA ConcatIs ==
    ASSUME NEW S, NEW a \in Seq(S), NEW b \in Seq(S), NEW c, c = a \o b
    PROVE  /\ Len(a) \in Nat /\ Len(b) \in Nat /\ Len(c) = Len(a) + Len(b)
           /\ \A i \in 1..Len(a) : c[i] = a[i]
           /\ \A i \in 1..Len(b) : c[Len(a) + i] = b[i]
OBVIOUS

LEMMA PrefixIs ==
    ASSUME NEW S, NEW a \in Seq(S), NEW n \in 1..Len(a), NEW c, c = SubSeq(a, 1, n - 1)
    PROVE  Len(a) \in Nat /\ Len(c) = n - 1 /\ \A i \in 1..(n - 1) : c[i] = a[i]
OBVIOUS

LEMMA SuffixIs ==
    ASSUME NEW S, NEW a \in Seq(S), NEW n \in 1..Len(a), NEW c, c = SubSeq(a, n, Len(a))
    PROVE  /\ Len(a) \in Nat /\ Len(c) = Len(a) - n + 1
           /\ \A i \in 1..(Len(a) - n + 1) : c[i] = a[n + i - 1]
OBVIOUS

\* The chain of k goes behind the one that runs.
LEMMA ResumeChains ==
    ASSUME TypeOK, Chains, Contexts, NEW k \in Coroutines, Resume(k)
    PROVE  Chains' /\ Contexts'
<1>1. /\ state[k] = "paused" /\ wrapped = NULL
      /\ rp' = [rp EXCEPT ![k] = regs] /\ regs' = rp[k]
      /\ chain' = chain \o captured[k] /\ state' = [state EXCEPT ![k] = "running"]
      /\ UNCHANGED <<frame_ptr, captured, wrapped>>
  BY DEF Resume
<1>2. /\ rp'[k] = regs /\ state'[k] = "running"
      /\ \A j \in Coroutines \ {k} : rp'[j] = rp[j] /\ state'[j] = state[j]
  <2>1. DOMAIN rp = Coroutines /\ DOMAIN state = Coroutines
    BY DEF TypeOK
  <2> QED
    BY <1>1, <2>1
<1>3. k \in Live /\ k # NULL /\ At(k, 1, k) /\ Live' = Live \ {k}
  BY <1>1, <1>2, NullLives DEF Live, Chains
<1>4. PICK n, m : n = Len(chain) /\ m = Len(captured[k])
  OBVIOUS
<1>5. /\ n \in Nat /\ m \in Nat /\ Len(chain') = n + m
      /\ \A i \in 1..n : chain'[i] = chain[i]
      /\ \A i \in 1..m : chain'[n + i] = captured[k][i]
  <2>1. chain \in Seq(Coroutines) /\ captured[k] \in Seq(Coroutines)
    BY DEF TypeOK
  <2> QED
    BY <1>1, <1>4, <2>1, ConcatIs
<1>6. m # 0 /\ 1 \in 1..m /\ m \in 1..m
  BY <1>3, <1>4, <1>5, NullLives
<1>7. \A i \in Int : \A x : At(NULL, i, x)' => (At(NULL, i, x) /\ i <= n) \/ (At(k, i - n, x) /\ i > n)
  <2> SUFFICES ASSUME NEW i \in Int, NEW x, At(NULL, i, x)'
               PROVE  (At(NULL, i, x) /\ i <= n) \/ (At(k, i - n, x) /\ i > n)
    OBVIOUS
  <2>1. i \in 1..(n + m) /\ x = chain'[i]
    BY <1>5 DEF At, ChainOf
  <2>2. CASE i <= n
    <3>1. i \in 1..n
      BY <1>5, <2>1, <2>2
    <3>2. x = chain[i] /\ i \in 1..Len(chain)
      BY <1>4, <1>5, <2>1, <3>1
    <3>3. At(NULL, i, x)
      BY <3>2, NullLives
    <3> QED
      BY <2>2, <3>3
  <2>3. CASE i > n
    <3>1. i - n \in 1..m /\ n + (i - n) = i
      BY <1>5, <2>1, <2>3
    <3>2. chain'[n + (i - n)] = captured[k][i - n]
      BY <1>5, <3>1
    <3>3. x = captured[k][i - n] /\ i - n \in 1..Len(captured[k])
      BY <1>4, <2>1, <3>1, <3>2
    <3>4. At(k, i - n, x)
      BY <3>3, NullLives
    <3> QED
      BY <2>3, <3>4
  <2> QED
    BY <1>5, <2>2, <2>3
<1>8. /\ \A h \in Live' : h # NULL => ChainOf(h)' = ChainOf(h)
      /\ \A h \in Live' : h # NULL => h \in Live /\ h # k /\ h \in Coroutines
  BY <1>1, <1>3, NullLives DEF ChainOf
<1>9. \A h \in Live' : h # NULL =>
        \A i, x : (At(h, i, x)' <=> At(h, i, x)) /\ (Last(h, x)' <=> Last(h, x))
  BY <1>8 DEF At, Last
<1>10. \A h \in Live, i \in Int, x \in Coroutines : At(h, i, x) /\ (h # k \/ i # 1) => x # k
  BY <1>3 DEF Chains
<1>11. Chains'
  <2>1. ASSUME NEW h \in Live', NEW i \in Int, NEW x \in Coroutines, At(h, i, x)'
        PROVE  state'[x] = IF i = 1 /\ h # NULL THEN "paused" ELSE "running"
    <3>1. CASE h # NULL
      <4>1. At(h, i, x) /\ h \in Live /\ x # k
        BY <1>8, <1>9, <1>10, <2>1, <3>1
      <4> QED
        BY <1>2, <4>1 DEF Chains
    <3>2. CASE h = NULL /\ At(NULL, i, x)
      <4>1. x # k
        BY <1>3, <1>10, <3>2, NullLives
      <4> QED
        BY <1>2, <3>2, <4>1, NullLives DEF Chains
    <3>3. CASE h = NULL /\ At(k, i - n, x) /\ i > n
      <4>1. i - n \in Int
        BY <1>5
      <4>2. CASE i - n = 1
        <5>1. x = k
          BY <1>3, <3>3, <4>2, NullLives
        <5> QED
          BY <1>2, <3>3, <5>1
      <4>3. CASE i - n # 1
        <5>1. x # k /\ state[x] = "running"
          BY <1>3, <1>10, <3>3, <4>1, <4>3 DEF Chains
        <5> QED
          BY <1>2, <3>3, <5>1
      <4> QED
        BY <4>2, <4>3
    <3> QED
      BY <1>7, <2>1, <3>1, <3>2, <3>3
  <2>2. \A h \in Live' : h # NULL => At(h, 1, h)'
    BY <1>8, <1>9 DEF Chains
  <2>3. ASSUME NEW g \in Live', NEW h \in Live', NEW i \in Int, NEW j \in Int, NEW x \in Coroutines,
               At(g, i, x)', At(h, j, x)'
        PROVE  g = h /\ i = j
    <3>1. i - n \in Int /\ j - n \in Int /\ (i - n = j - n => i = j)
      BY <1>5
    <3>2. CASE g # NULL /\ h # NULL
      BY <1>8, <1>9, <2>3, <3>2 DEF Chains
    <3>3. CASE g = NULL /\ h = NULL
      <4>1. (At(NULL, i, x) /\ i <= n) \/ (At(k, i - n, x) /\ i > n)
        BY <1>7, <2>3, <3>3
      <4>2. (At(NULL, j, x) /\ j <= n) \/ (At(k, j - n, x) /\ j > n)
        BY <1>7, <2>3, <3>3
      <4> QED
        BY <1>3, <3>1, <3>3, <4>1, <4>2, NullLives DEF Chains
    <3>4. CASE g = NULL /\ h # NULL
      <4>1. At(NULL, i, x) \/ At(k, i - n, x)
        BY <1>7, <2>3, <3>4
      <4>2. At(h, j, x) /\ h \in Live /\ h # k
        BY <1>8, <1>9, <2>3, <3>4
      <4> QED
        BY <1>3, <3>1, <3>4, <4>1, <4>2, NullLives DEF Chains
    <3>5. CASE g # NULL /\ h = NULL
      <4>1. At(NULL, j, x) \/ At(k, j - n, x)
        BY <1>7, <2>3, <3>5
      <4>2. At(g, i, x) /\ g \in Live /\ g # k
        BY <1>8, <1>9, <2>3, <3>5
      <4> QED
        BY <1>3, <3>1, <3>5, <4>1, <4>2, NullLives DEF Chains
    <3> QED
      BY <3>2, <3>3, <3>4, <3>5
  <2> QED
    BY <2>1, <2>2, <2>3 DEF Chains
<1>13. ContextOf(regs, Me)
  BY <1>1 DEF Contexts, Current
<1>14. Contexts'
  <2>1. ContextOf(Current, Me)'
    <3>1. PICK z : z = captured[k][m]
      OBVIOUS
    <3>2. At(k, m, z) /\ Last(k, z) /\ z \in Coroutines
      BY <1>3, <1>4, <1>5, <1>6, <3>1, NullLives, ChainTypes DEF Last, ChainOf
    <3>3. Me' = z
      <4>1. chain'[n + m] = z /\ Len(chain') = n + m /\ n + m # 0
        BY <1>5, <1>6, <3>1
      <4> QED
        BY <4>1 DEF Me
    <3>4. ContextOf(rp[k], z)
      BY <1>3, <3>2 DEF Contexts
    <3> QED
      BY <1>1, <3>3, <3>4 DEF ContextOf, Current
  <2>2. ASSUME NEW h \in Live', NEW i \in Int, NEW x \in Coroutines, NEW y \in Coroutines,
               At(h, i, x)', At(h, i + 1, y)'
        PROVE  ContextOf(rp[y], x)'
    <3>1. CASE h # NULL
      <4>1. h \in Live /\ h # k /\ At(h, i, x) /\ At(h, i + 1, y) /\ i + 1 \in Int
        BY <1>8, <1>9, <2>2, <3>1
      <4>2. y # k /\ ContextOf(rp[y], x)
        BY <1>10, <4>1 DEF Contexts
      <4> QED
        BY <1>1, <1>2, <4>2 DEF ContextOf
    <3>2. CASE h = NULL
      <4>1. i + 1 \in Int /\ (i + 1 <= n => i <= n) /\ (i + 1) - n = (i - n) + 1 /\ i - n \in Int
        BY <1>5
      <4>2. (At(NULL, i, x) /\ i <= n) \/ (At(k, i - n, x) /\ i > n)
        BY <1>7, <2>2, <3>2
      <4>3. (At(NULL, i + 1, y) /\ i + 1 <= n) \/ (At(k, (i - n) + 1, y) /\ i + 1 > n)
        <5>1. (At(NULL, i + 1, y) /\ i + 1 <= n) \/ (At(k, (i + 1) - n, y) /\ i + 1 > n)
          BY <1>7, <2>2, <3>2, <4>1
        <5> QED
          BY <4>1, <5>1
      <4>4. CASE i + 1 <= n
        <5>1. At(NULL, i, x) /\ At(NULL, i + 1, y)
          BY <1>5, <4>1, <4>2, <4>3, <4>4
        <5>2. y # k /\ ContextOf(rp[y], x)
          BY <1>3, <1>10, <4>1, <5>1, NullLives DEF Contexts
        <5> QED
          BY <1>1, <1>2, <5>2 DEF ContextOf
      <4>5. CASE i = n
        <5>1. (i - n) + 1 = 1 /\ ~(i + 1 <= n) /\ ~(i > n)
          BY <1>5, <4>5
        <5>2. At(NULL, n, x) /\ At(k, 1, y)
          BY <4>2, <4>3, <4>5, <5>1
        <5>3. y = k
          BY <1>3, <5>2, NullLives
        <5>4. x = Me
          BY <1>4, <5>2, MeIsLast, NullLives DEF Me
        <5> QED
          BY <1>1, <1>2, <1>13, <5>3, <5>4 DEF ContextOf
      <4>6. CASE i > n
        <5>1. ~(i <= n) /\ ~(i + 1 <= n) /\ (i - n) + 1 # 1 /\ (i - n) + 1 \in Int
          BY <1>5, <4>6
        <5>2. At(k, i - n, x) /\ At(k, (i - n) + 1, y)
          BY <4>2, <4>3, <5>1
        <5>3. y # k
          BY <1>3, <1>10, <5>1, <5>2
        <5>4. ContextOf(rp[y], x)
          BY <1>3, <4>1, <5>2 DEF Contexts
        <5> QED
          BY <1>1, <1>2, <5>3, <5>4 DEF ContextOf
      <4> QED
        BY <1>5, <4>4, <4>5, <4>6
    <3> QED
      BY <3>1, <3>2
  <2>3. ASSUME NEW y \in Coroutines, At(NULL, 1, y)' PROVE ContextOf(rp[y], NULL)'
    <3>1. (At(NULL, 1, y) /\ 1 <= n) \/ (At(k, 1 - n, y) /\ 1 > n)
      BY <1>7, <2>3
    <3>2. CASE At(NULL, 1, y)
      <4>1. y # k /\ ContextOf(rp[y], NULL)
        BY <1>3, <1>10, <3>2, NullLives DEF Contexts
      <4> QED
        BY <1>2, <4>1 DEF ContextOf
    <3>3. CASE At(k, 1 - n, y) /\ 1 > n
      <4>1. n = 0 /\ 1 - n = 1
        BY <1>5, <3>3
      <4>2. y = k /\ Me = NULL
        BY <1>3, <1>4, <3>3, <4>1, NullLives, MeIsLast
      <4> QED
        BY <1>2, <1>13, <4>2 DEF ContextOf
    <3> QED
      BY <3>1, <3>2, <3>3
  <2>4. ASSUME NEW h \in Live', NEW x \in Coroutines, h # NULL, Last(h, x)'
        PROVE  ContextOf(rp[h], x)'
    <3>1. h \in Live /\ h \in Coroutines \ {k} /\ Last(h, x)
      BY <1>8, <1>9, <2>4
    <3>2. ContextOf(rp[h], x)
      BY <2>4, <3>1 DEF Contexts
    <3> QED
      BY <1>1, <1>2, <3>1, <3>2 DEF ContextOf
  <2> QED
    BY <2>1, <2>2, <2>3, <2>4 DEF Contexts
<1> QED
  BY <1>11, <1>14

\* The chain up to the handler's caller.
LEMMA CutAt ==
    ASSUME TypeOK, NEW n \in DOMAIN chain, chain' = SubSeq(chain, 1, n - 1)
    PROVE  /\ n \in Int /\ 1 <= n /\ n <= Len(chain) /\ Len(chain) \in Nat /\ Len(chain') = n - 1
           /\ chain[n] \in Coroutines /\ At(NULL, n, chain[n])
           /\ \A i \in Int : \A x : At(NULL, i, x)' <=> At(NULL, i, x) /\ i < n
           /\ Me' = IF n = 1 THEN NULL ELSE chain[n - 1]
<1>1. chain \in Seq(Coroutines)
  BY DEF TypeOK
<1>2. n \in 1..Len(chain) /\ Len(chain) \in Nat /\ chain[n] \in Coroutines
  BY <1>1
<1>3. Len(chain') = n - 1 /\ \A i \in 1..(n - 1) : chain'[i] = chain[i]
  BY <1>1, <1>2, PrefixIs
<1>4. ASSUME NEW i \in Int, NEW x PROVE At(NULL, i, x)' <=> At(NULL, i, x) /\ i < n
  <2>1. At(NULL, i, x)' <=> i \in 1..(n - 1) /\ x = chain'[i]
    BY <1>3 DEF At, ChainOf
  <2>2. i \in 1..(n - 1) <=> i \in 1..Len(chain) /\ i < n
    BY <1>2
  <2> QED
    BY <1>3, <2>1, <2>2, NullLives
<1>5. Me' = IF n = 1 THEN NULL ELSE chain[n - 1]
  <2>1. CASE n = 1
    <3>1. chain' = <<>>
      BY <1>1, <2>1
    <3> QED
      BY <2>1, <3>1 DEF Me
  <2>2. CASE n # 1
    <3>1. n - 1 \in 1..(n - 1) /\ Len(chain') # 0
      BY <1>2, <1>3, <2>2
    <3> QED
      BY <1>3, <2>2, <3>1 DEF Me
  <2> QED
    BY <2>1, <2>2
<1> QED
  BY <1>2, <1>3, <1>4, <1>5, NullLives

\* The handler's context is that of the one before it.
LEMMA HandlerContext ==
    ASSUME TypeOK, Chains, Contexts, NEW n \in DOMAIN chain, chain' = SubSeq(chain, 1, n - 1)
    PROVE  ContextOf(rp[chain[n]], Me')
<1>1. /\ n \in Int /\ 1 <= n /\ n <= Len(chain) /\ Len(chain) \in Nat
      /\ chain[n] \in Coroutines /\ At(NULL, n, chain[n])
      /\ Me' = IF n = 1 THEN NULL ELSE chain[n - 1]
  BY CutAt
<1>2. CASE n = 1
  BY <1>1, <1>2 DEF Contexts
<1>3. CASE n # 1
  <2>1. n - 1 \in Int /\ n - 1 \in 1..Len(chain) /\ (n - 1) + 1 = n
    BY <1>1, <1>3
  <2>2. At(NULL, n - 1, chain[n - 1]) /\ NULL \in Live
    BY <2>1, NullLives
  <2>3. chain[n - 1] \in Coroutines
    BY <2>1, <2>2, ChainTypes
  <2> QED
    BY <1>1, <1>3, <2>1, <2>2, <2>3 DEF Contexts
<1> QED
  BY <1>2, <1>3

\* The chain is cut in two.
LEMMA YieldChains ==
    ASSUME TypeOK, Chains, Contexts, NEW n \in DOMAIN chain, Yield(n)
    PROVE  Chains' /\ Contexts'
<1>1. PICK k : k = chain[n]
  OBVIOUS
<1>2. /\ wrapped = NULL /\ rp' = [rp EXCEPT ![k] = regs] /\ regs' = rp[k]
      /\ captured' = [captured EXCEPT ![k] = SubSeq(chain, n, Len(chain))]
      /\ state' = [state EXCEPT ![k] = "paused"]
      /\ chain' = SubSeq(chain, 1, n - 1) /\ UNCHANGED <<frame_ptr, wrapped>>
  BY <1>1 DEF Yield
<1>3. /\ n \in Int /\ 1 <= n /\ n <= Len(chain) /\ Len(chain) \in Nat
      /\ k \in Coroutines /\ At(NULL, n, k)
      /\ \A i \in Int : \A x : At(NULL, i, x)' <=> At(NULL, i, x) /\ i < n
  BY <1>1, <1>2, CutAt
<1>4. /\ rp'[k] = regs /\ state'[k] = "paused" /\ captured'[k] = SubSeq(chain, n, Len(chain))
      /\ \A j \in Coroutines \ {k} : /\ rp'[j] = rp[j] /\ state'[j] = state[j]
                                     /\ captured'[j] = captured[j]
  <2>1. DOMAIN rp = Coroutines /\ DOMAIN state = Coroutines /\ DOMAIN captured = Coroutines
    BY DEF TypeOK
  <2> QED
    BY <1>2, <1>3, <2>1
<1>5. state[k] = "running" /\ k \notin Live /\ k # NULL /\ Live' = Live \cup {k}
  <2>1. state[k] = "running"
    BY <1>3, NullLives DEF Chains
  <2> QED
    BY <1>3, <1>4, <2>1, NullLives DEF Live
<1>6. /\ \A h \in Live : h # NULL => ChainOf(h)' = ChainOf(h)
      /\ \A h \in Live : h # k /\ (h # NULL => h \in Coroutines \ {k})
  BY <1>4, <1>5, NullLives DEF ChainOf
<1>7. \A h \in Live : h # NULL =>
        \A i, x : (At(h, i, x)' <=> At(h, i, x)) /\ (Last(h, x)' <=> Last(h, x))
  BY <1>6 DEF At, Last
<1>8. /\ Len(ChainOf(k)') = Len(chain) - n + 1
      /\ \A i \in Int : \A x : At(k, i, x)' <=> At(NULL, i + n - 1, x) /\ i >= 1
  <2>1. PICK c : c = ChainOf(k)'
    OBVIOUS
  <2>2. c = SubSeq(chain, n, Len(chain))
    BY <1>4, <1>5, <2>1 DEF ChainOf
  <2>3. chain \in Seq(Coroutines) /\ n \in 1..Len(chain)
    BY <1>3 DEF TypeOK
  <2>4. Len(c) = Len(chain) - n + 1 /\ \A i \in 1..(Len(chain) - n + 1) : c[i] = chain[n + i - 1]
    BY <2>2, <2>3, SuffixIs
  <2>5. ASSUME NEW i \in Int, NEW x PROVE At(k, i, x)' <=> At(NULL, i + n - 1, x) /\ i >= 1
    <3>1. At(k, i, x)' <=> i \in 1..(Len(chain) - n + 1) /\ x = c[i]
      BY <2>1, <2>4 DEF At
    <3>2. i \in 1..(Len(chain) - n + 1) <=> i + n - 1 \in 1..Len(chain) /\ i >= 1
      BY <1>3
    <3>3. n + i - 1 = i + n - 1
      BY <1>3
    <3>4. i \in 1..(Len(chain) - n + 1) => c[i] = chain[i + n - 1]
      BY <2>4, <3>3
    <3>5. PICK j : j = i + n - 1
      OBVIOUS
    <3>6. At(NULL, j, x) <=> j \in 1..Len(chain) /\ x = chain[j]
      BY NullLives
    <3>7. At(k, i, x)' <=> At(NULL, j, x) /\ i >= 1
      BY <3>1, <3>2, <3>4, <3>5, <3>6
    <3> QED
      BY <3>5, <3>7
  <2> QED
    BY <2>1, <2>4, <2>5
<1>9. \A h \in Live, i \in Int, x \in Coroutines : At(h, i, x) /\ (h # NULL \/ i # n) => x # k
  BY <1>3, NullLives DEF Chains
<1>10. \A i \in Int : i + n - 1 \in Int /\ (i + n - 1 = n <=> i = 1)
  BY <1>3
<1>11. Chains'
  <2>1. ASSUME NEW h \in Live', NEW i \in Int, NEW x \in Coroutines, At(h, i, x)'
        PROVE  state'[x] = IF i = 1 /\ h # NULL THEN "paused" ELSE "running"
    <3>1. CASE h = NULL
      <4>1. At(NULL, i, x) /\ x # k
        BY <1>3, <1>9, <2>1, <3>1, NullLives
      <4> QED
        BY <1>4, <3>1, <4>1, NullLives DEF Chains
    <3>2. CASE h = k
      <4>1. At(NULL, i + n - 1, x) /\ i + n - 1 \in Int
        BY <1>8, <1>10, <2>1, <3>2
      <4>2. CASE i = 1
        <5>1. i + n - 1 = n
          BY <1>10, <4>2
        <5>2. x = k
          BY <1>3, <4>1, <5>1, NullLives
        <5> QED
          BY <1>4, <1>5, <3>2, <4>2, <5>2
      <4>3. CASE i # 1
        <5>1. i + n - 1 # n
          BY <1>10, <4>3
        <5>2. x # k /\ state[x] = "running"
          BY <1>9, <4>1, <5>1, NullLives DEF Chains
        <5> QED
          BY <1>4, <4>3, <5>2
      <4> QED
        BY <4>2, <4>3
    <3>3. CASE h \in Live /\ h # NULL
      <4>1. At(h, i, x) /\ x # k
        BY <1>7, <1>9, <2>1, <3>3
      <4> QED
        BY <1>4, <3>3, <4>1 DEF Chains
    <3> QED
      BY <1>5, <3>1, <3>2, <3>3
  <2>2. ASSUME NEW h \in Live', h # NULL PROVE At(h, 1, h)'
    <3>1. CASE h = k
      <4>1. 1 + n - 1 = n /\ 1 >= 1
        BY <1>3
      <4> QED
        BY <1>3, <1>8, <3>1, <4>1
    <3>2. CASE h \in Live
      BY <1>7, <2>2, <3>2 DEF Chains
    <3> QED
      BY <1>5, <3>1, <3>2
  <2>3. ASSUME NEW g \in Live', NEW h \in Live', NEW i \in Int, NEW j \in Int, NEW x \in Coroutines,
               At(g, i, x)', At(h, j, x)'
        PROVE  g = h /\ i = j
    \* Each position comes from one of before, of the running chain or another.
    <3>1. \A f \in Live', y \in Int : At(f, y, x)' =>
            \/ f \in Live /\ f # NULL /\ At(f, y, x)
            \/ f = NULL /\ At(NULL, y, x) /\ y < n
            \/ f = k /\ At(NULL, y + n - 1, x) /\ y >= 1
      BY <1>3, <1>5, <1>7, <1>8
    <3>2. \A y, z \in Int : At(NULL, y, x) /\ At(NULL, z, x) => y = z
      BY NullLives DEF Chains
    <3>3. \A f \in Live, y, z \in Int : f # NULL /\ At(f, y, x) => ~At(NULL, z, x)
      BY NullLives DEF Chains
    <3>4. \A f, e \in Live, y, z \in Int : At(f, y, x) /\ At(e, z, x) => f = e /\ y = z
      BY DEF Chains
    <3>5. /\ i + n - 1 \in Int /\ j + n - 1 \in Int /\ (i + n - 1 = j + n - 1 => i = j)
          /\ (i >= 1 => ~(i + n - 1 < n)) /\ (j >= 1 => ~(j + n - 1 < n))
      BY <1>3
    <3>6. CASE g \in Live /\ g # NULL /\ At(g, i, x)
      BY <2>3, <3>1, <3>3, <3>4, <3>5, <3>6
    <3>7. CASE h \in Live /\ h # NULL /\ At(h, j, x)
      BY <2>3, <3>1, <3>3, <3>4, <3>5, <3>7
    <3>8. CASE /\ \/ g = NULL /\ At(NULL, i, x) /\ i < n
                  \/ g = k /\ At(NULL, i + n - 1, x) /\ i >= 1
               /\ \/ h = NULL /\ At(NULL, j, x) /\ j < n
                  \/ h = k /\ At(NULL, j + n - 1, x) /\ j >= 1
      BY <3>2, <3>5, <3>8
    <3> QED
      BY <2>3, <3>1, <3>6, <3>7, <3>8
  <2> QED
    BY <2>1, <2>2, <2>3 DEF Chains
<1>12. ContextOf(regs, Me)
  BY <1>2 DEF Contexts, Current
<1>13. Contexts'
  <2>1. ContextOf(Current, Me)'
    <3>1. ContextOf(rp[k], Me')
      BY <1>1, <1>2, HandlerContext
    <3> QED
      BY <1>2, <3>1 DEF ContextOf, Current
  <2>2. ASSUME NEW h \in Live', NEW i \in Int, NEW x \in Coroutines, NEW y \in Coroutines,
               At(h, i, x)', At(h, i + 1, y)'
        PROVE  ContextOf(rp[y], x)'
    <3>0. i + 1 \in Int
      OBVIOUS
    <3>1. y # k /\ ContextOf(rp[y], x)
      <4>1. CASE h = NULL
        <5>1. At(NULL, i, x) /\ At(NULL, i + 1, y) /\ i + 1 # n
          BY <1>3, <2>2, <3>0, <4>1
        <5> QED
          BY <1>9, <3>0, <5>1, NullLives DEF Contexts
      <4>2. CASE h = k
        <5>1. At(NULL, i + n - 1, x) /\ At(NULL, (i + 1) + n - 1, y) /\ i >= 1
          BY <1>8, <2>2, <3>0, <4>2
        <5>2. (i + 1) + n - 1 = (i + n - 1) + 1 /\ i + n - 1 \in Int
              /\ (i + n - 1) + 1 # n /\ (i + n - 1) + 1 \in Int
          BY <1>3, <5>1
        <5>3. At(NULL, (i + n - 1) + 1, y)
          BY <5>1, <5>2
        <5>4. y # k
          BY <1>9, <5>2, <5>3, NullLives
        <5> QED
          BY <5>1, <5>2, <5>3, <5>4, NullLives DEF Contexts
      <4>3. CASE h \in Live /\ h # NULL
        <5>1. At(h, i, x) /\ At(h, i + 1, y)
          BY <1>7, <2>2, <4>3
        <5> QED
          BY <1>9, <3>0, <4>3, <5>1 DEF Contexts
      <4> QED
        BY <1>5, <4>1, <4>2, <4>3
    <3> QED
      BY <1>2, <1>4, <3>1 DEF ContextOf
  <2>3. ASSUME NEW y \in Coroutines, At(NULL, 1, y)' PROVE ContextOf(rp[y], NULL)'
    <3>1. At(NULL, 1, y) /\ 1 < n
      BY <1>3, <2>3
    <3>2. y # k /\ ContextOf(rp[y], NULL)
      BY <1>3, <1>9, <3>1, NullLives DEF Contexts
    <3> QED
      BY <1>4, <3>2 DEF ContextOf
  <2>4. ASSUME NEW h \in Live', NEW x \in Coroutines, h # NULL, Last(h, x)'
        PROVE  ContextOf(rp[h], x)'
    <3>1. CASE h = k
      <4>1. PICK i : i = Len(chain) - n + 1
        OBVIOUS
      <4>2. i \in Int /\ i + n - 1 = Len(chain) /\ Len(chain) # 0
        BY <1>3, <4>1
      <4>3. At(k, i, x)'
        BY <1>8, <2>4, <3>1, <4>1 DEF Last
      <4>4. At(NULL, Len(chain), x)
        BY <1>8, <4>2, <4>3
      <4>5. x = Me
        BY <4>2, <4>4, NullLives, MeIsLast
      <4> QED
        BY <1>2, <1>4, <1>12, <3>1, <4>5 DEF ContextOf
    <3>2. CASE h \in Live
      <4>1. Last(h, x) /\ h \in Coroutines \ {k}
        BY <1>6, <1>7, <2>4, <3>2
      <4>2. ContextOf(rp[h], x)
        BY <2>4, <3>2, <4>1 DEF Contexts
      <4> QED
        BY <1>2, <1>4, <4>1, <4>2 DEF ContextOf
    <3> QED
      BY <1>5, <3>1, <3>2
  <2> QED
    BY <2>1, <2>2, <2>3, <2>4 DEF Contexts
<1> QED
  BY <1>11, <1>13

\* The rest of the chain is in none any more.
LEMMA ExitChains ==
    ASSUME TypeOK, Chains, Contexts, NEW n \in DOMAIN chain, Exit(n)
    PROVE  Chains' /\ Contexts'
<1>1. /\ wrapped = NULL /\ regs' = rp[chain[n]]
      /\ state' = [k \in Coroutines |-> IF k = chain[n] THEN "finished"
                     ELSE IF \E j \in (n + 1)..Len(chain) : chain[j] = k
                     THEN "abandoned" ELSE state[k]]
      /\ chain' = SubSeq(chain, 1, n - 1)
      /\ UNCHANGED <<frame_ptr, rp, captured, wrapped>>
  BY DEF Exit
<1>2. /\ n \in Int /\ 1 <= n /\ n <= Len(chain) /\ Len(chain) \in Nat
      /\ chain[n] \in Coroutines /\ At(NULL, n, chain[n])
      /\ \A i \in Int : \A x : At(NULL, i, x)' <=> At(NULL, i, x) /\ i < n
  BY <1>1, CutAt
<1>3. \A x \in Coroutines : \/ \E j \in Int : At(NULL, j, x) /\ j >= n /\ state'[x] \in {"finished", "abandoned"}
                            \/ state'[x] = state[x]
  <2> SUFFICES ASSUME NEW x \in Coroutines, state'[x] # state[x]
               PROVE  \E j \in Int : At(NULL, j, x) /\ j >= n /\ state'[x] \in {"finished", "abandoned"}
    OBVIOUS
  <2>1. CASE x = chain[n]
    BY <1>1, <1>2, <2>1
  <2>2. CASE x # chain[n]
    <3>1. PICK j \in (n + 1)..Len(chain) : chain[j] = x
      BY <1>1, <2>2
    <3>2. j \in Int /\ j \in 1..Len(chain) /\ j >= n
      BY <1>2
    <3> QED
      BY <1>1, <2>2, <3>1, <3>2, NullLives
  <2> QED
    BY <2>1, <2>2
<1>4. \A x \in Coroutines, j \in Int : At(NULL, j, x) /\ j < n => state'[x] = state[x]
  BY <1>2, <1>3, NullLives DEF Chains
<1>5. \A h \in Live, x \in Coroutines, j \in Int : h # NULL /\ At(h, j, x) => state'[x] = state[x]
  BY <1>3, NullLives DEF Chains
<1>6. Live' = Live
  <2>1. ASSUME NEW k \in Coroutines PROVE state'[k] = "paused" <=> state[k] = "paused"
    <3>1. CASE state[k] = "paused"
      <4>1. k \in Live /\ k # NULL /\ At(k, 1, k)
        BY <3>1, NullLives DEF Chains
      <4> QED
        BY <1>5, <3>1, <4>1
    <3>2. CASE state[k] # "paused"
      BY <1>3, <3>2
    <3> QED
      BY <3>1, <3>2
  <2> QED
    BY <2>1 DEF Live
<1>7. \A h \in Live : h # NULL =>
        \A i, x : (At(h, i, x)' <=> At(h, i, x)) /\ (Last(h, x)' <=> Last(h, x))
  BY <1>1 DEF At, Last, ChainOf
<1>8. \A h \in Live, i \in Int : \A x : At(h, i, x)' => At(h, i, x) /\ (h = NULL => i < n)
  BY <1>2, <1>7
<1>9. Chains'
  <2>1. \A h \in Live, i \in Int, x \in Coroutines : At(h, i, x)' =>
          state'[x] = IF i = 1 /\ h # NULL THEN "paused" ELSE "running"
    BY <1>4, <1>5, <1>8 DEF Chains
  <2>2. \A h \in Live : h # NULL => At(h, 1, h)'
    BY <1>7 DEF Chains
  <2>3. \A g, h \in Live, i, j \in Int, x \in Coroutines :
          At(g, i, x)' /\ At(h, j, x)' => g = h /\ i = j
    BY <1>8 DEF Chains
  <2> QED
    BY <1>6, <2>1, <2>2, <2>3 DEF Chains
<1>10. Contexts'
  <2>1. ContextOf(Current, Me)'
    <3>1. ContextOf(rp[chain[n]], Me')
      BY <1>1, HandlerContext
    <3> QED
      BY <1>1, <3>1 DEF ContextOf, Current
  <2>2. ASSUME NEW h \in Live, NEW i \in Int, NEW x \in Coroutines, NEW y \in Coroutines,
               At(h, i, x)', At(h, i + 1, y)'
        PROVE  ContextOf(rp[y], x)'
    <3>1. i + 1 \in Int
      OBVIOUS
    <3>2. At(h, i, x) /\ At(h, i + 1, y)
      BY <1>8, <2>2, <3>1
    <3>3. ContextOf(rp[y], x)
      BY <3>2 DEF Contexts
    <3> QED
      BY <1>1, <3>3 DEF ContextOf
  <2>3. ASSUME NEW y \in Coroutines, At(NULL, 1, y)' PROVE ContextOf(rp[y], NULL)'
    <3>1. At(NULL, 1, y)
      BY <1>2, <2>3
    <3> QED
      BY <1>1, <3>1 DEF Contexts, ContextOf
  <2>4. ASSUME NEW h \in Live, NEW x \in Coroutines, h # NULL, Last(h, x)'
        PROVE  ContextOf(rp[h], x)'
    <3>1. ContextOf(rp[h], x)
      BY <1>7, <2>4 DEF Contexts
    <3> QED
      BY <1>1, <3>1 DEF ContextOf
  <2> QED
    BY <1>6, <2>1, <2>2, <2>3, <2>4 DEF Contexts
<1> QED
  BY <1>9, <1>10

----------------------------------------------------------------------------
(* How far down contexts reach.                                            *)

\* Aligning costs the stack top at most 15 bytes, and a frame that is entered
\* 23; a small one that is not compared may start there.
Clear(c) == c.rsp.off >= -Overhang /\ c.top.off >= -15

ContextsClear ==
    /\ Clear(regs)
    /\ wrapped # NULL => Clear(wrapped)
    /\ \A k \in Coroutines : Clear(rp[k])
    /\ \A k \in Coroutines : \A i \in 1..Len(calls[k]) :
          calls[k][i].back # NULL => calls[k][i].back.off >= -Overhang

LEMMA OverhangIs == Overhang \in Nat /\ Overhang = SmallFrame + 23
BY DEF Overhang

LEMMA AlignedIs ==
    ASSUME NEW n \in Int
    PROVE  Aligned(n) \in Int /\ n - 15 <= Aligned(n) /\ Aligned(n) <= n
BY DEF Aligned

LEMMA Contexted ==
    ASSUME NEW s \in Segments \cup {NULL}, NEW i \in Int, NEW r \in Segments \cup {NULL}, NEW j \in Int
    PROVE  /\ Addr(s, i) \in AddrT
           /\ [rsp |-> Addr(s, i), top |-> Addr(r, j)] \in ContextT
BY DEF Addr, AddrT, ContextT

LEMMA ContextTypes ==
    ASSUME NEW c \in ContextT
    PROVE  /\ c.rsp \in AddrT /\ c.top \in AddrT /\ c # NULL /\ c.rsp # NULL
           /\ c.rsp.seg \in Segments \cup {NULL} /\ c.rsp.off \in Int
           /\ c.top.seg \in Segments \cup {NULL} /\ c.top.off \in Int
BY DEF ContextT, AddrT

LEMMA SystemIs == System \in ContextT /\ Clear(System)
<1>1. System \in ContextT
  BY DEF System, Addr, AddrT, ContextT
<1>2. Clear(System)
  BY OverhangIs DEF System, Addr, Clear
<1> QED
  BY <1>1, <1>2

LEMMA TypesInit ==
    ASSUME Init PROVE TypeOK /\ ContextsClear
<1>1. TypeOK
  <2>1. \A S : <<>> \in Seq(S)
    OBVIOUS
  <2>2. chain \in Seq(Coroutines) /\ captured \in [Coroutines -> Seq(Coroutines)]
        /\ calls \in [Coroutines -> Seq([frame : Nat, back : AddrT \cup {NULL}])]
    BY <2>1 DEF Init
  <2>3. regs \in ContextT /\ rp \in [Coroutines -> ContextT]
    BY SystemIs DEF Init
  <2>4. state \in [Coroutines -> States] /\ \A k \in Coroutines : state[k] = "none"
    BY DEF Init, States
  <2> QED
    BY <2>2, <2>3, <2>4 DEF Init, TypeOK
<1>2. ContextsClear
  <2>1. \A k \in Coroutines : calls[k] = <<>> /\ rp[k] = System
    BY DEF Init
  <2>2. Len(<<>>) = 0 /\ \A i : i \notin 1..0
    OBVIOUS
  <2> QED
    BY <2>1, <2>2, SystemIs DEF Init, ContextsClear
<1> QED
  BY <1>1, <1>2

LEMMA NewTypes ==
    ASSUME TypeOK, ContextsClear, NEW k \in Coroutines, NEW s \in Segments, New(k, s)
    PROVE  TypeOK' /\ ContextsClear'
<1>1. InitialSize + 16 \in Nat
  OBVIOUS
<1>2. PICK a \in Int : a = Aligned(InitialSize + 16) /\ a >= 0
  BY <1>1, AlignedIs
<1>3. PICK c \in ContextT : c = [rsp |-> Addr(s, a), top |-> Addr(s, 0)] /\ Clear(c)
  <2>1. PICK c : c = [rsp |-> Addr(s, a), top |-> Addr(s, 0)]
    OBVIOUS
  <2>2. s \in Segments \cup {NULL} /\ 0 \in Int
    OBVIOUS
  <2>3. c \in ContextT
    BY <1>2, <2>1, <2>2, Contexted
  <2>4. c.rsp.off = a /\ c.top.off = 0
    BY <2>1 DEF Addr
  <2> QED
    BY <1>2, <2>1, <2>3, <2>4, OverhangIs DEF Clear
<1>4. /\ size' = [size EXCEPT ![s] = InitialSize + 16]
      /\ prev' = [prev EXCEPT ![s] = NULL] /\ next' = [next EXCEPT ![s] = NULL]
      /\ frame_ptr' = [frame_ptr EXCEPT ![k] = s] /\ rp' = [rp EXCEPT ![k] = c]
      /\ state' = [state EXCEPT ![k] = "paused"] /\ captured' = [captured EXCEPT ![k] = <<k>>]
      /\ calls' = [calls EXCEPT ![k] = <<>>] /\ UNCHANGED <<chain, regs, wrapped>>
  BY <1>2, <1>3 DEF New
<1>5. TypeOK'
  <2>1. size' \in [Segments -> Nat \cup {NULL}] /\ prev' \in [Segments -> Segments \cup {NULL}]
        /\ next' \in [Segments -> Segments \cup {NULL}]
    BY <1>1, <1>4 DEF TypeOK
  <2>2. /\ frame_ptr' \in [Coroutines -> Segments \cup {NULL}] /\ rp' \in [Coroutines -> ContextT]
        /\ state' \in [Coroutines -> States]
    BY <1>4 DEF TypeOK, States
  <2>3. \A j \in Coroutines : state'[j] # "none" => frame_ptr'[j] # NULL
    BY <1>4 DEF TypeOK
  <2>4. <<k>> \in Seq(Coroutines) /\ \A S : <<>> \in Seq(S)
    OBVIOUS
  <2>5. /\ captured' \in [Coroutines -> Seq(Coroutines)]
        /\ calls' \in [Coroutines -> Seq([frame : Nat, back : AddrT \cup {NULL}])]
    BY <1>4, <2>4 DEF TypeOK
  <2> QED
    BY <1>4, <2>1, <2>2, <2>3, <2>5 DEF TypeOK
<1>6. ContextsClear'
  <2>1. \A j \in Coroutines : /\ calls'[j] = (IF j = k THEN <<>> ELSE calls[j])
                              /\ rp'[j] = (IF j = k THEN c ELSE rp[j])
    BY <1>4 DEF TypeOK
  <2>2. Len(<<>>) = 0 /\ \A i : i \notin 1..0
    OBVIOUS
  <2> QED
    BY <1>3, <1>4, <2>1, <2>2 DEF ContextsClear
<1> QED
  BY <1>5, <1>6

LEMMA DeleteTypes ==
    ASSUME TypeOK, ContextsClear, NEW k \in Coroutines, Delete(k), Existing' = Existing \ {k}
    PROVE  TypeOK' /\ ContextsClear'
<1>1. UNCHANGED <<frame_ptr, rp, captured, calls, prev, next, chain, regs, wrapped>>
  BY DEF Delete
<1>2. state' \in [Coroutines -> States]
  <2>1. PICK S : state' = [j \in Coroutines |-> IF j = k THEN "none"
                                               ELSE IF j \in S THEN "abandoned" ELSE state[j]]
    BY DEF Delete
  <2> QED
    BY <2>1 DEF TypeOK, States
<1>3. size' \in [Segments -> Nat \cup {NULL}]
  BY DEF Delete, TypeOK
<1>4. \A j \in Coroutines : state'[j] # "none" => frame_ptr'[j] # NULL
  BY <1>1 DEF Existing, TypeOK
<1>5. TypeOK'
  BY <1>1, <1>2, <1>3, <1>4 DEF TypeOK
<1>6. ContextsClear'
  BY <1>1 DEF ContextsClear
<1> QED
  BY <1>5, <1>6

LEMMA ResumeTypes ==
    ASSUME TypeOK, ContextsClear, NEW k \in Coroutines, Resume(k)
    PROVE  TypeOK' /\ ContextsClear'
<1>1. /\ state[k] = "paused" /\ rp' = [rp EXCEPT ![k] = regs] /\ regs' = rp[k]
      /\ chain' = chain \o captured[k] /\ state' = [state EXCEPT ![k] = "running"]
      /\ UNCHANGED <<frame_ptr, captured, calls, segVars, wrapped>>
  BY DEF Resume
<1>2. chain' \in Seq(Coroutines)
  <2>1. chain \in Seq(Coroutines) /\ captured[k] \in Seq(Coroutines)
    BY DEF TypeOK
  <2> QED
    BY <1>1, <2>1
<1>3. /\ rp \in [Coroutines -> ContextT] /\ regs \in ContextT /\ state \in [Coroutines -> States]
      /\ \A j \in Coroutines : state[j] # "none" => frame_ptr[j] # NULL
  BY DEF TypeOK
<1>4. /\ rp' \in [Coroutines -> ContextT] /\ regs' \in ContextT /\ state' \in [Coroutines -> States]
      /\ \A j \in Coroutines : state'[j] # "none" => frame_ptr'[j] # NULL
  BY <1>1, <1>3 DEF States
<1>5. TypeOK'
  BY <1>1, <1>2, <1>4 DEF TypeOK, segVars
<1>6. ContextsClear'
  <2>1. \A j \in Coroutines : rp'[j] = (IF j = k THEN regs ELSE rp[j])
    BY <1>1, <1>3
  <2> QED
    BY <1>1, <2>1 DEF ContextsClear
<1> QED
  BY <1>5, <1>6

LEMMA YieldTypes ==
    ASSUME TypeOK, Chains, ContextsClear, NEW n \in DOMAIN chain, Yield(n)
    PROVE  TypeOK' /\ ContextsClear'
<1>1. PICK k : k = chain[n]
  OBVIOUS
<1>2. /\ rp' = [rp EXCEPT ![k] = regs] /\ regs' = rp[k]
      /\ captured' = [captured EXCEPT ![k] = SubSeq(chain, n, Len(chain))]
      /\ state' = [state EXCEPT ![k] = "paused"]
      /\ chain' = SubSeq(chain, 1, n - 1) /\ UNCHANGED <<frame_ptr, calls, segVars, wrapped>>
  BY <1>1 DEF Yield
<1>3. k \in Coroutines /\ state[k] = "running"
  <2>1. k \in Coroutines /\ At(NULL, n, k) /\ n \in Int
    BY <1>1, <1>2, CutAt
  <2> QED
    BY <2>1, NullLives DEF Chains
<1>4. chain' \in Seq(Coroutines) /\ SubSeq(chain, n, Len(chain)) \in Seq(Coroutines)
  <2>1. chain \in Seq(Coroutines)
    BY DEF TypeOK
  <2> QED
    BY <1>2, <2>1
<1>5. /\ rp \in [Coroutines -> ContextT] /\ regs \in ContextT /\ state \in [Coroutines -> States]
      /\ captured \in [Coroutines -> Seq(Coroutines)]
      /\ \A j \in Coroutines : state[j] # "none" => frame_ptr[j] # NULL
  BY DEF TypeOK
<1>6. /\ rp' \in [Coroutines -> ContextT] /\ regs' \in ContextT /\ state' \in [Coroutines -> States]
      /\ \A j \in Coroutines : state'[j] # "none" => frame_ptr'[j] # NULL
  BY <1>2, <1>3, <1>5 DEF States
<1>7. captured' \in [Coroutines -> Seq(Coroutines)]
  BY <1>2, <1>4, <1>5
<1>8. TypeOK'
  BY <1>2, <1>4, <1>6, <1>7 DEF TypeOK, segVars
<1>9. ContextsClear'
  <2>1. \A j \in Coroutines : rp'[j] = (IF j = k THEN regs ELSE rp[j])
    BY <1>2, <1>5
  <2> QED
    BY <1>2, <1>3, <2>1 DEF ContextsClear
<1> QED
  BY <1>8, <1>9

LEMMA ExitTypes ==
    ASSUME TypeOK, Chains, ContextsClear, NEW n \in DOMAIN chain, Exit(n)
    PROVE  TypeOK' /\ ContextsClear'
<1>1. /\ regs' = rp[chain[n]]
      /\ state' = [k \in Coroutines |-> IF k = chain[n] THEN "finished"
                     ELSE IF \E j \in (n + 1)..Len(chain) : chain[j] = k
                     THEN "abandoned" ELSE state[k]]
      /\ chain' = SubSeq(chain, 1, n - 1)
      /\ UNCHANGED <<frame_ptr, rp, captured, calls, segVars, wrapped>>
  BY DEF Exit
<1>2. /\ n \in Int /\ 1 <= n /\ Len(chain) \in Nat /\ chain[n] \in Coroutines /\ At(NULL, n, chain[n])
  BY <1>1, CutAt
<1>3. chain' \in Seq(Coroutines)
  <2>1. chain \in Seq(Coroutines)
    BY DEF TypeOK
  <2> QED
    BY <1>1, <2>1
<1>4. ASSUME NEW k \in Coroutines, state'[k] # "none" PROVE frame_ptr'[k] # NULL
  <2>1. state[k] # "none"
    <3>1. CASE \E j \in Int : At(NULL, j, k)
      BY <3>1, NullLives DEF Chains
    <3>2. CASE ~\E j \in Int : At(NULL, j, k)
      <4>1. k # chain[n] /\ ~\E j \in (n + 1)..Len(chain) : chain[j] = k
        <5>1. \A j \in (n + 1)..Len(chain) : j \in Int /\ j \in 1..Len(chain)
          BY <1>2
        <5> QED
          BY <1>2, <3>2, <5>1, NullLives
      <4> QED
        BY <1>1, <1>4, <4>1
    <3> QED
      BY <3>1, <3>2
  <2> QED
    BY <1>1, <2>1 DEF TypeOK
<1>5. state' \in [Coroutines -> States]
  <2>1. PICK S : state' = [k \in Coroutines |-> IF k = chain[n] THEN "finished"
                             ELSE IF k \in S THEN "abandoned" ELSE state[k]]
    <3>1. state' = [k \in Coroutines |-> IF k = chain[n] THEN "finished"
                     ELSE IF k \in {x \in Coroutines : \E j \in (n + 1)..Len(chain) : chain[j] = x}
                     THEN "abandoned" ELSE state[k]]
      BY <1>1
    <3> QED
      BY <3>1
  <2> QED
    BY <2>1 DEF TypeOK, States
<1>6. regs' \in ContextT
  BY <1>1, <1>2 DEF TypeOK
<1>7. TypeOK'
  BY <1>1, <1>3, <1>4, <1>5, <1>6 DEF TypeOK, segVars
<1>8. ContextsClear'
  BY <1>1, <1>2 DEF ContextsClear
<1> QED
  BY <1>7, <1>8

\* A call in progress more, of the coroutine that runs.
LEMMA PushTypes ==
    ASSUME TypeOK, Chains, ContextsClear, Me # NULL, NEW x \in CallT,
           calls' = [calls EXCEPT ![Me] = Append(@, x)],
           x.back # NULL => x.back.off >= -Overhang
    PROVE  /\ calls' \in [Coroutines -> Seq(CallT)]
           /\ \A k \in Coroutines : \A i \in 1..Len(calls'[k]) :
                 calls'[k][i].back # NULL => calls'[k][i].back.off >= -Overhang
<1>1. PICK k : k = Me /\ k \in Coroutines
  BY MeRuns
<1>2. calls \in [Coroutines -> Seq(CallT)]
  BY DEF TypeOK, CallT
<1>3. PICK c, r : c = calls[k] /\ r = Append(c, x)
  OBVIOUS
<1>4. c \in Seq(CallT) /\ Len(c) \in Nat
  BY <1>1, <1>2, <1>3
<1>5. r \in Seq(CallT) /\ Len(r) = Len(c) + 1 /\ r[Len(c) + 1] = x /\ \A i \in 1..Len(c) : r[i] = c[i]
  BY <1>3, <1>4, AppendSeq
<1>6. \A j \in Coroutines : calls'[j] = IF j = k THEN r ELSE calls[j]
  BY <1>1, <1>2, <1>3
<1>7. calls' \in [Coroutines -> Seq(CallT)]
  BY <1>1, <1>2, <1>3, <1>5
<1>8. ASSUME NEW i \in 1..Len(r), r[i].back # NULL PROVE r[i].back.off >= -Overhang
  <2>1. CASE i = Len(c) + 1
    BY <1>5, <1>8, <2>1
  <2>2. CASE i \in 1..Len(c)
    BY <1>1, <1>3, <1>5, <1>8, <2>2 DEF ContextsClear
  <2> QED
    BY <1>4, <1>5, <2>1, <2>2
<1>9. ASSUME NEW j \in Coroutines, NEW i \in 1..Len(calls'[j]), calls'[j][i].back # NULL
      PROVE  calls'[j][i].back.off >= -Overhang
  <2>1. CASE j = k
    BY <1>6, <1>8, <1>9, <2>1
  <2>2. CASE j # k
    BY <1>6, <1>9, <2>2 DEF ContextsClear
  <2> QED
    BY <2>1, <2>2
<1> QED
  BY <1>7, <1>9

LEMMA InPlaceTypes ==
    ASSUME TypeOK, Chains, Contexts, ContextsClear, NEW frame \in Nat, NEW nonsplit \in BOOLEAN,
           CallInPlace(frame, nonsplit)
    PROVE  TypeOK' /\ ContextsClear'
<1>1. /\ Me # NULL /\ wrapped = NULL /\ Fits(frame, nonsplit)
      /\ regs' = [regs EXCEPT !.rsp.off = @ - 8 - frame]
      /\ calls' = [calls EXCEPT ![Me] = Append(@, [frame |-> frame, back |-> NULL])]
      /\ UNCHANGED <<state, frame_ptr, rp, captured, segVars, chain, wrapped>>
  BY DEF CallInPlace, CanCall, PushCall
<1>2. regs \in ContextT /\ Clear(regs)
  BY DEF TypeOK, ContextsClear
<1>3. /\ regs.rsp \in AddrT /\ regs.top \in AddrT
      /\ regs.rsp.seg \in Segments \cup {NULL} /\ regs.rsp.off \in Int /\ regs.top.off \in Int
  BY <1>2, ContextTypes
<1>4. regs' \in ContextT /\ regs'.rsp.off = regs.rsp.off - 8 - frame /\ regs'.top = regs.top
  <2>1. PICK off \in Int : off = regs.rsp.off - 8 - frame
    BY <1>3
  <2>2. regs' = [regs EXCEPT !.rsp = [regs.rsp EXCEPT !.off = off]]
    BY <1>1, <2>1
  <2> QED
    BY <1>2, <1>3, <2>1, <2>2 DEF ContextT, AddrT
<1>5. Clear(regs')
  <2>1. PICK o \in Int, t \in Int : o = regs.rsp.off /\ t = regs.top.off
    BY <1>3
  <2>2. t >= -15
    BY <1>2, <2>1 DEF Clear
  <2>3. o - 8 - frame >= -Overhang
    <3>1. CASE nonsplit
      <4>1. o - 16 - (frame + SyscallSegment) >= t
        BY <1>1, <2>1, <3>1 DEF Fits, Need
      <4> QED
        BY <2>2, <4>1, OverhangIs
    <3>2. CASE ~nonsplit /\ frame < SmallFrame
      <4>1. ~nonsplit /\ (IF frame < SmallFrame THEN 0 ELSE frame) = 0
        BY <3>2
      <4>2. o - 8 - (IF frame < SmallFrame THEN 0 ELSE frame) > t
        BY <1>1, <2>1, <4>1, Zenon DEF Fits
      <4>3. o - 8 - 0 > t
        BY <4>1, <4>2, Zenon
      <4>4. o - 8 > t
        BY <4>3
      <4> QED
        BY <2>2, <3>2, <4>4, OverhangIs
    <3>3. CASE ~nonsplit /\ ~(frame < SmallFrame)
      <4>1. o - 8 - frame > t
        BY <1>1, <2>1, <3>3 DEF Fits
      <4> QED
        BY <2>2, <4>1, OverhangIs
    <3> QED
      BY <3>1, <3>2, <3>3
  <2>4. regs'.rsp.off = o - 8 - frame /\ regs'.top.off = t
    BY <1>4, <2>1
  <2> QED
    BY <2>2, <2>3, <2>4 DEF Clear
<1>6. PICK x \in CallT : x = [frame |-> frame, back |-> NULL] /\ x.back = NULL
  <2>1. PICK x : x = [frame |-> frame, back |-> NULL]
    OBVIOUS
  <2>2. x \in CallT /\ x.back = NULL
    BY <2>1 DEF CallT
  <2> QED
    BY <2>1, <2>2
<1>7. /\ calls' \in [Coroutines -> Seq(CallT)]
      /\ \A k \in Coroutines : \A i \in 1..Len(calls'[k]) :
            calls'[k][i].back # NULL => calls'[k][i].back.off >= -Overhang
  BY <1>1, <1>6, PushTypes
<1>8. TypeOK'
  BY <1>1, <1>4, <1>7 DEF TypeOK, CallT, segVars
<1>9. ContextsClear'
  BY <1>1, <1>5, <1>7 DEF ContextsClear
<1> QED
  BY <1>8, <1>9

LEMMA MoreStackTypes ==
    ASSUME TypeOK, Chains, ContextsClear, Me # NULL, wrapped = NULL,
           NEW frame \in Nat, NEW need \in Nat, frame <= need, NEW params \in Nat,
           NEW n \in Segments, Enter(frame, params, n),
           size'[n] \in Nat, size'[n] >= need + params,
           size' \in [Segments -> Nat \cup {NULL}],
           prev' \in [Segments -> Segments \cup {NULL}],
           next' \in [Segments -> Segments \cup {NULL}]
    PROVE  TypeOK' /\ ContextsClear' /\ regs'.rsp.seg = n /\ regs'.top.seg = n
<1>1. PICK room \in Int : room = size'[n] - params /\ room >= need
  OBVIOUS
<1>2. PICK stack \in Int : stack = Aligned(room) /\ room - 15 <= stack /\ stack <= room
  BY <1>1, AlignedIs
<1>3. /\ frame_ptr' = [frame_ptr EXCEPT ![Me] = n]
      /\ regs' = [rsp |-> Addr(n, stack - 8 - frame), top |-> Addr(n, stack - room)]
      /\ calls' = [calls EXCEPT ![Me] = Append(@, [frame |-> frame, back |-> regs.rsp])]
      /\ UNCHANGED <<state, rp, captured, chain, wrapped>>
  BY <1>1, <1>2 DEF Enter, PushCall
<1>4. regs' \in ContextT
  <2>1. stack - 8 - frame \in Int /\ stack - room \in Int /\ n \in Segments \cup {NULL}
    OBVIOUS
  <2> QED
    BY <1>3, <2>1, Contexted
<1>5. /\ regs'.rsp.off = stack - 8 - frame /\ regs'.top.off = stack - room
      /\ regs'.rsp.seg = n /\ regs'.top.seg = n
  BY <1>3 DEF Addr
<1>6. Clear(regs')
  BY <1>1, <1>2, <1>5, OverhangIs DEF Clear
<1>7. PICK x \in CallT : x = [frame |-> frame, back |-> regs.rsp] /\ x.back.off >= -Overhang
  <2>1. PICK x : x = [frame |-> frame, back |-> regs.rsp]
    OBVIOUS
  <2>2. regs.rsp \in AddrT
    BY ContextTypes DEF TypeOK
  <2>3. x \in CallT
    BY <2>1, <2>2 DEF CallT
  <2>4. x.back.off >= -Overhang
    BY <2>1 DEF ContextsClear, Clear
  <2> QED
    BY <2>1, <2>3, <2>4
<1>8. /\ calls' \in [Coroutines -> Seq(CallT)]
      /\ \A k \in Coroutines : \A i \in 1..Len(calls'[k]) :
            calls'[k][i].back # NULL => calls'[k][i].back.off >= -Overhang
  BY <1>3, <1>7, PushTypes
<1>9. frame_ptr' \in [Coroutines -> Segments \cup {NULL}]
      /\ \A k \in Coroutines : state'[k] # "none" => frame_ptr'[k] # NULL
  <2>1. /\ frame_ptr \in [Coroutines -> Segments \cup {NULL}]
        /\ \A k \in Coroutines : state[k] # "none" => frame_ptr[k] # NULL
    BY DEF TypeOK
  <2> QED
    BY <1>3, <2>1
<1>10. TypeOK'
  BY <1>3, <1>4, <1>8, <1>9 DEF TypeOK, CallT
<1>11. ContextsClear'
  BY <1>3, <1>6, <1>8 DEF ContextsClear
<1> QED
  BY <1>5, <1>10, <1>11

LEMMA ReturnTypes ==
    ASSUME TypeOK, Chains, ContextsClear, CallReturns, LastCall \in CallT,
           LastCall.back # NULL =>
              prev[frame_ptr[Me]] \in Segments /\ LastCall.back.seg = prev[frame_ptr[Me]]
    PROVE  TypeOK' /\ ContextsClear'
<1>1. /\ Me # NULL /\ wrapped = NULL /\ calls[Me] # <<>>
      /\ calls' = [calls EXCEPT ![Me] = SubSeq(@, 1, Len(@) - 1)]
      /\ UNCHANGED <<state, rp, captured, segVars, chain, wrapped>>
  BY DEF CallReturns
<1>2. PICK k : k = Me /\ k \in Coroutines
  BY <1>1, MeRuns
<1>3. calls \in [Coroutines -> Seq(CallT)]
  BY DEF TypeOK, CallT
<1>4. PICK c, r : c = calls[k] /\ r = SubSeq(c, 1, Len(c) - 1)
  OBVIOUS
<1>5. c \in Seq(CallT) /\ c # <<>>
  BY <1>1, <1>2, <1>3, <1>4
<1>6. r \in Seq(CallT) /\ Len(c) \in Nat \ {0} /\ Len(r) = Len(c) - 1 /\ \A i \in 1..Len(r) : r[i] = c[i]
  BY <1>4, <1>5, FrontSeq
<1>7. \A j \in Coroutines : calls'[j] = IF j = k THEN r ELSE calls[j]
  BY <1>1, <1>2, <1>3, <1>4
<1>8. calls' \in [Coroutines -> Seq(CallT)]
  BY <1>1, <1>2, <1>3, <1>4, <1>6
<1>9. ASSUME NEW j \in Coroutines, NEW i \in 1..Len(calls'[j]), calls'[j][i].back # NULL
      PROVE  calls'[j][i].back.off >= -Overhang
  <2>1. CASE j = k
    <3>1. i \in 1..Len(r) /\ i \in 1..Len(c)
      BY <1>6, <1>7, <1>9, <2>1
    <3>2. calls'[j][i] = c[i]
      BY <1>6, <1>7, <2>1, <3>1
    <3>3. c[i].back # NULL => c[i].back.off >= -Overhang
      BY <1>2, <1>4, <3>1 DEF ContextsClear
    <3> QED
      BY <1>9, <3>2, <3>3
  <2>2. CASE j # k
    BY <1>7, <1>9, <2>2 DEF ContextsClear
  <2> QED
    BY <2>1, <2>2
<1>10. regs \in ContextT /\ Clear(regs) /\ regs.rsp \in AddrT /\ regs.top \in AddrT
       /\ regs.rsp.off \in Int /\ regs.rsp.seg \in Segments \cup {NULL} /\ LastCall.frame \in Nat
  BY ContextTypes DEF TypeOK, ContextsClear, CallT
<1>11. regs' \in ContextT /\ Clear(regs')
       /\ frame_ptr' \in [Coroutines -> Segments \cup {NULL}]
       /\ \A j \in Coroutines : state'[j] # "none" => frame_ptr'[j] # NULL
  <2>1. /\ frame_ptr \in [Coroutines -> Segments \cup {NULL}]
        /\ \A j \in Coroutines : state[j] # "none" => frame_ptr[j] # NULL
    BY DEF TypeOK
  <2>2. CASE LastCall.back = NULL
    <3>1. regs' = [regs EXCEPT !.rsp.off = @ + LastCall.frame + 8] /\ frame_ptr' = frame_ptr
      BY <2>2 DEF CallReturns
    <3>2. regs' \in ContextT /\ regs'.rsp.off = regs.rsp.off + LastCall.frame + 8 /\ regs'.top = regs.top
      BY <1>10, <3>1 DEF ContextT, AddrT
    <3>3. Clear(regs')
      <4>1. PICK o \in Int, g \in Nat : /\ o = regs.rsp.off /\ g = LastCall.frame
                                      /\ o >= -Overhang
        BY <1>10 DEF Clear
      <4>2. o + g + 8 >= -Overhang
        BY <4>1, OverhangIs
      <4> QED
        BY <1>10, <3>2, <4>1, <4>2 DEF Clear
    <3> QED
      BY <1>1, <2>1, <3>1, <3>2, <3>3
  <2>3. CASE LastCall.back # NULL
    <3>1. regs' = [rsp |-> LastCall.back, top |-> ReleasedTop] /\ frame_ptr' = [frame_ptr EXCEPT ![k] = prev[@]]
      BY <1>2, <2>3 DEF CallReturns
    <3>2. ReleasedTop \in AddrT /\ ReleasedTop.off = 0
      BY <2>3 DEF ReleasedTop, Addr, AddrT
    <3>3. LastCall.back \in AddrT
      BY <2>3 DEF CallT
    <3>4. LastCall.back.off >= -Overhang
      <4>1. LastCall = c[Len(c)] /\ Len(c) \in 1..Len(c)
        BY <1>2, <1>4, <1>6 DEF LastCall
      <4> QED
        BY <1>2, <1>4, <2>3, <4>1 DEF ContextsClear
    <3>5. regs' \in ContextT /\ Clear(regs')
      BY <3>1, <3>2, <3>3, <3>4, OverhangIs DEF ContextT, Clear
    <3> QED
      BY <1>1, <1>2, <2>1, <2>3, <3>1, <3>5
  <2> QED
    BY <2>2, <2>3
<1>12. TypeOK'
  BY <1>1, <1>8, <1>11 DEF TypeOK, CallT, segVars
<1>13. ContextsClear'
  BY <1>1, <1>9, <1>11 DEF ContextsClear
<1> QED
  BY <1>12, <1>13

----------------------------------------------------------------------------
(* The invariant.                                                          *)

Inv == TypeOK /\ SegmentsInv /\ Chains /\ Contexts /\ ContextsClear

\* A switch keeps the coroutines that exist.
LEMMA SwitchKeepsExisting ==
    ASSUME TypeOK, Chains,
           \/ \E k \in Coroutines : Resume(k)
           \/ \E n \in DOMAIN chain : Yield(n) \/ Exit(n)
    PROVE  Existing' = Existing /\ UNCHANGED <<segVars, frame_ptr, calls>>
<1>1. DOMAIN state = Coroutines
  BY DEF TypeOK
<1>2. ASSUME NEW k \in Coroutines, Resume(k)
      PROVE  Existing' = Existing /\ UNCHANGED <<segVars, frame_ptr, calls>>
  BY <1>1, <1>2 DEF Resume, Existing
<1>3. ASSUME NEW n \in DOMAIN chain, Yield(n)
      PROVE  Existing' = Existing /\ UNCHANGED <<segVars, frame_ptr, calls>>
  <2>1. chain' = SubSeq(chain, 1, n - 1) /\ state' = [state EXCEPT ![chain[n]] = "paused"]
        /\ UNCHANGED <<segVars, frame_ptr, calls>>
    BY <1>3 DEF Yield
  <2>2. chain[n] \in Coroutines /\ n \in Int /\ At(NULL, n, chain[n])
    BY <2>1, CutAt
  <2>3. state[chain[n]] = "running"
    BY <2>2, NullLives DEF Chains
  <2> QED
    BY <1>1, <2>1, <2>2, <2>3 DEF Existing
<1>4. ASSUME NEW n \in DOMAIN chain, Exit(n)
      PROVE  Existing' = Existing /\ UNCHANGED <<segVars, frame_ptr, calls>>
  <2>1. /\ chain' = SubSeq(chain, 1, n - 1) /\ UNCHANGED <<segVars, frame_ptr, calls>>
        /\ state' = [k \in Coroutines |-> IF k = chain[n] THEN "finished"
                      ELSE IF \E j \in (n + 1)..Len(chain) : chain[j] = k
                      THEN "abandoned" ELSE state[k]]
    BY <1>4 DEF Exit
  <2>2. /\ n \in Int /\ 1 <= n /\ Len(chain) \in Nat /\ chain[n] \in Coroutines
        /\ At(NULL, n, chain[n])
    BY <2>1, CutAt
  <2>3. \A k \in Coroutines : (\E j \in (n + 1)..Len(chain) : chain[j] = k) => state[k] = "running"
    <3> SUFFICES ASSUME NEW k \in Coroutines, NEW j \in (n + 1)..Len(chain), chain[j] = k
                 PROVE  state[k] = "running"
      OBVIOUS
    <3>1. j \in Int /\ j \in 1..Len(chain)
      BY <2>2
    <3>2. At(NULL, j, k)
      BY <3>1, NullLives
    <3> QED
      BY <3>1, <3>2, NullLives DEF Chains
  <2>4. state[chain[n]] = "running"
    BY <2>2, NullLives DEF Chains
  <2>5. ASSUME NEW k \in Coroutines PROVE state'[k] = "none" <=> state[k] = "none"
    <3>1. CASE k = chain[n]
      BY <2>1, <2>4, <3>1
    <3>2. CASE k # chain[n] /\ \E j \in (n + 1)..Len(chain) : chain[j] = k
      BY <2>1, <2>3, <3>2
    <3>3. CASE k # chain[n] /\ ~\E j \in (n + 1)..Len(chain) : chain[j] = k
      BY <2>1, <3>3
    <3> QED
      BY <3>1, <3>2, <3>3
  <2> QED
    BY <2>1, <2>5 DEF Existing
<1> QED
  BY <1>2, <1>3, <1>4

LEMMA CallStep ==
    ASSUME Inv, NEW frame \in Nat, NEW nonsplit \in BOOLEAN, NEW params \in Nat,
           CallInPlace(frame, nonsplit) \/ CallMoreStack(frame, nonsplit, params)
    PROVE  Inv'
<1> USE DEF Inv
<1>1. Me # NULL /\ wrapped = NULL
  BY DEF CallInPlace, CallMoreStack, CanCall
<1>2. regs.rsp.seg = frame_ptr[Me] /\ regs.top.seg = frame_ptr[Me]
  BY <1>1 DEF Contexts, Current, ContextOf
<1>3. CASE CallInPlace(frame, nonsplit)
  <2>1. SegmentsInv'
    BY <1>3, InPlaceSegments
  <2>2. TypeOK' /\ ContextsClear'
    BY <1>3, InPlaceTypes
  <2>3. /\ UNCHANGED <<state, captured, chain, rp, wrapped, frame_ptr>>
        /\ regs' = [regs EXCEPT !.rsp.off = @ - 8 - frame]
    BY <1>3 DEF CallInPlace
  <2>4. regs'.rsp.seg = regs.rsp.seg /\ regs'.top.seg = regs.top.seg
    <3>1. regs \in ContextT
      BY DEF TypeOK
    <3> QED
      BY <2>3, <3>1 DEF ContextT, AddrT
  <2>5. Chains' /\ Contexts'
    BY <1>1, <1>2, <2>3, <2>4, CallContexts
  <2> QED
    BY <2>1, <2>2, <2>5
<1>4. CASE CallMoreStack(frame, nonsplit, params)
  <2>. PICK need \in Nat : need = Need(frame, nonsplit) /\ frame <= need
    BY DEF Need
  <2>1. PICK n \in Segments : /\ Enter(frame, params, n)
                              /\ size'[n] \in Nat /\ size'[n] >= need + params
                              /\ size' \in [Segments -> Nat \cup {NULL}]
                              /\ prev' \in [Segments -> Segments \cup {NULL}]
                              /\ next' \in [Segments -> Segments \cup {NULL}]
                              /\ SegmentsInv'
    BY <1>2, <1>4, MoreStackEnters
  <2>2. TypeOK' /\ ContextsClear' /\ regs'.rsp.seg = n /\ regs'.top.seg = n
    BY <1>1, <2>1, MoreStackTypes
  <2>3. UNCHANGED <<state, captured, chain, rp, wrapped>> /\ frame_ptr' = [frame_ptr EXCEPT ![Me] = n]
    BY <2>1 DEF Enter
  <2>4. frame_ptr'[Me] = n /\ \A k \in Coroutines : k # Me => frame_ptr'[k] = frame_ptr[k]
    <3>1. Me \in Coroutines /\ DOMAIN frame_ptr = Coroutines
      BY <1>1, MeRuns DEF TypeOK
    <3> QED
      BY <2>3, <3>1
  <2>5. Chains' /\ Contexts'
    BY <1>1, <2>2, <2>3, <2>4, CallContexts
  <2> QED
    BY <2>1, <2>2, <2>5
<1> QED
  BY <1>3, <1>4

LEMMA ReturnStep ==
    ASSUME Inv, CallReturns
    PROVE  Inv'
<1> USE DEF Inv
<1>1. /\ Me # NULL /\ wrapped = NULL /\ UNCHANGED <<state, captured, chain, rp, wrapped>>
  BY DEF CallReturns
<1>2. regs.rsp.seg = frame_ptr[Me] /\ regs.top.seg = frame_ptr[Me]
  BY <1>1 DEF Contexts, Current, ContextOf
<1>3. /\ SegmentsInv' /\ LastCall \in CallT
      /\ LastCall.back # NULL =>
            prev[frame_ptr[Me]] \in Segments /\ LastCall.back.seg = prev[frame_ptr[Me]]
  BY ReturnSegments
<1>4. TypeOK' /\ ContextsClear'
  BY <1>3, ReturnTypes
<1>5. Me \in Coroutines /\ DOMAIN frame_ptr = Coroutines
  BY <1>1, MeRuns DEF TypeOK
<1>6. /\ regs'.rsp.seg = frame_ptr'[Me] /\ regs'.top.seg = frame_ptr'[Me]
      /\ \A k \in Coroutines : k # Me => frame_ptr'[k] = frame_ptr[k]
  <2>1. CASE LastCall.back = NULL
    <3>1. regs' = [regs EXCEPT !.rsp.off = @ + LastCall.frame + 8] /\ frame_ptr' = frame_ptr
      BY <2>1 DEF CallReturns
    <3>2. regs \in ContextT
      BY DEF TypeOK
    <3>3. regs'.rsp.seg = regs.rsp.seg /\ regs'.top.seg = regs.top.seg
      BY <3>1, <3>2 DEF ContextT, AddrT
    <3> QED
      BY <1>2, <3>1, <3>3
  <2>2. CASE LastCall.back # NULL
    <3>1. regs' = [rsp |-> LastCall.back, top |-> ReleasedTop] /\ frame_ptr' = [frame_ptr EXCEPT ![Me] = prev[@]]
      BY <2>2 DEF CallReturns
    <3>2. regs'.rsp.seg = prev[frame_ptr[Me]] /\ regs'.top.seg = prev[frame_ptr[Me]]
      BY <1>3, <2>2, <3>1 DEF ReleasedTop, Addr
    <3> QED
      BY <1>5, <3>1, <3>2
  <2> QED
    BY <2>1, <2>2
<1>7. Chains' /\ Contexts'
  BY <1>1, <1>6, CallContexts
<1> QED
  BY <1>3, <1>4, <1>7

LEMMA WrapperStep ==
    ASSUME Inv, EnterWrapper \/ LeaveWrapper
    PROVE  Inv'
<1>1. UNCHANGED <<coVars, segVars, chain>>
  BY DEF EnterWrapper, LeaveWrapper
<1>2. UNCHANGED <<state, frame_ptr, rp, captured, calls, size, prev, next, chain>>
  BY <1>1 DEF coVars, segVars
<1>3. /\ regs \in ContextT /\ Clear(regs) /\ wrapped \in ContextT \cup {NULL}
      /\ wrapped # NULL => Clear(wrapped)
  BY DEF Inv, TypeOK, ContextsClear
<1>4. NULL \notin ContextT
  OBVIOUS
<1>5. /\ regs' \in ContextT /\ Clear(regs') /\ wrapped' \in ContextT \cup {NULL}
      /\ wrapped' # NULL => Clear(wrapped')
      /\ (IF wrapped' = NULL THEN regs' ELSE wrapped') = Current
  <2>1. CASE EnterWrapper
    BY <1>3, <1>4, <2>1, SystemIs DEF EnterWrapper, Current
  <2>2. CASE LeaveWrapper
    BY <1>3, <1>4, <2>2 DEF LeaveWrapper, Current
  <2> QED
    BY <2>1, <2>2
<1>6. TypeOK'
  BY <1>2, <1>5 DEF Inv, TypeOK
<1>7. SegmentsInv'
  <2>1. Existing' = Existing
    BY <1>2 DEF Existing
  <2> QED
    BY <1>1, <1>2, <2>1, SegmentsKept DEF Inv
<1>8. Chains' /\ Live' = Live /\ Me' = Me
      /\ \A h, i, x : (At(h, i, x)' <=> At(h, i, x)) /\ (Last(h, x)' <=> Last(h, x))
  BY <1>2, ChainsKept DEF Inv
<1>9. Contexts'
  <2>1. ContextOf(Current, Me)'
    <3>1. Current' = Current
      BY <1>5 DEF Current
    <3> QED
      BY <1>2, <1>8, <3>1 DEF Inv, Contexts, ContextOf
  <2>2. \A k, j : ContextOf(rp[k], j)' <=> ContextOf(rp[k], j)
    BY <1>2 DEF ContextOf
  <2>3. /\ \A h \in Live', i \in Int, x, y \in Coroutines :
              At(h, i, x)' /\ At(h, i + 1, y)' => ContextOf(rp[y], x)'
        /\ \A y \in Coroutines : At(NULL, 1, y)' => ContextOf(rp[y], NULL)'
        /\ \A h \in Live', x \in Coroutines : h # NULL /\ Last(h, x)' => ContextOf(rp[h], x)'
    BY <1>8, <2>2 DEF Inv, Contexts
  <2> QED
    BY <2>1, <2>3 DEF Contexts
<1>10. ContextsClear'
  BY <1>2, <1>5 DEF Inv, ContextsClear
<1> QED
  BY <1>6, <1>7, <1>8, <1>9, <1>10 DEF Inv

LEMMA Invariance == Spec => []Inv
<1>1. Init => Inv
  BY SegmentsInit, ChainsInit, TypesInit DEF Inv
<1>2. Inv /\ [Next]_vars => Inv'
  <2> SUFFICES ASSUME Inv, [Next]_vars PROVE Inv'
    OBVIOUS
  <2>1. ASSUME NEW k \in Coroutines, NEW s \in Segments, New(k, s) PROVE Inv'
    BY <2>1, NewSegments, NewChains, NewTypes DEF Inv
  <2>2. ASSUME NEW k \in Coroutines, Delete(k) PROVE Inv'
    BY <2>2, DeleteSegments, DeleteChains, DeleteTypes DEF Inv
  <2>3. ASSUME NEW k \in Coroutines, Resume(k) PROVE Inv'
    BY <2>3, SwitchKeepsExisting, SegmentsKept, ResumeChains, ResumeTypes DEF Inv
  <2>4. ASSUME NEW n \in DOMAIN chain, Yield(n) PROVE Inv'
    BY <2>4, SwitchKeepsExisting, SegmentsKept, YieldChains, YieldTypes DEF Inv
  <2>5. ASSUME NEW n \in DOMAIN chain, Exit(n) PROVE Inv'
    BY <2>5, SwitchKeepsExisting, SegmentsKept, ExitChains, ExitTypes DEF Inv
  <2>6. CASE Call
    <3>1. PICK frame \in Frames, params \in Params, nonsplit \in BOOLEAN :
            CallInPlace(frame, nonsplit) \/ CallMoreStack(frame, nonsplit, params)
      BY <2>6 DEF Call
    <3>2. frame \in Nat /\ params \in Nat
      OBVIOUS
    <3> QED
      BY <3>1, <3>2, CallStep
  <2>7. CASE CallReturns
    BY <2>7, ReturnStep
  <2>8. CASE EnterWrapper \/ LeaveWrapper
    BY <2>8, WrapperStep
  <2>9. CASE UNCHANGED vars
    <3>1. /\ UNCHANGED <<state, frame_ptr, rp, captured, calls, size, prev, next, chain, regs, wrapped>>
      BY <2>9 DEF vars, coVars, segVars
    <3>2. Existing' = Existing /\ UNCHANGED <<segVars, frame_ptr, calls>>
      BY <3>1 DEF Existing, segVars
    <3>3. TypeOK' /\ ContextsClear'
      BY <3>1 DEF Inv, TypeOK, ContextsClear
    <3>4. SegmentsInv'
      BY <3>2, SegmentsKept DEF Inv
    <3>5. Chains' /\ Live' = Live /\ Me' = Me
          /\ \A h, i, x : (At(h, i, x)' <=> At(h, i, x)) /\ (Last(h, x)' <=> Last(h, x))
      BY <3>1, ChainsKept DEF Inv
    <3>6. Contexts'
      BY <3>1, <3>5 DEF Inv, Contexts, ContextOf, Current
    <3> QED
      BY <3>3, <3>4, <3>5, <3>6 DEF Inv
  <2> QED
    BY <2>1, <2>2, <2>3, <2>4, <2>5, <2>6, <2>7, <2>8, <2>9 DEF Next
<1> QED
  BY <1>1, <1>2, PTL DEF Spec

----------------------------------------------------------------------------
(* The properties.                                                         *)

\* Segments, contexts and calls stay what the code takes them for.
THEOREM TypeCorrect == Spec => []TypeOK
<1>1. Inv => TypeOK
  BY DEF Inv
<1> QED
  BY <1>1, Invariance, PTL

\* For any coroutines, calls and switches, a prologue compares rsp with the
\* stack top of the segment that frame_ptr names (the comparison with
\* %fs:0x70 and seff_mem_release_frame's assignment to it).
THEOREM StackTopFollows == Spec => []StackTopIsOfSegmentInUse
<1>1. Inv => StackTopIsOfSegmentInUse
  <2> SUFFICES ASSUME Inv PROVE StackTopIsOfSegmentInUse
    OBVIOUS
  <2> USE DEF Inv
  <2>1. ASSUME NEW h \in Live, NEW i \in DOMAIN ChainOf(h), i > 1
        PROVE  ContextOf(rp[ChainOf(h)[i]], ChainOf(h)[i - 1])
    <3>1. PICK c : c = ChainOf(h)
      OBVIOUS
    <3>2. c \in Seq(Coroutines)
      BY <3>1, ChainTypes
    <3>3. i \in 1..Len(c) /\ i \in Int /\ i - 1 \in 1..Len(c) /\ i - 1 \in Int /\ (i - 1) + 1 = i
      BY <2>1, <3>1, <3>2
    <3>4. c[i] \in Coroutines /\ c[i - 1] \in Coroutines
      BY <3>2, <3>3
    <3>5. At(h, i - 1, c[i - 1]) /\ At(h, (i - 1) + 1, c[i])
      BY <3>1, <3>3 DEF At
    <3> QED
      BY <3>1, <3>3, <3>4, <3>5 DEF Contexts
  <2>2. chain # <<>> => ContextOf(rp[chain[1]], NULL)
    <3> SUFFICES ASSUME chain # <<>> PROVE ContextOf(rp[chain[1]], NULL)
      OBVIOUS
    <3>1. chain \in Seq(Coroutines)
      BY DEF TypeOK
    <3>2. 1 \in 1..Len(chain) /\ chain[1] \in Coroutines
      BY <3>1
    <3> QED
      BY <3>2, NullLives DEF Contexts
  <2>3. ASSUME NEW k \in Coroutines, state[k] = "paused"
        PROVE  ContextOf(rp[k], captured[k][Len(captured[k])])
    <3>1. k \in Live /\ k # NULL /\ At(k, 1, k) /\ ChainOf(k) = captured[k]
      BY <2>3, NullLives DEF Chains, ChainOf
    <3>2. PICK c : c = captured[k]
      OBVIOUS
    <3>3. c \in Seq(Coroutines) /\ 1 \in 1..Len(c)
      BY <3>1, <3>2, NullLives DEF TypeOK
    <3>4. Len(c) \in 1..Len(c) /\ Len(c) # 0 /\ c[Len(c)] \in Coroutines
      BY <3>3
    <3>5. Last(k, c[Len(c)])
      BY <3>1, <3>2, <3>4 DEF Last, At
    <3> QED
      BY <3>1, <3>2, <3>4, <3>5 DEF Contexts
  <2>4. \A i \in DOMAIN chain : i > 1 => ContextOf(rp[chain[i]], chain[i - 1])
    BY <2>1, NullLives DEF ChainOf
  <2>5. ASSUME NEW k \in Coroutines, state[k] = "paused"
        PROVE  \A i \in DOMAIN captured[k] : i > 1 => ContextOf(rp[captured[k][i]], captured[k][i - 1])
    BY <2>1, <2>5, NullLives DEF ChainOf
  <2>6. ContextOf(IF wrapped = NULL THEN regs ELSE wrapped, Me)
    BY DEF Contexts, Current
  <2> QED
    BY <2>2, <2>3, <2>4, <2>5, <2>6 DEF StackTopIsOfSegmentInUse
<1> QED
  BY <1>1, Invariance, PTL

LEMMA ReachIs ==
    ASSUME Inv, NEW depth \in Int, Overhang <= depth
    PROVE  Reaches(depth)
<1> SUFFICES ASSUME NEW c \in LiveContexts PROVE c.rsp.off >= -depth
  BY DEF Reaches
<1>1. c \in ContextT /\ Clear(c)
  BY DEF Inv, TypeOK, ContextsClear, LiveContexts
<1>2. PICK o \in Int : o = c.rsp.off /\ o >= -Overhang
  BY <1>1, ContextTypes DEF Clear
<1>3. o >= -depth
  BY <1>2, OverhangIs
<1> QED
  BY <1>2, <1>3

\* Whatever is called with whatever parameters, whichever segments are reused
\* and wherever coroutines switch, no frame reaches more than Overhang bytes
\* below the data of its segment: alignment costs 15 once, not once for each
\* call (seff_mem_allocate_frame's "in theory this could cause problems").
THEOREM OverhangIsAll == Spec => []FramesFit
<1>1. Inv => FramesFit
  BY ReachIs, OverhangIs DEF FramesFit
<1> QED
  BY <1>1, Invariance, PTL

\* What the padding of a segment's header must be for the red zone of every
\* function to stay off the header's fields: Overhang and the red zone
\* together.  The padding of the code (decls/seff_types.py) is the red
\* zone alone, so this states what is missing.
THEOREM PaddingNeeded ==
    ASSUME Padding >= Overhang + RedZone PROVE Spec => []RedZoneFits
<1>1. Overhang <= Padding - RedZone /\ Padding - RedZone \in Int
  BY OverhangIs
<1>2. Inv => RedZoneFits
  BY <1>1, ReachIs DEF RedZoneFits
<1> QED
  BY <1>2, Invariance, PTL

\* However a coroutine's stack grew, shrank and grew, seff_coroutine_release's
\* two loops find its segments, all of them and no other's.
THEOREM ReleaseIsExact == Spec => []SegmentsAccountedFor
<1>1. Inv => SegmentsAccountedFor
  <2> SUFFICES ASSUME Inv PROVE SegmentsAccountedFor
    OBVIOUS
  <2> USE DEF Inv
  <2>1. PICK L, m, d : Lists(L, m) /\ Depths(L, m, d)
    BY DEF SegmentsInv
  <2>2. \A k \in Existing : Released(k) = {L[k][i] : i \in 1..m[k]}
    BY <2>1, ReleasedIs
  <2>3. \A k \in Existing, i \in Int : i \in 1..m[k] => L[k][i] \in Segments /\ size[L[k][i]] # NULL
    <3> SUFFICES ASSUME NEW k \in Existing, NEW i \in Int, i \in 1..m[k]
                 PROVE  L[k][i] \in Segments /\ size[L[k][i]] # NULL
      OBVIOUS
    <3>1. L[k][i] # NULL /\ size[L[k][i]] # NULL
      BY <2>1 DEF Lists
    <3>2. L[k] \in [Int -> Segments \cup {NULL}]
      BY <2>1 DEF Lists, Existing
    <3> QED
      BY <3>1, <3>2
  <2>4. \A k \in Existing : \A i \in 1..m[k] : i \in Int
    BY <2>1 DEF Lists, Existing
  <2>5. \A s \in Segments : size[s] # NULL => \E k \in Existing, i \in Int : i \in 1..m[k] /\ s = L[k][i]
    BY <2>1 DEF Lists
  <2>6. {s \in Segments : size[s] # NULL} = UNION {Released(k) : k \in Existing}
    <3>1. ASSUME NEW s \in Segments, size[s] # NULL PROVE \E k \in Existing : s \in Released(k)
      BY <2>2, <2>5, <3>1
    <3>2. ASSUME NEW k \in Existing, NEW s \in Released(k) PROVE s \in Segments /\ size[s] # NULL
      BY <2>2, <2>3, <2>4, <3>2
    <3> QED
      BY <3>1, <3>2
  <2>7. ASSUME NEW j \in Existing, NEW k \in Existing \ {j} PROVE Released(j) \cap Released(k) = {}
    <3>1. ASSUME NEW s, s \in Released(j), s \in Released(k) PROVE FALSE
      <4>1. PICK h \in 1..m[j] : s = L[j][h]
        BY <2>2, <3>1
      <4>2. PICK i \in 1..m[k] : s = L[k][i]
        BY <2>2, <3>1
      <4>3. h \in Int /\ i \in Int
        BY <2>4
      <4> QED
        BY <2>1, <4>1, <4>2, <4>3 DEF Lists
    <3> QED
      BY <3>1
  <2> QED
    BY <2>6, <2>7 DEF SegmentsAccountedFor
<1> QED
  BY <1>1, Invariance, PTL
==============================================================================
