------------------------------- MODULE MCSeff -------------------------------
\* Small instances of Seff for TLC.
EXTENDS SeffInductive, SeffRefinement, TLC

CONSTANTS k1, k2, k3, t1, t2

ThreeCoroutines == {k1, k2, k3}
TwoCoroutines   == {k1, k2}
TwoThreads      == {t1, t2}
OneThread       == {t1}

\* The chains of SeffInductive, found by following the pointers.
ChainOf(o) == IF o \in Threads THEN Chain(current[o], NULL)
                               ELSE Chain(rp[o].co, o)

OwnerOf == [k \in Coroutines |->
    LET O == {o \in Threads \cup resumable :
                 \E i \in DOMAIN ChainOf(o) : ChainOf(o)[i] = k}
    IN  IF O = {} THEN NULL ELSE CHOOSE o \in O : TRUE]

DepthOf == [k \in Coroutines |->
    IF OwnerOf[k] = NULL THEN 0
    ELSE (CHOOSE i \in DOMAIN ChainOf(OwnerOf[k]) :
             ChainOf(OwnerOf[k])[i] = k) - 1]

\* The pointers of seff.c form disjoint chains that parent_coroutine and the
\* resume points lead down: the witness of the inductive invariant.
PointersFormChains == Chains(OwnerOf, DepthOf)

Symmetry ==
    Permutations(Coroutines) \cup Permutations(Threads)
=============================================================================
