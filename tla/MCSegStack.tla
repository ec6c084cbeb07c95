----------------------------- MODULE MCSegStack -----------------------------
\* A small instance of SegStack for TLC.
EXTENDS SegStack, TLC

Symmetry == Permutations(Segments) \cup Permutations(Coroutines)
=============================================================================
