------------------------------ MODULE MCAsync ------------------------------
\* Three workers of Async, where a future outlives the task it belongs to.
EXTENDS Async, TLC

Symmetry == Permutations(Blocks)
=============================================================================
