------------------------------ MODULE MCScheff ------------------------------
\* Small instances of Scheff for TLC.
EXTENDS Scheff, TLC

Symmetry == Permutations(Tasks)
=============================================================================
