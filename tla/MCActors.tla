------------------------------ MODULE MCActors ------------------------------
\* Small instances of Actors for TLC.
EXTENDS Actors, TLC

CONSTANTS s1, s2, s3

OneSender    == {s1}
TwoSenders   == {s1, s2}
ThreeSenders == {s1, s2, s3}

Symmetry == Permutations(Senders)
=============================================================================
