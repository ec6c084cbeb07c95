------------------------------ MODULE MCTKQueue ------------------------------
\* A small instance of TKQueue for TLC.
EXTENDS TKQueue

CONSTANTS owner, thief1

Two == {owner, thief1}
=============================================================================
