----------------------------- MODULE SkynetTree -----------------------------
(***************************************************************************)
(* The nodes of the tree that every version of the skynet benchmark        *)
(* computes: the root is 1, the children of n are n * branching + i.       *)
(***************************************************************************)
EXTENDS Integers

\* The first node of each layer, as bench counts it: "last_layer *= 10".
FirstNodes(branching, depth) ==
    LET first[i \in 1..depth] == IF i = 1 THEN 1 ELSE branching * first[i - 1]
    IN  first

LastLayerOf(branching, depth) == FirstNodes(branching, depth)[depth]
=============================================================================
