------------------------------ MODULE SkynetSeq ------------------------------
(***************************************************************************)
(* The skynet benchmark on coroutines alone:                               *)
(* src/bench/skynet_bench/libseff.c and both programs of                   *)
(* src/bench/skynet_syscall_bench.                                         *)
(*                                                                         *)
(* An inner node resumes its children in turn, handling no effect.  A leaf *)
(* performs yield_int, which main handles at the root: the whole chain of  *)
(* coroutines from the root to the leaf is captured, and when main resumes *)
(* the root the leaf goes on.  chain is that chain; each inner node in it  *)
(* is somewhere in its loop "while (finished < 10)".                       *)
(***************************************************************************)
EXTENDS Integers, Sequences, SkynetTree

CONSTANTS
    Branchings,     \* 10 in the code
    Depths          \* layers of the tree

SkynetSeqAssumption ==
    /\ Branchings \subseteq Nat \ {0}
    /\ Depths \subseteq Nat \ {0}

VARIABLES
    shape,      \* branching and depth of this execution
    at,         \* who has control: the last coroutine, in its "loop", about
                \* to "yield" or to "return", or "main"; "done"
    chain,      \* the running or captured coroutines: node number, i,
                \* finished, and the children whose state is FINISHED
    total       \* of main

vars == <<shape, at, chain, total>>

LastLayer == LastLayerOf(shape.branching, shape.depth)
Children == 0..(shape.branching - 1)

TypeOK ==
    /\ shape \in [branching : Branchings, depth : Depths]
    /\ at \in {"loop", "yield", "return", "main", "done"}
    /\ total \in Nat
    /\ \A c \in 1..Len(chain) :
          /\ chain[c].num \in Nat \ {0}
          /\ chain[c].i \in Children
          /\ chain[c].finished \in 0..shape.branching
          /\ chain[c].ended \in SUBSET Children

\* A coroutine that starts; an inner node makes its children first.
Frame(num) == [num |-> num, i |-> 0, finished |-> 0, ended |-> {}]
StartOf(num) == IF num >= LastLayer THEN "yield" ELSE "loop"

Init ==
    /\ shape \in [branching : Branchings, depth : Depths]
    /\ chain = <<Frame(1)>>
    /\ at = StartOf(1)
    /\ total = 0

me == chain[Len(chain)]
Others == SubSeq(chain, 1, Len(chain) - 1)

\* seff_resume(children[i], NULL, 0), of a child that is not FINISHED.  The
\* code also has the case of one that is, which it counts again: the loop
\* never comes to a child twice (SeqTotal would tell, and Counts in
\* Scheff_proofs), so that case is never reached and has no action.
ResumeChild ==
    /\ at = "loop"
    /\ me.i \notin me.ended
    /\ LET child == me.num * shape.branching + me.i
       IN  chain' = Append(chain, Frame(child)) /\ at' = StartOf(child)
    /\ UNCHANGED <<shape, total>>

\* PERFORM(yield_int, num - last_layer): no parent handles it, main does.
Yield ==
    /\ at = "yield"
    /\ at' = "main"
    /\ total' = total + (me.num - LastLayer)
    /\ UNCHANGED <<shape, chain>>

\* seff_resume(root, NULL, HANDLES(yield_int)) goes on with the leaf, which
\* returns.
MainResumes ==
    /\ at = "main"
    /\ at' = "return"
    /\ UNCHANGED <<shape, chain, total>>

\* The last coroutine returns to its parent's seff_resume, whose loop counts
\* it and goes round again until all are counted, or to main.
Return ==
    /\ at = "return"
    /\ IF Len(chain) = 1
       THEN at' = "done" /\ chain' = <<>>
       ELSE LET p    == Others[Len(Others)]
                next == [p EXCEPT !.i = (@ + 1) % shape.branching,
                                  !.finished = @ + 1,
                                  !.ended = @ \cup {p.i}]
            IN  /\ chain' = [Others EXCEPT ![Len(Others)] = next]
                /\ at' = IF next.i = 0 /\ next.finished >= shape.branching
                         THEN "return" ELSE "loop"
    /\ UNCHANGED <<shape, total>>

Done == at = "done" /\ UNCHANGED vars

Next == ResumeChild \/ Yield \/ MainResumes \/ Return \/ Done

Fairness == WF_vars(Next)

Spec == Init /\ [][Next]_vars

----------------------------------------------------------------------------
(* Properties.                                                             *)

\* main's total is the sum of the leaves: captured chains lose no leaf, and
\* no inner node leaves its loop because it counted a child twice.
SeqTotal ==
    at = "done" => 2 * total = LastLayer * (LastLayer - 1)
=============================================================================
