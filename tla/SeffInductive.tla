--------------------------- MODULE SeffInductive ----------------------------
(***************************************************************************)
(* The inductive invariant of module Seff.                                 *)
(*                                                                         *)
(* The fields of the blocks are those of a set of disjoint chains, one per *)
(* thread and one per coroutine that may be resumed.  The chains are not   *)
(* written down anywhere in the library; they exist as long as there is a  *)
(* way to give each coroutine the chain it is on (owner: the thread or the *)
(* resumable coroutine, NULL for one that is on none, being finished or    *)
(* abandoned by a seff_throw past it) and its depth on that chain, such    *)
(* that parent_coroutine and the resume point lead one step down.          *)
(***************************************************************************)
EXTENDS Seff

Owners == Coroutines \cup Threads \cup {NULL}

\* Only paused, allocated coroutines are on a chain, and a coroutine is at
\* the bottom of its own exactly when it may be resumed.
Attached(owner) ==
    /\ \A k \in Coroutines :
          owner[k] # NULL => k \in live /\ state[k] = "PAUSED"
    /\ \A k \in Coroutines : owner[k] \in Coroutines => owner[k] \in resumable
    /\ \A k \in Coroutines : k \in resumable <=> owner[k] = k

\* A chain does not fork.
Linear(owner, depth) ==
    \A j, k \in Coroutines :
        owner[j] = owner[k] /\ owner[k] # NULL /\ depth[j] = depth[k] => j = k

\* Where k leads when it is yielded to or exited: to the thread's own stack...
OnThread(owner, k) ==
    parent[k] = NULL /\ rp[k].cont = owner[k] /\ rp[k].top = NULL

\* ...or to the next coroutine of the chain.
OnParent(owner, depth, k) ==
    /\ parent[k] \in Coroutines
    /\ owner[parent[k]] = owner[k]
    /\ depth[k] = depth[parent[k]] + 1
    /\ rp[k].cont = parent[k]
    /\ rp[k].top = parent[k]

Linked(owner, depth) ==
    \A k \in Coroutines :
        /\ owner[k] \in Threads =>
              IF depth[k] = 0 THEN OnThread(owner, k)
                              ELSE OnParent(owner, depth, k)
        /\ owner[k] \in Coroutines =>
              IF depth[k] = 0 THEN owner[k] = k ELSE OnParent(owner, depth, k)

\* c is the innermost coroutine of the chain of o.
Innermost(owner, depth, o, c) ==
    /\ owner[c] = o
    /\ \A k \in Coroutines : owner[k] = o => depth[k] <= depth[c]

\* A thread executes the innermost coroutine of its chain.
ThreadTops(owner, depth) ==
    \A t \in Threads :
        \/ /\ current[t] = NULL
           /\ stackTop[t] = NULL
           /\ running[t] = t
           /\ \A k \in Coroutines : owner[k] # t
        \/ /\ current[t] \in Coroutines
           /\ stackTop[t] = current[t]
           /\ running[t] = current[t]
           /\ Innermost(owner, depth, t, current[t])

\* Resuming k continues the innermost coroutine of its chain.
SuspendedTops(owner, depth) ==
    \A k \in resumable :
        /\ rp[k].co \in Coroutines
        /\ rp[k].top = rp[k].co
        /\ rp[k].cont = rp[k].co
        /\ Innermost(owner, depth, k, rp[k].co)
        /\ depth[k] = 0

\* seff_locate_handler is on the chain of its thread, and never past the end
\* of it for the effect that every coroutine handles.
Walking(owner) ==
    \A t \in Threads :
        /\ walk[t].co # NULL => owner[walk[t].co] = t
        /\ walk[t].op # "none" /\ walk[t].eff = ReturnEffect =>
              walk[t].co # NULL

Chains(owner, depth) ==
    /\ Attached(owner)
    /\ Linear(owner, depth)
    /\ Linked(owner, depth)
    /\ ThreadTops(owner, depth)
    /\ SuspendedTops(owner, depth)
    /\ Walking(owner)

Inv ==
    /\ TypeOK
    /\ \E owner \in [Coroutines -> Owners], depth \in [Coroutines -> Nat] :
          Chains(owner, depth)
=============================================================================
