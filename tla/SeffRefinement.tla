--------------------------- MODULE SeffRefinement ---------------------------
(***************************************************************************)
(* Module Seff implements module EffectHandlers: the handler frames of a   *)
(* thread are the coroutines met along parent_coroutine from its current   *)
(* one, and the frames a resumption puts back are those met from the       *)
(* current_coroutine of the resume point down to the coroutine itself.     *)
(***************************************************************************)
EXTENDS Seff, Sequences

\* chain is what is met from `from` along parent_coroutine up to `last`, NULL
\* for everything; outermost first.
IsChain(chain, from, last) ==
    /\ from = NULL => chain = <<>>
    /\ from # NULL =>
          /\ chain # <<>>
          /\ chain[Len(chain)] = from
          /\ chain[1] = last \/ parent[chain[1]] = NULL
          /\ \A i \in 2..Len(chain) :
                chain[i] # last /\ parent[chain[i]] = chain[i - 1]

Lists == UNION {[1..n -> live] : n \in 0..Cardinality(live)}

Chain(from, last) == CHOOSE chain \in Lists : IsChain(chain, from, last)

Frames(chain) == [i \in DOMAIN chain |-> [co |-> chain[i], h |-> handled[chain[i]]]]

HandlerStack == [t \in Threads |-> Frames(Chain(current[t], NULL))]

\* The handlers of a coroutine that has been handed back count for nothing:
\* its next seff_resume installs new ones.
Captured ==
    [k \in Coroutines |->
        IF k \in resumable THEN [Frames(Chain(rp[k].co, k)) EXCEPT ![1].h = {}]
                           ELSE <<>>]

Status ==
    [k \in Coroutines |->
        IF k \notin live THEN "none"
        ELSE IF state[k] = "FINISHED" THEN "finished" ELSE "alive"]

Abstract == INSTANCE EffectHandlers
                WITH stack <- HandlerStack, captured <- Captured,
                     status <- Status

\* Every step of seff.c and seff.S is a step of one-shot, shallow effect
\* handlers, or is invisible to the client: performing an effect captures
\* exactly the frames from the innermost handler up, in order, resuming puts
\* exactly those back, on the resuming thread, and a coroutine that exits
\* loses its own frame and everything above it and nothing else.
ImplementsEffectHandlers == Abstract!Spec
=============================================================================
