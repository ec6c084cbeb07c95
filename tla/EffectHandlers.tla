--------------------------- MODULE EffectHandlers ---------------------------
(***************************************************************************)
(* What libseff promises its clients: one-shot, shallow effect handlers.   *)
(*                                                                         *)
(* Every thread runs on top of a stack of handler frames, one per coroutine *)
(* entered and not yet left.  Performing an effect captures the frames from *)
(* the innermost one that handles it up to the top; the captured frames    *)
(* belong to that frame's coroutine, and resuming the coroutine puts them  *)
(* back, on whichever thread asks, under a new set of handled effects.     *)
(* Nothing here knows about registers, parent pointers or resume points:   *)
(* module Seff is the implementation, and SeffRefinement relates the two.  *)
(***************************************************************************)
EXTENDS Naturals, Sequences

CONSTANTS Coroutines, Threads, Effects, ReturnEffect

VARIABLES
    stack,      \* thread -> its handler frames, outermost first
    captured,   \* coroutine -> the frames a resumption of it puts back
    status      \* coroutine -> "none", "alive" or "finished"

vars == <<stack, captured, status>>

Frame == [co : Coroutines, h : SUBSET Effects]

Init ==
    /\ stack    = [t \in Threads |-> <<>>]
    /\ captured = [k \in Coroutines |-> <<>>]
    /\ status   = [k \in Coroutines |-> "none"]

Below(t, i) == [stack EXCEPT ![t] = SubSeq(@, 1, i - 1)]

\* A handler is shallow: the frame that handles the effect is uninstalled.
Segment(t, i) ==
    [SubSeq(stack[t], i, Len(stack[t])) EXCEPT ![1].h = {}]

\* The innermost frame of t that handles e is frame i; every frame handles
\* the 'return' effect.
Handles(t, e, i) ==
    LET I == {j \in DOMAIN stack[t] : e \in stack[t][j].h \cup {ReturnEffect}}
    IN  i \in I /\ \A j \in I : j <= i

Create(k) ==
    /\ status[k] = "none"
    /\ status'   = [status EXCEPT ![k] = "alive"]
    /\ captured' = [captured EXCEPT ![k] = <<[co |-> k, h |-> {}]>>]
    /\ UNCHANGED stack

Resume(t, k, H) ==
    /\ captured[k] # <<>>
    /\ stack' = [stack EXCEPT ![t] = @ \o [captured[k] EXCEPT ![1].h = H]]
    /\ captured' = [captured EXCEPT ![k] = <<>>]
    /\ UNCHANGED status

\* Control leaves frames i..top of t, which the coroutine of frame i keeps.
Capture(t, i) ==
    /\ captured' = [captured EXCEPT ![stack[t][i].co] = Segment(t, i)]
    /\ stack' = Below(t, i)
    /\ UNCHANGED status

\* Control leaves frames i..top of t for good.
Abandon(t, i) ==
    /\ status' = [status EXCEPT ![stack[t][i].co] = "finished"]
    /\ stack'  = Below(t, i)
    /\ UNCHANGED captured

Yield(t)      == stack[t] # <<>> /\ Capture(t, Len(stack[t]))
Perform(t, e) == \E i \in DOMAIN stack[t] : Handles(t, e, i) /\ Capture(t, i)
Return(t)     == stack[t] # <<>> /\ Abandon(t, Len(stack[t]))
Throw(t, e)   == \E i \in DOMAIN stack[t] : Handles(t, e, i) /\ Abandon(t, i)

Discard(k) ==
    /\ captured[k] # <<>> \/ status[k] = "finished"
    /\ status'   = [status EXCEPT ![k] = "none"]
    /\ captured' = [captured EXCEPT ![k] = <<>>]
    /\ UNCHANGED stack

Next ==
    \/ \E k \in Coroutines : Create(k) \/ Discard(k)
    \/ \E t \in Threads :
          \/ Yield(t) \/ Return(t)
          \/ \E e \in Effects \cup {ReturnEffect} : Perform(t, e) \/ Throw(t, e)
          \/ \E k \in Coroutines, H \in SUBSET Effects : Resume(t, k, H)

Spec == Init /\ [][Next]_vars
=============================================================================
