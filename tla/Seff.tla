-------------------------------- MODULE Seff --------------------------------
(***************************************************************************)
(* The core of libseff: src/src/seff.c, src/src/seff.h and the context     *)
(* switches of src/asm/seff.S, on several threads.                         *)
(*                                                                         *)
(* A machine context (rsp, rbp, ip and the callee-saved registers, which   *)
(* every switch moves together) is represented by the stack it lives on:   *)
(* the coroutine, or the thread for the thread's own stack.  Payloads are  *)
(* left out; a "stack top" is represented the same way, NULL being the 0   *)
(* that %fs:0x70 holds on a thread's own stack.                            *)
(*                                                                         *)
(* resumable is not a field of the library.  It is the permission the      *)
(* client holds: a coroutine may be resumed once after seff_coroutine_new  *)
(* and once each time its seff_resume hands it back with a request, and    *)
(* whoever holds it may delete it instead.  libseff is one-shot and checks *)
(* none of this.                                                           *)
(***************************************************************************)
EXTENDS Naturals, FiniteSets

CONSTANTS
    Coroutines,     \* addresses of seff_coroutine_t blocks
    Threads,        \* pthreads
    Effects,        \* effect ids below MAX_EFFECTS
    Effect0,        \* effect id 0
    ReturnEffect,   \* RETURN_EFFECT_ID
    NULL,
    Junk,           \* a field malloc left uninitialised
    NDEBUG,         \* TRUE in a release build
    MaxMainSp       \* bound: depths of a thread's own stack

ASSUME SeffAssumption ==
    /\ Coroutines \cap Threads = {}
    /\ NULL \notin Coroutines \cup Threads
    /\ Junk \notin Coroutines \cup Threads \cup {NULL}
    /\ Effect0 \in Effects
    /\ ReturnEffect \notin Effects
    /\ NDEBUG \in BOOLEAN
    /\ MaxMainSp \in Nat

VARIABLES
    live,       \* blocks that are allocated
    state,      \* k->state
    parent,     \* k->parent_coroutine
    handled,    \* k->handled_effects
    rp,         \* k->resume_point: [cont, co, top]
    current,    \* thread -> _seff_current_coroutine
    stackTop,   \* thread -> %fs:0x70
    running,    \* thread -> the stack rsp points into
    sysStack,   \* thread -> _seff_system_stack
    mainSp,     \* thread -> rsp of its own stack, as a depth
    walk,       \* thread -> its seff_locate_handler in progress
    defaults,   \* default_handlers
    outcome,    \* the process: "running", "exit" or "crash"
    resumable   \* the client's permissions

blockVars  == <<live, state, parent, handled, rp>>
threadVars == <<current, stackTop, running>>
vars == <<blockVars, threadVars, sysStack, mainSp, walk, defaults, outcome,
          resumable>>

Stacks == Coroutines \cup Threads
Idle   == [op |-> "none", eff |-> ReturnEffect, co |-> NULL]

\* The value of _seff_current_coroutine, and of %fs:0x70, that goes with
\* executing on stack s.
CoroutineOf(s) == IF s \in Coroutines THEN s ELSE NULL

TypeOK ==
    /\ live \in SUBSET Coroutines
    /\ state \in [Coroutines -> {"PAUSED", "FINISHED"}]
    /\ parent \in [Coroutines -> Coroutines \cup {NULL, Junk}]
    /\ handled \in [Coroutines -> SUBSET Effects]
    /\ rp \in [Coroutines -> [cont : Stacks \cup {NULL},
                              co   : Coroutines \cup {NULL},
                              top  : Coroutines \cup {NULL}]]
    /\ current \in [Threads -> Coroutines \cup {NULL}]
    /\ stackTop \in [Threads -> Coroutines \cup {NULL}]
    /\ running \in [Threads -> Stacks]
    /\ sysStack \in [Threads -> [on : Stacks \cup {NULL}, sp : 0..MaxMainSp]]
    /\ mainSp \in [Threads -> 0..MaxMainSp]
    /\ walk \in [Threads -> [op  : {"none", "perform", "throw"},
                             eff : Effects \cup {ReturnEffect},
                             co  : Coroutines \cup {NULL}]]
    /\ defaults \in [Effects -> {"null", "exit", "user"}]
    /\ outcome \in {"running", "exit", "crash"}
    /\ resumable \in SUBSET Coroutines

\* The initialiser of default_handlers names one handler, so C sets entry 0
\* to it and every other entry to a null pointer.
Init ==
    /\ live      = {}
    /\ state     = [k \in Coroutines |-> "FINISHED"]
    /\ parent    = [k \in Coroutines |-> Junk]
    /\ handled   = [k \in Coroutines |-> {}]
    /\ rp        = [k \in Coroutines |->
                       [cont |-> NULL, co |-> NULL, top |-> NULL]]
    /\ current   = [t \in Threads |-> NULL]
    /\ stackTop  = [t \in Threads |-> NULL]
    /\ running   = [t \in Threads |-> t]
    /\ sysStack  = [t \in Threads |-> [on |-> NULL, sp |-> 0]]
    /\ mainSp    = [t \in Threads |-> 0]
    /\ walk      = [t \in Threads |-> Idle]
    /\ defaults  = [e \in Effects |-> IF e = Effect0 THEN "exit" ELSE "null"]
    /\ outcome   = "running"
    /\ resumable = {}

\* Thread t executes code that is not inside seff_locate_handler.
Free(t) == outcome = "running" /\ walk[t].op = "none"

----------------------------------------------------------------------------
(* seff_coroutine_new and seff_coroutine_delete.  The block is malloc'd:   *)
(* neither parent_coroutine nor handled_effects is given a value.          *)

\* Mutation: current_coroutine of the resume point is forgotten.
NewPointWithoutCoroutine(k) == [cont |-> k, co |-> Junk, top |-> k]

NewResumePoint(k) == [cont |-> k, co |-> k, top |-> k]

New(t, k) ==
    /\ Free(t)
    /\ k \notin live
    /\ live'      = live \cup {k}
    /\ rp'        = [rp EXCEPT ![k] = NewResumePoint(k)]
    /\ state'     = [state EXCEPT ![k] = "PAUSED"]
    /\ parent'    = [parent EXCEPT ![k] = Junk]
    /\ \E h \in SUBSET Effects : handled' = [handled EXCEPT ![k] = h]
    /\ resumable' = resumable \cup {k}
    /\ UNCHANGED <<threadVars, sysStack, mainSp, walk, defaults, outcome>>

\* A client deletes what it may resume and what has finished.
Delete(t, k) ==
    /\ Free(t)
    /\ k \in live
    /\ k \in resumable \/ state[k] = "FINISHED"
    /\ live'      = live \ {k}
    /\ resumable' = resumable \ {k}
    /\ UNCHANGED <<state, parent, handled, rp, threadVars, sysStack, mainSp,
                   walk, defaults, outcome>>

----------------------------------------------------------------------------
(* The switches.  seff_resume and seff_yield swap the running context with *)
(* the one in k->resume_point; seff_exit only loads it.                    *)

\* Mutations: the resumer's context, its stack top are not swapped in.
ResumedPointWithoutContext(t, k) == [rp[k] EXCEPT !.top = stackTop[t]]
ResumedPointWithoutTop(t, k)     == [rp[k] EXCEPT !.cont = running[t]]

\* What seff_resume leaves in the resume point: its current_coroutine is
\* read, not written.
ResumedPoint(t, k) ==
    [cont |-> running[t], co |-> rp[k].co, top |-> stackTop[t]]

\* Mutations: the coroutine yielded to for the one that runs; the context is
\* not swapped in.
YieldedPointOfHandler(t, k) ==
    [cont |-> running[t], co |-> k, top |-> stackTop[t]]

YieldedPointWithoutContext(t, k) ==
    [rp[k] EXCEPT !.co = current[t], !.top = stackTop[t]]

\* The handler, the stack top and the coroutine that was current.
YieldedPoint(t, k) ==
    [cont |-> running[t], co |-> current[t], top |-> stackTop[t]]

ExitedPoint(k) == [rp[k] EXCEPT !.cont = IF NDEBUG THEN @ ELSE NULL]

\* Mutation: no test of the current coroutine.
StoredAlways(t) == [on |-> running[t], sp |-> mainSp[t]]

\* _seff_system_stack is taken when no coroutine is current, which a thread
\* that runs on its own stack knows from %rcx.
StoredSystemStack(t) ==
    IF current[t] = NULL THEN [on |-> running[t], sp |-> mainSp[t]]
                         ELSE sysStack[t]

Resume(t, k, H) ==
    /\ Free(t)
    /\ k \in resumable
    /\ handled'   = [handled EXCEPT ![k] = H]
    /\ rp'        = [rp EXCEPT ![k] = ResumedPoint(t, k)]
    /\ parent'    = [parent EXCEPT ![k] = current[t]]
    /\ current'   = [current EXCEPT ![t] = rp[k].co]
    /\ stackTop'  = [stackTop EXCEPT ![t] = rp[k].top]
    /\ running'   = [running EXCEPT ![t] = rp[k].cont]
    /\ sysStack'  = [sysStack EXCEPT ![t] = StoredSystemStack(t)]
    /\ resumable' = resumable \ {k}
    /\ UNCHANGED <<live, state, mainSp, walk, defaults, outcome>>

\* Mutation: _seff_current_coroutine is not set back to the parent.
SwitchToKeepingCurrent(t, k) ==
    /\ stackTop' = [stackTop EXCEPT ![t] = rp[k].top]
    /\ running'  = [running EXCEPT ![t] = rp[k].cont]
    /\ walk'     = [walk EXCEPT ![t] = Idle]
    /\ UNCHANGED current

\* The context in k->resume_point, and the coroutine that goes with it, take
\* over thread t.
SwitchTo(t, k) ==
    /\ current'  = [current EXCEPT ![t] = parent[k]]
    /\ stackTop' = [stackTop EXCEPT ![t] = rp[k].top]
    /\ running'  = [running EXCEPT ![t] = rp[k].cont]
    /\ walk'     = [walk EXCEPT ![t] = Idle]

\* seff_yield(k, ..): whoever resumed k gets the permission back.
YieldTo(t, k) ==
    /\ rp'        = [rp EXCEPT ![k] = YieldedPoint(t, k)]
    /\ SwitchTo(t, k)
    /\ resumable' = resumable \cup {k}
    /\ UNCHANGED <<live, state, parent, handled, sysStack, mainSp, defaults,
                   outcome>>

\* seff_exit(k, ..)
ExitTo(t, k) ==
    /\ state' = [state EXCEPT ![k] = "FINISHED"]
    /\ rp'    = [rp EXCEPT ![k] = ExitedPoint(k)]
    /\ SwitchTo(t, k)
    /\ UNCHANGED <<live, parent, handled, sysStack, mainSp, defaults, outcome,
                   resumable>>

\* The body of a coroutine yields with its own handle.
Yield(t) ==
    /\ Free(t)
    /\ running[t] \in Coroutines
    /\ YieldTo(t, running[t])

\* The start function returns to coroutine_prelude, which kept k in %r13.
Return(t) ==
    /\ Free(t)
    /\ running[t] \in Coroutines
    /\ ExitTo(t, running[t])

----------------------------------------------------------------------------
(* seff_perform and seff_throw: seff_locate_handler, then a switch to the  *)
(* handler it found, or the default handler in place.                      *)

\* 'return' is an effect of coroutines only: its id indexes no default.
BeginLocate(t, e, op) ==
    /\ Free(t)
    /\ e = ReturnEffect => current[t] # NULL
    /\ walk' = [walk EXCEPT ![t] = [op |-> op, eff |-> e, co |-> current[t]]]
    /\ UNCHANGED <<blockVars, threadVars, sysStack, mainSp, defaults, outcome,
                   resumable>>

\* Mutation: the outermost handler is taken, whatever it handles.
StopsAtOutermost(k, e) == k # NULL => parent[k] = NULL

\* The loop of seff_locate_handler leaves at k.
StopsAt(k, e) == k # NULL => e \in handled[k] \cup {ReturnEffect}

Locating(t, op) == outcome = "running" /\ walk[t].op = op

\* Mutation: the loop does not advance.
LocateStuck(t) ==
    /\ Locating(t, "perform") \/ Locating(t, "throw")
    /\ ~StopsAt(walk[t].co, walk[t].eff)
    /\ walk' = [walk EXCEPT ![t].co = current[t]]
    /\ UNCHANGED <<blockVars, threadVars, sysStack, mainSp, defaults, outcome,
                   resumable>>

LocateNext(t) ==
    /\ Locating(t, "perform") \/ Locating(t, "throw")
    /\ ~StopsAt(walk[t].co, walk[t].eff)
    /\ walk' = [walk EXCEPT ![t].co = parent[@]]
    /\ UNCHANGED <<blockVars, threadVars, sysStack, mainSp, defaults, outcome,
                   resumable>>

Located(t, op) == Locating(t, op) /\ StopsAt(walk[t].co, walk[t].eff)

PerformHandled(t) ==
    /\ Located(t, "perform")
    /\ walk[t].co # NULL
    /\ YieldTo(t, walk[t].co)

ThrowHandled(t) ==
    /\ Located(t, "throw")
    /\ walk[t].co # NULL
    /\ ExitTo(t, walk[t].co)

\* The default handler of an effect nobody handles runs on the caller's
\* stack: it may return (to seff_perform only), exit, or be a null pointer.
AfterDefault(e, op) ==
    CASE defaults[e] = "null" -> "crash"
      [] defaults[e] = "exit" -> "exit"
      [] defaults[e] = "user" -> IF op = "throw" THEN "exit" ELSE "running"

RunDefault(t, op) ==
    /\ Located(t, op)
    /\ walk[t].co = NULL
    /\ outcome' = AfterDefault(walk[t].eff, op)
    /\ walk'    = [walk EXCEPT ![t] = Idle]
    /\ UNCHANGED <<blockVars, threadVars, sysStack, mainSp, defaults,
                   resumable>>

PerformDefault(t) == RunDefault(t, "perform")
ThrowDefault(t)   == RunDefault(t, "throw")

\* seff_set_default_handler with a handler of the client's
SetDefault(t, e) ==
    /\ Free(t)
    /\ defaults' = [defaults EXCEPT ![e] = "user"]
    /\ UNCHANGED <<blockVars, threadVars, sysStack, mainSp, walk, outcome,
                   resumable>>

\* Calls and returns of code that runs on the thread's own stack.
MainMoves(t) ==
    /\ Free(t)
    /\ running[t] = t
    /\ \E sp \in 0..MaxMainSp \ {mainSp[t]} :
          mainSp' = [mainSp EXCEPT ![t] = sp]
    /\ UNCHANGED <<blockVars, threadVars, sysStack, walk, defaults, outcome,
                   resumable>>

\* exit(-1) or a call of a null pointer ended the process.
Stopped == outcome # "running" /\ UNCHANGED vars

----------------------------------------------------------------------------
Locate(t) == \/ LocateNext(t)
             \/ PerformHandled(t) \/ ThrowHandled(t)
             \/ PerformDefault(t) \/ ThrowDefault(t)

Client(t) ==
    \/ \E k \in Coroutines : New(t, k) \/ Delete(t, k)
    \/ \E k \in Coroutines, H \in SUBSET Effects : Resume(t, k, H)
    \/ Yield(t) \/ Return(t) \/ MainMoves(t)
    \/ \E e \in Effects \cup {ReturnEffect}, op \in {"perform", "throw"} :
          BeginLocate(t, e, op)
    \/ \E e \in Effects : SetDefault(t, e)

Next == (\E t \in Threads : Client(t) \/ Locate(t)) \/ Stopped

Spec == Init /\ [][Next]_vars

\* A thread inside seff_locate_handler keeps running.
FairSpec == Spec /\ \A t \in Threads : WF_vars(Locate(t))

----------------------------------------------------------------------------
(* Properties.                                                             *)

\* What %fs:0x70 and _seff_current_coroutine say agrees with the stack the
\* thread executes on, whatever was captured on one thread and resumed on
\* another: a handler looked up from _seff_current_coroutine is a handler of
\* the code that asks, and the stack check of that code is about its stack.
CurrentIsRunning ==
    \A t \in Threads :
        /\ current[t]  = CoroutineOf(running[t])
        /\ stackTop[t] = CoroutineOf(running[t])
        /\ running[t] \in Threads => running[t] = t

\* A context is one-shot: as long as every client keeps to its permissions,
\* no stack is executed by two threads, or resumable through two coroutines,
\* or resumable while it runs.
OneShot ==
    /\ \A t, u \in Threads : running[t] = running[u] => t = u
    /\ \A j, k \in resumable : rp[j].cont = rp[k].cont => j = k
    /\ \A t \in Threads, k \in resumable : running[t] # rp[k].cont

\* No stack that is executed, or that a permitted resumption would switch to,
\* belongs to a coroutine that has finished or whose block has been freed.
ContextsLive ==
    /\ \A t \in Threads :
          running[t] \in Coroutines =>
              running[t] \in live /\ state[running[t]] = "PAUSED"
    /\ \A k \in resumable :
          rp[k].cont \in live /\ state[rp[k].cont] = "PAUSED"

\* seff_locate_handler follows parent_coroutine only in blocks that are
\* allocated, not finished, and whose parent has been given a value.
LocateReadsValidBlocks ==
    \A t \in Threads :
        LET k == walk[t].co
        IN  k # NULL => k \in live /\ state[k] = "PAUSED" /\ parent[k] # Junk

\* While a thread runs a coroutine, _seff_system_stack points at the top of
\* what is in use of the thread's own stack: a call made there by a syscall
\* wrapper overwrites nothing.
SystemStackIsFree ==
    \A t \in Threads :
        current[t] # NULL => sysStack[t] = [on |-> t, sp |-> mainSp[t]]

\* The chain of parents that seff_locate_handler follows has an end, at a
\* handler or at the thread's own stack.
LocateTerminates ==
    \A t \in Threads :
        walk[t].op # "none" ~> walk[t].op = "none" \/ outcome # "running"
=============================================================================
