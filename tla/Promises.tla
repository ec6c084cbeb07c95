------------------------------ MODULE Promises ------------------------------
(***************************************************************************)
(* A client of the scheduler: the tasks of the skynet benchmark in         *)
(* src/bench/skynet_bench/libseff_scheff_sleep.c, whose promises put the   *)
(* awaiting task to sleep, and libseff_scheff_poll.c, whose promises are   *)
(* polled.                                                                 *)
(*                                                                         *)
(* Every step of the scheduler is an action of module Scheff.  Here the    *)
(* body of a task is no longer arbitrary: prog[k] is where the function    *)
(* skynet of task k stands, and the actions below let Scheff's only happen *)
(* as that function and its callbacks decide.                              *)
(*                                                                         *)
(* A promise lives in the frame of the task that awaits it.  A SPINLOCK    *)
(* block of this client is one step: nothing in it touches a queue, and    *)
(* the promise is not touched after it.                                    *)
(***************************************************************************)
EXTENDS Scheff, SkynetTree

CONSTANTS
    Styles,     \* the programs considered, of "sleep" and "poll"
    Branching,  \* BRANCHING_FACTOR, 10 in the code
    Depth       \* layers of the tree

\* The two states of a promise that are not a waker.
EMPTY == "EMPTY_PROMISE"
FULFILLED == "FULFILLED"

PromisesAssumption ==
    /\ Styles \subseteq {"sleep", "poll"}
    /\ Branching \in Nat \ {0}
    /\ Depth \in Nat \ {0}
    /\ EMPTY \notin Tasks /\ FULFILLED \notin Tasks

LastLayer == LastLayerOf(Branching, Depth)

Root == <<NULL, 0>>
PromiseIds == {Root} \cup (Tasks \X (0..(Branching - 1)))

VARIABLES
    style,      \* which of the two files is running
    prog,       \* task -> the state of its skynet call
    promise     \* promise -> state (EMPTY, FULFILLED or the waker), result

clientProgram == <<style, prog, promise>>
allVars == <<vars, clientProgram>>

\* at is "body", "sleep" (about to perform scheff_sleep), "waiting" (in
\* scheff_sleep or scheff_poll), "wake" or "return".
Prog(num, p) == [num |-> num, promise |-> p, at |-> "body",
                 started |-> 0, awaited |-> 0, sum |-> 0, waker |-> EMPTY]

PromisesInit ==
    /\ Init
    /\ style \in Styles
    /\ prog = [k \in Tasks |-> Prog(0, Root)]
    /\ promise = [p \in PromiseIds |-> [state |-> EMPTY, result |-> 0]]

Me(w) == prog[cur[w]]
At(w, place) == pc[w] = "running" /\ Me(w).at = place
IsLeaf(t) == t.num >= LastLayer
Forking(t) == ~IsLeaf(t) /\ t.started < Branching
Awaiting(t) == ~Forking(t) /\ ~IsLeaf(t) /\ t.awaited < Branching
Awaited(w) == <<cur[w], Me(w).awaited>>

Step(w, place) == prog' = [prog EXCEPT ![cur[w]].at = place]

\* sum += promise->result
Collect(t, p) == [t EXCEPT !.at = "body", !.awaited = @ + 1,
                           !.sum = @ + promise[p].result]

Fulfilment(t) ==
    [state |-> FULFILLED,
     result |-> IF IsLeaf(t) THEN t.num - LastLayer ELSE t.sum]

----------------------------------------------------------------------------
\* bench: init_promise, scheff_schedule, scheff_run
ScheduleRoot ==
    \E k \in Tasks :
        /\ Schedule(k)
        /\ prog' = [prog EXCEPT ![k] = Prog(1, Root)]
        /\ UNCHANGED <<style, promise>>

RunIt ==
    /\ scheduled = 1
    /\ (\E w \in Workers \ {0} : Spawn(w)) \/ BecomeWorker0 \/ Join
    /\ UNCHANGED clientProgram

\* init_promise(&child_args[i].promise, ...), then scheff_fork
ForkChild(w) ==
    /\ At(w, "body")
    /\ Forking(Me(w))
    /\ Fork(w)
    /\ promise' = [promise EXCEPT ![<<cur[w], Me(w).started>>].state = EMPTY]
    /\ UNCHANGED <<style, prog>>

MakeChild(w) ==
    /\ ForkPush(w)
    /\ LET p == cur[w]
           i == prog[p].started
       IN  prog' = [prog EXCEPT ![p].started = @ + 1,
                                ![cur'[w]] =
                                   Prog(prog[p].num * Branching + i, <<p, i>>)]
    /\ UNCHANGED <<style, promise>>

\* await_promise, its first look at the promise
Await(w) ==
    /\ style = "sleep"
    /\ At(w, "body")
    /\ Awaiting(Me(w))
    /\ prog' = [prog EXCEPT ![cur[w]] =
                   IF promise[Awaited(w)].state = FULFILLED
                   THEN Collect(@, Awaited(w)) ELSE [@ EXCEPT !.at = "sleep"]]
    /\ UNCHANGED <<vars, style, promise>>

SleepOnPromise(w) ==
    /\ At(w, "sleep")
    /\ Sleep(w)
    /\ Step(w, "waiting")
    /\ UNCHANGED <<style, promise>>

\* must_sleep(waker, promise)
Publish(w) ==
    /\ MustSleep(w)
    /\ IF promise[Awaited(w)].state = EMPTY
       THEN /\ cur[w] \in asleep'
            /\ promise' = [promise EXCEPT ![Awaited(w)].state = cur[w]]
       ELSE /\ cur[w] \notin asleep'
            /\ UNCHANGED promise
    /\ UNCHANGED <<style, prog>>

PollPromise(w) ==
    /\ style = "poll"
    /\ At(w, "body")
    /\ Awaiting(Me(w))
    /\ Poll(w)
    /\ Step(w, "waiting")
    /\ UNCHANGED <<style, promise>>

\* lwp_ready
Ready(w) == promise[Awaited(w)].state = FULFILLED

NotReady(w) ==
    /\ PollFails(w)
    /\ ~Ready(w)
    /\ UNCHANGED clientProgram

\* Mutation: the poll condition is not asked.
ContinueUnasked(w) ==
    /\ ResumeTask(w)
    /\ prog' = [prog EXCEPT ![cur[w]] =
                   IF @.at = "waiting" THEN Collect(@, Awaited(w)) ELSE @]
    /\ UNCHANGED <<style, promise>>

\* The task goes on, after scheff_sleep or scheff_poll with the result.
Continue(w) ==
    /\ pc[w] = "check"
    /\ cur[w] \in polling => Ready(w)
    /\ ResumeTask(w)
    /\ prog' = [prog EXCEPT ![cur[w]] =
                   IF @.at = "waiting" THEN Collect(@, Awaited(w)) ELSE @]
    /\ UNCHANGED <<style, promise>>

\* Mutation: the previous state is read before the lock is taken.
FulfilBlindly(w) ==
    /\ At(w, "body")
    /\ ~Forking(Me(w)) /\ ~Awaiting(Me(w))
    /\ promise' = [promise EXCEPT ![Me(w).promise] = Fulfilment(Me(w))]
    /\ Step(w, "return")
    /\ UNCHANGED <<vars, style>>

\* fulfill and lwp_fulfill
Fulfil(w) ==
    /\ At(w, "body")
    /\ ~Forking(Me(w)) /\ ~Awaiting(Me(w))
    /\ promise' = [promise EXCEPT ![Me(w).promise] = Fulfilment(Me(w))]
    /\ LET previous_state == promise[Me(w).promise].state
       IN  prog' = [prog EXCEPT ![cur[w]].at =
                       IF previous_state \in Tasks THEN "wake" ELSE "return",
                                ![cur[w]].waker = previous_state]
    /\ UNCHANGED <<vars, style>>

\* scheff_wake(previous_state, false)
WakeWaiter(w) ==
    /\ At(w, "wake")
    /\ Wake(w)
    /\ wakers'[w] = <<Me(w).waker>>
    /\ ~resume'[w]
    /\ UNCHANGED clientProgram

ReturnNull(w) ==
    /\ At(w, "return")
    /\ Return(w)
    /\ UNCHANGED clientProgram

Task(w) ==
    \/ ForkChild(w) \/ MakeChild(w) \/ Await(w) \/ SleepOnPromise(w)
    \/ Publish(w) \/ PollPromise(w) \/ NotReady(w) \/ Continue(w)
    \/ Fulfil(w) \/ WakeWaiter(w) \/ ReturnNull(w)

Scheduler(w) ==
    /\ Pop(w) \/ Steal(w) \/ Idle(w) \/ Release(w) \/ Decrement(w)
       \/ ForkNew(w) \/ Requeue(w) \/ WakeNext(w) \/ WakeEnd(w)
    /\ UNCHANGED clientProgram

PromisesDone == Done /\ UNCHANGED clientProgram

PromisesNext ==
    \/ ScheduleRoot \/ RunIt \/ PromisesDone
    \/ \E w \in Workers : Scheduler(w) \/ Task(w)

PromisesSpec == PromisesInit /\ [][PromisesNext]_allVars

\* Threads keep running.  A poll condition that is true is not asked in vain
\* for ever: the queue is first-in first-out.
PromisesFairness ==
    /\ WF_allVars(ScheduleRoot \/ RunIt)
    /\ \A w \in Workers : WF_allVars(Scheduler(w) \/ Task(w))

PromisesFairSpec == PromisesSpec /\ PromisesFairness

----------------------------------------------------------------------------
(* Properties.                                                             *)

\* When scheff_run has returned, the root's promise holds the sum of the
\* leaves.
PromisesTotal ==
    pc[0] = "done" =>
        /\ promise[Root].state = FULFILLED
        /\ 2 * promise[Root].result = LastLayer * (LastLayer - 1)

\* A sleeper is where its promise says: the waker a promise keeps is asleep,
\* and once the promise is fulfilled whoever fulfilled it still holds the
\* waker.  Else a task would sleep for ever or be woken while it runs.
SleepersAreAwaited ==
    \A k \in asleep :
        LET p == <<k, prog[k].awaited>>
        IN  \/ promise[p].state = k
            \/ \E w \in Workers : At(w, "wake") /\ Me(w).waker = k
                                  /\ Me(w).promise = p

\* With this client scheff_run returns, with no assumption on sleepers.
PromisesReturn == <>(pc[0] = "done")
=============================================================================
