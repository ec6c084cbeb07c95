------------------------------- MODULE Scheff -------------------------------
(***************************************************************************)
(* The scheduler of src/scheduler/scheff.c: scheff_schedule, scheff_run    *)
(* and the loop of scheff_worker_thread on every worker.                   *)
(*                                                                         *)
(* A worker's step is one access to what the workers share: its queue,     *)
(* another's queue, remaining_tasks, the client's sleepers.  The queues    *)
(* are the abstract ones of module WorkQueue: a FIFO that anybody may      *)
(* steal from and a buffer that only the owner touches.                    *)
(*                                                                         *)
(* The bodies of the tasks are arbitrary: each time it is resumed a task   *)
(* returns or performs one of the four effects.  asleep holds the wakers   *)
(* that a must_sleep callback has published and nobody has taken yet; a    *)
(* client takes a waker once.                                              *)
(***************************************************************************)
EXTENDS Integers, Sequences, FiniteSets

CONSTANTS
    NWorkers,       \* n_workers
    Tasks,          \* addresses of task_t blocks
    NULL,
    MaxScheduled,   \* bound: calls of scheff_schedule
    MaxRequests     \* bound: effects performed by all tasks together

ASSUME ScheffAssumption ==
    /\ NWorkers \in Nat \ {0}
    /\ NULL \notin Tasks
    /\ MaxScheduled \in Nat
    /\ MaxRequests \in Nat

Workers == 0..(NWorkers - 1)

VARIABLES
    pc,         \* worker -> where its thread is
    cur,        \* worker -> current_task
    victim,     \* worker -> i of scheff_try_get_task
    wakers,     \* worker -> the wakers its wake request has still to push
    resume,     \* worker -> payload.resume of its wake request
    queue,      \* worker -> task_queue, head first
    buffer,     \* worker -> task_queue.buffer
    remaining,  \* remaining_tasks
    allocated,  \* task_t blocks that are allocated
    finished,   \* those whose coroutine is FINISHED
    polling,    \* those with a poll_condition
    asleep,     \* published wakers
    requests,   \* bound: effects performed so far
    scheduled   \* bound: scheff_schedule calls so far

vars == <<pc, cur, victim, wakers, resume, queue, buffer, remaining,
          allocated, finished, polling, asleep, requests, scheduled>>

clientVars == <<asleep, requests, scheduled>>

Labels == {"setup", "new", "pop", "steal", "idle", "check", "running",
           "fork", "fork_push", "fork_new", "sleep", "requeue", "wake",
           "release", "decrement", "exited", "done"}

TypeOK ==
    /\ pc \in [Workers -> Labels]
    /\ cur \in [Workers -> Tasks \cup {NULL}]
    /\ victim \in [Workers -> 1..NWorkers]
    /\ wakers \in [Workers -> Seq(Tasks)]
    /\ resume \in [Workers -> BOOLEAN]
    /\ queue \in [Workers -> Seq(Tasks)]
    /\ buffer \in [Workers -> Tasks \cup {NULL}]
    /\ remaining \in Nat
    /\ allocated \in SUBSET Tasks
    /\ finished \in SUBSET Tasks
    /\ polling \in SUBSET Tasks
    /\ asleep \in SUBSET Tasks
    /\ requests \in 0..MaxRequests
    /\ scheduled \in 0..MaxScheduled

\* After scheff_init: the thread of main is to become worker 0.
Init ==
    /\ pc        = [w \in Workers |-> IF w = 0 THEN "setup" ELSE "new"]
    /\ cur       = [w \in Workers |-> NULL]
    /\ victim    = [w \in Workers |-> 1]
    /\ wakers    = [w \in Workers |-> <<>>]
    /\ resume    = [w \in Workers |-> FALSE]
    /\ queue     = [w \in Workers |-> <<>>]
    /\ buffer    = [w \in Workers |-> NULL]
    /\ remaining = 0
    /\ allocated = {}
    /\ finished  = {}
    /\ polling   = {}
    /\ asleep    = {}
    /\ requests  = 0
    /\ scheduled = 0

Goto(w, label) == pc' = [pc EXCEPT ![w] = label]

\* QUEUE(push) and QUEUE(priority_push), by the owner of the queue.
Push(w, k) == queue' = [queue EXCEPT ![w] = Append(@, k)]

\* Mutation: the task that was set aside is overwritten.
PriorityPushOverwriting(w, k) ==
    buffer' = [buffer EXCEPT ![w] = k] /\ UNCHANGED queue

\* Mutation: what the buffer held is pushed even if it held nothing.
PriorityPushUnchecked(w, k) ==
    buffer' = [buffer EXCEPT ![w] = k] /\ Push(w, buffer[w])

PriorityPush(w, k) ==
    /\ buffer' = [buffer EXCEPT ![w] = k]
    /\ IF buffer[w] = NULL THEN UNCHANGED queue ELSE Push(w, buffer[w])

\* malloc of a task_t and seff_coroutine_init_sized of its coroutine.
NewTask(k) ==
    /\ k \notin allocated
    /\ allocated' = allocated \cup {k}
    /\ finished'  = finished \ {k}
    /\ polling'   = polling \ {k}

taskVars  == <<allocated, finished, polling>>
queueVars == <<queue, buffer>>
wakeVars  == <<wakers, resume>>

----------------------------------------------------------------------------
(* scheff_schedule and scheff_run                                          *)

Schedule(k) ==
    /\ pc[0] = "setup"
    /\ \A w \in Workers \ {0} : pc[w] = "new"
    /\ scheduled < MaxScheduled
    /\ scheduled' = scheduled + 1
    /\ NewTask(k)
    /\ remaining' = remaining + 1
    /\ Push(0, k)
    /\ UNCHANGED <<pc, cur, victim, wakeVars, buffer, asleep, requests>>

\* pthread_create, of the workers in turn
Spawn(w) ==
    /\ pc[0] = "setup"
    /\ pc[w] = "new"
    /\ \A v \in 1..(w - 1) : pc[v] # "new"
    /\ Goto(w, "pop")
    /\ UNCHANGED <<cur, victim, wakeVars, queueVars, remaining, taskVars,
                   clientVars>>

BecomeWorker0 ==
    /\ pc[0] = "setup"
    /\ \A w \in Workers \ {0} : pc[w] # "new"
    /\ Goto(0, "pop")
    /\ UNCHANGED <<cur, victim, wakeVars, queueVars, remaining, taskVars,
                   clientVars>>

\* The last pthread_join returns.
Join ==
    /\ \A w \in Workers : pc[w] = "exited"
    /\ Goto(0, "done")
    /\ UNCHANGED <<cur, victim, wakeVars, queueVars, remaining, taskVars,
                   clientVars>>

----------------------------------------------------------------------------
(* scheff_try_get_task                                                     *)

Got(w, k) ==
    /\ cur' = [cur EXCEPT ![w] = k]
    /\ Goto(w, "check")
    /\ UNCHANGED victim

\* The next victim, or none.
TryVictim(w, i) ==
    /\ Goto(w, IF i < NWorkers THEN "steal" ELSE "idle")
    /\ victim' = [victim EXCEPT ![w] = IF i < NWorkers THEN i ELSE 1]
    /\ UNCHANGED cur

Pop(w) ==
    /\ pc[w] = "pop"
    /\ \/ /\ buffer[w] # NULL
          /\ Got(w, buffer[w])
          /\ buffer' = [buffer EXCEPT ![w] = NULL]
          /\ UNCHANGED queue
       \/ /\ buffer[w] = NULL
          /\ queue[w] # <<>>
          /\ Got(w, Head(queue[w]))
          /\ queue' = [queue EXCEPT ![w] = Tail(@)]
          /\ UNCHANGED buffer
       \/ /\ buffer[w] = NULL
          /\ queue[w] = <<>>
          /\ TryVictim(w, 1)
          /\ UNCHANGED queueVars
    /\ UNCHANGED <<wakeVars, remaining, taskVars, clientVars>>

\* Mutation: the stolen task stays in the queue.
StealKeeping(w) ==
    /\ pc[w] = "steal"
    /\ LET v == (w + victim[w]) % NWorkers
       IN  \/ queue[v] # <<>> /\ Got(w, Head(queue[v]))
           \/ queue[v] = <<>> /\ TryVictim(w, victim[w] + 1)
    /\ UNCHANGED <<queueVars, wakeVars, remaining, taskVars, clientVars>>

Steal(w) ==
    /\ pc[w] = "steal"
    /\ LET v == (w + victim[w]) % NWorkers
       IN  \/ /\ queue[v] # <<>>
              /\ Got(w, Head(queue[v]))
              /\ queue' = [queue EXCEPT ![v] = Tail(@)]
           \/ /\ queue[v] = <<>>
              /\ TryVictim(w, victim[w] + 1)
              /\ UNCHANGED queue
    /\ UNCHANGED <<buffer, wakeVars, remaining, taskVars, clientVars>>

\* Mutation: a worker leaves when it finds no task.
IdleLeaves(w) ==
    /\ pc[w] = "idle"
    /\ Goto(w, "exited")
    /\ UNCHANGED <<cur, victim, wakeVars, queueVars, remaining, taskVars,
                   clientVars>>

\* No task was found: leave the loop only if there is none left to finish.
Idle(w) ==
    /\ pc[w] = "idle"
    /\ Goto(w, IF remaining = 0 THEN "exited" ELSE "pop")
    /\ UNCHANGED <<cur, victim, wakeVars, queueVars, remaining, taskVars,
                   clientVars>>

----------------------------------------------------------------------------
(* A task has been found.                                                  *)

\* A worker that is handed a finished task ends the process; see
\* NeverResumesFinished.
CanResume(w) == pc[w] = "check" /\ cur[w] \notin finished

\* poll_condition(poll_arg) may answer anything.
PollFails(w) ==
    /\ CanResume(w)
    /\ cur[w] \in polling
    /\ Push(w, cur[w])
    /\ Goto(w, "pop")
    /\ UNCHANGED <<cur, victim, wakeVars, buffer, remaining, taskVars,
                   clientVars>>

ResumeTask(w) ==
    /\ CanResume(w)
    /\ polling' = polling \ {cur[w]}
    /\ Goto(w, "running")
    /\ UNCHANGED <<cur, victim, wakeVars, queueVars, remaining, allocated,
                   finished, clientVars>>

Request(w, label) ==
    /\ pc[w] = "running"
    /\ requests < MaxRequests
    /\ requests' = requests + 1
    /\ Goto(w, label)

Return(w) ==
    /\ pc[w] = "running"
    /\ finished' = finished \cup {cur[w]}
    /\ Goto(w, "release")
    /\ UNCHANGED <<cur, victim, wakeVars, queueVars, remaining, allocated,
                   polling, clientVars>>

\* FINALIZE: the task is freed, then it is counted out.
Release(w) ==
    /\ pc[w] = "release"
    /\ allocated' = allocated \ {cur[w]}
    /\ Goto(w, "decrement")
    /\ UNCHANGED <<cur, victim, wakeVars, queueVars, remaining, finished,
                   polling, clientVars>>

Decrement(w) ==
    /\ pc[w] = "decrement"
    /\ remaining' = remaining - 1
    /\ Goto(w, "pop")
    /\ UNCHANGED <<cur, victim, wakeVars, queueVars, taskVars, clientVars>>

\* fork: count the new task in, make it and push the current one, push it.
\* The model ends the run of forks when no block is left.
Fork(w) ==
    /\ Request(w, "fork")
    /\ Cardinality(allocated) + Cardinality({v \in Workers : pc[v] = "fork"})
          < Cardinality(Tasks)
    /\ remaining' = remaining + 1
    /\ UNCHANGED <<cur, victim, wakeVars, queueVars, taskVars, asleep,
                   scheduled>>

\* new_task stands in cur from the moment current_task is out of hand.
ForkPush(w) ==
    /\ pc[w] = "fork"
    /\ \E k \in Tasks :
          NewTask(k) /\ cur' = [cur EXCEPT ![w] = k]
    /\ Push(w, cur[w])
    /\ Goto(w, "fork_new")
    /\ UNCHANGED <<victim, wakeVars, buffer, remaining, clientVars>>

ForkNew(w) ==
    /\ pc[w] = "fork_new"
    /\ PriorityPush(w, cur[w])
    /\ Goto(w, "pop")
    /\ UNCHANGED <<cur, victim, wakeVars, remaining, taskVars, clientVars>>

\* poll: the fields are the worker's until the push.
Poll(w) ==
    /\ Request(w, "pop")
    /\ polling' = polling \cup {cur[w]}
    /\ Push(w, cur[w])
    /\ UNCHANGED <<cur, victim, wakeVars, buffer, remaining, allocated,
                   finished, asleep, scheduled>>

\* sleep: must_sleep either publishes the waker, and from then on the task is
\* not this worker's any more, or refuses.
Sleep(w) ==
    /\ Request(w, "sleep")
    /\ UNCHANGED <<cur, victim, wakeVars, queueVars, remaining, taskVars,
                   asleep, scheduled>>

MustSleep(w) ==
    /\ pc[w] = "sleep"
    /\ \/ /\ asleep' = asleep \cup {cur[w]}
          /\ Goto(w, "pop")
       \/ /\ UNCHANGED asleep
          /\ Goto(w, "requeue")
    /\ UNCHANGED <<cur, victim, wakeVars, queueVars, remaining, taskVars,
                   requests, scheduled>>

Requeue(w) ==
    /\ pc[w] = "requeue"
    /\ Push(w, cur[w])
    /\ Goto(w, "pop")
    /\ UNCHANGED <<cur, victim, wakeVars, buffer, remaining, taskVars,
                   clientVars>>

\* wake: the client takes wakers it may use, in some order, and hands them
\* over.
Orders(S) == {s \in [1..Cardinality(S) -> S] :
                 \A i, j \in 1..Cardinality(S) : s[i] = s[j] => i = j}

Wake(w) ==
    /\ Request(w, "wake")
    /\ \E S \in SUBSET asleep :
          /\ asleep' = asleep \ S
          /\ \E s \in Orders(S) : wakers' = [wakers EXCEPT ![w] = s]
    /\ \E b \in BOOLEAN : resume' = [resume EXCEPT ![w] = b]
    /\ UNCHANGED <<cur, victim, queueVars, remaining, taskVars, scheduled>>

WakeNext(w) ==
    /\ pc[w] = "wake"
    /\ wakers[w] # <<>>
    /\ PriorityPush(w, Head(wakers[w]))
    /\ wakers' = [wakers EXCEPT ![w] = Tail(@)]
    /\ UNCHANGED <<pc, cur, victim, resume, remaining, taskVars, clientVars>>

\* With resume false the task is finalized where it stands, its coroutine
\* still paused.
WakeEnd(w) ==
    /\ pc[w] = "wake"
    /\ wakers[w] = <<>>
    /\ resume' = [resume EXCEPT ![w] = FALSE]
    /\ \/ resume[w] /\ Push(w, cur[w]) /\ Goto(w, "pop")
       \/ ~resume[w] /\ UNCHANGED queue /\ Goto(w, "release")
    /\ UNCHANGED <<cur, victim, wakers, buffer, remaining, taskVars,
                   clientVars>>

Done == pc[0] = "done" /\ UNCHANGED vars

----------------------------------------------------------------------------
Worker(w) ==
    \/ Pop(w) \/ Steal(w) \/ Idle(w) \/ PollFails(w) \/ ResumeTask(w)
    \/ Return(w) \/ Release(w) \/ Decrement(w)
    \/ Fork(w) \/ ForkPush(w) \/ ForkNew(w) \/ Poll(w)
    \/ Sleep(w) \/ MustSleep(w) \/ Requeue(w)
    \/ Wake(w) \/ WakeNext(w) \/ WakeEnd(w)

Main == (\E k \in Tasks : Schedule(k))
        \/ (\E w \in Workers \ {0} : Spawn(w)) \/ BecomeWorker0 \/ Join

Next == Main \/ (\E w \in Workers : Worker(w)) \/ Done

Spec == Init /\ [][Next]_vars

----------------------------------------------------------------------------
(* Properties.                                                             *)

\* The labels at which a worker has a task in cur.
HandLabels == {"check", "running", "fork", "fork_new", "sleep", "requeue",
               "wake", "release"}

\* asleep is nobody's: it counts as a place of worker 0.
Places == {"queue", "buffer", "hand", "wakers", "asleep"}

Holds(place, w, k) ==
    CASE place = "queue"  -> \E i \in 1..Len(queue[w]) : queue[w][i] = k
      [] place = "buffer" -> buffer[w] = k
      [] place = "hand"   -> pc[w] \in HandLabels /\ cur[w] = k
      [] place = "wakers" -> \E i \in 1..Len(wakers[w]) : wakers[w][i] = k
      [] place = "asleep" -> w = 0 /\ k \in asleep

Holders(k) == {h \in Places \X Workers : Holds(h[1], h[2], k)}

Distinct(s) == \A i, j \in 1..Len(s) : s[i] = s[j] => i = j

\* Through steals, forks, polls, sleeps and wakes a task that has not been
\* freed is at exactly one place: it is never lost, no two workers can resume
\* its coroutine, and no queue or waker leads to a block that was freed.
TasksAtOnePlace ==
    /\ \A w \in Workers : Distinct(queue[w]) /\ Distinct(wakers[w])
    /\ \A k \in Tasks :
          IF k \in allocated THEN \E h \in Holders(k) : Holders(k) = {h}
          ELSE Holders(k) = {}

\* The check before seff_resume ("resuming finished coroutine!") never fails.
NeverResumesFinished ==
    \A w \in Workers : pc[w] = "check" => cur[w] \notin finished

\* A worker that finds remaining_tasks at 0 and leaves is right to: no task is
\* left anywhere, and none will be forked.
ExitsOnlyWhenDone ==
    (\E w \in Workers : pc[w] = "exited") => allocated = {} /\ remaining = 0

=============================================================================
