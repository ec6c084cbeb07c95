------------------------------- MODULE Async -------------------------------
(***************************************************************************)
(* The async/await scheduler of src/bench/skynet_bench/libseff_async.c and *)
(* libseff_async_tk.c, running the program of that benchmark: a tree of    *)
(* tasks, each of which starts its children with async, awaits a future of *)
(* each and returns the sum.                                               *)
(*                                                                         *)
(* The two files differ in their queues alone; build says which one this   *)
(* is.  A block stands for the memory of one task: its task_t, and the     *)
(* coroutine's stack with the array of futures that skynet keeps there.    *)
(* Blocks are reused once freed, and nothing checks an access through a    *)
(* pointer that outlived its block: future[f] is the memory, whoever it    *)
(* belongs to by now.                                                      *)
(*                                                                         *)
(* A step is one access to what the workers share.  The queues are atomic: *)
(* no call of cl_queue returns a task twice or loses one (CLQueue), and    *)
(* tk_queue is a work queue until its array is replaced (TKQueue).  A      *)
(* steal under way then may return a task twice and lose another, and      *)
(* nothing below would hold.  So the executions of build "tk" are followed *)
(* up to where a queue would grow: TicketSlots bounds its length.          *)
(***************************************************************************)
EXTENDS Integers, Sequences, FiniteSets, SkynetTree

CONSTANTS
    Builds,         \* the programs considered, of "cl" and "tk"
    NWorkers,       \* n_workers
    Branching,      \* 10 in the code
    Depth,          \* layers of the tree
    Blocks,         \* addresses of tasks
    TicketSlots,    \* bound: slots of a ticket queue, 8 in the code before
                    \* the first replacement (1 << INITIAL_QUEUE_LOG_SIZE)
    NULL

Workers == 0..(NWorkers - 1)
LastLayer == LastLayerOf(Branching, Depth)

\* bench's final_result, and the futures of the frame of skynet in a block.
Final == <<NULL, 0>>
Futures == {Final} \cup (Blocks \X (0..(Branching - 1)))

VARIABLES
    build,      \* which of the two files is running
    pc,         \* worker -> where its thread is
    cur,        \* worker -> current_task
    victim,     \* worker -> i of try_get_task
    held,       \* worker -> the future of its request: promise, payload.fut
    queue,      \* worker -> task_queue, oldest first
    buffer,     \* worker -> task_queue.buffer, of the ticket queue
    remaining,  \* remaining_tasks
    task,       \* block -> the task there, or NULL when it is free
    future      \* future -> blocked, state == READY, result, waiter

vars == <<build, pc, cur, victim, held, queue, buffer, remaining, task,
          future>>

Locked == {"fulfil", "register", "unlock_return", "unlock_await"}
Labels == Locked \cup {"run", "new", "pop", "steal", "idle", "check",
                       "return", "await", "async", "requeue", "delete",
                       "exited", "done"}

\* A task: the node it computes, the future it is to fulfil, the one it
\* waits for, and where skynet is: children started, awaited, summed up.
TaskT == [num : Nat, promise : Futures, waiting : Futures \cup {NULL},
          started : 0..Branching, awaited : 0..Branching, sum : Nat]

AsyncAssumption ==
    /\ Builds \subseteq {"cl", "tk"}
    /\ NWorkers \in Nat \ {0}
    /\ Branching \in Nat \ {0}
    /\ Depth \in Nat \ {0}
    /\ TicketSlots \in Nat \ {0}
    /\ NULL \notin Blocks \cup Futures \cup TaskT

TypeOK ==
    /\ build \in Builds
    /\ pc \in [Workers -> Labels]
    /\ cur \in [Workers -> Blocks \cup {NULL}]
    /\ victim \in [Workers -> 1..NWorkers]
    /\ held \in [Workers -> Futures \cup {NULL}]
    /\ queue \in [Workers -> Seq(Blocks)]
    /\ buffer \in [Workers -> Blocks \cup {NULL}]
    /\ remaining \in Nat
    /\ task \in [Blocks -> TaskT \cup {NULL}]
    /\ future \in [Futures -> [blocked : BOOLEAN, ready : BOOLEAN,
                               result : Nat, waiter : Blocks \cup {NULL}]]

NewTask(num, promise) ==
    [num |-> num, promise |-> promise, waiting |-> NULL,
     started |-> 0, awaited |-> 0, sum |-> 0]

\* After async_scheduler_init and async_schedule of the root.
Init ==
    /\ build \in Builds
    /\ \E k \in Blocks :
          /\ task = [b \in Blocks |->
                        IF b = k THEN NewTask(1, Final) ELSE NULL]
          /\ queue = [w \in Workers |-> IF w = 0 THEN <<k>> ELSE <<>>]
    /\ pc        = [w \in Workers |-> IF w = 0 THEN "run" ELSE "new"]
    /\ cur       = [w \in Workers |-> NULL]
    /\ victim    = [w \in Workers |-> 1]
    /\ held      = [w \in Workers |-> NULL]
    /\ buffer    = [w \in Workers |-> NULL]
    /\ remaining = 1
    /\ future    = [f \in Futures |-> [blocked |-> FALSE, ready |-> FALSE,
                                       result |-> 0, waiter |-> NULL]]

Goto(w, label) == pc' = [pc EXCEPT ![w] = label]

\* A full ticket queue would be replaced: the model stops before that.
Push(w, k) ==
    /\ build = "tk" => Len(queue[w]) < TicketSlots
    /\ queue' = [queue EXCEPT ![w] = Append(@, k)]

\* cl_queue_push, or tk_queue_priority_push
PushFirst(w, k) ==
    IF build = "cl"
    THEN Push(w, k) /\ UNCHANGED buffer
    ELSE /\ buffer' = [buffer EXCEPT ![w] = k]
         /\ IF buffer[w] = NULL THEN UNCHANGED queue ELSE Push(w, buffer[w])

queueVars == <<queue, buffer>>

----------------------------------------------------------------------------
(* async_scheduler_run and try_get_task                                    *)

\* A thread that has not started yet is one that has taken no step.
Run ==
    /\ pc[0] = "run"
    /\ pc' = [w \in Workers |-> "pop"]
    /\ UNCHANGED <<build, cur, victim, held, queueVars, remaining, task,
                   future>>

Join ==
    /\ \A w \in Workers : pc[w] = "exited"
    /\ Goto(0, "done")
    /\ UNCHANGED <<build, cur, victim, held, queueVars, remaining, task,
                   future>>

Got(w, k) ==
    /\ cur' = [cur EXCEPT ![w] = k]
    /\ victim' = [victim EXCEPT ![w] = 1]
    /\ Goto(w, "check")

TryVictim(w, i) ==
    /\ Goto(w, IF i < NWorkers THEN "steal" ELSE "idle")
    /\ victim' = [victim EXCEPT ![w] = IF i < NWorkers THEN i ELSE 1]
    /\ UNCHANGED cur

Pop(w) ==
    /\ pc[w] = "pop"
    /\ \/ /\ buffer[w] # NULL
          /\ Got(w, buffer[w])
          /\ buffer' = [buffer EXCEPT ![w] = NULL]
          /\ UNCHANGED queue
       \/ /\ buffer[w] = NULL
          /\ queue[w] # <<>>
          /\ LET last == Len(queue[w])
             IN  IF build = "cl"
                 THEN /\ Got(w, queue[w][last])
                      /\ queue' = [queue EXCEPT ![w] = SubSeq(@, 1, last - 1)]
                 ELSE /\ Got(w, Head(queue[w]))
                      /\ queue' = [queue EXCEPT ![w] = Tail(@)]
          /\ UNCHANGED buffer
       \/ /\ buffer[w] = NULL
          /\ queue[w] = <<>>
          /\ TryVictim(w, 1)
          /\ UNCHANGED queueVars
    /\ UNCHANGED <<build, held, remaining, task, future>>

\* The Chase-Lev queue answers ABORT when somebody else took the task; the
\* ticket queue, which has not been replaced, is as atomic as a steal.
Steal(w) ==
    /\ pc[w] = "steal"
    /\ LET v == (w + victim[w]) % NWorkers
       IN  \/ /\ queue[v] # <<>>
              /\ Got(w, Head(queue[v]))
              /\ queue' = [queue EXCEPT ![v] = Tail(@)]
           \/ /\ queue[v] = <<>> \/ build = "cl"
              /\ TryVictim(w, victim[w] + 1)
              /\ UNCHANGED queue
    /\ UNCHANGED <<build, held, buffer, remaining, task, future>>

Idle(w) ==
    /\ pc[w] = "idle"
    /\ Goto(w, IF remaining = 0 THEN "exited" ELSE "pop")
    /\ UNCHANGED <<build, cur, victim, held, queueVars, remaining, task,
                   future>>

----------------------------------------------------------------------------
(* skynet, from one request to the next.                                   *)

IsLeaf(t) == t.num >= LastLayer

\* What a task in this state does when it is resumed.
Request(t) ==
    IF IsLeaf(t) THEN "return"
    ELSE IF t.started < Branching THEN "async"
    ELSE IF t.awaited < Branching THEN "await"
    ELSE "return"

\* The future it names in the request, and what it returns.
Subject(k, t) ==
    CASE Request(t) = "return" -> t.promise
      [] Request(t) = "async"  -> <<k, t.started>>
      [] Request(t) = "await"  -> <<k, t.awaited>>

Result(t) == IF IsLeaf(t) THEN t.num - LastLayer ELSE t.sum

\* The answer of an await, read without the lock.
Answered(t) ==
    IF t.waiting = NULL THEN t
    ELSE [t EXCEPT !.waiting = NULL, !.awaited = @ + 1,
                   !.sum = @ + future[t.waiting].result]

----------------------------------------------------------------------------
(* worker_thread                                                           *)

\* The assertion that the awaited future is no longer WAITING: see
\* AwaitedIsReady.
Resume(w) ==
    /\ pc[w] = "check"
    /\ LET k == cur[w]
           t == Answered(task[k])
           f == task[k].waiting
       IN  /\ f # NULL => future[f].ready
           /\ task' = [task EXCEPT ![k] = t]
           /\ future' = IF f = NULL THEN future
                        ELSE [future EXCEPT ![f].waiter = NULL]
           /\ held' = [held EXCEPT ![w] = Subject(k, t)]
           /\ Goto(w, Request(t))
    /\ UNCHANGED <<build, cur, victim, queueVars, remaining>>

\* Mutation: the exchange is a plain store.
AcquireWithoutLooking(w) ==
    /\ pc[w] \in {"return", "await"}
    /\ future' = [future EXCEPT ![held[w]].blocked = TRUE]
    /\ Goto(w, IF pc[w] = "return" THEN "fulfil" ELSE "register")
    /\ UNCHANGED <<build, cur, victim, held, queueVars, remaining, task>>

\* SPINLOCK(&promise->blocked, ...) and SPINLOCK(&awaited->blocked, ...)
Acquire(w) ==
    /\ pc[w] \in {"return", "await"}
    /\ ~future[held[w]].blocked
    /\ future' = [future EXCEPT ![held[w]].blocked = TRUE]
    /\ Goto(w, IF pc[w] = "return" THEN "fulfil" ELSE "register")
    /\ UNCHANGED <<build, cur, victim, held, queueVars, remaining, task>>

Unlock(w) ==
    /\ pc[w] \in {"unlock_return", "unlock_await"}
    /\ future' = [future EXCEPT ![held[w]].blocked = FALSE]
    /\ Goto(w, IF pc[w] = "unlock_return" THEN "delete" ELSE "pop")
    /\ UNCHANGED <<build, cur, victim, held, queueVars, remaining, task>>

\* CASE_RETURN: the waiter is pushed while the lock is held.
Fulfil(w) ==
    /\ pc[w] = "fulfil"
    /\ future' = [future EXCEPT ![held[w]].result = Result(task[cur[w]]),
                                ![held[w]].ready = TRUE]
    /\ LET waiter == future[held[w]].waiter
       IN  IF waiter = NULL THEN UNCHANGED queueVars
           ELSE PushFirst(w, waiter)
    /\ Goto(w, "unlock_return")
    /\ UNCHANGED <<build, cur, victim, held, remaining, task>>

Delete(w) ==
    /\ pc[w] = "delete"
    /\ task' = [task EXCEPT ![cur[w]] = NULL]
    /\ remaining' = remaining - 1
    /\ Goto(w, "pop")
    /\ UNCHANGED <<build, cur, victim, held, queueVars, future>>

\* Mutation: the future is not looked at again under the lock.
RegisterAlways(w) ==
    /\ pc[w] = "register"
    /\ task' = [task EXCEPT ![cur[w]].waiting = held[w]]
    /\ future' = [future EXCEPT ![held[w]].waiter = cur[w]]
    /\ UNCHANGED queueVars
    /\ Goto(w, "unlock_await")
    /\ UNCHANGED <<build, cur, victim, held, remaining>>

\* Mutation: the test is the wrong way round.
RegisterSwapped(w) ==
    /\ pc[w] = "register"
    /\ task' = [task EXCEPT ![cur[w]].waiting = held[w]]
    /\ IF ~future[held[w]].ready
       THEN PushFirst(w, cur[w]) /\ UNCHANGED future
       ELSE /\ future' = [future EXCEPT ![held[w]].waiter = cur[w]]
            /\ UNCHANGED queueVars
    /\ Goto(w, "unlock_await")
    /\ UNCHANGED <<build, cur, victim, held, remaining>>

\* CASE_EFFECT(await): from the push, or from the lock's release on, the task
\* is not this worker's any more.
Register(w) ==
    /\ pc[w] = "register"
    /\ task' = [task EXCEPT ![cur[w]].waiting = held[w]]
    /\ IF future[held[w]].ready
       THEN PushFirst(w, cur[w]) /\ UNCHANGED future
       ELSE /\ future' = [future EXCEPT ![held[w]].waiter = cur[w]]
            /\ UNCHANGED queueVars
    /\ Goto(w, "unlock_await")
    /\ UNCHANGED <<build, cur, victim, held, remaining>>

\* Mutation: the child is not counted in.
StartChildUncounted(w) ==
    /\ pc[w] = "async"
    /\ future' = [future EXCEPT ![held[w]].ready = FALSE,
                                ![held[w]].waiter = NULL,
                                ![held[w]].blocked = FALSE]
    /\ \E k \in {b \in Blocks : task[b] = NULL} :
          LET p == cur[w]
              n == task[p].num * Branching + task[p].started
          IN  /\ task' = [task EXCEPT ![k] = NewTask(n, held[w]),
                                      ![p].started = @ + 1]
              /\ PushFirst(w, k)
    /\ Goto(w, "requeue")
    /\ UNCHANGED <<build, cur, victim, held, remaining>>

\* CASE_EFFECT(async): the parent is pushed after its child.
StartChild(w) ==
    /\ pc[w] = "async"
    /\ remaining' = remaining + 1
    /\ future' = [future EXCEPT ![held[w]].ready = FALSE,
                                ![held[w]].waiter = NULL,
                                ![held[w]].blocked = FALSE]
    /\ \E k \in {b \in Blocks : task[b] = NULL} :
          LET p == cur[w]
              n == task[p].num * Branching + task[p].started
          IN  /\ task' = [task EXCEPT ![k] = NewTask(n, held[w]),
                                      ![p].started = @ + 1]
              /\ PushFirst(w, k)
    /\ Goto(w, "requeue")
    /\ UNCHANGED <<build, cur, victim, held>>

Requeue(w) ==
    /\ pc[w] = "requeue"
    /\ Push(w, cur[w])
    /\ Goto(w, "pop")
    /\ UNCHANGED <<build, cur, victim, held, buffer, remaining, task, future>>

Done == pc[0] = "done" /\ UNCHANGED vars

----------------------------------------------------------------------------
Worker(w) ==
    \/ Pop(w) \/ Steal(w) \/ Idle(w) \/ Resume(w) \/ Acquire(w) \/ Unlock(w)
    \/ Fulfil(w) \/ Delete(w) \/ Register(w) \/ StartChild(w) \/ Requeue(w)

Next == Run \/ Join \/ (\E w \in Workers : Worker(w)) \/ Done

Spec == Init /\ [][Next]_vars

\* Threads keep running.
Fairness == WF_vars(Run \/ Join) /\ \A w \in Workers : WF_vars(Worker(w))

FairSpec == Spec /\ Fairness

----------------------------------------------------------------------------
(* Properties.                                                             *)

\* "Spin until the future can be acquired": no two workers are between
\* ACQUIRE_LOCK and RELEASE_LOCK of one future.  It holds as long as no block
\* is reused while a worker is about to release a future in it.
FutureLocks ==
    \A v, w \in Workers :
        pc[v] \in Locked /\ pc[w] \in Locked /\ held[v] = held[w] => v = w

\* assert(current_task->waiting->state != WAITING) never fails: whichever of
\* the worker that returns and the one that awaits comes first, the awaiting
\* task is resumed after its future has been fulfilled.
AwaitedIsReady ==
    \A w \in Workers :
        pc[w] = "check" /\ task[cur[w]] # NULL /\ task[cur[w]].waiting # NULL
            => future[task[cur[w]].waiting].ready

\* When the run is over the root's future holds the sum of the leaves: no
\* result was read too early, lost or counted twice.
TotalIsRight ==
    pc[0] = "done" => 2 * future[Final].result = LastLayer * (LastLayer - 1)

\* async_scheduler_run returns: no waiter is forgotten between the worker
\* that fulfils its future and the one that registers it.
RunReturns == <>(pc[0] = "done")
=============================================================================
