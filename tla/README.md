# libseff in TLA+

libseff is a C library of one-shot, shallow effect handlers on top of stackful
coroutines, with a work-stealing task scheduler, three work queues, actors and
network awaits built on it, and benchmark programs that use them. This directory
holds TLA+ models of its parts, TLC configurations that check them on small
instances, and proofs of their main safety properties for every instance.
`PROJECT.json` maps each definition to the source lines it models, pairs each
property with a mutation of the model that breaks it, and lists the hazards of the
code line by line with the properties that cover them.

    tlc -workers 2 -config MCSeff_core.cfg MCSeff      # a run
    tlapm Seff_proofs.tla                              # the proofs of a module

## The system

| Component | State | Operations | Interacts with |
|---|---|---|---|
| Coroutines and handlers (`src/seff.c`, `src/seff.h`, `asm/seff.S`) | per coroutine: state, parent, handled effects, resume point; per thread: `_seff_current_coroutine`, `%fs:0x70`, `_seff_system_stack`; `default_handlers` | new, delete, resume, yield, exit, perform, throw, set default handler | everything below is its client; stacks come from the stack policy |
| Segmented stacks (`src/mem/seff_mem_segmented.*`) | list of segments of each coroutine, `frame_ptr` | allocate, release, `__morestack` and its return | called by compiled code when a frame does not fit; switches to the system stack |
| Syscall wrappers (`MAKE_SYSCALL_WRAPPER`) | paused stack and stack top of the thread | call on the thread's own stack | `_seff_system_stack` |
| Scheduler (`scheduler/scheff.c`) | workers with a queue each, `remaining_tasks`, tasks | schedule, run, worker loop; effects fork, poll, sleep, wake | resumes tasks as coroutines; queues; callbacks `poll_condition`, `must_sleep` |
| Queues (`utils/tl_queue.c`, `tk_queue.c`, `cl_queue.c`) | circular array, head/tail or top/bottom, buffer, lock | push, priority push, pop, steal | one owner, any number of thieves |
| Actors (`utils/actors.c`) | mailbox ring, two locations, two sizes | send, receive | tasks of the scheduler, `scheff_poll` |
| Network awaits (`utils/net.c`) | none of their own | listen, accept, receive, send, send all | syscall wrappers, `scheff_poll`, the kernel's sockets |
| HTTP server (`bench/http_server_bench`) | a listener, a task and a buffer per connection | listener, connection | network awaits, scheduler |
| Skynet (`bench/skynet_bench`, `skynet_syscall_bench`) | a tree of tasks; futures or promises; two schedulers of its own | async, await, fulfil; sleep or poll | scheduler, queues, coroutines |
| Chameneos (`bench/chameneos_bench`) | creatures, a broker | meet, finish | actors, coroutines |
| Prefetching lookups (`bench/prefetching_lookups_bench`) | a ring of coroutines | binary search that suspends at each read | coroutines |

### What is hard, and what makes each part correct

* **Coroutines.** Performing an effect may suspend a whole chain of coroutines
  through the one that handles it, and that chain may be resumed later, under
  other handlers, on another thread. The three thread-locals, the parent
  pointers and the resume points have to stay in step through all of it, and the
  library checks nothing at run time. Correct means: the thread-locals agree
  with the stack that is executed; a context is used once; the handler lookup
  reads valid blocks and ends; the system stack is not overwritten.
* **Segmented stacks.** A call may grow the stack, a yield or exit may leave it
  in the middle of calls, and alignment takes room that nobody reserved. Correct
  means: rsp, the stack top and `frame_ptr` name one segment; what frames lose to
  alignment does not add up, and the padding of the headers holds it; no segment
  is lost or freed twice.
* **Scheduler.** A task is at every moment in one worker's hands, in one queue,
  in a buffer, or asleep with a waker. It changes place in the middle of a
  handler while the handler still runs (`must_sleep`, fork's push). Correct
  means: no task is lost, duplicated or used after it is freed; a worker leaves
  only when nothing is left; `scheff_run` returns.
* **Queues.** Lock-free races for the head, arrays that are replaced under
  thieves, delayed stores. Correct means: each is a work queue.
* **Actors.** Two counters and two locations that senders and the actor move
  independently. Correct means: slots are not written twice, messages arrive,
  each once, in each sender's order.
* **Futures and promises.** The task that awaits and the one that fulfils look at
  the same word from two workers, and the word lies in the frame of a task that
  may run and end meanwhile. Correct means: nobody sleeps for ever, nobody reads
  a result too early, the sum is right.
* **Network.** Calls that block, take part of the data or fail, and a client that
  closes or resets between any two of them. Correct means: each descriptor has
  one owner, responses are whole, a broken connection is given up.

## Modules

### Coroutines

`Seff` is the core. The variables `live state parent handled rp` are the fields
of the `seff_coroutine_t` blocks, `current stackTop sysStack` the
thread-locals, `running` is the stack rsp points into. A machine context is
represented by the stack it lives on, a stack top likewise. Each switch of
`seff.S` is one step (nothing else can run on the thread, and nobody else
touches the coroutine): `Resume`, `YieldTo`, `ExitTo`. `seff_locate_handler` is
a loop over memory other threads write, so `BeginLocate`, one `LocateNext` per
iteration, and the switch or the default handler at its end are separate steps.

The client is any program that keeps to the one-shot discipline: `resumable` is
its permission to resume (or delete) a coroutine, given by `seff_coroutine_new`
and by the return of `seff_resume` with a request, and used up by
`seff_resume`. The library neither stores nor checks this; without it nothing
below holds, and the library promises nothing. A coroutine that a `seff_throw`
passes over is left PAUSED with nobody's permission: in the model, as in the
code, it leaks. `Yield` stands for `YIELD` with the running coroutine's own
handle, the way clients and tests use it; a yield to an outer handler is the
switch that `PerformHandled` makes.

`EffectHandlers` is what the library promises: each thread has a stack of
handler frames; perform captures the frames from the innermost handler up;
resume puts them back. `SeffRefinement` maps the pointers of `Seff` to those
frames. `SeffInductive` is the inductive invariant, `Seff_proofs` has the
theorems.

### Segmented stacks and syscall wrappers

`SegStack` looks at the same switches on one thread, this time for what they do with
memory. `size prev next` are the fields of the segments' headers, `frame_ptr` and `rp`
those of the coroutines, `regs` the machine's rsp and `%fs:0x70`. An address is a
segment and an offset in it, in bytes; the header lies at negative offsets, its
padding first. `calls[k]` are the calls in progress on a coroutine, so that a yield or
exit can happen in the middle of them. `Call` is the prologue's check with, if the
frame does not fit, `__morestack`; `CallReturns` goes back through it. The check
(`Fits`) is the compiler's and external where `__morestack_non_split` does not make
it: clang compares rsp alone when the frame has less than 256 bytes (`SmallFrame`),
else rsp less the frame, with the return address already pushed;
`__morestack_non_split` compares with two return addresses pushed. `EnterWrapper` and
`LeaveWrapper` are the two switches of a wrapper. Which coroutines form the chain that
runs is `Seff`'s subject; here `chain` and `captured` are taken as given.

### Scheduler

`Scheff`: every worker runs the loop of `scheff_worker_thread`; a step is one
access to something workers share. The queues are the abstract ones of
`WorkQueue`, which `tl_queue`, with which the scheduler is built, is proved to
implement. `allocated` and `finished` are the task blocks and the state of their
coroutines; a block may be reused once freed. The bodies of tasks are arbitrary.
`asleep` is the client's side of `scheff_sleep`/`scheff_wake`: the wakers a
`must_sleep` callback has published; a client takes each of them once.

### Queues

`CircularArray` is the array that the three queues keep their elements in. An
array is known by its size: a queue only ever replaces its array by one of twice
the size, so no two of a queue's arrays are alike, and a slot nobody has written
holds `Garbage`.

`QueueConstants` has the constants of the locked queue and of the Chase-Lev deque.
`WorkQueue` is the promise: a FIFO and a spare element. `TLQueue` is `tl_queue.c`
with one step per access to lock, head and tail, array pointer or slot;
`TLQueueRefinement` maps it to `WorkQueue` (a push takes effect at the store of
tail, a take at the store of head). `TKQueue` is `tk_queue.c` in the same grain,
`CLQueue` is `cl_queue.c` with the store buffer of the owner: on x86-64, the only
target of `seff.S`, relaxed, acquire and release accesses are plain moves, and
only a store followed by a load is reordered. The thieves store nothing but the
compare-and-swap. In `TLQueue` the lock, and in `TKQueue` the fact that the owner
and the thieves meet only at head and at the store of tail, which keeps the
program order of stores, make sequentially consistent steps enough on that
machine.

### Actors and their clients

`Actors` is the mailbox of `actors.c`: `actor_send` and `actor_recv` in steps of
one atomic or slot access. The two poll conditions are the guards of
`HasSpacePoll` and `HasMsgPoll`. With `NDEBUG` false a failed `assert(result)`
ends the process; with it true the actor goes on and the message is skipped.

`Chameneos` has the three programs of the benchmark: creatures and broker as
actors, creatures as coroutines wrapped in actors (both `style = "actors"`), and
main handling `meet` itself (`"direct"`). Its actors run on one thread, so a
mailbox is a bounded FIFO here; the order in which the scheduler runs them is
open.

### Skynet

`Async` is the async/await scheduler of `libseff_async.c` (`build = "cl"`) and
`libseff_async_tk.c` (`"tk"`) with the benchmark's tree of tasks. Futures lie in
the frame of the task that awaits them: `future` is indexed by the memory block
and the position in it, blocks are reused when a task is freed, and a pointer
that outlived its block reads or writes what is there now. The queues are atomic. For
the ticket queue that is right until its array is replaced (`TicketImplementsWorkQueue`
below), and wrong afterwards (`tk_queue_grow`): so a run of the build `"tk"` is followed
up to the point where a queue that holds `TicketSlots` tasks would grow. In the code
that is 8 (`INITIAL_QUEUE_LOG_SIZE` 3).

`Promises` extends `Scheff` with the client of `libseff_scheff_sleep.c` and
`libseff_scheff_poll.c`. The body of a task is no longer arbitrary: each of
`Scheff`'s actions that stands for the task or its callbacks happens only when
the function `skynet` of that task does it, and the wakers are those the promises
hold. `SkynetSeq` is the version on coroutines alone and the one with system
calls: the chain from the root to a leaf is captured and resumed at each leaf.
The code also looks for a child that has already finished, which would be counted again;
no execution has one, and the case has no action.
`SkynetTree` has the numbers of the nodes that the three share.

### Network

`HttpServer` composes `net.c` with the server's two functions: `listen_tcp_socket`
with each of its calls that may fail, the accept loop that forks a task per
connection, and the connection's loop of receive, parse and send, with the
awaits' polls and retries. The sockets of the kernel and the clients are
external: a client connects, sends pieces of requests, reads, closes or resets at
any moment, and the system may shut the listening socket. Descriptor 0 is open when the
program starts (`Stdin`). It matters because `await_accept4` returns 0 when the listening
socket hangs up, and `listener_fun` tests for -1 only: it forks a task on descriptor 0,
which that task closes (`AcceptPoll`). One step is one system call. What is in the
receive buffer behind a complete request is dropped with it, as in the code: a second
request that arrives with the first gets no answer.

### Prefetching lookups

`MultiLookup` has the three programs that interleave binary searches over a ring
of coroutines: `coros`, `start` and `size` are the ring's fields, `search[i]` the
locals of the coroutine of lookup i. The number of streams is what the user asks for:
the programs do not compare it with the 256 places of the ring, and a full ring refuses
a coroutine without a word (`Enqueue`).

### Modules for TLC

`MCSeff`, `MCScheff`, `MCActors`, `MCTKQueue`, `MCAsync` and `MCSegStack`
name the model values and symmetries. `MCQueues`, `MCSkynet` and `MCPrograms` put programs
of one kind side by side: an execution runs one of them, and the variables of the
others keep a constant value.

Definitions commented as *Mutation* are slips (a dropped guard, a missing swap,
an off-by-one); putting one in the place of the definition it varies must break
the property `PROJECT.json` pairs it with.

## Runs

| Run | Instance | What it shows |
|---|---|---|
| `seff_core` (`MCSeff`) | 3 coroutines, 1 thread, 1 effect, a main stack of 2 depths | `TypeOK CurrentIsRunning OneShot ContextsLive LocateReadsValidBlocks SystemStackIsFree ImplementsEffectHandlers`: chains of three captured, resumed, thrown through and deleted |
| `seff_live` (`MCSeff`) | 2 coroutines, 2 threads, fair | `LocateTerminates`; `PointersFormChains`, the inductive invariant with its witness, when chains migrate |
| `seg_stack` (`MCSegStack`) | 2 coroutines, 3 segments, frames of 248 and 520 bytes, one below and one above `SmallFrame`, with or without the syscall allowance, parameters of 304 bytes, 2 nested calls | `TypeOK StackTopIsOfSegmentInUse FramesFit SegmentsAccountedFor` |
| `red_zone` (`MCSegStack`) | 1 coroutine, 2 segments, one call of 264 bytes | violation of `RedZoneFits` |
| `scheff_workers` (`MCScheff`) | 3 workers, 3 task blocks, all scheduled, 3 effects | `TypeOK NeverResumesFinished TasksAtOnePlace ExitsOnlyWhenDone` |
| `queues` (`MCQueues`) | owner and 2 thieves; `TLQueue` and `CLQueue` with arrays of 1, 2, 4 slots and 4 elements, `CLQueue` with a store buffer, `TKQueue` with arrays of 2 and 4 and 3 elements | `QueuesTypeOK`; `NoFreedAccess ImplementsWorkQueue` (`TLQueue`), `TicketImplementsWorkQueue` (`TKQueue`), `DequeTypeOK TakenOnce NoneLost` (`CLQueue`) |
| `tk_queue_grow` (`MCTKQueue`) | owner, 1 thief, arrays of 1, 2, 4 slots | violation of `TakenOnce` |
| `actors_send` (`MCActors`) | 3 senders, 2 slots, 3 messages, fair | `TypeOK WritesAreExclusive ArriveInOrder EverythingArrives` |
| `actors_assert` (`MCActors`) | 2 senders, 2 slots, 2 messages | violation of `TakesAMessage` |
| `skynet` (`MCSkynet`) | `Async` (both builds) and `Promises` (both styles) with 2 workers, 4 blocks, branching 3, depth 2; `SkynetSeq` with branching 2 and 3, depth 1 to 3; fair | `ProgramTypeOK FutureLocks AwaitedIsReady SleepersAreAwaited TotalIsRight RunReturns` |
| `async_unlock` (`MCAsync`) | 3 workers, 5 blocks, branching 2, depth 3 | violation of `FutureLocks` |
| `programs` (`MCPrograms`) | server with descriptor 0 and 2 more, 2 addresses, 2 clients, 3 pieces, buffers of 2 and 1 pieces; crowds of 3 chameneos, 3 meetings, mailboxes of 2; 3 lookups in arrays of up to 4 elements, a ring of 2 places and 0 to 3 streams; fair | `ProgramTypeOK DescriptorsAreOwned ResponsesAreWhole ResetsAreReclaimed ResultsAreRight ProgramsEnd` |

Bounds.

* *Coroutines.* Three coroutines are the least with which a handler, an intermediate
  coroutine and a performer are distinct (`seff_core`), and two threads the least with
  which a coroutine migrates (`seff_live`). Three on two threads would be neither's
  question: all of `Seff`'s safety properties and its refinement are proved for any
  number of both, and what `seff_live` checks of two threads is the invariant those
  proofs rest on.
* *Segments.* Three segments let one coroutine grow while the other exists and return
  and grow again. One frame is compared, one is not, and neither is a multiple of
  16, so that the alignment bites. The syscall allowance is 16 bytes instead of 8192
  so that such a call fits in some segments and not in others: a kept segment is both
  reused and replaced, also for its parameters alone. `red_zone` has the sizes of the
  code.
* *Tasks.* Three blocks let a task fork, sleep and be woken while a third is stolen;
  freed blocks come back. A tree of depth 2 with branching 3 has a parent that awaits
  one child while others run on the other worker and are freed; only the root's frame
  holds futures then, so that in `skynet` no future's memory is reused, and
  `async_unlock` has the depth that such reuse needs. The four tasks never fill a
  ticket queue of 8 slots.
* *Queues.* First arrays of one or two slots wrap and are replaced within a few
  pushes, and nothing but the pushes bounds the replacements; a third thread gives
  thief against thief besides thief against owner. Two states of the deque that differ
  only in locals no later step of a call reads are one state to TLC (the view
  `LiveState`); no property of the deque but its type invariant mentions locals.
* *Server.* Two descriptors besides 0 are one listener and one connection: the
  descriptor is reused by the second client, and opening another socket then fails;
  once descriptor 0 is closed, a connection gets it.
* *Lookups.* A ring of 2 places with 0, 1, 2 and 3 streams and 3 lookups is empty from
  the start, half full, full, and too small.
* `MaxRequests`, `MaxScheduled`, `MaxPush`, `MaxSend`, `MaxMainSp`, `MaxCalls`,
  `MaxClients` and `MaxPieces` bound counters that are unbounded in the code.
  `MaxSend` and `MaxPush` are large enough to go around the ring.
* `CHECK_DEADLOCK FALSE` appears where the run ends: senders with nothing left to
  send, an actor parked on an empty mailbox, a process that aborted, a benchmark that
  has returned, a server whose clients have all gone.

### Fairness

* `Seff`: a thread inside `seff_locate_handler` keeps running (weak fairness of
  `Locate`): it is a loop in C without waiting.
* `Actors`: senders inside `actor_send` and the actor keep running; a parked task
  goes on once its poll condition holds, because the scheduler polls it again and
  again and here a condition that holds stays true until the waiter acts or
  another sender takes the place.
* `Async`, `Promises`: each worker thread and the main thread keep running (weak
  fairness of everything one thread does next). No fairness is asked of a poll:
  the queues are FIFO, and a task whose condition is false goes to the end.
* `SkynetSeq`, `MultiLookup`: one thread, which keeps running.
* `HttpServer`: the listener and each connection's task are run, or have their
  condition asked, again and again (weak fairness of each). Clients and kernel
  are under no obligation.
* `Chameneos`: the broker, and some creature that can go on, run in the end:
  what a scheduler does that polls its FIFO queue.

`RunReturns` of `Promises` replaces an assumption on the clients of `Scheff`, that
sleepers are woken, by a client for which it is shown.

## Four disagreements

* `tk_queue_grow`: `tk_queue_steal` loads `self->array` once, and head after it. If the
  owner replaces the array in between and head moves on, the thief reads, at the first head
  it ever sees, a slot of the old array in which nothing was stored for that index; its
  compare-and-swap succeeds, an element that was already taken is returned again, and
  the one at head is lost. No compare-and-swap has to fail for this, so that loading the
  array again after a failed one would not be enough: it has to be loaded after
  head, each time around the loop. `queues` shows that nothing but these overtaken thieves
  departs from the work queue (`TicketImplementsWorkQueue`). The scheduler is built with
  `tl_queue` and does not meet this; `libseff_async_tk.c` is built on it, with 8 slots at
  first, and what is said of it below ends where a queue grows.
* `red_zone`: `decls/seff_types.py` gives a segment's header 128 bytes of padding "to
  allow `__morestack` to run and to host the red zone", and the red zone has 128 bytes. But
  a function that `__morestack` enters in a segment of just the size asked for has
  rsp below the data: the stack was aligned down, by up to 15 bytes, without the stack
  top or the size taking notice, and the return address is pushed on it. Its red zone then
  lies over the canary and the size of the segment. A small frame, which clang
  does not compare, reaches further. `tests/stack_red_zone.c` writes 136 bytes below rsp on a
  stack where rsp is above the data, and does not meet it.
* `actors_assert`: `ready_size` counts messages, not the message at `start`. If
  the sender with the later slot is done first, the actor claims the earlier,
  empty slot, and `assert(result)` fails.
* `async_unlock`: `libseff_async.c` pushes the waiter of a future while it holds
  the future's lock, and the future lies in the waiter's frame. A thief can run
  the waiter to its end and free it; when its memory holds another task's futures,
  the late release unlocks one of those. `libseff_async_tk.c` puts the waiter in
  the buffer nobody steals from, and in `skynet`, where no future's memory is
  reused, `FutureLocks` holds for both.

## Proofs

Eight modules, for every value of the constants.

**`Seff_proofs`**: `TypeCorrectness`, `CurrentCorrect`, `ContextsAreOneShot`,
`ContextsAreLive`, `LocateIsSafe`, `SystemStackCorrect` (`Spec => []TypeOK`,
`CurrentIsRunning`, `OneShot`, `ContextsLive`, `LocateReadsValidBlocks`,
`SystemStackIsFree`). None of the five safety properties is inductive: what a
yield restores depends on what was swapped in long before, below any number of
other coroutines. The inductive invariant (`SeffInductive!Inv`) says that the
blocks form disjoint chains, one per thread and one per resumable coroutine: there
is an *owner* and a *depth* for each coroutine such that parent and resume point
lead exactly one step down the same chain, a thread executes the innermost
coroutine of its chain, and the resume point of a resumable coroutine names the
innermost of its own. The existential quantifier avoids both ghost variables and
recursion. Each step is shown to preserve it by giving the new owner and depth:
`Resume` moves the chain of k on top of the thread's chain, `YieldTo` cuts the
thread's chain at the handler and renumbers it, `ExitTo` takes everything from the
handler up off all chains. TLC checks the same formula, with the witness obtained
by following the pointers, as `PointersFormChains`; `PointersCorrect`
(`Spec => []PointersFormChains`) proves that too: owner and depth of the invariant are
those found by following the pointers, because a chain of depth d is left after d steps.

The second half is the refinement: `SeffIsEffectHandlers` (`Spec =>
ImplementsEffectHandlers`), for any number of coroutines, threads and effects.
`SeffRefinement` reads the frames off the pointers as *the* list that leads from a
coroutine down to the bottom of its chain. That such a list exists follows from owner
and depth, by filling it in from the bottom; that there is only one, from a least
index at which two would differ. Each action is then described by what it does to
lists: a yield or perform cuts the list of its thread at the handler, an exit drops
the part above it, a resume joins two lists; all other lists stay because no pointer
on them is written. From lists come frames, and from frames the step of
`EffectHandlers`. The loop of `seff_locate_handler` needs one more invariant,
`Passed`: the block the loop has reached is on the thread's list, and no frame above
it handles the effect, so that where it stops is the innermost handler, although other
threads resume, exit and delete coroutines meanwhile. A default handler, the steps of
the loop and the main thread's own calls are stutters. `RefinementInv` is these
together with the finiteness of the set of live blocks. `SeffAssumption`: the
addresses are distinct from each other and from NULL, and `ReturnEffect` is no
ordinary effect. The client's permissions are part of `Spec`.

**`Scheff_proofs`**: `TypeCorrectness`, `TasksAreAtOnePlace`,
`FinishedAreNotResumed`, `WorkersLeaveWhenDone`. The invariant has three parts.
*Types, Placed, FinishedInRelease*: every allocated task is at exactly one place
(a queue, a buffer, a hand, a list of wakers, asleep), and a finished one is with
the worker that frees it. Most steps take tasks from wherever they are and put
them at places of one worker; one lemma says that such a move keeps `Placed`, and
for each action it remains to say which tasks move where. *Counted*:
`remaining_tasks` is the number of allocated tasks, plus the workers between
counting a fork and allocating it, plus those between freeing a task and
uncounting it; this needs cardinalities, and gives that the unsigned counter does
not wrap. *LeftWhenZero*: once a worker has seen 0, the count is 0 and no task is
left that could fork. `ScheffAssumption`: at least one worker, NULL is no task.

`PromisesAreClients` (`PromisesSpec => Spec`) and `SleepersAreKnown`
(`PromisesSpec => []SleepersAreAwaited`) are the second part of the module: every
theorem about the scheduler holds when it runs the skynet programs, and no sleeper is
forgotten. The
invariant adds to the property that a task in one of the scheduler's handlers stands
where the handler was asked for, so that the promise `must_sleep` looks at is the one
the task awaits. One lemma says what keeps a sleeper known: its place in its own list
of promises, and the promise's state or the program of the task that fulfilled it,
stay as they are. That they do rests on `TasksInv` of the scheduler, used as a lemma:
a task in a worker's hand is in no other's and not asleep, so no step of a worker
touches the program of a sleeper or of another worker's task. `PromisesAssumption`:
`Branching` and `Depth` are positive, and `Styles` holds no third program.

The third part is about `Async`: `AsyncTypeCorrectness`, `AwaitedFuturesAreReady`
(`A!Spec => []A!AwaitedIsReady`), `NoTaskIsForgotten`, `ThreadsLeaveWhenAllIsDone` and
`FutureLocksExclude`, for any tree, any number of workers and any memory; of the build
with ticket queues they tell the executions in which no queue has to grow (`TicketSlots`),
and nothing of those that go on from there, in which a task may run twice or never.
A worker that tests a future under its lock, a worker that fulfils it, and a thief that
resumes the waiter before the lock is released share the future without owning it. The
invariant `AsyncInv` says where a task can be and what that place implies. *Spots*: in one
queue or one worker's hands. *Serving*: a worker's label and `held` are what its task asked
for. *Frames*: children are all started before the first is awaited, awaited ones are
ready, and a task that waits waits for the next of its own. *Promised*: the promise of a
task that has not returned is not ready, lies in the frame of a living parent, and is no
other's; that is what makes the write through `promise` hit the right memory although
blocks are reused. *WaitersWait* and *Woken*: the registered waiter of a future waits for
it, and a task that waits for a future that is not ready is in no queue and no hands.
*AllKnown* is the converse: a task in no queue and no hands is registered with the future
it waits for, and somebody owes that future. The counting part, `Tally`, has
`remaining_tasks` equal the number of living tasks, and a task that owes the root's future
as long as it is not ready.

`FutureLocksExclude` has a condition (`LocksApply`), and needs one: without it
`async_unlock` is a counterexample. With ticket queues that do not grow, or when the
children of the root are leaves, the lock of a future is not released after its memory
was reused. `LocksInv` says why: with ticket queues the waiter of a future about to be
released is in the buffer of the worker that releases it, or has not been fulfilled
yet (`Pinned`), so that its frame cannot go; in the other case only the root has
futures, and each is used once (`Sole`). `AsyncAssumption`: at least one worker,
`Branching` and `Depth` are positive, NULL is no block, future or task.

The fourth part is about `SkynetSeq` and about the programs of `MCSkynet` together:
`SkynetTypeCorrectness` (`SkynetSpec => []ProgramTypeOK`), `SkynetAwaitsReady`
(`[]AwaitedIsReady`) and `SkynetLocksExclude` (`[](LocksApply => FutureLocks)`). In the
versions without a scheduler a node's `i` is the index of its next child and is unsigned;
that it does not pass the branching needs to know, of every node on the path to the
current leaf, how many of its children have finished (`SeqInv`). `SkynetInv` says which
of the invariants of `Async`, `Promises` and `SkynetSeq` holds of the program that runs.
`SkynetAssumption` is the assumptions of the three.

The fifth part is `SkynetTotalIsRight` (`SkynetSpec => []TotalIsRight`): for any branching
and depth, each program ends with the sum of the numbers of the leaves (`libseff_async_tk.c`
if no ticket queue has to grow on the way), which is
L(L - 1)/2 for L leaves. The argument has two halves. About the tree, without any
program: the leaves below a node are the numbers from `n * Leaves(n)` up to the next
node's, so that a node's value is a difference of two values of x(x - 1)/2, counted from
the first leaf, and adding up the children telescopes (`Value2`, `Partial2`: twice the
value of a node and twice its sum after some children; `LeafValue`, `OneChildMore`,
`AllChildren`, `RootValue`). The recursion over layers is a recursive function whose
values are found by a least counterexample (`Layers`). About the programs: who adds which
number, and when.

* `SeqSums`, of `SkynetSeq`: the chain leads from the root to the node that runs, and main
  has added the leaves before the one the chain has reached.
* `AsyncSums`, of `Async`: a task's `sum` is that of the children it has awaited, a ready
  future of a child holds the child's value, and the promise of a task is the future of
  its node. It rests on `AsyncInv`: that a future is not another's when it is written,
  although blocks are reused, and is ready when it is read.
* `ProgInv`, of `Promises`, where the order of the steps of a worker and a callback
  matters. *Bodies*: how far a task is in its loops. *Slots*: a child's promise is empty,
  holds its sleeping parent, or holds the child's value. *Debts*: a task that has not
  returned is the only one that fulfils its promise, and somebody still owes the root's.
  *Forks*, *Ends*, *Wakes*: what a task stands for while a worker forks, frees or wakes
  for it. *Waits*: who waits is polled, asleep, about to be, or its promise is fulfilled.

In `Promises` the word `state` of a promise is a waker or one of two constants;
`PromisesAssumption` says that no task is one of these (`NULL` and all ones,
`libseff_scheff_sleep.c:13-14`).

**`CircularArray_proofs`** has the lemmas about arrays that both queue proofs use:
indices closer to each other than the size have different slots (`SlotsApart`), an array
of twice the size holds what was copied (`ResizeCopies`) and leaves the others alone
(`ResizeKeeps`), and a store changes one slot (`SetAtKeeps`).

**`TLQueue_proofs`**: `ArrayIsNotFreedInUse` (`Spec => []NoFreedAccess`),
`TypeCorrectness`, and `QueueIsWorkQueue` (`Spec => ImplementsWorkQueue`), for any
number of thieves, any first size and any number of replacements. The first invariant
is mutual exclusion (at most one thread between `Acquire` and `Release`, and only
while `locked`) and, for the thread inside, that its `arr` is the installed array
until `FreeArray` and the new, unfreed one after `Install`. The second adds the bounds
head <= tail <= head + size, and for the thread inside the lock what its locals still
say of the fields (`Stage`): a thread that copies has copied everything up to its
index, one that stores or takes has the head, tail and array it read. From that a push
maps to an append at the store of tail, a take to the removal of the oldest at the
store of head, a take that finds nothing to the abstract empty answer at the read of
tail, and everything else to a stutter. `QueueAssumption`: the owner is a thread, the
first size is positive.

Its second part is about `TKQueue`, as the module `MCQueues` has it:
`QueuesTypeCorrectness` (`QueuesSpec => []QueuesTypeOK`, for either queue) and
`TicketIsWorkQueue` (`QueuesSpec => TicketImplementsWorkQueue`). There is no lock; the
threads meet at head alone. `TicketInv` says: *OwnersStep*: what the owner knows at each
label: a growth starts from a full array, stores and takes use the array in use. *ThievesSteal*,
*HeadsRead*: a head somebody read is at most the head now, and below tail if it is going
to take. *OldestRead*: whoever is about to compare with a head that has not moved, in the
array in use, carries the oldest element; this survives a push because slots closer than
the size differ, a growth because afterwards nobody carries the array in use, and any
other take because then the head has moved. *Newest*: the array in use is the last one
made. A thief whose array was replaced after it read it is left out of the promise,
as it must be (`tk_queue_grow`). `QueuesAssumption`: the owner is a thread, the first size is
positive.

The third part carries the theorems about the deque, below, over to the one in `MCQueues`,
whose steps are those of `CLQueue` (`DequeIs`): `QueuesTakeOnce`, `QueuesLoseNone` and
`DequeTypes` are the properties that the run `queues` checks.

**`CLQueue_proofs`**: `TypeCorrectness` (`Spec => []TypeOK`),
`NoElementTwice` (`Spec => []TakenOnce`) and
`NoElementLost` (`Spec => []NoneLost`), for any number of thieves, any first size, any
number of replacements and a store buffer of any length. The inductive invariant,
`DequeInv`, has a witness V, the element last pushed at each index; only a push changes it.
*Live*: the elements at the indices from top to bottom are those handed in and not
returned, each once. *Window*: there are at most as many as the array has slots. *Buffer*: the
delayed stores come in the order of the program, each element before the bottom
raised over it, each new array before the element that did not fit in the old one.
*Contents*: an array a thief can still load holds, or will hold, the element of every
index in the window, unless it was replaced before that element was pushed. That is what a
thief needs, which reads top, bottom, array and slot at four moments: if top is still
what it read when it stores, then the element it read was the one at top (*Thief*), because
no slot of the window is overwritten and the element was in memory before the bottom the thief
compared with. *Owners* is about the last element: a pop lowers bottom and empties the
store buffer before it reads top, so that either the thief sees the lowered bottom
or the owner meets it at the compare-and-swap. `QueueAssumption`: the owner is a
thread, the first size is positive.

**`Actors_proofs`**: `TypeCorrectness`, `SendersDoNotOverwrite`
(`Spec => []WritesAreExclusive`), `MessagesArriveInOrder`. The first part counts: a place
is reserved from the compare-and-exchange of its sender until the actor gives it
back; a position that was taken is with its sender, reported, or claimed. So the
positions in use span at most the capacity, and since positions are never reused
while slots are, each slot belongs to one position. The second part orders: the
positions of a sender grow with its message numbers, and the actor takes them in
increasing order. Slots and order need `~NDEBUG`, which the theorems assume: with
the assertion compiled out the actor gives back a slot whose sender is still to
write it, in the situation of `actors_assert`.

**`HttpServer_proofs`**: `DescriptorsHaveOneOwner` (`Spec => []DescriptorsAreOwned`)
and `ResponsesArriveWhole` (`Spec => []ResponsesAreWhole`). The first invariant,
`DescriptorInv`, ties the kind of each descriptor to who holds it: what the listener
is about to do says whether it has a descriptor and of which kind, and a connection
has exactly one task. Descriptor 0 is left out of the property, and of that invariant:
after a hang-up of the listening socket a task has it that nobody gave a connection,
and once it is closed a real connection may get it beside that task. That everything
else holds regardless is part of what is proved. The second, `DataInv`, says for each
connection that what was asked for is what was sent followed by the rest of the
response the task is sending, and that a second attempt to send, after `poll`, finds
room or a broken connection: without that, a partial send could be taken for the
whole. `HttpTypes` adds what the types need: the listener goes on to another address
only while there is one, and what a task keeps between two receives is an incomplete
request, shorter than the buffer. `HttpServerAssumption` bounds nothing from above.

The other parts are about the two benchmark programs beside the server in `MCPrograms`, and end
in `ProgramsTypeCorrectness` (`ProgramsSpec => []ProgramTypeOK`) and `ProgramsAreRight`
(`ProgramsSpec => []ResultsAreRight`). For `MultiLookup` the invariant is `LookupInv`.
*Intervals*: a key that is in the array is inside the interval the coroutine has
narrowed it to, although other searches run in between. *InRing*: the
slots of the ring from `start` on, modulo its capacity, hold every search that runs
once and nothing else, whether the loop fills the ring, turns it or drains it. This is of
the runs whose streams fit in the ring; with more, a search is dropped that the
counters still wait for, and a later turn may resume NULL. What is claimed then is that the
counts are right if the loops end nevertheless; else the program crashes. *Loops*:
what the counters of the three programs' loops say of the searches not yet begun.
*Counting*: the two counters together count the searches that have answered, the
first those whose key is in the array; since at the end all have answered, the counts
are right.

For `Chameneos` it is `ChamInv`. *Stages*: what the broker's label says of `i`, `asked` and
`remaining`. *BoxOf*: the content of each mailbox follows from where its creature and the
broker are, so a creature never finds a message it does not expect. *Requests*,
*Asking*: every creature that asked waits, with one request in the broker's mailbox or
hands, and after its last meeting exactly one final count is on its way; this is why nobody
meets itself (the two requests of a meeting have different senders) and nobody ends
early. *Sums*: the meetings the creatures have counted and those the broker has yet to tell
them are twice the meetings held, with cardinalities, since every creature holds its own
part of the sum. *Counts*: the broker's total is the sum of the final counts received.
`DirectInv` is the same for the style in which main handles `meet`: there the two
creatures of a meeting are neighbours in turn, and differ because there are at least two.
`ProgramsInv` says which of the invariants holds of the program that runs.
`ProgramsAssumption`: each crowd has at least two creatures, the mailboxes and the ring
have room, and keys and arrays are integers, the arrays sorted. The number of
streams may be any natural number.

**`SegStack_proofs`**: `TypeCorrect`, `StackTopFollows` (`Spec =>
[]StackTopIsOfSegmentInUse`), `OverhangIsAll` (`[]FramesFit`), `PaddingNeeded`
(`[]RedZoneFits`, on a condition) and `ReleaseIsExact` (`[]SegmentsAccountedFor`). The
invariant has four parts. *SegmentsInv*: there are lists of segments, one for each
coroutine, disjoint, of which `prev` and `next` are the neighbours, and for each call
in progress the position in the list of the segment it was made in; positions never
fall as calls nest and rise by one with each `__morestack`, so that a return ends
where the call was made although it only follows `prev`. A segment inserted in the
middle renumbers the list behind it, where no call in progress points. *Chains*: a
coroutine is in at most one of the chain that runs and the chains that a resumption
brings back, once, and only the first of a chain that does not run can be resumed or
deleted. *Contexts*: the stack-top property, by place in a chain; a call changes
`frame_ptr` only at the end of the chain that runs, to which no saved context refers.
*ContextsClear*: rsp is never more than `Overhang` bytes below the data of its
segment, and the stack top never more than 15. `Overhang` is `SmallFrame` and 23: 15
of alignment, 8 for the return address, and a frame that is not compared; it is a
bound for any history, because a segment's losses are its own. `PaddingNeeded` draws
the consequence: the red zones stay off the headers if `Padding >= Overhang +
RedZone`. The code has 128 bytes, the sum is 407 with clang's 256, and 151 if every
frame were compared; `red_zone` is the counterexample. That the loops of
`seff_coroutine_release` follow the list is shown from the recursive function they are
modelled with, by a least counterexample. `SegStackAssumption`: there are finitely
many segments, the addresses are distinct from NULL, and sizes are natural numbers.

Only model-checked:

* liveness (`LocateTerminates`, `EverythingArrives`, `RunReturns`, `ResetsAreReclaimed`,
  `ProgramsEnd`): it needs ENABLED, which the prover does not handle.

All other invariants and action properties of the runs that pass are theorems.

## Not modelled

* Fixed-size stacks: one `malloc` per coroutine, no operation of their own.
* The declaration generator in `decls/` prints declarations when the library is
  built.
* The automatic-differentiation benchmark computes floating-point numbers in
  handlers that nest once per operation: its result is outside what TLC computes
  with, its control is what `Seff` and `EffectHandlers` describe.
* Tests and the remaining benchmarks are single calls with fixed arguments.
* Payloads of effects, saved registers and unwind tables are data the properties
  do not depend on; messages of the server's formatting likewise.
* Failing allocations and thread creations: `init_segment` exits the process, and
  where the code ignores the result the hazard is listed.
* A syscall wrapper entered from within one, since no wrapped function of this
  repository calls another; signals that interrupt a system call; a poll that
  fails.
* The SIGPIPE of a send to a connection that was reset: `await_send` does not ask for
  `MSG_NOSIGNAL` (`utils/net.c:203`) and no program of the repository ignores the signal, so
  that the second such send ends the process. `ResetsAreReclaimed` tells what happens where
  it is ignored.
* A growing ticket queue under the async/await scheduler: see `tk_queue_grow`.
* A negative number of streams for the lookups, with which none is ever begun.
* `fork_actor`, `actor_start` and `actor_destroy`, which only allocate, hand a
  task to the scheduler and free.
* The scheduler with the Chase-Lev queue, which a warning in `scheff.c` says may
  livelock: it is built with `tl_queue`, and is modelled with that.
* The relaxed flag of `libseff_scheff_poll.c` is modelled in the order x86-64
  gives its stores; the C memory model gives none.
