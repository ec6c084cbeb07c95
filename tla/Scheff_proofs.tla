---------------------------- MODULE Scheff_proofs ---------------------------
(***************************************************************************)
(* Safety of module Scheff, for any numbers of workers, tasks, requests    *)
(* and scheduled tasks.                                                    *)
(*                                                                         *)
(* Most steps take some tasks from wherever they are and put them at       *)
(* places of one worker; the lemmas of the first sections say so of each   *)
(* step, and that such a move keeps every task at one place.  What is left *)
(* is to count tasks.                                                      *)
(*                                                                         *)
(* The second part is about module Promises, the tasks of the skynet       *)
(* benchmark: they are a client the scheduler admits, and no sleeper is    *)
(* forgotten, for any number of children.                                  *)
(*                                                                         *)
(* The third part is about module Async, the other schedulers of that      *)
(* benchmark: awaited futures are ready when they are read, no task is     *)
(* forgotten, and the locks of the futures exclude, for any tree, workers  *)
(* and memory.  Of the build with ticket queues, libseff_async_tk.c, this  *)
(* and the parts below tell as long as no queue has to grow.               *)
(*                                                                         *)
(* The fourth part is about the skynet versions without a scheduler, and   *)
(* about the choice between all of the programs that MCSkynet makes.       *)
(*                                                                         *)
(* The fifth part is about what these programs compute: the sum of the     *)
(* leaves, for any branching factor and depth.                             *)
(***************************************************************************)
EXTENDS MCSkynet, FiniteSetTheorems, SequenceTheorems, WellFoundedInduction, TLAPS

USE ScheffAssumption

----------------------------------------------------------------------------
(* The inductive invariant.                                                *)

\* What TypeOK says of everything but remaining, which needs counting; a
\* worker has a task where it should, and wakers only while it pushes them.
Types ==
    /\ pc \in [Workers -> Labels]
    /\ cur \in [Workers -> Tasks \cup {NULL}]
    /\ victim \in [Workers -> 1..NWorkers]
    /\ wakers \in [Workers -> Seq(Tasks)]
    /\ resume \in [Workers -> BOOLEAN]
    /\ queue \in [Workers -> Seq(Tasks)]
    /\ buffer \in [Workers -> Tasks \cup {NULL}]
    /\ allocated \in SUBSET Tasks
    /\ finished \in SUBSET Tasks
    /\ polling \in SUBSET Tasks
    /\ asleep \in SUBSET Tasks
    /\ requests \in 0..MaxRequests
    /\ scheduled \in 0..MaxScheduled
    /\ \A w \in Workers : pc[w] \in HandLabels => cur[w] \in Tasks
    /\ \A w \in Workers : pc[w] # "wake" => wakers[w] = <<>>

Has(s, k) == \E i \in 1..Len(s) : s[i] = k

InHand(w, k) == pc[w] \in HandLabels /\ cur[w] = k

Repeats == ~ \A w \in Workers : Distinct(queue[w]) /\ Distinct(wakers[w])

\* No task is at two places, only allocated tasks are anywhere, and none of
\* those is lost.
Placed ==
    /\ ~Repeats
    /\ \A p, q \in Places, v, w \in Workers, k \in Tasks :
          Holds(p, v, k) /\ Holds(q, w, k) => p = q /\ v = w
    /\ \A p \in Places, w \in Workers, k \in Tasks :
          Holds(p, w, k) => k \in allocated
    /\ \A k \in allocated : \E p \in Places, w \in Workers : Holds(p, w, k)

\* The only finished tasks that are allocated are about to be freed.
FinishedInRelease ==
    \A k \in allocated \cap finished :
       \E w \in Workers : pc[w] = "release" /\ cur[w] = k

WorkersAt(label) == {w \in Workers : pc[w] = label}

\* remaining_tasks counts a forked task before it is allocated and a finished
\* one until it is counted out.
Counted ==
    /\ IsFiniteSet(allocated)
    /\ remaining = Cardinality(allocated) + Cardinality(WorkersAt("fork"))
                   + Cardinality(WorkersAt("decrement"))

LeftWhenZero == WorkersAt("exited") # {} => remaining = 0

TasksInv == Types /\ Placed /\ FinishedInRelease

Inv == TasksInv /\ Counted /\ LeftWhenZero

----------------------------------------------------------------------------
(* Sequences of tasks.                                                     *)

LEMMA AppendHas ==
    ASSUME NEW s \in Seq(Tasks), NEW k \in Tasks
    PROVE  /\ Append(s, k) \in Seq(Tasks)
           /\ \A x : Has(Append(s, k), x) <=> x = k \/ Has(s, x)
           /\ Distinct(s) /\ ~Has(s, k) => Distinct(Append(s, k))
<1>1. Append(s, k) \in Seq(Tasks) /\ Len(s) \in Nat
  OBVIOUS
<1>2. /\ Len(Append(s, k)) = Len(s) + 1
      /\ \A i \in 1..Len(s) : Append(s, k)[i] = s[i]
      /\ Append(s, k)[Len(s) + 1] = k
  OBVIOUS
<1>3. 1..(Len(s) + 1) = 1..Len(s) \cup {Len(s) + 1}
  BY <1>1
<1>4. \A x : Has(Append(s, k), x) <=> x = k \/ Has(s, x)
  BY <1>2, <1>3 DEF Has
<1>5. Distinct(s) /\ ~Has(s, k) => Distinct(Append(s, k))
  BY <1>2, <1>3 DEF Has, Distinct
<1> QED
  BY <1>1, <1>4, <1>5

LEMMA TailHas ==
    ASSUME NEW s \in Seq(Tasks), s # <<>>, Distinct(s)
    PROVE  /\ Head(s) \in Tasks
           /\ Tail(s) \in Seq(Tasks)
           /\ \A x : Has(Tail(s), x) <=> x # Head(s) /\ Has(s, x)
           /\ Has(s, Head(s))
           /\ Distinct(Tail(s))
<1>1. /\ Head(s) \in Tasks /\ Tail(s) \in Seq(Tasks) /\ Len(s) \in Nat \ {0}
      /\ Head(s) = s[1] /\ Len(Tail(s)) = Len(s) - 1
      /\ \A i \in 1..(Len(s) - 1) : Tail(s)[i] = s[i + 1]
  BY HeadTailProperties, EmptySeq
<1>2. \A i \in 1..Len(s) : i = 1 \/ (i - 1 \in 1..(Len(s) - 1) /\ s[i] = Tail(s)[i - 1])
  BY <1>1
<1>3. \A i \in 1..(Len(s) - 1) : i + 1 \in 1..Len(s) /\ i + 1 # 1
  BY <1>1
<1>4. ASSUME NEW x PROVE Has(Tail(s), x) <=> x # Head(s) /\ Has(s, x)
  BY <1>1, <1>2, <1>3 DEF Has, Distinct
<1>5. Distinct(Tail(s))
  BY <1>1, <1>3 DEF Distinct
<1>6. Has(s, Head(s))
  BY <1>1 DEF Has
<1> QED
  BY <1>1, <1>4, <1>5, <1>6

LEMMA EmptyHas == Distinct(<<>>) /\ \A x : ~Has(<<>>, x)
BY DEF Distinct, Has

\* A set of tasks in an order: each of them, once.
LEMMA OrderHas ==
    ASSUME NEW S \in SUBSET Tasks, IsFiniteSet(S), NEW s \in Orders(S)
    PROVE  /\ s \in Seq(Tasks)
           /\ Distinct(s)
           /\ \A x : Has(s, x) <=> x \in S
<1> DEFINE n == Cardinality(S)
<1>1. n \in Nat
  BY FS_CardinalityType
<1>2. /\ s \in [1..n -> S]
      /\ \A i, j \in 1..n : s[i] = s[j] => i = j
  BY DEF Orders
<1> HIDE DEF n
<1>3. s \in Seq(Tasks) /\ Len(s) = n
  BY <1>1, <1>2
<1>4. s \in Injection(1..n, S)
  BY <1>2 DEF Injection, IsInjective
<1>5. s \in Surjection(1..n, S)
  <2>1. Cardinality(1..n) = n
    BY <1>1, FS_Interval
  <2> QED
    BY <1>4, <2>1, FS_Injection DEF n
<1>6. \A x \in S : \E i \in 1..n : s[i] = x
  BY <1>5 DEF Surjection
<1> QED
  BY <1>2, <1>3, <1>6 DEF Has, Distinct

----------------------------------------------------------------------------
(* Tasks at their places.                                                  *)

LEMMA PlacesOfTasks ==
    \A w \in Workers, k \in Tasks :
       /\ Holds("queue", w, k) <=> Has(queue[w], k)
       /\ Holds("buffer", w, k) <=> buffer[w] = k
       /\ Holds("hand", w, k) <=> InHand(w, k)
       /\ Holds("wakers", w, k) <=> Has(wakers[w], k)
       /\ Holds("asleep", w, k) <=> w = 0 /\ k \in asleep
BY DEF Holds, Has, InHand

LEMMA PlacesOfTasksNext ==
    \A w \in Workers, k \in Tasks :
       /\ Holds("queue", w, k)' <=> Has(queue'[w], k)
       /\ Holds("buffer", w, k)' <=> buffer'[w] = k
       /\ Holds("hand", w, k)' <=> InHand(w, k)'
       /\ Holds("wakers", w, k)' <=> Has(wakers'[w], k)
       /\ Holds("asleep", w, k)' <=> w = 0 /\ k \in asleep'
BY DEF Holds, Has, InHand

\* The tasks of G are put at place p of worker w, and those of B at place q.
Moved(G, p, B, q, w) ==
    /\ G \subseteq Tasks /\ B \subseteq Tasks /\ G \cap B = {}
    /\ p \in Places /\ q \in Places /\ w \in Workers
    /\ \A r \in Places, v \in Workers, k \in Tasks :
          Holds(r, v, k)' <=> IF k \in G THEN r = p /\ v = w
                              ELSE IF k \in B THEN r = q /\ v = w
                              ELSE Holds(r, v, k)

LEMMA MovedPlaced ==
    ASSUME Types, Placed, NEW G, NEW p, NEW B, NEW q, NEW w, Moved(G, p, B, q, w),
           allocated' = allocated \cup G \cup B, ~Repeats'
    PROVE  Placed'
<1>1. \A r, s \in Places, u, v \in Workers, k \in Tasks :
          Holds(r, u, k)' /\ Holds(s, v, k)' => r = s /\ u = v
  BY DEF Moved, Placed
<1>2. \A r \in Places, v \in Workers, k \in Tasks :
          Holds(r, v, k)' => k \in allocated'
  BY DEF Moved, Placed
<1>3. \A k \in allocated' : \E r \in Places, v \in Workers : Holds(r, v, k)'
  BY DEF Moved, Placed, Types
<1> QED
  BY <1>1, <1>2, <1>3 DEF Placed

LEMMA MovedByPlaces ==
    ASSUME NEW G \in SUBSET Tasks, NEW B \in SUBSET Tasks, G \cap B = {},
           NEW p \in Places, NEW q \in Places, NEW w \in Workers,
           \A v \in Workers, k \in Tasks \ (G \cup B) :
              /\ Has(queue'[v], k) <=> Has(queue[v], k)
              /\ buffer'[v] = k <=> buffer[v] = k
              /\ InHand(v, k)' <=> InHand(v, k)
              /\ Has(wakers'[v], k) <=> Has(wakers[v], k)
              /\ k \in asleep' <=> k \in asleep,
           \A v \in Workers, k \in G \cup B :
              /\ Has(queue'[v], k) <=> v = w /\ IF k \in G THEN p = "queue" ELSE q = "queue"
              /\ buffer'[v] = k <=> v = w /\ IF k \in G THEN p = "buffer" ELSE q = "buffer"
              /\ InHand(v, k)' <=> v = w /\ IF k \in G THEN p = "hand" ELSE q = "hand"
              /\ Has(wakers'[v], k) <=> v = w /\ IF k \in G THEN p = "wakers" ELSE q = "wakers"
              /\ v = 0 /\ k \in asleep' <=> v = w /\ IF k \in G THEN p = "asleep" ELSE q = "asleep"
    PROVE  Moved(G, p, B, q, w)
<1> SUFFICES ASSUME NEW r \in Places, NEW v \in Workers, NEW k \in Tasks
             PROVE  Holds(r, v, k)' <=> IF k \in G THEN r = p /\ v = w
                                        ELSE IF k \in B THEN r = q /\ v = w
                                        ELSE Holds(r, v, k)
  BY DEF Moved
<1>1. CASE r = "queue"
  BY <1>1, PlacesOfTasks, PlacesOfTasksNext
<1>2. CASE r = "buffer"
  BY <1>2, PlacesOfTasks, PlacesOfTasksNext
<1>3. CASE r = "hand"
  BY <1>3, PlacesOfTasks, PlacesOfTasksNext
<1>4. CASE r = "wakers"
  BY <1>4, PlacesOfTasks, PlacesOfTasksNext
<1>5. CASE r = "asleep"
  BY <1>5, PlacesOfTasks, PlacesOfTasksNext
<1> QED
  BY <1>1, <1>2, <1>3, <1>4, <1>5 DEF Places

\* What Placed says, without Holds.
LEMMA OnePlaceOnly ==
    ASSUME Placed, NEW k \in Tasks, NEW v \in Workers, NEW w \in Workers
    PROVE  /\ Has(queue[v], k) =>
                 /\ k \in allocated /\ buffer[w] # k /\ ~InHand(w, k)
                 /\ ~Has(wakers[w], k) /\ k \notin asleep
                 /\ Has(queue[w], k) => v = w
           /\ buffer[v] = k =>
                 /\ k \in allocated /\ ~InHand(w, k)
                 /\ ~Has(wakers[w], k) /\ k \notin asleep
                 /\ buffer[w] = k => v = w
           /\ InHand(v, k) =>
                 /\ k \in allocated /\ ~Has(wakers[w], k) /\ k \notin asleep
                 /\ InHand(w, k) => v = w
           /\ Has(wakers[v], k) =>
                 /\ k \in allocated /\ k \notin asleep
                 /\ Has(wakers[w], k) => v = w
           /\ k \in asleep => k \in allocated
<1>1. 0 \in Workers
  BY DEF Workers
<1>2. /\ "queue" \in Places /\ "buffer" \in Places /\ "hand" \in Places
      /\ "wakers" \in Places /\ "asleep" \in Places
  BY DEF Places
<1>3. \A p, q \in Places, u, x \in Workers :
          /\ Holds(p, u, k) /\ Holds(q, x, k) => p = q /\ u = x
          /\ Holds(p, u, k) => k \in allocated
  BY DEF Placed
<1> QED
  BY <1>1, <1>2, <1>3, PlacesOfTasks

\* QUEUE(push) and QUEUE(priority_push).
LEMMA PushHas ==
    ASSUME Types, ~Repeats, NEW w \in Workers, NEW k \in Tasks, ~Has(queue[w], k),
           Push(w, k)
    PROVE  /\ queue' \in [Workers -> Seq(Tasks)]
           /\ \A v \in Workers : Distinct(queue'[v])
           /\ \A v \in Workers, x \in Tasks :
                 Has(queue'[v], x) <=> (v = w /\ x = k) \/ Has(queue[v], x)
<1>1. queue[w] \in Seq(Tasks) /\ Distinct(queue[w])
  BY DEF Types, Repeats
<1>2. /\ Append(queue[w], k) \in Seq(Tasks) /\ Distinct(Append(queue[w], k))
      /\ \A x : Has(Append(queue[w], k), x) <=> x = k \/ Has(queue[w], x)
  BY <1>1, AppendHas
<1>3. \A v \in Workers : queue'[v] = IF v = w THEN Append(queue[w], k) ELSE queue[v]
  BY DEF Push, Types
<1>4. queue' \in [Workers -> Seq(Tasks)]
  BY <1>2 DEF Push, Types
<1> QED
  BY <1>2, <1>3, <1>4 DEF Repeats

LEMMA PriorityPushHas ==
    ASSUME Types, ~Repeats, NEW w \in Workers, NEW k \in Tasks, ~Has(queue[w], buffer[w]),
           PriorityPush(w, k)
    PROVE  /\ queue' \in [Workers -> Seq(Tasks)]
           /\ buffer' \in [Workers -> Tasks \cup {NULL}]
           /\ \A v \in Workers : Distinct(queue'[v])
           /\ \A v \in Workers : buffer'[v] = IF v = w THEN k ELSE buffer[v]
           /\ \A v \in Workers, x \in Tasks :
                 Has(queue'[v], x) <=> (v = w /\ x = buffer[w]) \/ Has(queue[v], x)
<1>1. /\ buffer' \in [Workers -> Tasks \cup {NULL}]
      /\ \A v \in Workers : buffer'[v] = IF v = w THEN k ELSE buffer[v]
  BY DEF PriorityPush, Types
<1>2. CASE buffer[w] = NULL
  BY <1>1, <1>2 DEF PriorityPush, Types, Repeats
<1>3. CASE buffer[w] # NULL
  <2>1. buffer[w] \in Tasks /\ Push(w, buffer[w])
    BY <1>3 DEF PriorityPush, Types
  <2> QED
    BY <1>1, <2>1, PushHas
<1> QED
  BY <1>2, <1>3

\* The head of a queue is taken from it.
LEMMA TakeHas ==
    ASSUME Types, ~Repeats, NEW w \in Workers, queue[w] # <<>>,
           queue' = [queue EXCEPT ![w] = Tail(@)]
    PROVE  /\ Head(queue[w]) \in Tasks
           /\ Has(queue[w], Head(queue[w]))
           /\ queue' \in [Workers -> Seq(Tasks)]
           /\ \A v \in Workers : Distinct(queue'[v])
           /\ \A v \in Workers, x \in Tasks :
                 Has(queue'[v], x) <=> Has(queue[v], x) /\ ~(v = w /\ x = Head(queue[w]))
<1>1. queue[w] \in Seq(Tasks) /\ Distinct(queue[w])
  BY DEF Types, Repeats
<1>2. \A v \in Workers : queue'[v] = IF v = w THEN Tail(queue[w]) ELSE queue[v]
  BY DEF Types
<1>3. queue' \in [Workers -> Seq(Tasks)]
  BY <1>1, TailHas DEF Types
<1> QED
  BY <1>1, <1>2, <1>3, TailHas DEF Repeats

----------------------------------------------------------------------------
(* Steps that leave every task at its place.                               *)

LEMMA UnmovedTasks ==
    ASSUME TasksInv, NEW w \in Workers, NEW label \in Labels, Goto(w, label),
           Types', UNCHANGED <<queue, buffer, wakers, cur, asleep, allocated>>,
           pc[w] \in HandLabels <=> label \in HandLabels,
           pc[w] # "release", finished' \ {cur[w]} \subseteq finished,
           cur[w] \in finished' /\ cur[w] \in allocated =>
              cur[w] \in finished \/ label = "release"
    PROVE  TasksInv'
<1>1. \A v \in Workers : pc'[v] = IF v = w THEN label ELSE pc[v]
  BY DEF Goto, TasksInv, Types
<1>2. ~Repeats'
  BY DEF TasksInv, Placed, Repeats
<1>3. \A v \in Workers, k \in Tasks : InHand(v, k)' <=> InHand(v, k)
  BY <1>1 DEF InHand
<1>4. "hand" \in Places
  BY DEF Places
<1>5. Moved({}, "hand", {}, "hand", w)
  BY <1>3, <1>4, MovedByPlaces
<1>6. Placed'
  <2>1. Types /\ Placed /\ allocated' = allocated \cup {} \cup {}
    BY DEF TasksInv
  <2> QED
    BY <1>2, <1>5, <2>1, MovedPlaced
<1>7. FinishedInRelease'
  BY <1>1 DEF TasksInv, FinishedInRelease
<1> QED
  BY <1>6, <1>7 DEF TasksInv

LEMMA QuietTasks ==
    ASSUME TasksInv, NEW w \in Workers, NEW label \in Labels, Goto(w, label),
           UNCHANGED <<queue, buffer, wakers, cur, asleep, allocated>>,
           pc[w] \in HandLabels <=> label \in HandLabels,
           pc[w] # "release", pc[w] = "wake" => wakers[w] = <<>>,
           victim' \in [Workers -> 1..NWorkers], resume' \in [Workers -> BOOLEAN],
           finished' \in SUBSET Tasks, polling' \in SUBSET Tasks,
           requests' \in 0..MaxRequests, scheduled' \in 0..MaxScheduled,
           finished' \ {cur[w]} \subseteq finished,
           cur[w] \in finished' /\ cur[w] \in allocated =>
              cur[w] \in finished \/ label = "release"
    PROVE  TasksInv'
<1>1. \A v \in Workers : pc'[v] = IF v = w THEN label ELSE pc[v]
  BY DEF Goto, TasksInv, Types
<1>2. Types'
  <2>1. pc' \in [Workers -> Labels]
    BY DEF Goto, TasksInv, Types
  <2>2. \A v \in Workers : pc'[v] \in HandLabels => cur'[v] \in Tasks
    BY <1>1 DEF TasksInv, Types
  <2>3. \A v \in Workers : pc'[v] # "wake" => wakers'[v] = <<>>
    BY <1>1 DEF TasksInv, Types
  <2> QED
    BY <2>1, <2>2, <2>3 DEF TasksInv, Types
<1> QED
  BY <1>2, UnmovedTasks

LEMMA MainQuietTasks ==
    ASSUME TasksInv, \/ \E w \in Workers \ {0} : Spawn(w)
                     \/ BecomeWorker0
                     \/ Join
    PROVE  TasksInv'
<1> USE DEF taskVars, wakeVars, queueVars, clientVars
<1>0. 0 \in Workers
  BY DEF Workers
<1>1. ASSUME NEW w \in Workers \ {0}, Spawn(w) PROVE TasksInv'
  BY <1>1, QuietTasks DEF Spawn, Labels, HandLabels, TasksInv, Types
<1>2. CASE BecomeWorker0
  BY <1>0, <1>2, QuietTasks DEF BecomeWorker0, Labels, HandLabels, TasksInv, Types
<1>3. CASE Join
  BY <1>0, <1>3, QuietTasks DEF Join, Labels, HandLabels, TasksInv, Types
<1> QED
  BY <1>1, <1>2, <1>3

LEMMA TryVictimTasks ==
    ASSUME TasksInv, NEW w \in Workers, NEW i \in 1..(NWorkers + 1),
           pc[w] \in {"pop", "steal"}, TryVictim(w, i),
           UNCHANGED <<queueVars, wakeVars, taskVars, clientVars>>
    PROVE  TasksInv'
<1> USE DEF taskVars, wakeVars, queueVars, clientVars
<1> DEFINE label == IF i < NWorkers THEN "steal" ELSE "idle"
<1>1. label \in Labels /\ label \notin HandLabels /\ Goto(w, label)
  BY DEF Labels, HandLabels, TryVictim
<1>2. victim' \in [Workers -> 1..NWorkers]
  BY DEF TryVictim, TasksInv, Types
<1> HIDE DEF label
<1> QED
  BY <1>1, <1>2, QuietTasks DEF TryVictim, HandLabels, TasksInv, Types

LEMMA WorkerQuietTasks ==
    ASSUME TasksInv, NEW w \in Workers,
           Idle(w) \/ ResumeTask(w) \/ Return(w) \/ Decrement(w) \/ Fork(w) \/ Sleep(w)
    PROVE  TasksInv'
<1> USE DEF taskVars, wakeVars, queueVars, clientVars
<1>0. pc[w] \in HandLabels => cur[w] \in Tasks
  BY DEF TasksInv, Types
<1>1. CASE Idle(w)
  <2>1. CASE remaining = 0
    BY <1>1, <2>1, QuietTasks DEF Idle, Labels, HandLabels, TasksInv, Types
  <2>2. CASE remaining # 0
    BY <1>1, <2>2, QuietTasks DEF Idle, Labels, HandLabels, TasksInv, Types
  <2> QED
    BY <2>1, <2>2
<1>2. CASE ResumeTask(w)
  BY <1>2, QuietTasks DEF ResumeTask, CanResume, Labels, HandLabels, TasksInv, Types
<1>3. CASE Return(w)
  <2>1. cur[w] \in Tasks
    BY <1>0, <1>3 DEF Return, HandLabels
  <2> QED
    BY <1>3, <2>1, QuietTasks DEF Return, Labels, HandLabels, TasksInv, Types
<1>4. CASE Decrement(w)
  BY <1>4, QuietTasks DEF Decrement, Labels, HandLabels, TasksInv, Types
<1>5. CASE Fork(w)
  <2>1. requests' \in 0..MaxRequests
    BY <1>5 DEF Fork, Request, TasksInv, Types
  <2> QED
    BY <1>5, <2>1, QuietTasks DEF Fork, Request, Labels, HandLabels, TasksInv, Types
<1>6. CASE Sleep(w)
  <2>1. requests' \in 0..MaxRequests
    BY <1>6 DEF Sleep, Request, TasksInv, Types
  <2> QED
    BY <1>6, <2>1, QuietTasks DEF Sleep, Request, Labels, HandLabels, TasksInv, Types
<1> QED
  BY <1>1, <1>2, <1>3, <1>4, <1>5, <1>6

----------------------------------------------------------------------------
(* Steps that take tasks out of queues and buffers.                        *)

\* k is taken into the hand of w, whose hand was empty.
LEMMA GotTasks ==
    ASSUME TasksInv, NEW w \in Workers, NEW k \in Tasks, pc[w] \in {"pop", "steal"},
           Got(w, k), UNCHANGED <<wakeVars, taskVars, clientVars>>,
           (\E v \in Workers : Has(queue[v], k)) \/ buffer[w] = k,
           queue' \in [Workers -> Seq(Tasks)],
           buffer' \in [Workers -> Tasks \cup {NULL}],
           \A v \in Workers : Distinct(queue'[v]),
           \A v \in Workers, x \in Tasks \ {k} :
              /\ Has(queue'[v], x) <=> Has(queue[v], x)
              /\ buffer'[v] = x <=> buffer[v] = x,
           \A v \in Workers : ~Has(queue'[v], k) /\ buffer'[v] # k
    PROVE  TasksInv'
<1> USE DEF taskVars, wakeVars, queueVars, clientVars
<1>1. /\ \A v \in Workers : pc'[v] = IF v = w THEN "check" ELSE pc[v]
      /\ \A v \in Workers : cur'[v] = IF v = w THEN k ELSE cur[v]
  BY DEF Got, Goto, TasksInv, Types
<1>2. Types'
  <2>1. pc' \in [Workers -> Labels] /\ cur' \in [Workers -> Tasks \cup {NULL}]
    BY DEF Got, Goto, Labels, TasksInv, Types
  <2>2. ASSUME NEW v \in Workers, pc'[v] \in HandLabels PROVE cur'[v] \in Tasks
    <3>1. CASE v = w
      BY <1>1, <3>1
    <3>2. CASE v # w
      BY <1>1, <2>2, <3>2 DEF TasksInv, Types
    <3> QED
      BY <3>1, <3>2
  <2>3. \A v \in Workers : pc'[v] # "wake" => wakers'[v] = <<>>
    BY <1>1 DEF TasksInv, Types
  <2> QED
    BY <2>1, <2>2, <2>3 DEF Got, TasksInv, Types
<1>3. /\ k \in allocated
      /\ \A v \in Workers : ~InHand(v, k) /\ ~Has(wakers[v], k)
      /\ k \notin asleep
  BY OnePlaceOnly DEF TasksInv
<1>4. \A v \in Workers, x \in Tasks :
         InHand(v, x)' <=> IF x = k THEN v = w ELSE InHand(v, x)
  BY <1>1, <1>3 DEF InHand, HandLabels
<1>5. Moved({k}, "hand", {}, "hand", w)
  <2>1. "hand" \in Places
    BY DEF Places
  <2> QED
    BY <1>3, <1>4, <2>1, MovedByPlaces
<1>6. ~Repeats'
  BY DEF Repeats, TasksInv, Placed
<1>7. Placed'
  <2>1. Types /\ Placed /\ allocated' = allocated \cup {k} \cup {}
    BY <1>3 DEF TasksInv
  <2> QED
    BY <1>5, <1>6, <2>1, MovedPlaced
<1>8. FinishedInRelease'
  BY <1>1 DEF TasksInv, FinishedInRelease
<1> QED
  BY <1>2, <1>7, <1>8 DEF TasksInv

LEMMA PopTasks == ASSUME TasksInv, NEW w \in Workers, Pop(w) PROVE TasksInv'
<1> USE DEF queueVars
<1>1. Types /\ Placed /\ ~Repeats /\ pc[w] \in {"pop", "steal"}
  BY DEF TasksInv, Placed, Pop
<1>2. UNCHANGED <<wakeVars, taskVars, clientVars>>
  BY DEF Pop
<1>3. CASE buffer[w] # NULL /\ Got(w, buffer[w]) /\ UNCHANGED queue
           /\ buffer' = [buffer EXCEPT ![w] = NULL]
  <2>1. buffer[w] \in Tasks
    BY <1>1, <1>3 DEF Types
  <2>2. buffer' \in [Workers -> Tasks \cup {NULL}]
    BY <1>1, <1>3 DEF Types
  <2>3. \A v \in Workers : buffer'[v] = IF v = w THEN NULL ELSE buffer[v]
    BY <1>1, <1>3 DEF Types
  <2>4. \A v \in Workers : ~Has(queue[v], buffer[w]) /\ (buffer[v] = buffer[w] => v = w)
    BY <1>1, <2>1, OnePlaceOnly
  <2>5. queue' \in [Workers -> Seq(Tasks)] /\ \A v \in Workers : Distinct(queue'[v])
    BY <1>1, <1>3 DEF Types, Repeats
  <2> QED
    BY <1>1, <1>2, <1>3, <2>1, <2>2, <2>3, <2>4, <2>5, GotTasks
<1>4. CASE queue[w] # <<>> /\ Got(w, Head(queue[w])) /\ UNCHANGED buffer
           /\ queue' = [queue EXCEPT ![w] = Tail(@)]
  <2> DEFINE k == Head(queue[w])
  <2>1. /\ k \in Tasks /\ Has(queue[w], k)
        /\ queue' \in [Workers -> Seq(Tasks)]
        /\ \A v \in Workers : Distinct(queue'[v])
        /\ \A v \in Workers, x \in Tasks :
              Has(queue'[v], x) <=> Has(queue[v], x) /\ ~(v = w /\ x = k)
    BY <1>1, <1>4, TakeHas
  <2> HIDE DEF k
  <2>2. \A v \in Workers : (Has(queue[v], k) => v = w) /\ buffer[v] # k
    BY <1>1, <2>1, OnePlaceOnly
  <2>3. Got(w, k) /\ UNCHANGED buffer /\ buffer' \in [Workers -> Tasks \cup {NULL}]
    BY <1>1, <1>4 DEF Types, k
  <2> QED
    BY <1>1, <1>2, <2>1, <2>2, <2>3, GotTasks
<1>5. CASE TryVictim(w, 1) /\ UNCHANGED queueVars
  <2>1. 1 \in 1..(NWorkers + 1)
    OBVIOUS
  <2> QED
    BY <1>1, <1>2, <1>5, <2>1, TryVictimTasks
<1> QED
  BY <1>3, <1>4, <1>5 DEF Pop

LEMMA StealTasks == ASSUME TasksInv, NEW w \in Workers, Steal(w) PROVE TasksInv'
<1> USE DEF queueVars
<1>1. Types /\ Placed /\ ~Repeats /\ pc[w] \in {"pop", "steal"}
  BY DEF TasksInv, Placed, Steal
<1>2. UNCHANGED <<wakeVars, taskVars, clientVars, buffer>>
  BY DEF Steal
<1> DEFINE u == (w + victim[w]) % NWorkers
<1>3. u \in Workers
  BY <1>1, SMTT(30) DEF Workers, Types
<1>4. \/ queue[u] # <<>> /\ Got(w, Head(queue[u])) /\ queue' = [queue EXCEPT ![u] = Tail(@)]
      \/ TryVictim(w, victim[w] + 1) /\ UNCHANGED queue
  BY DEF Steal
<1> HIDE DEF u
<1>5. CASE queue[u] # <<>> /\ Got(w, Head(queue[u])) /\ queue' = [queue EXCEPT ![u] = Tail(@)]
  <2> DEFINE k == Head(queue[u])
  <2>1. /\ k \in Tasks /\ Has(queue[u], k)
        /\ queue' \in [Workers -> Seq(Tasks)]
        /\ \A v \in Workers : Distinct(queue'[v])
        /\ \A v \in Workers, x \in Tasks :
              Has(queue'[v], x) <=> Has(queue[v], x) /\ ~(v = u /\ x = k)
    BY <1>1, <1>3, <1>5, TakeHas
  <2>2. Got(w, k)
    BY <1>5
  <2> HIDE DEF k
  <2>3. \A v \in Workers : (Has(queue[v], k) => v = u) /\ buffer[v] # k
    BY <1>1, <1>3, <2>1, OnePlaceOnly
  <2>4. UNCHANGED buffer /\ buffer' \in [Workers -> Tasks \cup {NULL}]
    BY <1>1, <1>2 DEF Types
  <2>5. UNCHANGED <<wakeVars, taskVars, clientVars>>
    BY <1>2
  <2> QED
    BY <1>1, <1>3, <2>1, <2>2, <2>3, <2>4, <2>5, GotTasks
<1>6. CASE TryVictim(w, victim[w] + 1) /\ UNCHANGED queue
  <2>1. victim[w] + 1 \in 1..(NWorkers + 1)
    BY <1>1 DEF Types
  <2>2. UNCHANGED <<queueVars, wakeVars, taskVars, clientVars>>
    BY <1>2, <1>6
  <2> QED
    BY <1>1, <1>6, <2>1, <2>2, TryVictimTasks
<1> QED
  BY <1>4, <1>5, <1>6

----------------------------------------------------------------------------
(* Steps that put the task in hand elsewhere, or free it.                  *)

LEMMA HandTask ==
    ASSUME TasksInv, NEW w \in Workers, pc[w] \in HandLabels
    PROVE  /\ cur[w] \in Tasks /\ cur[w] \in allocated /\ InHand(w, cur[w])
           /\ \A v \in Workers :
                 /\ ~Has(queue[v], cur[w]) /\ buffer[v] # cur[w]
                 /\ ~Has(wakers[v], cur[w])
                 /\ InHand(v, cur[w]) => v = w
           /\ cur[w] \notin asleep
<1>1. cur[w] \in Tasks /\ InHand(w, cur[w])
  BY DEF TasksInv, Types, InHand
<1> QED
  BY <1>1, OnePlaceOnly DEF TasksInv

LEMMA PushedTasks ==
    ASSUME TasksInv, NEW w \in Workers, pc[w] \in HandLabels \ {"release"},
           pc[w] = "wake" => wakers[w] = <<>>,
           Push(w, cur[w]), Goto(w, "pop"),
           UNCHANGED <<cur, victim, wakers, buffer, allocated, finished, asleep>>,
           resume' \in [Workers -> BOOLEAN], polling' \in SUBSET Tasks,
           requests' \in 0..MaxRequests, scheduled' \in 0..MaxScheduled
    PROVE  TasksInv'
<1>1. \A v \in Workers : pc'[v] = IF v = w THEN "pop" ELSE pc[v]
  BY DEF Goto, TasksInv, Types
<1>2. /\ cur[w] \in Tasks /\ cur[w] \in allocated /\ InHand(w, cur[w])
      /\ \A v \in Workers :
            /\ ~Has(queue[v], cur[w]) /\ buffer[v] # cur[w]
            /\ ~Has(wakers[v], cur[w])
            /\ InHand(v, cur[w]) => v = w
      /\ cur[w] \notin asleep
  BY HandTask
<1>3. Types /\ ~Repeats
  BY DEF TasksInv, Placed
<1>4. /\ queue' \in [Workers -> Seq(Tasks)]
      /\ \A v \in Workers : Distinct(queue'[v])
      /\ \A v \in Workers, x \in Tasks :
            Has(queue'[v], x) <=> (v = w /\ x = cur[w]) \/ Has(queue[v], x)
  BY <1>2, <1>3, PushHas
<1>5. Types'
  <2>1. pc' \in [Workers -> Labels]
    BY DEF Goto, Labels, TasksInv, Types
  <2>2. \A v \in Workers : pc'[v] \in HandLabels => cur'[v] \in Tasks
    BY <1>1, <1>3 DEF Types, HandLabels
  <2>3. \A v \in Workers : pc'[v] # "wake" => wakers'[v] = <<>>
    BY <1>1, <1>3 DEF Types
  <2> QED
    BY <1>3, <1>4, <2>1, <2>2, <2>3 DEF Types
<1>6. \A v \in Workers, x \in Tasks : InHand(v, x)' <=> x # cur[w] /\ InHand(v, x)
  BY <1>1, <1>2 DEF InHand, HandLabels
<1>7. Moved({cur[w]}, "queue", {}, "queue", w)
  <2>1. "queue" \in Places
    BY DEF Places
  <2> QED
    BY <1>2, <1>4, <1>6, <2>1, MovedByPlaces, SMTT(30)
<1>8. ~Repeats'
  BY <1>3, <1>4 DEF Repeats
<1>9. Placed'
  <2>1. Placed /\ allocated' = allocated \cup {cur[w]} \cup {}
    BY <1>2 DEF TasksInv
  <2> QED
    BY <1>3, <1>7, <1>8, <2>1, MovedPlaced
<1>10. FinishedInRelease'
  BY <1>1 DEF TasksInv, FinishedInRelease
<1> QED
  BY <1>5, <1>9, <1>10 DEF TasksInv

LEMMA PushingTasks ==
    ASSUME TasksInv, NEW w \in Workers,
           \/ PollFails(w)
           \/ Poll(w)
           \/ Requeue(w)
           \/ WakeEnd(w)
    PROVE  TasksInv'
<1> USE DEF taskVars, wakeVars, queueVars, clientVars
<1>1. Types
  BY DEF TasksInv
<1>2. CASE PollFails(w)
  BY <1>1, <1>2, PushedTasks DEF PollFails, CanResume, HandLabels, Types
<1>3. CASE Poll(w)
  <2>1. requests' \in 0..MaxRequests /\ pc[w] \in HandLabels
    BY <1>1, <1>3 DEF Poll, Request, Types, HandLabels
  <2>2. cur[w] \in Tasks
    BY <1>1, <2>1 DEF Types
  <2> QED
    BY <1>1, <1>3, <2>1, <2>2, PushedTasks DEF Poll, Request, Types
<1>4. CASE Requeue(w)
  BY <1>1, <1>4, PushedTasks DEF Requeue, HandLabels, Types
<1>5. CASE WakeEnd(w)
  <2>1. resume' \in [Workers -> BOOLEAN]
    BY <1>1, <1>5 DEF WakeEnd, Types
  <2>2. CASE Push(w, cur[w]) /\ Goto(w, "pop")
    BY <1>1, <1>5, <2>1, <2>2, PushedTasks DEF WakeEnd, HandLabels, Types
  <2>3. CASE UNCHANGED queue /\ Goto(w, "release")
    <3>1. cur[w] \notin finished' \/ cur[w] \in finished
      BY <1>5 DEF WakeEnd
    <3> QED
      BY <1>1, <1>5, <2>1, <2>3, <3>1, QuietTasks
         DEF WakeEnd, Labels, HandLabels, Types
  <2> QED
    BY <1>5, <2>2, <2>3 DEF WakeEnd
<1> QED
  BY <1>2, <1>3, <1>4, <1>5

LEMMA MustSleepTasks ==
    ASSUME TasksInv, NEW w \in Workers, MustSleep(w) PROVE TasksInv'
<1> USE DEF taskVars, wakeVars, queueVars, clientVars
<1>1. Types /\ ~Repeats /\ pc[w] = "sleep" /\ pc[w] \in HandLabels
  BY DEF TasksInv, Placed, MustSleep, HandLabels
<1>2. CASE UNCHANGED asleep /\ Goto(w, "requeue")
  BY <1>1, <1>2, QuietTasks DEF MustSleep, Labels, HandLabels, Types
<1>3. CASE asleep' = asleep \cup {cur[w]} /\ Goto(w, "pop")
  <2>1. \A v \in Workers : pc'[v] = IF v = w THEN "pop" ELSE pc[v]
    BY <1>1, <1>3 DEF Goto, Types
  <2>2. /\ cur[w] \in Tasks /\ cur[w] \in allocated /\ InHand(w, cur[w])
        /\ \A v \in Workers :
              /\ ~Has(queue[v], cur[w]) /\ buffer[v] # cur[w]
              /\ ~Has(wakers[v], cur[w])
              /\ InHand(v, cur[w]) => v = w
    BY <1>1, HandTask
  <2>3. UNCHANGED <<cur, queue, buffer, wakers, allocated, finished>>
    BY DEF MustSleep
  <2>4. Types'
    <3>1. pc' \in [Workers -> Labels]
      BY <1>1, <1>3 DEF Goto, Labels, Types
    <3>2. \A v \in Workers : pc'[v] \in HandLabels => cur'[v] \in Tasks
      BY <1>1, <2>1, <2>3 DEF Types, HandLabels
    <3>3. \A v \in Workers : pc'[v] # "wake" => wakers'[v] = <<>>
      BY <1>1, <2>1, <2>3 DEF Types
    <3>4. asleep' \in SUBSET Tasks
      BY <1>1, <1>3, <2>2 DEF Types
    <3> QED
      BY <1>1, <3>1, <3>2, <3>3, <3>4 DEF MustSleep, Types
  <2>5. \A v \in Workers, x \in Tasks : InHand(v, x)' <=> x # cur[w] /\ InHand(v, x)
    BY <2>1, <2>2, <2>3 DEF InHand, HandLabels
  <2>6. Moved({cur[w]}, "asleep", {}, "asleep", 0)
    <3>1. "asleep" \in Places /\ 0 \in Workers
      BY DEF Places, Workers
    <3> QED
      BY <1>3, <2>2, <2>3, <2>5, <3>1, MovedByPlaces
  <2>7. Placed'
    <3>1. Placed /\ allocated' = allocated \cup {cur[w]} \cup {}
      BY <2>2, <2>3 DEF TasksInv
    <3>2. ~Repeats'
      BY <1>1, <2>3 DEF Repeats
    <3> QED
      BY <1>1, <2>6, <3>1, <3>2, MovedPlaced
  <2>8. FinishedInRelease'
    BY <1>1, <2>1, <2>3 DEF TasksInv, FinishedInRelease
  <2> QED
    BY <2>4, <2>7, <2>8 DEF TasksInv
<1> QED
  BY <1>2, <1>3 DEF MustSleep

LEMMA ReleaseTasks ==
    ASSUME TasksInv, NEW w \in Workers, Release(w) PROVE TasksInv'
<1> USE DEF taskVars, wakeVars, queueVars, clientVars
<1>1. Types /\ Placed /\ ~Repeats /\ pc[w] = "release" /\ pc[w] \in HandLabels
  BY DEF TasksInv, Placed, Release, HandLabels
<1>2. \A v \in Workers : pc'[v] = IF v = w THEN "decrement" ELSE pc[v]
  BY <1>1 DEF Release, Goto, Types
<1>3. /\ cur[w] \in Tasks /\ cur[w] \in allocated /\ InHand(w, cur[w])
      /\ \A v \in Workers :
            /\ ~Has(queue[v], cur[w]) /\ buffer[v] # cur[w]
            /\ ~Has(wakers[v], cur[w])
            /\ InHand(v, cur[w]) => v = w
      /\ cur[w] \notin asleep
  BY <1>1, HandTask
<1>4. /\ UNCHANGED <<cur, queue, buffer, wakers, asleep, finished>>
      /\ allocated' = allocated \ {cur[w]}
  BY DEF Release
<1>5. Types'
  <2>1. pc' \in [Workers -> Labels]
    BY <1>1 DEF Release, Goto, Labels, Types
  <2>2. \A v \in Workers : pc'[v] \in HandLabels => cur'[v] \in Tasks
    BY <1>1, <1>2, <1>4 DEF Types, HandLabels
  <2>3. \A v \in Workers : pc'[v] # "wake" => wakers'[v] = <<>>
    BY <1>1, <1>2, <1>4 DEF Types
  <2> QED
    BY <1>1, <2>1, <2>2, <2>3 DEF Release, Types
<1>6. \A v \in Workers, x \in Tasks : InHand(v, x)' <=> x # cur[w] /\ InHand(v, x)
  BY <1>2, <1>3, <1>4 DEF InHand, HandLabels
<1>7. \A p \in Places, v \in Workers, x \in Tasks :
         Holds(p, v, x)' <=> x # cur[w] /\ Holds(p, v, x)
  BY <1>3, <1>4, <1>6, PlacesOfTasks, PlacesOfTasksNext DEF Places
<1>8. Placed'
  <2>1. ~Repeats'
    BY <1>1, <1>4 DEF Repeats
  <2> QED
    BY <1>1, <1>3, <1>4, <1>7, <2>1 DEF Placed, Types
<1>9. FinishedInRelease'
  BY <1>1, <1>2, <1>4 DEF TasksInv, FinishedInRelease
<1> QED
  BY <1>5, <1>8, <1>9 DEF TasksInv

----------------------------------------------------------------------------
(* Steps that make a task.                                                 *)

LEMMA NewTaskNowhere ==
    ASSUME TasksInv, NEW k \in Tasks, NewTask(k), NEW v \in Workers
    PROVE  ~Has(queue[v], k) /\ buffer[v] # k /\ ~InHand(v, k) /\ ~Has(wakers[v], k)
           /\ k \notin asleep
BY OnePlaceOnly DEF TasksInv, NewTask

LEMMA ScheduleTasks ==
    ASSUME TasksInv, NEW k \in Tasks, Schedule(k) PROVE TasksInv'
<1> USE DEF wakeVars
<1>1. Types /\ ~Repeats /\ NewTask(k) /\ Push(0, k) /\ 0 \in Workers
  BY DEF TasksInv, Placed, Schedule, Workers
<1>2. /\ UNCHANGED <<pc, cur, victim, wakers, resume, buffer, asleep, requests>>
      /\ allocated' = allocated \cup {k}
      /\ finished' = finished \ {k} /\ polling' = polling \ {k}
      /\ scheduled' \in 0..MaxScheduled
  BY <1>1 DEF Schedule, NewTask, Types
<1>3. \A v \in Workers :
         ~Has(queue[v], k) /\ buffer[v] # k /\ ~InHand(v, k) /\ ~Has(wakers[v], k)
         /\ k \notin asleep
  BY <1>1, NewTaskNowhere
<1>4. /\ queue' \in [Workers -> Seq(Tasks)]
      /\ \A v \in Workers : Distinct(queue'[v])
      /\ \A v \in Workers, x \in Tasks :
            Has(queue'[v], x) <=> (v = 0 /\ x = k) \/ Has(queue[v], x)
  BY <1>1, <1>3, PushHas
<1>5. Types'
  BY <1>1, <1>2, <1>4 DEF Types
<1>6. Moved({k}, "queue", {}, "queue", 0)
  <2>1. "queue" \in Places
    BY DEF Places
  <2>2. \A v \in Workers, x \in Tasks : InHand(v, x)' <=> InHand(v, x)
    BY <1>2 DEF InHand
  <2> QED
    BY <1>1, <1>2, <1>3, <1>4, <2>1, <2>2, MovedByPlaces
<1>7. Placed'
  <2>1. Placed /\ allocated' = allocated \cup {k} \cup {}
    BY <1>2 DEF TasksInv
  <2>2. ~Repeats'
    BY <1>1, <1>2, <1>4 DEF Repeats
  <2> QED
    BY <1>1, <1>6, <2>1, <2>2, MovedPlaced
<1>8. FinishedInRelease'
  BY <1>2 DEF TasksInv, FinishedInRelease
<1> QED
  BY <1>5, <1>7, <1>8 DEF TasksInv

LEMMA ForkPushTasks ==
    ASSUME TasksInv, NEW w \in Workers, ForkPush(w) PROVE TasksInv'
<1> USE DEF wakeVars, clientVars
<1> DEFINE c == cur[w]
<1>1. Types /\ ~Repeats /\ pc[w] = "fork" /\ pc[w] \in HandLabels
  BY DEF TasksInv, Placed, ForkPush, HandLabels
<1>2. PICK k \in Tasks : NewTask(k) /\ cur' = [cur EXCEPT ![w] = k]
  BY DEF ForkPush
<1>3. /\ UNCHANGED <<victim, wakers, resume, buffer, asleep, requests, scheduled>>
      /\ allocated' = allocated \cup {k} /\ k \notin allocated
      /\ finished' = finished \ {k} /\ polling' = polling \ {k}
      /\ Push(w, c)
  BY <1>2 DEF ForkPush, NewTask
<1>4. /\ \A v \in Workers : pc'[v] = IF v = w THEN "fork_new" ELSE pc[v]
      /\ \A v \in Workers : cur'[v] = IF v = w THEN k ELSE cur[v]
  BY <1>1, <1>2 DEF ForkPush, Goto, Types
<1>5. /\ c \in Tasks /\ c \in allocated /\ InHand(w, c)
      /\ \A v \in Workers :
            /\ ~Has(queue[v], c) /\ buffer[v] # c /\ ~Has(wakers[v], c)
            /\ InHand(v, c) => v = w
      /\ c \notin asleep
  BY <1>1, HandTask
<1>6. \A v \in Workers :
         ~Has(queue[v], k) /\ buffer[v] # k /\ ~InHand(v, k) /\ ~Has(wakers[v], k)
         /\ k \notin asleep
  BY <1>2, NewTaskNowhere
<1>7. /\ queue' \in [Workers -> Seq(Tasks)]
      /\ \A v \in Workers : Distinct(queue'[v])
      /\ \A v \in Workers, x \in Tasks :
            Has(queue'[v], x) <=> (v = w /\ x = c) \/ Has(queue[v], x)
  BY <1>1, <1>3, <1>5, PushHas
<1>8. \A v \in Workers, x \in Tasks :
         InHand(v, x)' <=> IF x = k THEN v = w ELSE x # c /\ InHand(v, x)
  BY <1>4, <1>5, <1>6 DEF InHand, HandLabels
<1>9. Types'
  <2>1. pc' \in [Workers -> Labels] /\ cur' \in [Workers -> Tasks \cup {NULL}]
    BY <1>1, <1>2 DEF ForkPush, Goto, Labels, Types
  <2>2. ASSUME NEW v \in Workers, pc'[v] \in HandLabels PROVE cur'[v] \in Tasks
    <3>1. CASE v = w
      BY <1>4, <3>1
    <3>2. CASE v # w
      BY <1>1, <1>4, <2>2, <3>2 DEF Types
    <3> QED
      BY <3>1, <3>2
  <2>3. \A v \in Workers : pc'[v] # "wake" => wakers'[v] = <<>>
    BY <1>1, <1>3, <1>4 DEF Types
  <2> QED
    BY <1>1, <1>3, <1>7, <2>1, <2>2, <2>3 DEF Types
<1>10. k # c
  BY <1>3, <1>5
<1> HIDE DEF c
<1>11. Moved({c}, "queue", {k}, "hand", w)
  <2>1. "queue" \in Places /\ "hand" \in Places
    BY DEF Places
  <2> QED
    BY <1>3, <1>5, <1>6, <1>7, <1>8, <1>10, <2>1, MovedByPlaces
<1>12. Placed'
  <2>1. Placed /\ allocated' = allocated \cup {c} \cup {k}
    BY <1>3, <1>5 DEF TasksInv
  <2>2. ~Repeats'
    BY <1>1, <1>3, <1>7 DEF Repeats
  <2> QED
    BY <1>1, <1>11, <2>1, <2>2, MovedPlaced
<1>13. FinishedInRelease'
  BY <1>1, <1>3, <1>4 DEF TasksInv, FinishedInRelease
<1> QED
  BY <1>9, <1>12, <1>13 DEF TasksInv

\* What QUEUE(priority_push) does to a task that is in no queue or buffer.
LEMMA PriorityPushTasks ==
    ASSUME TasksInv, NEW w \in Workers, NEW k \in Tasks, k \in allocated,
           PriorityPush(w, k), UNCHANGED <<allocated, asleep>>,
           \A v \in Workers : ~Has(queue[v], k) /\ buffer[v] # k,
           \A v \in Workers, x \in Tasks \ {k} :
              /\ InHand(v, x)' <=> InHand(v, x)
              /\ Has(wakers'[v], x) <=> Has(wakers[v], x),
           \A v \in Workers : ~InHand(v, k)' /\ ~Has(wakers'[v], k),
           k \notin asleep, \A v \in Workers : Distinct(wakers'[v])
    PROVE  /\ queue' \in [Workers -> Seq(Tasks)]
           /\ buffer' \in [Workers -> Tasks \cup {NULL}]
           /\ Placed'
<1> DEFINE b == buffer[w]
           B == {b} \ {NULL}
<1>1. Types /\ Placed /\ ~Repeats
  BY DEF TasksInv, Placed
<1>2. B \in SUBSET Tasks /\ B \subseteq allocated /\ k \notin B
  BY <1>1, OnePlaceOnly DEF Types
<1>3. ~Has(queue[w], b)
  <2>1. \A i \in 1..Len(queue[w]) : queue[w][i] \in Tasks
    BY <1>1 DEF Types
  <2>2. b \in Tasks => ~Has(queue[w], b)
    BY <1>1, OnePlaceOnly
  <2> QED
    BY <2>1, <2>2 DEF Has
<1>4. \A x \in B : /\ x = b
                   /\ \A v \in Workers :
                         /\ ~Has(queue[v], x) /\ ~InHand(v, x) /\ ~Has(wakers[v], x)
                         /\ buffer[v] = x => v = w
                   /\ x \notin asleep
  BY <1>1, <1>2, OnePlaceOnly
<1>5. /\ queue' \in [Workers -> Seq(Tasks)]
      /\ buffer' \in [Workers -> Tasks \cup {NULL}]
      /\ \A v \in Workers : Distinct(queue'[v])
      /\ \A v \in Workers : buffer'[v] = IF v = w THEN k ELSE buffer[v]
      /\ \A v \in Workers, x \in Tasks :
            Has(queue'[v], x) <=> (v = w /\ x = b) \/ Has(queue[v], x)
  BY <1>1, <1>3, PriorityPushHas
<1>6. \A x \in Tasks : x = b <=> x \in B
  OBVIOUS
<1> HIDE DEF B, b
<1>7. Moved({k}, "buffer", B, "queue", w)
  <2>1. "queue" \in Places /\ "buffer" \in Places
    BY DEF Places
  <2>2. \A v \in Workers, x \in Tasks \ ({k} \cup B) :
           /\ Has(queue'[v], x) <=> Has(queue[v], x)
           /\ buffer'[v] = x <=> buffer[v] = x
    BY <1>5, <1>6 DEF b
  <2>3. \A v \in Workers, x \in B :
           /\ Has(queue'[v], x) <=> v = w
           /\ buffer'[v] # x
           /\ ~InHand(v, x)' /\ ~Has(wakers'[v], x) /\ x \notin asleep'
    BY <1>2, <1>4, <1>5, SMTT(30)
  <2>4. \A v \in Workers :
           /\ ~Has(queue'[v], k)
           /\ buffer'[v] = k <=> v = w
           /\ ~InHand(v, k)' /\ ~Has(wakers'[v], k) /\ k \notin asleep'
    BY <1>2, <1>5, <1>6
  <2> QED
    BY <1>2, <2>1, <2>2, <2>3, <2>4, MovedByPlaces
<1>8. allocated' = allocated \cup {k} \cup B
  BY <1>2
<1>9. ~Repeats'
  BY <1>5 DEF Repeats
<1> QED
  BY <1>1, <1>5, <1>7, <1>8, <1>9, MovedPlaced

LEMMA ForkNewTasks ==
    ASSUME TasksInv, NEW w \in Workers, ForkNew(w) PROVE TasksInv'
<1> USE DEF wakeVars, taskVars, clientVars
<1>1. Types /\ ~Repeats /\ pc[w] = "fork_new" /\ pc[w] \in HandLabels
  BY DEF TasksInv, Placed, ForkNew, HandLabels
<1>2. /\ UNCHANGED <<cur, victim, wakers, resume, allocated, finished, polling>>
      /\ UNCHANGED <<asleep, requests, scheduled>>
  BY DEF ForkNew
<1>3. \A v \in Workers : pc'[v] = IF v = w THEN "pop" ELSE pc[v]
  BY <1>1 DEF ForkNew, Goto, Types
<1>4. /\ cur[w] \in Tasks /\ cur[w] \in allocated /\ InHand(w, cur[w])
      /\ \A v \in Workers :
            /\ ~Has(queue[v], cur[w]) /\ buffer[v] # cur[w]
            /\ ~Has(wakers[v], cur[w])
            /\ InHand(v, cur[w]) => v = w
      /\ cur[w] \notin asleep
  BY <1>1, HandTask
<1>5. \A v \in Workers, x \in Tasks : InHand(v, x)' <=> x # cur[w] /\ InHand(v, x)
  BY <1>2, <1>3, <1>4 DEF InHand, HandLabels
<1>6. /\ queue' \in [Workers -> Seq(Tasks)]
      /\ buffer' \in [Workers -> Tasks \cup {NULL}]
      /\ Placed'
  <2>1. \A v \in Workers : Distinct(wakers'[v])
    BY <1>1, <1>2 DEF Repeats
  <2>2. PriorityPush(w, cur[w])
    BY DEF ForkNew
  <2> QED
    BY <1>2, <1>4, <1>5, <2>1, <2>2, PriorityPushTasks
<1>7. Types'
  <2>1. pc' \in [Workers -> Labels]
    BY <1>1 DEF ForkNew, Goto, Labels, Types
  <2>2. \A v \in Workers : pc'[v] \in HandLabels => cur'[v] \in Tasks
    BY <1>1, <1>2, <1>3 DEF Types, HandLabels
  <2>3. \A v \in Workers : pc'[v] # "wake" => wakers'[v] = <<>>
    BY <1>1, <1>2, <1>3 DEF Types
  <2> QED
    BY <1>1, <1>2, <1>6, <2>1, <2>2, <2>3 DEF Types
<1>8. FinishedInRelease'
  BY <1>1, <1>2, <1>3 DEF TasksInv, FinishedInRelease
<1> QED
  BY <1>6, <1>7, <1>8 DEF TasksInv

----------------------------------------------------------------------------
(* Wakers.                                                                 *)

LEMMA WakeNextTasks ==
    ASSUME TasksInv, NEW w \in Workers, WakeNext(w) PROVE TasksInv'
<1> USE DEF taskVars, clientVars
<1> DEFINE k == Head(wakers[w])
<1>1. Types /\ Placed /\ ~Repeats /\ pc[w] = "wake" /\ wakers[w] # <<>>
  BY DEF TasksInv, Placed, WakeNext
<1>2. /\ UNCHANGED <<pc, cur, victim, resume, allocated, finished, polling>>
      /\ UNCHANGED <<asleep, requests, scheduled>>
      /\ PriorityPush(w, k)
  BY DEF WakeNext
<1>3. wakers[w] \in Seq(Tasks) /\ Distinct(wakers[w])
  BY <1>1 DEF Types, Repeats
<1>4. /\ k \in Tasks /\ Has(wakers[w], k)
      /\ Tail(wakers[w]) \in Seq(Tasks) /\ Distinct(Tail(wakers[w]))
      /\ \A x : Has(Tail(wakers[w]), x) <=> x # k /\ Has(wakers[w], x)
  BY <1>1, <1>3, TailHas
<1>5. /\ wakers' \in [Workers -> Seq(Tasks)]
      /\ \A v \in Workers : wakers'[v] = IF v = w THEN Tail(wakers[w]) ELSE wakers[v]
  BY <1>1, <1>4 DEF WakeNext, Types
<1> HIDE DEF k
<1>6. /\ k \in allocated /\ k \notin asleep
      /\ \A v \in Workers :
            /\ ~Has(queue[v], k) /\ buffer[v] # k /\ ~InHand(v, k)
            /\ Has(wakers[v], k) => v = w
  BY <1>1, <1>4, OnePlaceOnly
<1>7. \A v \in Workers, x \in Tasks : InHand(v, x)' <=> InHand(v, x)
  BY <1>2 DEF InHand
<1>8. \A v \in Workers, x \in Tasks : Has(wakers'[v], x) <=> x # k /\ Has(wakers[v], x)
  BY <1>4, <1>5, <1>6
<1>9. /\ queue' \in [Workers -> Seq(Tasks)]
      /\ buffer' \in [Workers -> Tasks \cup {NULL}]
      /\ Placed'
  <2>1. \A v \in Workers : Distinct(wakers'[v])
    BY <1>1, <1>4, <1>5 DEF Repeats
  <2> QED
    BY <1>2, <1>4, <1>6, <1>7, <1>8, <2>1, PriorityPushTasks
<1>10. Types'
  <2>1. \A v \in Workers : pc'[v] # "wake" => wakers'[v] = <<>>
    BY <1>1, <1>2, <1>5 DEF Types
  <2> QED
    BY <1>1, <1>2, <1>5, <1>9, <2>1 DEF Types
<1>11. FinishedInRelease'
  BY <1>2 DEF TasksInv, FinishedInRelease
<1> QED
  BY <1>9, <1>10, <1>11 DEF TasksInv

LEMMA WakeTasks ==
    ASSUME TasksInv, IsFiniteSet(allocated), NEW w \in Workers, Wake(w)
    PROVE  TasksInv'
<1> USE DEF taskVars, queueVars
<1>1. Types /\ Placed /\ ~Repeats /\ pc[w] = "running" /\ wakers[w] = <<>>
  BY DEF TasksInv, Placed, Wake, Request, Types
<1>2. PICK S \in SUBSET asleep :
         asleep' = asleep \ S /\ \E s \in Orders(S) : wakers' = [wakers EXCEPT ![w] = s]
  BY DEF Wake
<1>3. PICK s \in Orders(S) : wakers' = [wakers EXCEPT ![w] = s]
  BY <1>2
<1>4. /\ UNCHANGED <<cur, victim, queue, buffer, allocated, finished, polling, scheduled>>
      /\ requests' \in 0..MaxRequests
  BY <1>1 DEF Wake, Request, Types
<1>5. resume' \in [Workers -> BOOLEAN]
  BY <1>1 DEF Wake, Types
<1>6. asleep \subseteq allocated /\ S \in SUBSET Tasks
  <2>1. 0 \in Workers
    BY DEF Workers
  <2> QED
    BY <1>1, <2>1, OnePlaceOnly DEF Types
<1>7. s \in Seq(Tasks) /\ Distinct(s) /\ \A x : Has(s, x) <=> x \in S
  <2>1. IsFiniteSet(S)
    BY <1>6, FS_Subset
  <2> QED
    BY <1>3, <1>6, <2>1, OrderHas
<1>8. /\ \A v \in Workers : pc'[v] = IF v = w THEN "wake" ELSE pc[v]
      /\ \A v \in Workers : wakers'[v] = IF v = w THEN s ELSE wakers[v]
      /\ wakers' \in [Workers -> Seq(Tasks)]
  BY <1>1, <1>3, <1>7 DEF Wake, Request, Goto, Types
<1>9. Types'
  <2>1. pc' \in [Workers -> Labels]
    BY <1>1 DEF Wake, Request, Goto, Labels, Types
  <2>2. \A v \in Workers : pc'[v] \in HandLabels => cur'[v] \in Tasks
    BY <1>1, <1>4, <1>8 DEF Types, HandLabels
  <2>3. \A v \in Workers : pc'[v] # "wake" => wakers'[v] = <<>>
    BY <1>1, <1>8 DEF Types
  <2>4. asleep' \in SUBSET Tasks
    BY <1>1, <1>2 DEF Types
  <2> QED
    BY <1>1, <1>4, <1>5, <1>8, <2>1, <2>2, <2>3, <2>4 DEF Types
<1>10. Moved(S, "wakers", {}, "wakers", w)
  <2>1. "wakers" \in Places
    BY DEF Places
  <2>2. \A v \in Workers, x \in Tasks : InHand(v, x)' <=> InHand(v, x)
    BY <1>1, <1>4, <1>8 DEF InHand, HandLabels
  <2>3. \A v \in Workers, x \in S :
           ~Has(queue[v], x) /\ buffer[v] # x /\ ~InHand(v, x) /\ ~Has(wakers[v], x)
    BY <1>1, <1>2, <1>6, OnePlaceOnly
  <2>4. \A v \in Workers, x \in Tasks :
           Has(wakers'[v], x) <=> IF x \in S THEN v = w ELSE Has(wakers[v], x)
    BY <1>1, <1>7, <1>8, <2>3, EmptyHas
  <2> QED
    BY <1>2, <1>4, <1>6, <2>1, <2>2, <2>3, <2>4, MovedByPlaces
<1>11. Placed'
  <2>1. allocated' = allocated \cup S \cup {}
    BY <1>4, <1>6
  <2>2. ~Repeats'
    BY <1>1, <1>4, <1>7, <1>8 DEF Repeats
  <2> QED
    BY <1>1, <1>10, <2>1, <2>2, MovedPlaced
<1>12. FinishedInRelease'
  BY <1>1, <1>4, <1>8 DEF TasksInv, FinishedInRelease
<1> QED
  BY <1>9, <1>11, <1>12 DEF TasksInv

LEMMA WorkerTasks ==
    ASSUME TasksInv, IsFiniteSet(allocated), NEW w \in Workers, Worker(w)
    PROVE  TasksInv'
BY PopTasks, StealTasks, WorkerQuietTasks, PushingTasks, MustSleepTasks, ReleaseTasks,
   ForkPushTasks, ForkNewTasks, WakeTasks, WakeNextTasks DEF Worker

LEMMA StutterTasks == ASSUME TasksInv, UNCHANGED vars PROVE TasksInv'
<1> USE DEF vars
<1>1. Types'
  BY DEF TasksInv, Types
<1>2. Placed'
  <2>1. \A p \in Places, w \in Workers, k \in Tasks : Holds(p, w, k)' <=> Holds(p, w, k)
    BY PlacesOfTasks, PlacesOfTasksNext DEF Places, InHand
  <2>2. Repeats' <=> Repeats
    BY DEF Repeats
  <2>3. 0 \in Workers /\ "queue" \in Places /\ Placed /\ Types /\ allocated' = allocated
    BY DEF Workers, Places, TasksInv
  <2>4. Moved({}, "queue", {}, "queue", 0)
    BY <2>1, <2>3 DEF Moved
  <2>5. ~Repeats' /\ allocated' = allocated \cup {} \cup {}
    BY <2>2, <2>3 DEF Placed
  <2> QED
    BY <2>3, <2>4, <2>5, MovedPlaced
<1>3. FinishedInRelease'
  BY DEF TasksInv, FinishedInRelease
<1> QED
  BY <1>1, <1>2, <1>3 DEF TasksInv

----------------------------------------------------------------------------
(* Counting tasks.                                                         *)

LEMMA Finite == /\ IsFiniteSet(Workers)
                /\ \A label : WorkersAt(label) \in SUBSET Workers /\ IsFiniteSet(WorkersAt(label))
                              /\ Cardinality(WorkersAt(label)) \in Nat
<1>1. IsFiniteSet(Workers)
  BY FS_Interval DEF Workers
<1>2. ASSUME NEW label
      PROVE  WorkersAt(label) \in SUBSET Workers /\ IsFiniteSet(WorkersAt(label))
             /\ Cardinality(WorkersAt(label)) \in Nat
  <2>1. WorkersAt(label) \in SUBSET Workers
    BY DEF WorkersAt
  <2> QED
    BY <1>1, <2>1, FS_Subset, FS_CardinalityType
<1> QED
  BY <1>1, <1>2

LEMMA FiniteNext == \A label : IsFiniteSet(WorkersAt(label)')
<1>1. ASSUME NEW label PROVE WorkersAt(label)' \in SUBSET Workers
  BY DEF WorkersAt
<1> QED
  BY <1>1, Finite, FS_Subset

\* A worker that moves from one label to another.
LEMMA AtMoves ==
    ASSUME pc \in [Workers -> Labels], NEW w \in Workers, NEW target, Goto(w, target),
           target # pc[w], NEW label
    PROVE  Cardinality(WorkersAt(label)') = IF label = pc[w] THEN Cardinality(WorkersAt(label)) - 1
                                     ELSE IF label = target THEN Cardinality(WorkersAt(label)) + 1
                                     ELSE Cardinality(WorkersAt(label))
<1>1. \A v \in Workers : pc'[v] = IF v = w THEN target ELSE pc[v]
  BY DEF Goto
<1>2. IsFiniteSet(WorkersAt(label))
  BY Finite
<1>3. CASE label = pc[w]
  <2>1. WorkersAt(label)' = WorkersAt(label) \ {w} /\ w \in WorkersAt(label)
    BY <1>1, <1>3 DEF WorkersAt
  <2> QED
    BY <1>2, <1>3, <2>1, FS_RemoveElement, ZenonT(60)
<1>4. CASE label # pc[w] /\ label = target
  <2>1. WorkersAt(label)' = WorkersAt(label) \cup {w} /\ w \notin WorkersAt(label)
    BY <1>1, <1>4 DEF WorkersAt
  <2> QED
    BY <1>2, <1>4, <2>1, FS_AddElement
<1>5. CASE label # pc[w] /\ label # target
  <2>1. WorkersAt(label)' = WorkersAt(label)
    BY <1>1, <1>5 DEF WorkersAt
  <2> QED
    BY <1>5, <2>1
<1> QED
  BY <1>3, <1>4, <1>5

\* remaining_tasks is a number, and not 0 while a task is allocated or a worker
\* is about to count one out.
LEMMA RemainingCounts ==
    ASSUME Inv
    PROVE  /\ remaining \in Nat
           /\ Cardinality(allocated) \in Nat
           /\ allocated # {} => remaining > 0
           /\ \A w \in Workers : pc[w] = "decrement" => remaining > 0
<1>1. /\ IsFiniteSet(allocated)
      /\ remaining = Cardinality(allocated) + Cardinality(WorkersAt("fork"))
                     + Cardinality(WorkersAt("decrement"))
  BY DEF Inv, Counted
<1>2. Cardinality(allocated) \in Nat /\ Cardinality(WorkersAt("fork")) \in Nat
      /\ Cardinality(WorkersAt("decrement")) \in Nat
  BY <1>1, Finite, FS_CardinalityType
<1>3. allocated # {} => Cardinality(allocated) # 0
  BY <1>1, FS_EmptySet
<1>4. ASSUME NEW w \in Workers, pc[w] = "decrement"
      PROVE  Cardinality(WorkersAt("decrement")) # 0
  <2>1. w \in WorkersAt("decrement")
    BY <1>4 DEF WorkersAt
  <2> QED
    BY <2>1, Finite, FS_EmptySet
<1>5. remaining \in Nat /\ remaining >= Cardinality(allocated)
      /\ remaining >= Cardinality(WorkersAt("decrement"))
  BY <1>1, <1>2
<1>6. allocated # {} => remaining > 0
  BY <1>2, <1>3, <1>5
<1>7. ASSUME NEW w \in Workers, pc[w] = "decrement" PROVE remaining > 0
  <2>1. Cardinality(WorkersAt("decrement")) # 0
    BY <1>4, <1>7
  <2> QED
    BY <1>2, <1>5, <2>1
<1> QED
  BY <1>2, <1>5, <1>6, <1>7

\* Steps that neither make, free nor count a task.
LEMMA UncountedStep ==
    ASSUME Inv, NEW w \in Workers, NEW target \in Labels \ {"fork", "decrement"},
           pc[w] \notin {"fork", "decrement"}, Goto(w, target),
           UNCHANGED <<remaining, allocated>>,
           target = "exited" => remaining = 0
    PROVE  Counted' /\ LeftWhenZero'
<1>1. pc \in [Workers -> Labels]
  BY DEF Inv, TasksInv, Types
<1>2. \A v \in Workers : pc'[v] = IF v = w THEN target ELSE pc[v]
  BY <1>1 DEF Goto
<1>3. WorkersAt("fork")' = WorkersAt("fork") /\ WorkersAt("decrement")' = WorkersAt("decrement")
  BY <1>2 DEF WorkersAt
<1>4. Counted'
  BY <1>3 DEF Inv, Counted
<1>5. LeftWhenZero'
  BY <1>2 DEF Inv, LeftWhenZero, WorkersAt
<1> QED
  BY <1>4, <1>5

LEMMA MainCounts ==
    ASSUME Inv, Main PROVE Counted' /\ LeftWhenZero'
<1> USE DEF taskVars
<1>0. 0 \in Workers /\ pc \in [Workers -> Labels] /\ Counted /\ LeftWhenZero
  BY DEF Workers, Inv, TasksInv, Types
<1>1. ASSUME NEW k \in Tasks, Schedule(k) PROVE Counted' /\ LeftWhenZero'
  <2>1. /\ k \notin allocated /\ allocated' = allocated \cup {k}
        /\ remaining' = remaining + 1 /\ UNCHANGED pc
    BY <1>1 DEF Schedule, NewTask
  <2>2. /\ IsFiniteSet(allocated')
        /\ Cardinality(allocated') = Cardinality(allocated) + 1
    BY <1>0, <2>1, FS_AddElement DEF Counted
  <2>3. \A label : WorkersAt(label)' = WorkersAt(label)
    BY <2>1 DEF WorkersAt
  <2>4. WorkersAt("exited") = {}
    BY <1>1 DEF Schedule, WorkersAt
  <2>5. /\ Cardinality(allocated) \in Nat /\ Cardinality(WorkersAt("fork")) \in Nat
        /\ Cardinality(WorkersAt("decrement")) \in Nat
    BY Finite, RemainingCounts
  <2>6. Counted'
    BY <1>0, <2>1, <2>2, <2>3, <2>5 DEF Counted
  <2> QED
    BY <2>3, <2>4, <2>6 DEF LeftWhenZero
<1>2. ASSUME NEW w \in Workers \ {0}, Spawn(w) PROVE Counted' /\ LeftWhenZero'
  BY <1>2, UncountedStep DEF Spawn, Labels
<1>3. CASE BecomeWorker0
  BY <1>0, <1>3, UncountedStep DEF BecomeWorker0, Labels
<1>4. CASE Join
  BY <1>0, <1>4, UncountedStep DEF Join, Labels
<1> QED
  BY <1>1, <1>2, <1>3, <1>4 DEF Main

LEMMA TryVictimCounts ==
    ASSUME Inv, NEW w \in Workers, NEW i, pc[w] \in {"pop", "steal"}, TryVictim(w, i),
           UNCHANGED <<remaining, allocated>>
    PROVE  Counted' /\ LeftWhenZero'
<1> DEFINE label == IF i < NWorkers THEN "steal" ELSE "idle"
<1>1. /\ label \in Labels \ {"fork", "decrement"} /\ label # "exited"
      /\ Goto(w, label)
  BY DEF Labels, TryVictim
<1> HIDE DEF label
<1> QED
  BY <1>1, UncountedStep

\* A step that does not change pc either.
LEMMA StutterCounts ==
    ASSUME Inv, UNCHANGED <<pc, remaining, allocated>> PROVE Counted' /\ LeftWhenZero'
BY DEF Inv, Counted, LeftWhenZero, WorkersAt

LEMMA UncountingWorker ==
    ASSUME Inv, NEW w \in Workers,
           \/ Pop(w) \/ Steal(w) \/ Idle(w) \/ PollFails(w) \/ ResumeTask(w) \/ Return(w)
           \/ ForkNew(w) \/ Poll(w) \/ Sleep(w) \/ MustSleep(w) \/ Requeue(w)
           \/ Wake(w) \/ WakeNext(w) \/ WakeEnd(w)
    PROVE  Counted' /\ LeftWhenZero'
<1> USE UncountedStep DEF taskVars, Labels
<1>1. CASE Pop(w)
  <2>1. CASE Goto(w, "check")
    BY <1>1, <2>1 DEF Pop
  <2>2. CASE TryVictim(w, 1)
    BY <1>1, <2>2, TryVictimCounts DEF Pop
  <2> QED
    BY <1>1, <2>1, <2>2 DEF Pop, Got
<1>2. CASE Steal(w)
  <2>1. CASE Goto(w, "check")
    BY <1>2, <2>1 DEF Steal
  <2>2. CASE TryVictim(w, victim[w] + 1)
    BY <1>2, <2>2, TryVictimCounts DEF Steal
  <2> QED
    BY <1>2, <2>1, <2>2 DEF Steal, Got
<1>3. CASE Idle(w)
  BY <1>3 DEF Idle
<1>4. CASE PollFails(w) \/ ResumeTask(w) \/ Return(w)
  BY <1>4 DEF PollFails, ResumeTask, CanResume, Return
<1>5. CASE ForkNew(w)
  BY <1>5 DEF ForkNew
<1>6. CASE Poll(w) \/ Sleep(w) \/ Wake(w)
  BY <1>6 DEF Poll, Sleep, Wake, Request
<1>7. CASE MustSleep(w)
  BY <1>7 DEF MustSleep
<1>8. CASE Requeue(w)
  BY <1>8 DEF Requeue
<1>9. CASE WakeNext(w)
  BY <1>9, StutterCounts DEF WakeNext
<1>10. CASE WakeEnd(w)
  BY <1>10 DEF WakeEnd
<1> QED
  BY <1>1, <1>2, <1>3, <1>4, <1>5, <1>6, <1>7, <1>8, <1>9, <1>10

LEMMA CountingWorker ==
    ASSUME Inv, NEW w \in Workers, Release(w) \/ Decrement(w) \/ Fork(w) \/ ForkPush(w)
    PROVE  Counted' /\ LeftWhenZero'
<1> USE DEF taskVars
<1>1. pc \in [Workers -> Labels] /\ TasksInv /\ Counted /\ LeftWhenZero
  BY DEF Inv, TasksInv, Types
<1>2. /\ Cardinality(allocated) \in Nat /\ Cardinality(WorkersAt("fork")) \in Nat
      /\ Cardinality(WorkersAt("decrement")) \in Nat /\ IsFiniteSet(allocated)
  BY Finite, RemainingCounts DEF Inv, Counted
<1>3. pc[w] \in HandLabels => cur[w] \in allocated
  BY <1>1, HandTask
<1>4. CASE Release(w)
  <2>1. /\ pc[w] = "release" /\ Goto(w, "decrement") /\ UNCHANGED remaining
        /\ allocated' = allocated \ {cur[w]} /\ cur[w] \in allocated
    BY <1>3, <1>4 DEF Release, HandLabels
  <2>2. /\ IsFiniteSet(allocated')
        /\ Cardinality(allocated') = Cardinality(allocated) - 1
    BY <1>2, <2>1, FS_RemoveElement
  <2>3. /\ Cardinality(WorkersAt("fork")') = Cardinality(WorkersAt("fork"))
        /\ Cardinality(WorkersAt("decrement")') = Cardinality(WorkersAt("decrement")) + 1
    BY <1>1, <2>1, AtMoves
  <2>4. Counted'
    BY <1>1, <1>2, <2>1, <2>2, <2>3 DEF Counted
  <2>5. LeftWhenZero'
    BY <1>1, <2>1 DEF LeftWhenZero, WorkersAt, Goto
  <2> QED
    BY <2>4, <2>5
<1>5. CASE Decrement(w)
  <2>1. /\ pc[w] = "decrement" /\ Goto(w, "pop") /\ remaining' = remaining - 1
        /\ UNCHANGED allocated
    BY <1>5 DEF Decrement
  <2>2. /\ Cardinality(WorkersAt("fork")') = Cardinality(WorkersAt("fork"))
        /\ Cardinality(WorkersAt("decrement")') = Cardinality(WorkersAt("decrement")) - 1
    BY <1>1, <2>1, AtMoves
  <2>3. Counted'
    BY <1>1, <1>2, <2>1, <2>2 DEF Counted
  <2>4. remaining > 0
    BY <2>1, RemainingCounts
  <2>5. LeftWhenZero'
    BY <1>1, <2>1, <2>4 DEF LeftWhenZero, WorkersAt, Goto
  <2> QED
    BY <2>3, <2>5
<1>6. CASE Fork(w)
  <2>1. /\ pc[w] = "running" /\ Goto(w, "fork") /\ remaining' = remaining + 1
        /\ UNCHANGED allocated
    BY <1>6 DEF Fork, Request
  <2>2. /\ Cardinality(WorkersAt("fork")') = Cardinality(WorkersAt("fork")) + 1
        /\ Cardinality(WorkersAt("decrement")') = Cardinality(WorkersAt("decrement"))
    BY <1>1, <2>1, AtMoves
  <2>3. Counted'
    BY <1>1, <1>2, <2>1, <2>2 DEF Counted
  <2>4. remaining > 0
    BY <1>3, <2>1, RemainingCounts DEF HandLabels
  <2>5. LeftWhenZero'
    BY <1>1, <2>1, <2>4 DEF LeftWhenZero, WorkersAt, Goto
  <2> QED
    BY <2>3, <2>5
<1>7. CASE ForkPush(w)
  <2>1. PICK k \in Tasks : NewTask(k)
    BY <1>7 DEF ForkPush
  <2>2. /\ pc[w] = "fork" /\ Goto(w, "fork_new") /\ UNCHANGED remaining
        /\ k \notin allocated /\ allocated' = allocated \cup {k}
    BY <1>7, <2>1 DEF ForkPush, NewTask
  <2>3. /\ IsFiniteSet(allocated')
        /\ Cardinality(allocated') = Cardinality(allocated) + 1
    BY <1>2, <2>2, FS_AddElement
  <2>4. /\ Cardinality(WorkersAt("fork")') = Cardinality(WorkersAt("fork")) - 1
        /\ Cardinality(WorkersAt("decrement")') = Cardinality(WorkersAt("decrement"))
    BY <1>1, <2>2, AtMoves
  <2>5. Counted'
    BY <1>1, <1>2, <2>2, <2>3, <2>4 DEF Counted
  <2>6. LeftWhenZero'
    BY <1>1, <2>2 DEF LeftWhenZero, WorkersAt, Goto
  <2> QED
    BY <2>5, <2>6
<1> QED
  BY <1>4, <1>5, <1>6, <1>7

----------------------------------------------------------------------------
(* The theorems.                                                           *)

LEMMA InitInv == ASSUME Init PROVE Inv
<1>1. /\ \A w \in Workers : pc[w] \in {"setup", "new"} /\ queue[w] = <<>>
                            /\ wakers[w] = <<>> /\ buffer[w] = NULL
      /\ asleep = {} /\ allocated = {} /\ finished = {} /\ remaining = 0
  BY DEF Init
<1>2. Types
  BY DEF Init, Types, Labels, HandLabels
<1>3. ~Repeats
  BY <1>1, EmptyHas DEF Repeats
<1>4. \A p \in Places, w \in Workers, k \in Tasks : ~Holds(p, w, k)
  BY <1>1, EmptyHas, PlacesOfTasks DEF Places, InHand, HandLabels
<1>5. Placed
  BY <1>1, <1>3, <1>4 DEF Placed
<1>6. WorkersAt("fork") = {} /\ WorkersAt("decrement") = {} /\ WorkersAt("exited") = {}
  BY <1>1 DEF WorkersAt
<1>7. Counted
  <2>1. IsFiniteSet({}) /\ Cardinality({}) = 0
    BY FS_EmptySet
  <2>2. Cardinality(allocated) = 0 /\ Cardinality(WorkersAt("fork")) = 0
        /\ Cardinality(WorkersAt("decrement")) = 0 /\ IsFiniteSet(allocated)
    BY <1>1, <1>6, <2>1
  <2> QED
    BY <1>1, <2>2 DEF Counted
<1> QED
  BY <1>1, <1>2, <1>5, <1>6, <1>7 DEF Inv, TasksInv, FinishedInRelease, LeftWhenZero

LEMMA NextInv == ASSUME Inv, [Next]_vars PROVE Inv'
<1>1. TasksInv /\ IsFiniteSet(allocated)
  BY DEF Inv, Counted
<1>2. CASE Main
  BY <1>1, <1>2, ScheduleTasks, MainQuietTasks, MainCounts DEF Main, Inv
<1>3. ASSUME NEW w \in Workers, Worker(w) PROVE Inv'
  <2>1. TasksInv'
    BY <1>1, <1>3, WorkerTasks
  <2>2. Counted' /\ LeftWhenZero'
    BY <1>3, UncountingWorker, CountingWorker DEF Worker
  <2> QED
    BY <2>1, <2>2 DEF Inv
<1>4. CASE UNCHANGED vars
  BY <1>1, <1>4, StutterTasks, StutterCounts DEF Inv, vars
<1> QED
  BY <1>2, <1>3, <1>4 DEF Next, Done

LEMMA Invariance == Spec => []Inv
BY InitInv, NextInv, PTL DEF Spec

\* The variables of the scheduler keep their types: remaining_tasks, which is
\* unsigned in the code, does not go below 0, and current_task is a task.
THEOREM TypeCorrectness == Spec => []TypeOK
<1>1. Inv => TypeOK
  BY RemainingCounts DEF Inv, TasksInv, Types, TypeOK
<1> QED
  BY <1>1, Invariance, PTL

\* Through pops, steals, forks, polls, sleeps and wakes every task that is
\* allocated is at one place: no two workers resume one coroutine, none is lost
\* and nothing leads to a freed block.
THEOREM TasksAreAtOnePlace == Spec => []TasksAtOnePlace
<1>1. ASSUME Inv PROVE TasksAtOnePlace
  <2>1. Placed
    BY <1>1 DEF Inv, TasksInv
  <2>2. \A w \in Workers : Distinct(queue[w]) /\ Distinct(wakers[w])
    BY <2>1 DEF Placed, Repeats
  <2>3. ASSUME NEW k \in Tasks, k \in allocated
        PROVE  \E h \in Holders(k) : Holders(k) = {h}
    <3>1. PICK p \in Places, w \in Workers : Holds(p, w, k)
      BY <2>1, <2>3 DEF Placed
    <3>2. \A q \in Places, v \in Workers : Holds(q, v, k) => q = p /\ v = w
      BY <2>1, <3>1 DEF Placed
    <3>3. <<p, w>> \in Holders(k)
      BY <3>1 DEF Holders
    <3>4. ASSUME NEW h \in Holders(k) PROVE h = <<p, w>>
      BY <3>2 DEF Holders
    <3> QED
      BY <3>3, <3>4
  <2>4. ASSUME NEW k \in Tasks, k \notin allocated PROVE Holders(k) = {}
    BY <2>1, <2>4 DEF Placed, Holders
  <2> QED
    BY <2>2, <2>3, <2>4 DEF TasksAtOnePlace
<1> QED
  BY <1>1, Invariance, PTL

\* A task whose coroutine has returned is in the hand of the worker that frees
\* it, so the check for a finished coroutine before seff_resume holds.
THEOREM FinishedAreNotResumed == Spec => []NeverResumesFinished
<1>1. ASSUME Inv, NEW w \in Workers, pc[w] = "check" PROVE cur[w] \notin finished
  <2>1. TasksInv /\ pc[w] \in HandLabels
    BY <1>1 DEF Inv, HandLabels
  <2>2. /\ cur[w] \in allocated
        /\ \A v \in Workers : InHand(v, cur[w]) => v = w
    BY <2>1, HandTask
  <2> QED
    BY <1>1, <2>1, <2>2 DEF TasksInv, FinishedInRelease, InHand, HandLabels
<1>2. Inv => NeverResumesFinished
  BY <1>1 DEF NeverResumesFinished
<1> QED
  BY <1>2, Invariance, PTL

\* When one worker has left, remaining_tasks is 0 for good: no task is left in
\* any queue or hand, and nobody can fork one.
THEOREM WorkersLeaveWhenDone == Spec => []ExitsOnlyWhenDone
<1>1. ASSUME Inv, NEW w \in Workers, pc[w] = "exited" PROVE allocated = {} /\ remaining = 0
  <2>1. remaining = 0
    BY <1>1 DEF Inv, LeftWhenZero, WorkersAt
  <2> QED
    BY <1>1, <2>1, RemainingCounts
<1>2. Inv => ExitsOnlyWhenDone
  BY <1>1 DEF ExitsOnlyWhenDone
<1> QED
  BY <1>2, Invariance, PTL

----------------------------------------------------------------------------
(* Part 2: the promises of the skynet benchmark.                           *)
(* Every step is one of the scheduler, or none.                            *)

LEMMA SchedulerStep ==
    ASSUME [PromisesNext]_allVars PROVE [Next]_vars
<1>1. CASE ScheduleRoot \/ RunIt \/ PromisesDone
  BY <1>1 DEF ScheduleRoot, RunIt, PromisesDone, Next, Main, Done
<1>2. ASSUME NEW w \in Workers, Scheduler(w) PROVE Next
  BY <1>2 DEF Scheduler, Next, Worker
<1>3. ASSUME NEW w \in Workers, Task(w) PROVE [Next]_vars
  BY <1>3 DEF Task, Next, Worker, ForkChild, MakeChild, Await, SleepOnPromise, Publish,
              PollPromise, NotReady, Continue, Fulfil, WakeWaiter, ReturnNull
<1> QED
  BY <1>1, <1>2, <1>3 DEF PromisesNext, allVars

\* The tasks of libseff_scheff_sleep.c and libseff_scheff_poll.c keep to what
\* the scheduler asks of its clients, so that all that is proved of it holds
\* when it runs them.
THEOREM PromisesAreClients == PromisesSpec => Spec
<1>1. PromisesInit => Init
  BY DEF PromisesInit
<1>2. [PromisesNext]_allVars => [Next]_vars
  BY SchedulerStep
<1> QED
  BY <1>1, <1>2, PTL DEF PromisesSpec, Spec

----------------------------------------------------------------------------
(* The invariant.                                                          *)

\* t has the fields of a task.
Fields == {"num", "promise", "at", "started", "awaited", "sum", "waker"}

IsProg(t) == t = [f \in Fields |-> t[f]]

Shapes ==
    /\ DOMAIN prog = Tasks
    /\ \A k \in Tasks : /\ IsProg(prog[k])
                        /\ prog[k].promise \in PromiseIds
                        /\ prog[k].started \in Nat /\ prog[k].awaited \in Nat
    /\ DOMAIN promise = PromiseIds
    /\ \A p \in PromiseIds : promise[p] = [state |-> promise[p].state,
                                           result |-> promise[p].result]

\* A task in a handler stands where the handler was asked for.
InHandlers ==
    /\ \A k \in Tasks : prog[k].at \in {"sleep", "waiting"} => prog[k].awaited < Branching
    /\ \A w \in Workers : /\ pc[w] = "sleep" => prog[cur[w]].at = "waiting"
                          /\ pc[w] = "fork" => prog[cur[w]].started < Branching

ClientInv == Shapes /\ InHandlers /\ SleepersAreAwaited

LEMMA ClientInit ==
    ASSUME PromisesInit PROVE ClientInv
<1>1. Root \in PromiseIds
  BY DEF PromiseIds
<1>2. Shapes
  BY <1>1 DEF PromisesInit, Shapes, IsProg, Fields, Prog
<1>3. InHandlers /\ SleepersAreAwaited
  BY DEF PromisesInit, Init, InHandlers, SleepersAreAwaited, Prog
<1> QED
  BY <1>2, <1>3 DEF ClientInv

\* A worker touches its own place and task only.
LEMMA OthersStay ==
    ASSUME NEW w \in Workers, Worker(w), TasksInv
    PROVE  \A v \in Workers \ {w} : pc'[v] = pc[v] /\ cur'[v] = cur[v]
BY DEF Worker, TasksInv, Types, Goto, Got, TryVictim, Request, Pop, Steal, Idle, PollFails,
       ResumeTask, Return, Release, Decrement, Fork, ForkPush, ForkNew, Poll, Sleep, MustSleep,
       Requeue, Wake, WakeNext, WakeEnd

LEMMA Hands ==
    ASSUME TasksInv
    PROVE  /\ \A w \in Workers : pc[w] \in HandLabels =>
                 cur[w] \in Tasks /\ cur[w] \in allocated /\ cur[w] \notin asleep
           /\ \A v, w \in Workers :
                 pc[v] \in HandLabels /\ pc[w] \in HandLabels /\ cur[v] = cur[w] => v = w
           /\ \A k \in asleep : k \in Tasks /\ k \in allocated
<1>1. \A w \in Workers : pc[w] \in HandLabels =>
        /\ cur[w] \in Tasks /\ cur[w] \in allocated /\ cur[w] \notin asleep
        /\ \A v \in Workers : InHand(v, cur[w]) => v = w
  BY HandTask
<1>2. 0 \in Workers
  BY ScheffAssumption DEF Workers
<1>3. \A k \in asleep : k \in Tasks /\ Holds("asleep", 0, k) /\ "asleep" \in Places
  BY <1>2, PlacesOfTasks DEF TasksInv, Types, Places
<1>4. \A k \in asleep : k \in Tasks /\ k \in allocated
  BY <1>2, <1>3 DEF TasksInv, Placed
<1> QED
  BY <1>1, <1>4 DEF InHand

\* What keeps a sleeper known: its own awaited and its promise, or the task
\* that fulfilled the promise, stay as they are.
LEMMA Known ==
    ASSUME SleepersAreAwaited, asleep' \subseteq asleep,
           \A k \in asleep' : prog'[k].awaited = prog[k].awaited,
           \A k \in asleep' : LET p == <<k, prog[k].awaited>>
                              IN  promise[p].state = k =>
                                     \/ promise'[p].state = k
                                     \/ \E w \in Workers : /\ At(w, "wake")' /\ Me(w)'.waker = k
                                                           /\ Me(w)'.promise = p,
           \A w \in Workers : At(w, "wake") /\ Me(w).waker \in asleep'
               => At(w, "wake")' /\ Me(w)'.waker = Me(w).waker /\ Me(w)'.promise = Me(w).promise
    PROVE  SleepersAreAwaited'
<1> SUFFICES ASSUME NEW k \in asleep'
             PROVE  LET p == <<k, prog'[k].awaited>>
                    IN  \/ promise'[p].state = k
                        \/ \E w \in Workers : At(w, "wake")' /\ Me(w)'.waker = k
                                              /\ Me(w)'.promise = p
  BY DEF SleepersAreAwaited
<1> DEFINE p == <<k, prog[k].awaited>>
<1>1. prog'[k].awaited = prog[k].awaited
  OBVIOUS
<1>2. \/ promise[p].state = k
      \/ \E w \in Workers : At(w, "wake") /\ Me(w).waker = k /\ Me(w).promise = p
  BY DEF SleepersAreAwaited
<1>3. CASE promise[p].state = k
  BY <1>1, <1>3, SMTT(30)
<1>4. CASE \E w \in Workers : At(w, "wake") /\ Me(w).waker = k /\ Me(w).promise = p
  BY <1>1, <1>4
<1> QED
  BY <1>2, <1>3, <1>4

\* A step that changes no task's program.
LEMMA QuietStep ==
    ASSUME TasksInv, ClientInv, UNCHANGED clientProgram, UNCHANGED asleep,
           \A v \in Workers : \/ pc'[v] = pc[v] /\ cur'[v] = cur[v]
                              \/ pc[v] # "running" /\ pc'[v] \notin {"sleep", "fork"}
    PROVE  ClientInv'
<1>1. prog' = prog /\ promise' = promise
  BY DEF clientProgram
<1>2. Shapes'
  BY <1>1 DEF ClientInv, Shapes, IsProg, Fields
<1>3. InHandlers'
  BY <1>1 DEF ClientInv, InHandlers
<1>4. SleepersAreAwaited'
  BY <1>1, Known DEF ClientInv, At, Me
<1> QED
  BY <1>2, <1>3, <1>4 DEF ClientInv

LEMMA ScheduleRootClient ==
    ASSUME TasksInv, ClientInv, ScheduleRoot PROVE ClientInv'
<1>1. PICK k \in Tasks : Schedule(k) /\ prog' = [prog EXCEPT ![k] = Prog(1, Root)]
                         /\ promise' = promise
  BY DEF ScheduleRoot
<1>2. pc' = pc /\ cur' = cur /\ asleep' = asleep /\ k \notin allocated
  BY <1>1 DEF Schedule, NewTask
<1>3. \A j \in Tasks \ {k} : prog'[j] = prog[j]
  BY <1>1 DEF ClientInv, Shapes
<1>4. prog'[k] = Prog(1, Root)
  BY <1>1 DEF ClientInv, Shapes
<1>5. \A w \in Workers : pc[w] \in HandLabels => cur[w] \in Tasks \ {k}
  BY <1>2, Hands
<1>6. Shapes'
  BY <1>1, <1>3, <1>4 DEF ClientInv, Shapes, IsProg, Fields, Prog, PromiseIds
<1>7. InHandlers'
  BY <1>2, <1>3, <1>4, <1>5 DEF ClientInv, InHandlers, Prog, HandLabels
<1>8. \A j \in asleep : j \in Tasks \ {k}
  BY <1>2, Hands
<1>9. SleepersAreAwaited'
  BY <1>1, <1>2, <1>3, <1>5, <1>8, Known DEF ClientInv, At, Me, HandLabels
<1> QED
  BY <1>6, <1>7, <1>9 DEF ClientInv

LEMMA RunItClient ==
    ASSUME TasksInv, ClientInv, RunIt PROVE ClientInv'
BY QuietStep DEF RunIt, Spawn, BecomeWorker0, Join, Goto, TasksInv, Types, clientVars, Workers

LEMMA SchedulerClient ==
    ASSUME TasksInv, ClientInv, NEW w \in Workers, Scheduler(w) PROVE ClientInv'
<1>1. asleep' = asleep
  BY DEF Scheduler, Pop, Steal, Idle, Release, Decrement, ForkNew, Requeue, WakeNext, WakeEnd,
         clientVars
<1>2. pc[w] # "running" /\ pc'[w] \notin {"sleep", "fork"}
  BY DEF Scheduler, Pop, Steal, Idle, Release, Decrement, ForkNew, Requeue, WakeNext, WakeEnd,
         Goto, Got, TryVictim, TasksInv, Types
<1>3. \A v \in Workers \ {w} : pc'[v] = pc[v] /\ cur'[v] = cur[v]
  BY OthersStay DEF Scheduler, Worker
<1> QED
  BY <1>1, <1>2, <1>3, QuietStep DEF Scheduler

\* A task that moves on: its program changes, and no other's.
LEMMA OwnStep ==
    ASSUME TasksInv, ClientInv, NEW w \in Workers, pc[w] \in HandLabels,
           ~(At(w, "wake")), asleep' = asleep, promise' = promise,
           \A v \in Workers \ {w} : pc'[v] = pc[v] /\ cur'[v] = cur[v],
           pc'[w] \in {"sleep", "fork"} => cur'[w] = cur[w],
           NEW t, prog' = [prog EXCEPT ![cur[w]] = t],
           IsProg(t), t.promise \in PromiseIds, t.started \in Nat, t.awaited \in Nat,
           t.at \in {"sleep", "waiting"} => t.awaited < Branching,
           pc'[w] = "sleep" => t.at = "waiting",
           pc'[w] = "fork" => t.started < Branching
    PROVE  ClientInv'
<1>1. /\ cur[w] \in Tasks /\ cur[w] \notin asleep
      /\ \A v \in Workers : pc[v] \in HandLabels /\ v # w => cur[v] # cur[w] /\ cur[v] \in Tasks
  BY Hands
<1>2. prog'[cur[w]] = t /\ \A k \in Tasks \ {cur[w]} : prog'[k] = prog[k]
  BY <1>1 DEF ClientInv, Shapes
<1>3. Shapes'
  BY <1>1, <1>2, ZenonT(60) DEF ClientInv, Shapes, IsProg, Fields
<1>4. InHandlers'
  BY <1>1, <1>2 DEF ClientInv, InHandlers, HandLabels
<1>5. \A k \in asleep : k \in Tasks
  BY Hands
<1>6. SleepersAreAwaited'
  BY <1>1, <1>2, <1>5, Known DEF ClientInv, At, Me, HandLabels
<1> QED
  BY <1>3, <1>4, <1>6 DEF ClientInv

LEMMA HandlerLabels ==
    ASSUME ClientInv, TasksInv, NEW w \in Workers, pc[w] \in HandLabels
    PROVE  /\ cur[w] \in Tasks /\ IsProg(prog[cur[w]])
           /\ prog[cur[w]].promise \in PromiseIds
           /\ prog[cur[w]].started \in Nat /\ prog[cur[w]].awaited \in Nat
           /\ prog[cur[w]].at \in {"sleep", "waiting"} => prog[cur[w]].awaited < Branching
           /\ pc[w] = "sleep" => prog[cur[w]].at = "waiting"
           /\ pc[w] = "fork" => prog[cur[w]].started < Branching
BY Hands DEF ClientInv, Shapes, InHandlers

LEMMA CollectShape ==
    ASSUME NEW t, IsProg(t), NEW p
    PROVE  /\ IsProg(Collect(t, p))
           /\ Collect(t, p).promise = t.promise /\ Collect(t, p).started = t.started
           /\ Collect(t, p).awaited = t.awaited + 1 /\ Collect(t, p).at = "body"
BY DEF Collect, IsProg, Fields

LEMMA AtShape ==
    ASSUME NEW t, IsProg(t), NEW place
    PROVE  LET u == [t EXCEPT !.at = place]
           IN  /\ IsProg(u) /\ u.at = place
               /\ u.promise = t.promise /\ u.started = t.started /\ u.awaited = t.awaited
BY DEF IsProg, Fields

LEMMA ForkChildClient ==
    ASSUME PromisesAssumption, TasksInv, ClientInv, NEW w \in Workers, ForkChild(w)
    PROVE  ClientInv'
<1> DEFINE k == cur[w]  p == <<k, prog[k].started>>
<1>1. /\ pc[w] = "running" /\ pc' = [pc EXCEPT ![w] = "fork"] /\ cur' = cur
      /\ asleep' = asleep /\ prog' = prog /\ prog[k].at = "body" /\ prog[k].started < Branching
      /\ promise' = [promise EXCEPT ![p].state = EMPTY]
  BY DEF ForkChild, Fork, Request, Goto, At, Me, Forking
<1>2. k \in Tasks /\ k \notin asleep /\ prog[k].started \in Nat
      /\ \A v \in Workers \ {w} : pc[v] \in HandLabels => cur[v] # k
  BY <1>1, Hands DEF HandLabels, ClientInv, Shapes
<1>3. p \in PromiseIds
  BY <1>1, <1>2 DEF PromiseIds, PromisesAssumption
<1>4. /\ promise'[p] = [state |-> EMPTY, result |-> promise[p].result]
      /\ \A q \in PromiseIds \ {p} : promise'[q] = promise[q]
      /\ DOMAIN promise' = PromiseIds
  BY <1>1, <1>3 DEF ClientInv, Shapes
<1>5. Shapes'
  BY <1>1, <1>3, <1>4 DEF ClientInv, Shapes, IsProg, Fields
<1>6. InHandlers'
  BY <1>1, <1>2 DEF ClientInv, InHandlers, TasksInv, Types
<1>7. \A j \in asleep : <<j, prog[j].awaited>> # p
  BY <1>2
<1>8. SleepersAreAwaited'
  <2>1. \A j \in asleep : promise'[<<j, prog[j].awaited>>] = promise[<<j, prog[j].awaited>>]
    BY <1>1, <1>3, <1>7 DEF ClientInv, Shapes
  <2>2. \A v \in Workers : At(v, "wake") => At(v, "wake")' /\ Me(v)' = Me(v)
    BY <1>1 DEF At, Me, TasksInv, Types
  <2> QED
    BY <1>1, <2>1, <2>2, Known DEF ClientInv
<1> QED
  BY <1>5, <1>6, <1>8 DEF ClientInv

LEMMA MakeChildClient ==
    ASSUME PromisesAssumption, TasksInv, ClientInv, NEW w \in Workers, MakeChild(w)
    PROVE  ClientInv'
<1> DEFINE p == cur[w]  k == cur'[w]  i == prog[p].started
           child == Prog(prog[p].num * Branching + i, <<p, i>>)
           parent == [prog[p] EXCEPT !.started = @ + 1]
<1>1. /\ pc[w] = "fork" /\ pc' = [pc EXCEPT ![w] = "fork_new"] /\ asleep' = asleep
      /\ k \in Tasks /\ k \notin allocated /\ cur' = [cur EXCEPT ![w] = k]
      /\ promise' = promise
      /\ prog' = [prog EXCEPT ![p].started = @ + 1, ![k] = child]
  BY DEF MakeChild, ForkPush, Goto, NewTask, clientVars, TasksInv, Types
<1>2. /\ p \in Tasks /\ p \in allocated /\ p \notin asleep /\ i \in Nat /\ i < Branching
      /\ IsProg(prog[p])
      /\ \A v \in Workers \ {w} : pc[v] \in HandLabels => cur[v] \notin {p, k} /\ cur[v] \in Tasks
      /\ \A j \in asleep : j \in Tasks \ {p, k}
  BY <1>1, Hands DEF HandLabels, ClientInv, Shapes, InHandlers
<1>3. /\ prog'[p] = parent /\ prog'[k] = child /\ DOMAIN prog' = Tasks
      /\ \A j \in Tasks \ {p, k} : prog'[j] = prog[j]
  BY <1>1, <1>2 DEF ClientInv, Shapes
<1>4. <<p, i>> \in PromiseIds
  BY <1>2 DEF PromiseIds, PromisesAssumption
<1>5. /\ IsProg(parent) /\ IsProg(child) /\ parent.started = i + 1
      /\ parent.awaited = prog[p].awaited /\ parent.promise = prog[p].promise
      /\ parent.at = prog[p].at
      /\ child.promise = <<p, i>> /\ child.started = 0 /\ child.awaited = 0 /\ child.at = "body"
  BY <1>2 DEF IsProg, Fields, Prog
<1> HIDE DEF p, k, i, child, parent
<1>6. Shapes'
  BY <1>1, <1>2, <1>3, <1>4, <1>5 DEF ClientInv, Shapes
<1>7. InHandlers'
  <2>1. \A j \in Tasks : prog'[j].at \in {"sleep", "waiting"} => prog'[j].awaited < Branching
    BY <1>2, <1>3, <1>5 DEF ClientInv, InHandlers
  <2>2. ASSUME NEW v \in Workers
        PROVE  /\ pc'[v] = "sleep" => prog'[cur'[v]].at = "waiting"
               /\ pc'[v] = "fork" => prog'[cur'[v]].started < Branching
    BY <1>1, <1>2, <1>3 DEF ClientInv, InHandlers, HandLabels, TasksInv, Types
  <2> QED
    BY <2>1, <2>2 DEF InHandlers
<1>8. SleepersAreAwaited'
  <2>1. \A v \in Workers : At(v, "wake") => At(v, "wake")' /\ Me(v)' = Me(v)
    BY <1>1, <1>2, <1>3 DEF At, Me, TasksInv, Types, HandLabels
  <2> QED
    BY <1>1, <1>2, <1>3, <2>1, Known DEF ClientInv
<1> QED
  BY <1>6, <1>7, <1>8 DEF ClientInv

LEMMA AwaitClient ==
    ASSUME TasksInv, ClientInv, NEW w \in Workers, Await(w) PROVE ClientInv'
<1> DEFINE t == prog[cur[w]]
           u == IF promise[Awaited(w)].state = FULFILLED THEN Collect(t, Awaited(w))
                ELSE [t EXCEPT !.at = "sleep"]
<1>1. /\ pc[w] = "running" /\ pc' = pc /\ cur' = cur /\ asleep' = asleep /\ promise' = promise
      /\ prog' = [prog EXCEPT ![cur[w]] = u] /\ t.at = "body" /\ t.awaited < Branching
  BY DEF Await, At, Me, Awaiting, vars
<1>2. IsProg(t) /\ t.promise \in PromiseIds /\ t.started \in Nat /\ t.awaited \in Nat
  BY <1>1, HandlerLabels DEF HandLabels
<1>3. /\ IsProg(u) /\ u.promise = t.promise /\ u.started = t.started
      /\ \/ u.awaited = t.awaited + 1 /\ u.at = "body"
         \/ u.awaited = t.awaited /\ u.at = "sleep"
  <2>1. CASE promise[Awaited(w)].state = FULFILLED
    <3>1. u = Collect(t, Awaited(w))
      BY <2>1
    <3> HIDE DEF t, u
    <3>2. IsProg(Collect(t, Awaited(w))) /\ Collect(t, Awaited(w)).promise = t.promise
      BY <1>2, CollectShape
    <3>3. /\ Collect(t, Awaited(w)).started = t.started /\ Collect(t, Awaited(w)).at = "body"
          /\ Collect(t, Awaited(w)).awaited = t.awaited + 1
      BY <1>2, CollectShape
    <3> QED
      BY <3>1, <3>2, <3>3
  <2>2. CASE promise[Awaited(w)].state # FULFILLED
    <3>1. u = [t EXCEPT !.at = "sleep"]
      BY <2>2
    <3> HIDE DEF t, u
    <3> QED
      BY <1>2, <3>1, AtShape
  <2> QED
    BY <2>1, <2>2
<1>4. ~At(w, "wake") /\ pc[w] \in HandLabels
  BY <1>1 DEF At, Me, HandLabels
<1> HIDE DEF t, u
<1>5. u.awaited \in Nat /\ (u.at \in {"sleep", "waiting"} => u.awaited < Branching)
  BY <1>1, <1>2, <1>3
<1> QED
  BY <1>1, <1>2, <1>3, <1>4, <1>5, OwnStep

\* The two requests by which a task waits.
LEMMA WaitClient ==
    ASSUME TasksInv, ClientInv, NEW w \in Workers, SleepOnPromise(w) \/ PollPromise(w)
    PROVE  ClientInv'
<1> DEFINE t == prog[cur[w]]
           u == [t EXCEPT !.at = "waiting"]
<1>1. /\ pc[w] = "running" /\ cur' = cur /\ asleep' = asleep /\ promise' = promise
      /\ pc' = [pc EXCEPT ![w] = "sleep"] \/ pc' = [pc EXCEPT ![w] = "pop"]
      /\ prog' = [prog EXCEPT ![cur[w]].at = "waiting"]
      /\ t.at = "sleep" \/ (t.at = "body" /\ t.awaited < Branching)
  <2>1. CASE SleepOnPromise(w)
    <3>1. pc[w] = "running" /\ t.at = "sleep"
      BY <2>1 DEF SleepOnPromise, At, Me
    <3>2. cur' = cur /\ asleep' = asleep /\ pc' = [pc EXCEPT ![w] = "sleep"]
      BY <2>1 DEF SleepOnPromise, Sleep, Request, Goto
    <3>3. promise' = promise /\ prog' = [prog EXCEPT ![cur[w]].at = "waiting"]
      BY <2>1 DEF SleepOnPromise, Step
    <3> HIDE DEF t
    <3> QED
      BY <3>1, <3>2, <3>3
  <2>2. CASE PollPromise(w)
    BY <2>2 DEF PollPromise, At, Me, Awaiting, Poll, Request, Step, Goto
  <2> QED
    BY <2>1, <2>2
<1>2. /\ IsProg(t) /\ t.promise \in PromiseIds /\ t.started \in Nat /\ t.awaited \in Nat
      /\ t.at \in {"sleep", "waiting"} => t.awaited < Branching
  BY <1>1, HandlerLabels DEF HandLabels
<1>3. /\ IsProg(u) /\ u.promise = t.promise /\ u.started = t.started
      /\ u.awaited = t.awaited /\ u.at = "waiting"
  BY <1>2, AtShape
<1>4. ~At(w, "wake") /\ pc[w] \in HandLabels
  BY <1>1 DEF At, Me, HandLabels
<1>5. prog' = [prog EXCEPT ![cur[w]] = u]
  BY <1>1
<1>6. /\ pc'[w] # "fork" /\ \A v \in Workers \ {w} : pc'[v] = pc[v] /\ cur'[v] = cur[v]
      /\ cur'[w] = cur[w]
  BY <1>1 DEF TasksInv, Types
<1> HIDE DEF t, u
<1>7. u.awaited < Branching
  BY <1>1, <1>2, <1>3
<1> QED
  BY <1>1, <1>2, <1>3, <1>4, <1>5, <1>6, <1>7, OwnStep

LEMMA ContinueClient ==
    ASSUME TasksInv, ClientInv, NEW w \in Workers, Continue(w) PROVE ClientInv'
<1> DEFINE t == prog[cur[w]]
           u == IF t.at = "waiting" THEN Collect(t, Awaited(w)) ELSE t
<1>1. /\ pc[w] = "check" /\ cur' = cur /\ asleep' = asleep /\ promise' = promise
      /\ pc' = [pc EXCEPT ![w] = "running"] /\ prog' = [prog EXCEPT ![cur[w]] = u]
  BY DEF Continue, ResumeTask, CanResume, Goto, clientVars
<1>2. /\ IsProg(t) /\ t.promise \in PromiseIds /\ t.started \in Nat /\ t.awaited \in Nat
      /\ t.at \in {"sleep", "waiting"} => t.awaited < Branching
  BY <1>1, HandlerLabels DEF HandLabels
<1>3. u = t \/ /\ IsProg(u) /\ u.promise = t.promise /\ u.started = t.started
               /\ u.awaited = t.awaited + 1 /\ u.at = "body"
  BY <1>2, CollectShape
<1>4. ~At(w, "wake") /\ pc[w] \in HandLabels
  BY <1>1 DEF At, Me, HandLabels
<1>5. \A v \in Workers \ {w} : pc'[v] = pc[v] /\ cur'[v] = cur[v]
  BY <1>1 DEF TasksInv, Types
<1>6. pc'[w] = "running"
  BY <1>1 DEF TasksInv, Types
<1> HIDE DEF t, u
<1>7. u.awaited \in Nat /\ (u.at \in {"sleep", "waiting"} => u.awaited < Branching)
  BY <1>2, <1>3
<1> QED
  BY <1>1, <1>2, <1>3, <1>4, <1>5, <1>6, <1>7, OwnStep

LEMMA PublishClient ==
    ASSUME PromisesAssumption, TasksInv, ClientInv, NEW w \in Workers, Publish(w)
    PROVE  ClientInv'
<1> DEFINE k == cur[w]  p == <<k, prog[k].awaited>>
<1>1. /\ pc[w] = "sleep" /\ cur' = cur /\ prog' = prog
      /\ pc' = [pc EXCEPT ![w] = "pop"] \/ pc' = [pc EXCEPT ![w] = "requeue"]
      /\ \/ asleep' = asleep /\ promise' = promise
         \/ /\ asleep' = asleep \cup {k}
            /\ promise' = [promise EXCEPT ![p].state = k]
  <2>1. k \notin asleep
    BY Hands DEF Publish, MustSleep, HandLabels
  <2> QED
    BY <2>1 DEF Publish, MustSleep, Goto, Awaited, Me
<1>2. /\ k \in Tasks /\ k \notin asleep /\ prog[k].at = "waiting"
      /\ prog[k].awaited \in Nat /\ prog[k].awaited < Branching
  BY <1>1, Hands DEF HandLabels, ClientInv, Shapes, InHandlers
<1>3. p \in PromiseIds
  BY <1>2 DEF PromiseIds, PromisesAssumption
<1>4. \A v \in Workers \ {w} : pc'[v] = pc[v]
  BY <1>1 DEF TasksInv, Types
<1>5. CASE asleep' = asleep /\ promise' = promise
  BY <1>1, <1>4, <1>5, QuietStep DEF clientProgram, Publish, TasksInv, Types
<1>6. CASE asleep' = asleep \cup {k} /\ promise' = [promise EXCEPT ![p].state = k]
  <2>1. /\ promise'[p] = [state |-> k, result |-> promise[p].result]
        /\ \A q \in PromiseIds \ {p} : promise'[q] = promise[q]
        /\ DOMAIN promise' = PromiseIds
    BY <1>3, <1>6, SMTT(30) DEF ClientInv, Shapes
  <2>2. Shapes'
    BY <1>1, <1>3, <2>1 DEF ClientInv, Shapes, IsProg, Fields
  <2>3. InHandlers'
    BY <1>1, <1>4 DEF ClientInv, InHandlers, TasksInv, Types
  <2>4. \A v \in Workers : At(v, "wake") => At(v, "wake")' /\ Me(v)' = Me(v)
    BY <1>1, <1>4 DEF At, Me
  <2>5. ASSUME NEW j \in asleep
        PROVE  LET q == <<j, prog[j].awaited>>
               IN  \/ promise'[q].state = j
                   \/ \E v \in Workers : At(v, "wake")' /\ Me(v)'.waker = j /\ Me(v)'.promise = q
    <3>1. <<j, prog[j].awaited>> # p
      BY <1>2
    <3>2. promise'[<<j, prog[j].awaited>>] = promise[<<j, prog[j].awaited>>]
      BY <1>3, <1>6, <3>1 DEF ClientInv, Shapes
    <3> QED
      BY <2>4, <3>2 DEF ClientInv, SleepersAreAwaited
  <2>6. promise'[<<k, prog[k].awaited>>].state = k
    BY <2>1
  <2>7. SleepersAreAwaited'
    <3> SUFFICES ASSUME NEW j \in asleep'
                 PROVE  LET q == <<j, prog'[j].awaited>>
                        IN  \/ promise'[q].state = j
                            \/ \E v \in Workers : At(v, "wake")' /\ Me(v)'.waker = j
                                                  /\ Me(v)'.promise = q
      BY DEF SleepersAreAwaited
    <3>1. CASE j = k
      BY <1>1, <2>6, <3>1
    <3>2. CASE j \in asleep
      BY <1>1, <2>5, <3>2
    <3> QED
      BY <1>6, <3>1, <3>2
  <2> QED
    BY <2>2, <2>3, <2>7 DEF ClientInv
<1> QED
  BY <1>1, <1>5, <1>6

\* fulfill: from here on the task that fulfilled the promise holds the waker.
LEMMA FulfilClient ==
    ASSUME TasksInv, ClientInv, NEW w \in Workers, Fulfil(w) PROVE ClientInv'
<1> DEFINE k == cur[w]  t == prog[k]  p == t.promise  previous == promise[p].state
           place == IF previous \in Tasks THEN "wake" ELSE "return"
           u == [t EXCEPT !.at = place, !.waker = previous]
<1>1. /\ pc[w] = "running" /\ t.at = "body" /\ pc' = pc /\ cur' = cur /\ asleep' = asleep
      /\ promise' = [promise EXCEPT ![p] = Fulfilment(t)]
      /\ prog' = [prog EXCEPT ![k].at = place, ![k].waker = previous]
  BY DEF Fulfil, At, Me, vars, clientVars
<1>2. /\ k \in Tasks /\ IsProg(t) /\ p \in PromiseIds
      /\ t.started \in Nat /\ t.awaited \in Nat
      /\ \A v \in Workers \ {w} : pc[v] \in HandLabels => cur[v] # k
      /\ \A j \in asleep : j \in Tasks \ {k}
  BY <1>1, HandlerLabels, Hands DEF HandLabels
<1>3. /\ IsProg(u) /\ u.promise = p /\ u.started = t.started /\ u.awaited = t.awaited
      /\ u.at = place /\ u.waker = previous
  BY <1>2 DEF IsProg, Fields
<1>4. DOMAIN prog' = Tasks /\ prog'[k] = u /\ \A j \in Tasks \ {k} : prog'[j] = prog[j]
  BY <1>1, <1>2 DEF ClientInv, Shapes
<1>5. /\ DOMAIN promise' = PromiseIds /\ promise'[p] = Fulfilment(t)
      /\ \A q \in PromiseIds \ {p} : promise'[q] = promise[q]
  BY <1>1, <1>2 DEF ClientInv, Shapes
<1>6. Fulfilment(t) = [state |-> Fulfilment(t).state, result |-> Fulfilment(t).result]
  BY DEF Fulfilment
<1>7. place \in {"wake", "return"}
  OBVIOUS
<1>8. \A v \in Workers : At(v, "wake") =>
        v # w /\ At(v, "wake")' /\ Me(v)' = Me(v)
  <2>1. \A v \in Workers : At(v, "wake") => v # w /\ pc[v] \in HandLabels /\ cur[v] \in Tasks \ {k}
    BY <1>1, <1>2, Hands DEF At, Me, HandLabels
  <2> HIDE DEF k, t, u, p, previous, place
  <2> QED
    BY <1>1, <1>4, <2>1 DEF At, Me
<1>9. ASSUME NEW j \in asleep
      PROVE  LET q == <<j, prog[j].awaited>>
             IN  promise[q].state = j =>
                    \/ promise'[q].state = j
                    \/ \E v \in Workers : At(v, "wake")' /\ Me(v)'.waker = j /\ Me(v)'.promise = q
  <2> DEFINE q == <<j, prog[j].awaited>>
  <2>1. CASE promise[q].state = j /\ q = p
    <3>1. previous = j /\ place = "wake"
      BY <1>2, <2>1
    <3>2. Me(w)' = u
      BY <1>1, <1>4 DEF Me
    <3>3. At(w, "wake")' /\ Me(w)'.waker = j /\ Me(w)'.promise = p
      <4> HIDE DEF k, t, u, p, previous, place, q
      <4> QED
        BY <1>1, <1>3, <3>1, <3>2 DEF At
    <3> QED
      BY <2>1, <3>3
  <2>2. CASE q # p
    <3> HIDE DEF p, q
    <3>1. promise' = [promise EXCEPT ![p] = Fulfilment(t)]
      BY <1>1 DEF p
    <3>2. promise'[q].state = promise[q].state
      BY <2>2, <3>1, <1>2, <1>5 DEF ClientInv, Shapes
    <3> QED
      BY <3>2 DEF q
  <2> QED
    BY <2>1, <2>2
<1> HIDE DEF k, t, u, p, previous, place
<1>10. Shapes'
  BY <1>2, <1>3, <1>4, <1>5, <1>6 DEF ClientInv, Shapes, t
<1>11. InHandlers'
  <2>1. \A j \in Tasks : prog'[j].at \in {"sleep", "waiting"} => prog'[j].awaited < Branching
    BY <1>2, <1>3, <1>4, <1>7 DEF ClientInv, InHandlers
  <2>2. \A v \in Workers : pc[v] \in {"sleep", "fork"} => cur[v] \in Tasks \ {k}
    BY <1>1, <1>2, Hands DEF HandLabels
  <2> QED
    BY <1>1, <1>4, <2>1, <2>2 DEF ClientInv, InHandlers
<1>12. \A j \in asleep : prog'[j].awaited = prog[j].awaited
  BY <1>2, <1>4
<1>13. SleepersAreAwaited'
  BY <1>1, <1>8, <1>9, <1>12, Known DEF ClientInv
<1> QED
  BY <1>10, <1>11, <1>13 DEF ClientInv

\* scheff_wake takes the waker it was given, and no other task.
LEMMA WakeWaiterClient ==
    ASSUME TasksInv, IsFiniteSet(allocated), ClientInv, NEW w \in Workers, WakeWaiter(w)
    PROVE  ClientInv'
<1> DEFINE k == Me(w).waker
<1>1. /\ pc[w] = "running" /\ pc' = [pc EXCEPT ![w] = "wake"] /\ cur' = cur
      /\ prog' = prog /\ promise' = promise /\ wakers'[w] = <<k>>
  <2>1. Request(w, "wake") /\ cur' = cur
    BY DEF WakeWaiter, Wake
  <2>2. prog' = prog /\ promise' = promise /\ wakers'[w] = <<k>>
    BY DEF WakeWaiter, clientProgram
  <2> QED
    BY <2>1, <2>2 DEF Request, Goto
<1>2. PICK S \in SUBSET asleep :
            /\ asleep' = asleep \ S
            /\ \E s \in Orders(S) : wakers' = [wakers EXCEPT ![w] = s]
  BY DEF WakeWaiter, Wake
<1>3. PICK s \in Orders(S) : wakers' = [wakers EXCEPT ![w] = s]
  BY <1>2
<1>4. S \in SUBSET Tasks /\ IsFiniteSet(S) /\ s = <<k>>
  <2>1. S \in SUBSET Tasks
    BY <1>2 DEF TasksInv, Types
  <2>2. s = <<k>>
    <3>1. wakers'[w] = s
      BY <1>3 DEF TasksInv, Types
    <3> HIDE DEF k
    <3> QED
      BY <1>1, <3>1
  <2>3. S \subseteq allocated
    BY <1>2, Hands
  <2> QED
    BY <2>1, <2>2, <2>3, FS_Subset
<1>5. Has(<<k>>, k)
  BY DEF Has
<1>6. k \in S
  BY <1>2, <1>4, <1>5, OrderHas
<1>7. asleep' \subseteq asleep /\ k \notin asleep'
  BY <1>2, <1>6
<1>8. Shapes' /\ InHandlers'
  BY <1>1 DEF ClientInv, Shapes, InHandlers, TasksInv, Types
<1>9. \A v \in Workers : At(v, "wake") /\ Me(v).waker \in asleep'
        => At(v, "wake")' /\ Me(v)' = Me(v)
  BY <1>1, <1>7 DEF At, Me
<1>10. SleepersAreAwaited'
  BY <1>1, <1>7, <1>9, Known DEF ClientInv
<1> QED
  BY <1>8, <1>10 DEF ClientInv

LEMMA ReturnNullClient ==
    ASSUME TasksInv, ClientInv, NEW w \in Workers, ReturnNull(w) PROVE ClientInv'
<1>1. /\ pc[w] = "running" /\ Me(w).at = "return" /\ pc' = [pc EXCEPT ![w] = "release"]
      /\ cur' = cur /\ prog' = prog /\ promise' = promise /\ asleep' = asleep
  BY DEF ReturnNull, Return, Goto, At, clientProgram, clientVars
<1>2. Shapes' /\ InHandlers'
  BY <1>1 DEF ClientInv, Shapes, InHandlers, TasksInv, Types
<1>3. \A v \in Workers : At(v, "wake") => At(v, "wake")' /\ Me(v)' = Me(v)
  BY <1>1 DEF At, Me
<1>4. SleepersAreAwaited'
  BY <1>1, <1>3, Known DEF ClientInv
<1> QED
  BY <1>2, <1>4 DEF ClientInv

LEMMA NotReadyClient ==
    ASSUME TasksInv, ClientInv, NEW w \in Workers, NotReady(w) PROVE ClientInv'
<1>1. UNCHANGED clientProgram /\ pc[w] = "check" /\ pc' = [pc EXCEPT ![w] = "pop"]
      /\ cur' = cur /\ asleep' = asleep
  BY DEF NotReady, PollFails, CanResume, Goto, clientVars
<1>2. \A v \in Workers : \/ pc'[v] = pc[v] /\ cur'[v] = cur[v]
                         \/ pc[v] # "running" /\ pc'[v] \notin {"sleep", "fork"}
  BY <1>1 DEF TasksInv, Types
<1> QED
  BY <1>1, <1>2, QuietStep

LEMMA TaskClient ==
    ASSUME PromisesAssumption, TasksInv, IsFiniteSet(allocated), ClientInv, NEW w \in Workers,
           Task(w)
    PROVE  ClientInv'
BY ForkChildClient, MakeChildClient, AwaitClient, WaitClient, PublishClient, NotReadyClient,
   ContinueClient, FulfilClient, WakeWaiterClient, ReturnNullClient DEF Task

LEMMA StutterClient ==
    ASSUME ClientInv, UNCHANGED allVars PROVE ClientInv'
<1>1. pc' = pc /\ cur' = cur /\ asleep' = asleep /\ prog' = prog /\ promise' = promise
  BY DEF allVars, vars, clientVars, clientProgram
<1> QED
  BY <1>1 DEF ClientInv, Shapes, InHandlers, SleepersAreAwaited, At, Me

LEMMA ClientStep ==
    ASSUME PromisesAssumption, TasksInv, IsFiniteSet(allocated), ClientInv,
           [PromisesNext]_allVars
    PROVE  ClientInv'
<1>1. CASE PromisesDone
  BY <1>1, StutterClient DEF PromisesDone, Done, allVars
<1>2. ASSUME NEW w \in Workers, Scheduler(w) \/ Task(w) PROVE ClientInv'
  BY <1>2, SchedulerClient, TaskClient
<1> QED
  BY <1>1, <1>2, ScheduleRootClient, RunItClient, StutterClient DEF PromisesNext

\* A task asleep on a promise is the waker that promise keeps, or in the hands
\* of the task that fulfilled it: no fulfilment between the look at the promise
\* and the waker's publication leaves a sleeper behind.
THEOREM SleepersAreKnown ==
    ASSUME PromisesAssumption PROVE PromisesSpec => []SleepersAreAwaited
<1>1. PromisesInit => ClientInv
  BY ClientInit
<1>2. TasksInv /\ IsFiniteSet(allocated) /\ ClientInv /\ [PromisesNext]_allVars => ClientInv'
  BY ClientStep
<1>3. Inv => TasksInv /\ IsFiniteSet(allocated)
  BY DEF Inv, Counted
<1>4. ClientInv => SleepersAreAwaited
  BY DEF ClientInv
<1> QED
  BY <1>1, <1>2, <1>3, <1>4, PromisesAreClients, Invariance, PTL DEF PromisesSpec

----------------------------------------------------------------------------
(* The tree of the skynet benchmark.                                       *)

\* A set of naturals has a least element.
LEMMA Least == \A S : S \subseteq Nat /\ S # {} => \E n \in S : \A m \in S : n <= m
<1> SUFFICES ASSUME NEW S, S \subseteq Nat, S # {}
             PROVE  \E n \in S : \A m \in S : n <= m
  OBVIOUS
<1>1. PICK n \in S : \A m \in S : <<m, n>> \notin OpToRel(<, Nat)
  BY NatLessThanWellFounded, WFMin
<1>2. \A m \in S : ~(m < n)
  BY <1>1 DEF OpToRel
<1> QED
  BY <1>2

\* The recursive function has the values its definition says: the first d of
\* them exist for every d, by a least counterexample.
LEMMA Layers ==
    ASSUME NEW b \in Nat \ {0}, NEW d \in Nat \ {0}
    PROVE  LET F == FirstNodes(b, d) IN
           /\ F \in [1..d -> Nat \ {0}]
           /\ F[1] = 1
           /\ \A i \in 1..(d - 1) : F[i + 1] = b * F[i]
<1> DEFINE F == FirstNodes(b, d)
           Rule(f) == [i \in 1..d |-> IF i = 1 THEN 1 ELSE b * f[i - 1]]
           Start(n, p) == /\ p \in [1..n -> Nat \ {0}] /\ p[1] = 1
                          /\ \A i \in 1..(n - 1) : p[i + 1] = b * p[i]
           Missing == {n \in Nat \ {0} : ~ \E p : Start(n, p)}
<1>1. Missing = {}
  <2> SUFFICES ASSUME Missing # {} PROVE FALSE
    OBVIOUS
  <2>1. PICK n \in Missing : \A m \in Missing : n <= m
    <3>1. Missing \subseteq Nat
      OBVIOUS
    <3> HIDE DEF Missing
    <3> QED
      BY <3>1, Least
  <2>2. n # 1
    <3>1. Start(1, [i \in 1..1 |-> 1])
      OBVIOUS
    <3> QED
      BY <2>1, <3>1
  <2>3. PICK m \in Nat \ {0} : n = m + 1
    <3>1. n - 1 \in Nat \ {0} /\ n = (n - 1) + 1
      BY <2>1, <2>2
    <3> QED
      BY <3>1
  <2>4. PICK p : Start(m, p)
    <3>1. n \in Nat /\ ~(n <= m)
      BY <2>1, <2>3
    <3>2. m \notin Missing
      BY <2>1, <3>1
    <3> HIDE DEF Start
    <3> QED
      BY <3>2
  <2> DEFINE q == [i \in 1..n |-> IF i <= m THEN p[i] ELSE b * p[m]]
  <2>5. p[m] \in Nat \ {0} /\ m \in 1..m
    BY <2>4
  <2>6. b * p[m] \in Nat \ {0}
    BY <2>5
  <2>7. q \in [1..n -> Nat \ {0}]
    <3>1. ASSUME NEW i \in 1..n PROVE q[i] \in Nat \ {0}
      BY <2>3, <2>4, <2>6
    <3> QED
      BY <3>1
  <2>8. q[1] = 1
    BY <2>3, <2>4
  <2>9. ASSUME NEW i \in 1..(n - 1) PROVE q[i + 1] = b * q[i]
    <3>1. i \in 1..m /\ i \in 1..n /\ i + 1 \in 1..n /\ q[i] = p[i]
      BY <2>3
    <3>2. CASE i = m
      <4>1. ~(i + 1 <= m)
        BY <3>2
      <4> QED
        BY <3>1, <3>2, <4>1
    <3>3. CASE i # m
      <4>1. i \in 1..(m - 1) /\ i + 1 <= m
        BY <3>1, <3>3
      <4> QED
        BY <2>4, <3>1, <4>1
    <3> QED
      BY <3>2, <3>3
  <2>10. Start(n, q)
    <3> HIDE DEF q
    <3> QED
      BY <2>7, <2>8, <2>9
  <2> QED
    BY <2>1, <2>10
<1>2. PICK p : Start(d, p)
  BY <1>1
<1>3. p = Rule(p)
  <2>1. ASSUME NEW i \in 1..d PROVE p[i] = Rule(p)[i]
    <3>1. CASE i = 1
      BY <1>2, <3>1
    <3>2. CASE i # 1
      <4>1. PICK j \in 1..(d - 1) : i = j + 1
        <5>1. i - 1 \in 1..(d - 1) /\ i = (i - 1) + 1
          BY <3>2
        <5> QED
          BY <5>1
      <4>2. i - 1 = j /\ p[i] = b * p[j]
        BY <1>2, <4>1
      <4> QED
        BY <3>2, <4>2
    <3> QED
      BY <3>1, <3>2
  <2>2. p = [i \in 1..d |-> p[i]]
    BY <1>2
  <2> QED
    BY <2>1, <2>2
<1>4. F = Rule(F)
  <2>1. F = CHOOSE f : f = Rule(f)
    BY DEF FirstNodes
  <2>2. \E f : f = Rule(f)
    BY <1>3
  <2> HIDE DEF Rule
  <2> QED
    BY <2>1, <2>2
<1>5. DOMAIN F = 1..d /\ F = [i \in 1..d |-> F[i]] /\ F[1] = 1
  BY <1>4
<1>6. ASSUME NEW i \in 1..(d - 1) PROVE F[i + 1] = b * F[i]
  <2>1. i + 1 \in 1..d /\ i + 1 # 1 /\ (i + 1) - 1 = i
    OBVIOUS
  <2>2. F[i + 1] = b * F[(i + 1) - 1]
    BY <1>4, <2>1
  <2> QED
    BY <2>1, <2>2
<1>7. ASSUME NEW j \in 1..d PROVE F[j] \in Nat \ {0}
  <2> DEFINE Bad == {i \in 1..d : F[i] \notin Nat \ {0}}
  <2> SUFFICES ASSUME Bad # {} PROVE FALSE
    OBVIOUS
  <2>1. PICK i \in Bad : \A k \in Bad : i <= k
    <3>1. Bad \subseteq Nat
      OBVIOUS
    <3> HIDE DEF Bad
    <3> QED
      BY <3>1, Least
  <2>2. i # 1
    <3>1. F[1] = 1
      BY <1>5
    <3> HIDE DEF F
    <3> QED
      BY <2>1, <3>1
  <2>3. PICK k \in 1..(d - 1) : i = k + 1
    <3>1. i - 1 \in 1..(d - 1) /\ i = (i - 1) + 1
      BY <2>1, <2>2
    <3> QED
      BY <3>1
  <2>4. k \in 1..d /\ ~(i <= k)
    BY <2>3
  <2>5. F[k] \in Nat \ {0}
    BY <2>1, <2>4
  <2>6. F[i] = b * F[k]
    BY <1>6, <2>3
  <2>7. b * F[k] \in Nat \ {0}
    BY <2>5
  <2> QED
    BY <2>1, <2>6, <2>7
<1> QED
  BY <1>5, <1>6, <1>7

LEMMA LayersApart ==
    ASSUME NEW b \in Nat \ {0}, NEW d \in Nat \ {0},
           NEW i \in 1..d, NEW j \in 1..d, i < j
    PROVE  b = 1 \/ 2 * FirstNodes(b, d)[i] <= FirstNodes(b, d)[j]
<1> DEFINE F == FirstNodes(b, d)
<1>0. /\ F \in [1..d -> Nat \ {0}]
      /\ \A k \in 1..(d - 1) : F[k + 1] = b * F[k]
  BY Layers
<1> HIDE DEF F
<1> SUFFICES ASSUME b # 1 PROVE 2 * F[i] <= F[j]
  BY DEF F
<1> DEFINE Bad == {k \in 1..d : i < k /\ ~(2 * F[i] <= F[k])}
<1> SUFFICES ASSUME Bad # {} PROVE FALSE
  OBVIOUS
<1>1. PICK k \in Bad : \A m \in Bad : k <= m
  <2>1. Bad \subseteq Nat
    OBVIOUS
  <2> HIDE DEF Bad
  <2> QED
    BY <2>1, Least
<1>2. PICK m \in 1..(d - 1) : k = m + 1
  <2>1. k - 1 \in 1..(d - 1) /\ k = (k - 1) + 1
    BY <1>1
  <2> QED
    BY <2>1
<1>3. F[k] = b * F[m] /\ F[m] \in Nat \ {0} /\ F[i] \in Nat \ {0}
  BY <1>0, <1>2
<1>4. m \in 1..d /\ ~(k <= m) /\ i <= m
  BY <1>1, <1>2
<1>5. 2 * F[m] <= b * F[m]
  <2>1. PICK x \in Nat : x = F[m]
    BY <1>3
  <2>2. PICK c \in Nat : b = c + 2
    <3>1. b - 2 \in Nat /\ b = (b - 2) + 2
      OBVIOUS
    <3> QED
      BY <3>1
  <2>3. (c + 2) * x = c * x + 2 * x /\ c * x >= 0
    BY <2>1, <2>2
  <2> QED
    BY <2>1, <2>2, <2>3
<1>6. F[i] <= F[m]
  <2>1. CASE i = m
    BY <1>3, <2>1
  <2>2. CASE i # m
    <3>1. 2 * F[i] <= F[m]
      BY <1>1, <1>4, <2>2
    <3> QED
      BY <1>3, <3>1
  <2> QED
    BY <2>1, <2>2
<1>7. 2 * F[i] <= F[k]
  <2>1. PICK x \in Nat, y \in Nat, z \in Nat : x = F[i] /\ y = F[m] /\ z = b * F[m]
    BY <1>3
  <2>2. x <= y /\ 2 * y <= z
    BY <1>5, <1>6, <2>1
  <2>3. 2 * x <= z
    BY ONLY <2>2, x \in Nat, y \in Nat, z \in Nat
  <2> QED
    BY <1>3, <2>1, <2>3
<1> QED
  BY <1>1, <1>7

LEMMA OneNodeEach ==
    ASSUME NEW b \in Nat \ {0}, b = 1, NEW d \in Nat \ {0}, NEW j \in 1..d
    PROVE  FirstNodes(b, d)[j] = 1
<1> DEFINE F == FirstNodes(b, d)
           Bad == {i \in 1..d : F[i] # 1}
<1> SUFFICES ASSUME Bad # {} PROVE FALSE
  OBVIOUS
<1>1. PICK i \in Bad : \A k \in Bad : i <= k
  <2>1. Bad \subseteq Nat
    OBVIOUS
  <2> HIDE DEF Bad
  <2> QED
    BY <2>1, Least
<1>2. /\ F \in [1..d -> Nat \ {0}] /\ F[1] = 1
      /\ \A k \in 1..(d - 1) : F[k + 1] = b * F[k]
  BY Layers
<1>3. PICK k \in 1..(d - 1) : i = k + 1
  <2>1. i - 1 \in 1..(d - 1) /\ i = (i - 1) + 1
    BY <1>1, <1>2
  <2> QED
    BY <2>1
<1>4. k \in 1..d /\ ~(i <= k)
  BY <1>3
<1>5. F[k] = 1 /\ F[i] = b * F[k]
  BY <1>1, <1>2, <1>3, <1>4
<1> QED
  BY <1>1, <1>5

OnLayer(b, d, n, l) ==
    FirstNodes(b, d)[l] <= n /\ n < 2 * FirstNodes(b, d)[l]

IsNode(b, d, n) == n \in Nat /\ \E l \in 1..d : OnLayer(b, d, n, l)

\* How many leaves there are below n.
Leaves(b, d, n) ==
    FirstNodes(b, d)[d + 1 - (CHOOSE l \in 1..d : OnLayer(b, d, n, l))]

LEMMA LeavesAre ==
    ASSUME NEW b \in Nat \ {0}, NEW d \in Nat \ {0}, NEW n \in Nat,
           NEW l \in 1..d, OnLayer(b, d, n, l)
    PROVE  Leaves(b, d, n) = FirstNodes(b, d)[d + 1 - l]
<1> DEFINE F == FirstNodes(b, d)
<1>1. PICK m \in 1..d : m = (CHOOSE i \in 1..d : OnLayer(b, d, n, i)) /\ OnLayer(b, d, n, m)
  OBVIOUS
<1>2. F \in [1..d -> Nat \ {0}]
  BY Layers
<1>3. b # 1 => l = m
  <2> SUFFICES ASSUME b # 1, l # m PROVE FALSE
    OBVIOUS
  <2>1. F[l] \in Nat /\ F[m] \in Nat /\ F[l] <= n /\ n < 2 * F[l] /\ F[m] <= n /\ n < 2 * F[m]
    BY <1>1, <1>2 DEF OnLayer
  <2>2. CASE l < m
    <3>1. 2 * F[l] <= F[m]
      BY <2>2, LayersApart
    <3> HIDE DEF F
    <3> QED
      BY <2>1, <3>1
  <2>3. CASE m < l
    <3>1. 2 * F[m] <= F[l]
      BY <2>3, LayersApart
    <3> HIDE DEF F
    <3> QED
      BY <2>1, <3>1
  <2> QED
    BY <2>2, <2>3
<1>4. b = 1 => F[d + 1 - l] = F[d + 1 - m]
  <2>1. d + 1 - l \in 1..d /\ d + 1 - m \in 1..d
    OBVIOUS
  <2> QED
    BY <2>1, OneNodeEach
<1>5. Leaves(b, d, n) = F[d + 1 - m]
  BY <1>1 DEF Leaves
<1> HIDE DEF F
<1>6. F[d + 1 - l] = F[d + 1 - m]
  BY <1>3, <1>4
<1> QED
  BY <1>5, <1>6 DEF F

LEMMA RootIsNode ==
    ASSUME NEW b \in Nat \ {0}, NEW d \in Nat \ {0}
    PROVE  /\ LastLayerOf(b, d) \in Nat \ {0}
           /\ IsNode(b, d, 1)
           /\ Leaves(b, d, 1) = LastLayerOf(b, d)
<1>1. /\ FirstNodes(b, d) \in [1..d -> Nat \ {0}] /\ FirstNodes(b, d)[1] = 1
      /\ 1 \in 1..d /\ d \in 1..d
  BY Layers
<1>2. OnLayer(b, d, 1, 1)
  BY <1>1 DEF OnLayer
<1>3. Leaves(b, d, 1) = FirstNodes(b, d)[d + 1 - 1]
  BY <1>1, <1>2, LeavesAre
<1>4. d + 1 - 1 = d
  OBVIOUS
<1> QED
  BY <1>1, <1>2, <1>3, <1>4 DEF IsNode, LastLayerOf

LEMMA LeavesOfLeaf ==
    ASSUME NEW b \in Nat \ {0}, NEW d \in Nat \ {0}, NEW n, IsNode(b, d, n),
           n >= LastLayerOf(b, d)
    PROVE  Leaves(b, d, n) = 1
<1> DEFINE F == FirstNodes(b, d)
<1>1. F \in [1..d -> Nat \ {0}] /\ F[1] = 1
  BY Layers
<1>2. PICK l \in 1..d : OnLayer(b, d, n, l)
  BY DEF IsNode
<1>3. Leaves(b, d, n) = F[d + 1 - l]
  BY <1>2, LeavesAre DEF IsNode
<1>4. n \in Nat /\ F[d] <= n /\ n < 2 * F[l] /\ F[l] \in Nat /\ F[d] \in Nat
  BY <1>1, <1>2 DEF IsNode, OnLayer, LastLayerOf
<1>5. b # 1 => l = d
  <2> SUFFICES ASSUME b # 1, l < d PROVE FALSE
    OBVIOUS
  <2>1. 2 * F[l] <= F[d]
    BY LayersApart
  <2> HIDE DEF F
  <2> QED
    BY <1>4, <2>1
<1>6. b = 1 => F[d + 1 - l] = 1
  <2>1. d + 1 - l \in 1..d
    OBVIOUS
  <2> QED
    BY <2>1, OneNodeEach
<1>7. d + 1 - d = 1
  OBVIOUS
<1> HIDE DEF F
<1> QED
  BY <1>1, <1>3, <1>5, <1>6, <1>7

LEMMA TimesKeepsOrder ==
    ASSUME NEW x \in Nat, NEW y \in Nat, NEW c \in Nat, x <= y
    PROVE  x * c <= y * c
<1>1. PICK k \in Nat : y = x + k
  <2>1. y - x \in Nat /\ y = x + (y - x)
    OBVIOUS
  <2> QED
    BY <2>1
<1>2. (x + k) * c = x * c + k * c /\ k * c >= 0 /\ x * c \in Nat
  OBVIOUS
<1> QED
  BY <1>1, <1>2

LEMMA LeavesOfInner ==
    ASSUME NEW b \in Nat \ {0}, NEW d \in Nat \ {0}, NEW n, IsNode(b, d, n),
           n < LastLayerOf(b, d), NEW i \in 0..(b - 1)
    PROVE  /\ IsNode(b, d, n * b + i)
           /\ Leaves(b, d, n * b + i) = Leaves(b, d, n * b)
           /\ Leaves(b, d, n * b) \in Nat \ {0}
           /\ Leaves(b, d, n) = b * Leaves(b, d, n * b)
<1> DEFINE F == FirstNodes(b, d)
<1>1. /\ F \in [1..d -> Nat \ {0}] /\ F[1] = 1
      /\ \A k \in 1..(d - 1) : F[k + 1] = b * F[k]
  BY Layers
<1>2. PICK l \in 1..d : OnLayer(b, d, n, l)
  BY DEF IsNode
<1>3. Leaves(b, d, n) = F[d + 1 - l]
  BY <1>2, LeavesAre DEF IsNode
<1>4. n \in Nat /\ n < F[d] /\ F[l] <= n /\ n < 2 * F[l] /\ F[l] \in Nat /\ F[d] \in Nat
  BY <1>1, <1>2 DEF IsNode, OnLayer, LastLayerOf
<1> HIDE DEF F
<1>5. PICK m \in 1..d : m = l + 1
  BY <1>4
<1>6. F[m] = b * F[l]
  BY <1>1, <1>5
<1>7. ASSUME NEW j \in 0..(b - 1) PROVE n * b + j \in Nat /\ OnLayer(b, d, n * b + j, m)
  <2>1. PICK x \in Nat : x = F[l]
    BY <1>4
  <2>2. x <= n /\ n + 1 <= 2 * x
    BY <1>4, <2>1
  <2>3. PICK p \in Nat, q \in Nat : p = x * b /\ q = n * b
    BY <1>4, <2>1
  <2>4. p <= q
    BY <1>4, <2>2, <2>3, TimesKeepsOrder
  <2>5. (n + 1) * b <= (2 * x) * b
    <3>1. n + 1 \in Nat /\ 2 * x \in Nat
      BY <1>4
    <3> QED
      BY <2>2, <3>1, TimesKeepsOrder
  <2>6. (n + 1) * b = q + b /\ (2 * x) * b = 2 * p
    <3>1. PICK y \in Nat : y = n
      BY <1>4
    <3>2. (y + 1) * b = y * b + b /\ (2 * x) * b = 2 * (x * b)
      BY ONLY y \in Nat, x \in Nat, b \in Nat
    <3> QED
      BY <2>3, <3>1, <3>2
  <2>7. q + j \in Nat /\ p <= q + j /\ q + j < 2 * p
    BY <2>4, <2>5, <2>6
  <2>8. F[m] = p
    BY <1>6, <2>1, <2>3
  <2> QED
    BY <2>3, <2>7, <2>8 DEF OnLayer, F
<1>8. \A j \in 0..(b - 1) : Leaves(b, d, n * b + j) = F[d + 1 - m]
  BY <1>7, LeavesAre DEF F
<1>9. 0 \in 0..(b - 1) /\ n * b + 0 = n * b
  BY <1>4
<1>10. PICK k \in 1..(d - 1) : k = d + 1 - m
  BY <1>5
<1>11. k + 1 = d + 1 - l /\ k \in 1..d
  BY <1>5, <1>10
<1>12. F[d + 1 - l] = b * F[k] /\ F[k] \in Nat \ {0}
  BY <1>1, <1>10, <1>11
<1> QED
  BY <1>3, <1>7, <1>8, <1>9, <1>10, <1>12 DEF IsNode

\* Twice the sum of the leaves before x, counted from 0.
Before2(b, d, x) == (x - LastLayerOf(b, d)) * (x - LastLayerOf(b, d) - 1)

\* Twice what skynet(n) returns, and twice its sum after s children.
Value2(b, d, n) ==
    Before2(b, d, (n + 1) * Leaves(b, d, n)) - Before2(b, d, n * Leaves(b, d, n))
Partial2(b, d, n, s) ==
    Before2(b, d, (n * b + s) * Leaves(b, d, n * b))
    - Before2(b, d, (n * b) * Leaves(b, d, n * b))

LEMMA Before2Int ==
    ASSUME NEW b \in Nat \ {0}, NEW d \in Nat \ {0}, NEW x \in Int
    PROVE  Before2(b, d, x) \in Int
<1>1. PICK y \in Int : y = x - LastLayerOf(b, d)
  BY RootIsNode
<1>2. y * (y - 1) \in Int
  OBVIOUS
<1> QED
  BY <1>1, <1>2 DEF Before2

LEMMA LeafValue ==
    ASSUME NEW b \in Nat \ {0}, NEW d \in Nat \ {0}, NEW n, IsNode(b, d, n),
           n >= LastLayerOf(b, d)
    PROVE  Value2(b, d, n) = 2 * (n - LastLayerOf(b, d))
<1>1. Leaves(b, d, n) = 1 /\ n \in Nat /\ LastLayerOf(b, d) \in Nat
  BY LeavesOfLeaf, RootIsNode DEF IsNode
<1>2. PICK y \in Int : y = n - LastLayerOf(b, d)
  BY <1>1
<1>3. Before2(b, d, n * 1) = y * (y - 1)
  BY <1>1, <1>2 DEF Before2
<1>4. Before2(b, d, (n + 1) * 1) = (y + 1) * y
  <2>1. (n + 1) * 1 - LastLayerOf(b, d) = y + 1 /\ (n + 1) * 1 - LastLayerOf(b, d) - 1 = y
    BY <1>1, <1>2
  <2> QED
    BY <2>1 DEF Before2
<1>5. (y + 1) * y - y * (y - 1) = 2 * y
  OBVIOUS
<1> QED
  BY <1>1, <1>2, <1>3, <1>4, <1>5 DEF Value2

LEMMA RootValue ==
    ASSUME NEW b \in Nat \ {0}, NEW d \in Nat \ {0}
    PROVE  Value2(b, d, 1) = LastLayerOf(b, d) * (LastLayerOf(b, d) - 1)
<1>1. PICK l \in Nat \ {0} : l = LastLayerOf(b, d)
  BY RootIsNode
<1>2. Leaves(b, d, 1) = l
  BY <1>1, RootIsNode
<1>3. Before2(b, d, (1 + 1) * l) = l * (l - 1)
  <2>1. (1 + 1) * l - l = l
    OBVIOUS
  <2> QED
    BY <1>1, <2>1 DEF Before2
<1>4. Before2(b, d, 1 * l) = 0
  <2>1. 1 * l - l = 0
    OBVIOUS
  <2>2. 0 * (1 * l - l - 1) = 0
    OBVIOUS
  <2> QED
    BY <1>1, <2>1, <2>2 DEF Before2
<1>5. PICK v \in Int : v = l * (l - 1)
  OBVIOUS
<1> QED
  BY <1>1, <1>2, <1>3, <1>4, <1>5 DEF Value2

LEMMA NoChildYet ==
    ASSUME NEW b \in Nat \ {0}, NEW d \in Nat \ {0}, NEW n \in Nat,
           Leaves(b, d, n * b) \in Nat
    PROVE  Partial2(b, d, n, 0) = 0
<1>1. n * b \in Nat /\ n * b + 0 = n * b
  OBVIOUS
<1>2. (n * b) * Leaves(b, d, n * b) \in Int
  BY <1>1
<1>3. Before2(b, d, (n * b) * Leaves(b, d, n * b)) \in Int
  BY <1>2, Before2Int
<1> QED
  BY <1>1, <1>3 DEF Partial2

LEMMA OneChildMore ==
    ASSUME NEW b \in Nat \ {0}, NEW d \in Nat \ {0}, NEW n, IsNode(b, d, n),
           n < LastLayerOf(b, d), NEW s \in 0..(b - 1)
    PROVE  /\ Partial2(b, d, n, s) \in Int /\ Value2(b, d, n * b + s) \in Int
           /\ Partial2(b, d, n, s + 1) = Partial2(b, d, n, s) + Value2(b, d, n * b + s)
<1>1. PICK q \in Nat : q = n * b
  BY DEF IsNode
<1>2. PICK w \in Nat \ {0} : w = Leaves(b, d, n * b) /\ Leaves(b, d, n * b + s) = w
  BY LeavesOfInner
<1>3. q * w \in Int /\ (q + s) * w \in Int /\ (q + (s + 1)) * w \in Int /\ (q + s) + 1 = q + (s + 1)
  OBVIOUS
<1>4. PICK x \in Int, y \in Int, z \in Int :
         /\ x = Before2(b, d, q * w)
         /\ y = Before2(b, d, (q + s) * w)
         /\ z = Before2(b, d, (q + (s + 1)) * w)
  BY <1>3, Before2Int
<1>5. Partial2(b, d, n, s) = y - x /\ Partial2(b, d, n, s + 1) = z - x
  BY <1>1, <1>2, <1>4 DEF Partial2
<1>6. Value2(b, d, n * b + s) = z - y
  BY <1>1, <1>2, <1>3, <1>4 DEF Value2
<1> QED
  BY <1>5, <1>6

LEMMA AllChildren ==
    ASSUME NEW b \in Nat \ {0}, NEW d \in Nat \ {0}, NEW n, IsNode(b, d, n),
           n < LastLayerOf(b, d)
    PROVE  Partial2(b, d, n, b) = Value2(b, d, n)
<1>1. 0 \in 0..(b - 1) /\ n \in Nat
  BY DEF IsNode
<1>2. PICK w \in Nat \ {0} : w = Leaves(b, d, n * b) /\ Leaves(b, d, n) = b * w
  BY <1>1, LeavesOfInner
<1>3. (n * b + b) * w = (n + 1) * (b * w) /\ (n * b) * w = n * (b * w)
  BY <1>1
<1> QED
  BY <1>2, <1>3 DEF Partial2, Value2

\* The instances of MCSkynet have the same tree.
LEMMA SameTree ==
    /\ A!LastLayer = LastLayer
    /\ SQ!LastLayer = LastLayerOf(shape.branching, shape.depth)
  BY DEF A!LastLayer, LastLayer, SQ!LastLayer, A!LastLayerOf, SQ!LastLayerOf, LastLayerOf,
         A!FirstNodes, SQ!FirstNodes, FirstNodes

----------------------------------------------------------------------------
(* Part 3: module Async, the schedulers of the skynet benchmark.           *)

----------------------------------------------------------------------------
(* Where the tasks are, and what their futures hold.                       *)

\* The labels at which a worker has a task of its own.
Carrying == {"check", "return", "fulfil", "unlock_return", "delete", "await",
             "register", "async", "requeue"}

FutureT == [blocked : BOOLEAN, ready : BOOLEAN, result : Nat,
            waiter : Tasks \cup {NULL}]

AsyncTypes ==
    /\ build \in {"cl", "tk"}
    /\ apc \in [A!Workers -> A!Labels]
    /\ acur \in [A!Workers -> Tasks \cup {NULL}]
    /\ avictim \in [A!Workers -> 1..NWorkers]
    /\ held \in [A!Workers -> A!Futures \cup {NULL}]
    /\ aqueue \in [A!Workers -> Seq(Tasks)]
    /\ abuffer \in [A!Workers -> Tasks \cup {NULL}]
    /\ task \in [Tasks -> A!TaskT \cup {NULL}]
    /\ future \in [A!Futures -> FutureT]

InLine(w, k) == Has(aqueue[w], k) \/ abuffer[w] = k

Carried(w, k) == apc[w] \in Carrying /\ acur[w] = k

Alive(k) == task[k] # NULL

Lines == \A w \in A!Workers : Distinct(aqueue[w]) /\ ~Has(aqueue[w], abuffer[w])

\* A task is in one queue or one worker's hands, if in any; so are only tasks
\* that were not deleted.
OneSpot ==
    /\ \A v, w \in A!Workers, k \in Tasks :
          /\ InLine(v, k) /\ InLine(w, k) => v = w
          /\ Carried(v, k) /\ Carried(w, k) => v = w
          /\ ~(InLine(v, k) /\ Carried(w, k))
    /\ \A w \in A!Workers, k \in Tasks : InLine(w, k) \/ Carried(w, k) => Alive(k)

\* A worker serves the request its task is at.
AtHand(w) ==
    LET t == task[acur[w]]
    IN  /\ apc[w] # "check" => t.waiting = NULL
        /\ apc[w] \in {"return", "fulfil", "unlock_return", "delete"} =>
              A!Request(t) = "return" /\ held[w] = t.promise
        /\ apc[w] \in {"await", "register"} =>
              A!Request(t) = "await" /\ held[w] = <<acur[w], t.awaited>>
        /\ apc[w] = "async" =>
              A!Request(t) = "async" /\ held[w] = <<acur[w], t.started>>

HandsServed ==
    \A w \in A!Workers : apc[w] \in Carrying => acur[w] \in Tasks /\ AtHand(w)

LocksHeld == \A w \in A!Workers : apc[w] \in A!Locked => held[w] \in A!Futures

\* skynet awaits its children in order, after it started them all.
Frame(k) ==
    LET t == task[k]
    IN  /\ t.awaited > 0 => t.started = Branching
        /\ A!IsLeaf(t) => t.started = 0
        /\ \A i \in 0..(Branching - 1) : i < t.awaited => future[<<k, i>>].ready
        /\ t.waiting # NULL => t.waiting = <<k, t.awaited>> /\ A!Request(t) = "await"

Frames == \A k \in Tasks : Alive(k) => Frame(k)

Released(k) ==
    \E w \in A!Workers : apc[w] \in {"unlock_return", "delete"} /\ acur[w] = k

\* Task k has still to fulfil its promise.
Owes(k) == Alive(k) /\ ~Released(k)

\* A promise is fulfilled once, and its memory is that of a living parent.
Promised ==
    /\ \A k \in Tasks : Owes(k) =>
          /\ ~future[task[k].promise].ready
          /\ \A p \in Tasks, i \in 0..(Branching - 1) :
                task[k].promise = <<p, i>> => Alive(p) /\ i < task[p].started
    /\ \A j, k \in Tasks :
          Owes(j) /\ Owes(k) /\ task[j].promise = task[k].promise => j = k

\* Who is registered waits for that future.
WaitersWait ==
    \A f \in A!Futures : future[f].waiter # NULL =>
       Alive(future[f].waiter) /\ task[future[f].waiter].waiting = f

\* A task that waits is in no queue and no hands before its future is ready.
Woken ==
    \A w \in A!Workers, k \in Tasks :
       (InLine(w, k) \/ Carried(w, k)) /\ task[k].waiting # NULL
          => future[task[k].waiting].ready

\* A task that is nowhere else is the waiter of a future that is not ready.
Waiting(k) == task[k].waiting # NULL /\ ~future[task[k].waiting].ready

KnownTasks ==
    \A k \in Tasks : Alive(k) => \/ \E w \in A!Workers : InLine(w, k) \/ Carried(w, k)
                                 \/ Waiting(k)

KnownWaiters ==
    \A k \in Tasks : Alive(k) /\ Waiting(k) => future[task[k].waiting].waiter = k

\* And of each future that is not ready, a task is left that owes it.
KnownDebts ==
    \A p \in Tasks, i \in 0..(Branching - 1) :
       Alive(p) /\ i < task[p].started =>
          \/ future[<<p, i>>].ready
          \/ \E k \in Tasks : Owes(k) /\ task[k].promise = <<p, i>>

Spots == Lines /\ OneSpot
Serving == HandsServed /\ LocksHeld
Awaits == Frames /\ Promised /\ WaitersWait /\ Woken
AllKnown == KnownTasks /\ KnownWaiters /\ KnownDebts
AsyncInv == AsyncTypes /\ Spots /\ Serving /\ Awaits /\ AllKnown

\* A step counts the task it starts or deletes, and debts are paid.
Booked ==
    /\ \/ /\ aremaining' = aremaining
          /\ \A k \in Tasks : Alive(k)' <=> Alive(k)
       \/ /\ aremaining' = aremaining + 1
          /\ \E j, k \in Tasks : /\ Alive(j) /\ ~Alive(k)
                                 /\ \A x \in Tasks : Alive(x)' <=> x = k \/ Alive(x)
       \/ /\ aremaining' = aremaining - 1
          /\ \E k \in Tasks : /\ Alive(k)
                              /\ \A x \in Tasks : Alive(x)' <=> x # k /\ Alive(x)
    /\ future[A!Final].ready => future'[A!Final].ready
    /\ \A k \in Tasks : Owes(k) =>
          \/ Owes(k)' /\ task'[k].promise = task[k].promise
          \/ future'[task[k].promise].ready

(* The locks, where the memory of a future that is about to be released    *)
(* still belongs to whom it did: in the build with ticket queues, where    *)
(* the waiter stays in the buffer of the worker that is to release the     *)
(* lock, and where the children of the root are leaves.                    *)

Unlocking(w) == apc[w] \in {"unlock_return", "unlock_await"}

\* The parent has not got past the future that w releases.
Pinned(w, p, i) ==
    /\ Alive(p)
    /\ task[p].awaited <= i
    /\ i < task[p].started
    /\ task[p].waiting = held[w] /\ future[held[w]].ready => abuffer[w] = p
    /\ apc[w] = "unlock_await" => task[p].waiting = held[w]

\* The only task that starts others has started the one of that future.
Sole(p, i) ==
    \A k \in Tasks : Alive(k) /\ ~A!IsLeaf(task[k]) => k = p /\ i < task[k].started

Guarded(w) ==
    \A p \in Tasks, i \in 0..(Branching - 1) : held[w] = <<p, i>> =>
       /\ build = "tk" => Pinned(w, p, i)
       /\ A!LastLayer <= Branching => Sole(p, i)

Blocked == \A w \in A!Workers : apc[w] \in A!Locked => future[held[w]].blocked

RootOnly ==
    A!LastLayer <= Branching =>
       /\ \A k \in Tasks : Alive(k) => task[k].num >= 1
       /\ \A j, k \in Tasks :
             Alive(j) /\ ~A!IsLeaf(task[j]) /\ Alive(k) /\ ~A!IsLeaf(task[k]) => j = k

LocksInv ==
    /\ build = "tk" \/ A!LastLayer <= Branching
    /\ A!FutureLocks
    /\ Blocked
    /\ \A w \in A!Workers : Unlocking(w) => Guarded(w)
    /\ RootOnly

----------------------------------------------------------------------------
(* Its queues.                                                             *)

LEMMA AsyncPush ==
    ASSUME AsyncTypes, Lines, NEW w \in A!Workers, NEW k \in Tasks, ~InLine(w, k),
           A!Push(w, k), abuffer' = abuffer
    PROVE  /\ aqueue' \in [A!Workers -> Seq(Tasks)]
           /\ Lines'
           /\ \A v \in A!Workers, x \in Tasks :
                 InLine(v, x)' <=> (v = w /\ x = k) \/ InLine(v, x)
<1>1. aqueue[w] \in Seq(Tasks) /\ Distinct(aqueue[w]) /\ ~Has(aqueue[w], k) /\ abuffer[w] # k
  BY DEF AsyncTypes, Lines, InLine
<1>2. /\ Append(aqueue[w], k) \in Seq(Tasks) /\ Distinct(Append(aqueue[w], k))
      /\ \A x : Has(Append(aqueue[w], k), x) <=> x = k \/ Has(aqueue[w], x)
  BY <1>1, AppendHas
<1>3. \A v \in A!Workers : aqueue'[v] = IF v = w THEN Append(aqueue[w], k) ELSE aqueue[v]
  BY DEF A!Push, AsyncTypes
<1>4. aqueue' \in [A!Workers -> Seq(Tasks)]
  BY <1>2 DEF A!Push, AsyncTypes
<1>5. Lines'
  BY <1>1, <1>2, <1>3 DEF Lines
<1> QED
  BY <1>2, <1>3, <1>4, <1>5 DEF InLine

LEMMA AsyncPushFirst ==
    ASSUME A!AsyncAssumption, AsyncTypes, Lines, NEW w \in A!Workers, NEW k \in Tasks,
           ~InLine(w, k), A!PushFirst(w, k)
    PROVE  /\ aqueue' \in [A!Workers -> Seq(Tasks)]
           /\ abuffer' \in [A!Workers -> Tasks \cup {NULL}]
           /\ Lines'
           /\ \A v \in A!Workers, x \in Tasks :
                 InLine(v, x)' <=> (v = w /\ x = k) \/ InLine(v, x)
           /\ \A v \in A!Workers :
                 abuffer'[v] = IF build = "tk" /\ v = w THEN k ELSE abuffer[v]
<1>1. CASE build = "cl"
  <2>1. A!Push(w, k) /\ abuffer' = abuffer
    BY <1>1 DEF A!PushFirst
  <2> QED
    BY <1>1, <2>1, AsyncPush DEF AsyncTypes
<1>2. CASE build = "tk"
  <2>1. /\ abuffer' \in [A!Workers -> Tasks \cup {NULL}]
        /\ \A v \in A!Workers : abuffer'[v] = IF v = w THEN k ELSE abuffer[v]
    BY <1>2 DEF A!PushFirst, AsyncTypes
  <2>2. CASE abuffer[w] = NULL
    <3>1. aqueue' = aqueue
      BY <1>2, <2>2 DEF A!PushFirst
    <3>2. NULL \notin Tasks
      BY DEF A!AsyncAssumption
    <3>3. Lines'
      BY <2>1, <3>1 DEF Lines, InLine
    <3> QED
      BY <1>2, <2>1, <2>2, <3>1, <3>2, <3>3 DEF InLine, AsyncTypes
  <2>3. CASE abuffer[w] # NULL
    <3> DEFINE b == abuffer[w]
    <3>1. b \in Tasks /\ A!Push(w, b)
      BY <1>2, <2>3 DEF A!PushFirst, AsyncTypes
    <3>2. aqueue[w] \in Seq(Tasks) /\ Distinct(aqueue[w]) /\ ~Has(aqueue[w], b)
      BY DEF AsyncTypes, Lines
    <3>3. /\ Append(aqueue[w], b) \in Seq(Tasks) /\ Distinct(Append(aqueue[w], b))
          /\ \A x : Has(Append(aqueue[w], b), x) <=> x = b \/ Has(aqueue[w], x)
      BY <3>1, <3>2, AppendHas
    <3>4. \A v \in A!Workers : aqueue'[v] = IF v = w THEN Append(aqueue[w], b) ELSE aqueue[v]
      BY <3>1 DEF A!Push, AsyncTypes
    <3>5. aqueue' \in [A!Workers -> Seq(Tasks)]
      BY <3>1, <3>3 DEF A!Push, AsyncTypes
    <3>6. Lines'
      BY <2>1, <3>3, <3>4 DEF Lines, InLine
    <3> QED
      BY <1>2, <2>1, <3>3, <3>4, <3>5, <3>6 DEF InLine
  <2> QED
    BY <2>2, <2>3
<1> QED
  BY <1>1, <1>2 DEF AsyncTypes

\* The last one of a queue is taken from it.
LEMMA FrontHas ==
    ASSUME NEW s \in Seq(Tasks), s # <<>>, Distinct(s)
    PROVE  LET n == Len(s)
               r == SubSeq(s, 1, n - 1)
           IN  /\ s[n] \in Tasks
               /\ r \in Seq(Tasks)
               /\ \A x : Has(r, x) <=> x # s[n] /\ Has(s, x)
               /\ Has(s, s[n])
               /\ Distinct(r)
<1> DEFINE n == Len(s)
           r == SubSeq(s, 1, n - 1)
<1>1. n \in Nat \ {0} /\ s[n] \in Tasks
  BY EmptySeq, LenProperties, ElementOfSeq
<1>2. /\ r \in Seq(Tasks) /\ Len(r) = n - 1
      /\ \A i \in 1..(n - 1) : r[i] = s[i]
  <2>1. n - 1 \in Int /\ 1 \in Int /\ \A i \in 1..(n - 1) : s[i] \in Tasks
    BY <1>1, ElementOfSeq
  <2>2. /\ r \in Seq(Tasks) /\ Len(r) = IF 1 <= n - 1 THEN n - 1 - 1 + 1 ELSE 0
        /\ \A i \in 1..(n - 1 - 1 + 1) : r[i] = s[1 + i - 1]
    BY <2>1, SubSeqProperties
  <2> HIDE DEF r
  <2>3. Len(r) = n - 1
    <3> HIDE DEF n
    <3> QED
      BY <1>1, <2>2
  <2>4. ASSUME NEW i \in 1..(n - 1) PROVE r[i] = s[i]
    <3>1. i \in 1..(n - 1 - 1 + 1) /\ 1 + i - 1 = i
      BY <1>1
    <3> QED
      BY <2>2, <3>1
  <2> QED
    BY <2>2, <2>3, <2>4
<1>3. 1..n = 1..(n - 1) \cup {n} /\ n \notin 1..(n - 1)
  BY <1>1
<1> HIDE DEF n, r
<1>4. ASSUME NEW x PROVE Has(r, x) <=> x # s[n] /\ Has(s, x)
  BY <1>1, <1>2, <1>3 DEF Has, Distinct, n
<1>5. Distinct(r)
  BY <1>2, <1>3 DEF Distinct, n
<1>6. Has(s, s[n])
  BY <1>1, <1>3 DEF Has, n
<1> QED
  BY <1>1, <1>2, <1>4, <1>5, <1>6 DEF n, r

\* Worker w takes task k from the queue of worker v.
Taken(w, v, k) ==
    /\ InLine(v, k)
    /\ aqueue' \in [A!Workers -> Seq(Tasks)]
    /\ abuffer' \in [A!Workers -> Tasks \cup {NULL}]
    /\ Lines'
    /\ \A u \in A!Workers, x \in Tasks :
          InLine(u, x)' <=> InLine(u, x) /\ ~(u = v /\ x = k)
    /\ \A u \in A!Workers \ {w} : abuffer'[u] = abuffer[u]
    /\ apc[w] \in {"pop", "steal"}
    /\ A!Got(w, k)
    /\ UNCHANGED <<build, held, aremaining, task, future>>

NothingTaken(w) ==
    /\ apc[w] \in {"pop", "steal"}
    /\ \E i \in Nat \ {0} : A!TryVictim(w, i)
    /\ UNCHANGED <<build, held, aqueue, abuffer, aremaining, task, future>>

LEMMA HeadTaken ==
    ASSUME AsyncTypes, Lines, NEW v \in A!Workers, aqueue[v] # <<>>,
           aqueue' = [aqueue EXCEPT ![v] = Tail(@)], abuffer' = abuffer
    PROVE  LET k == Head(aqueue[v])
           IN  /\ k \in Tasks /\ InLine(v, k)
               /\ aqueue' \in [A!Workers -> Seq(Tasks)]
               /\ Lines'
               /\ \A u \in A!Workers, x \in Tasks :
                     InLine(u, x)' <=> InLine(u, x) /\ ~(u = v /\ x = k)
<1> DEFINE k == Head(aqueue[v])
<1>1. aqueue[v] \in Seq(Tasks) /\ Distinct(aqueue[v]) /\ ~Has(aqueue[v], abuffer[v])
  BY DEF AsyncTypes, Lines
<1>2. /\ k \in Tasks /\ Tail(aqueue[v]) \in Seq(Tasks)
      /\ \A x : Has(Tail(aqueue[v]), x) <=> x # k /\ Has(aqueue[v], x)
      /\ Has(aqueue[v], k) /\ Distinct(Tail(aqueue[v]))
  BY <1>1, TailHas
<1>3. \A u \in A!Workers : aqueue'[u] = IF u = v THEN Tail(aqueue[v]) ELSE aqueue[u]
  BY DEF AsyncTypes
<1>4. aqueue' \in [A!Workers -> Seq(Tasks)]
  BY <1>2 DEF AsyncTypes
<1> HIDE DEF k
<1>5. Lines'
  BY <1>1, <1>2, <1>3 DEF Lines
<1>6. k # abuffer[v]
  BY <1>1, <1>2
<1> QED
  BY <1>2, <1>3, <1>4, <1>5, <1>6 DEF InLine, k

LEMMA LastTaken ==
    ASSUME AsyncTypes, Lines, NEW v \in A!Workers, aqueue[v] # <<>>,
           aqueue' = [aqueue EXCEPT ![v] = SubSeq(@, 1, Len(aqueue[v]) - 1)],
           abuffer' = abuffer
    PROVE  LET k == aqueue[v][Len(aqueue[v])]
           IN  /\ k \in Tasks /\ InLine(v, k)
               /\ aqueue' \in [A!Workers -> Seq(Tasks)]
               /\ Lines'
               /\ \A u \in A!Workers, x \in Tasks :
                     InLine(u, x)' <=> InLine(u, x) /\ ~(u = v /\ x = k)
<1> DEFINE k == aqueue[v][Len(aqueue[v])]
           r == SubSeq(aqueue[v], 1, Len(aqueue[v]) - 1)
<1>1. aqueue[v] \in Seq(Tasks) /\ Distinct(aqueue[v]) /\ ~Has(aqueue[v], abuffer[v])
  BY DEF AsyncTypes, Lines
<1>2. /\ k \in Tasks /\ r \in Seq(Tasks)
      /\ \A x : Has(r, x) <=> x # k /\ Has(aqueue[v], x)
      /\ Has(aqueue[v], k) /\ Distinct(r)
  BY <1>1, FrontHas
<1>3. \A u \in A!Workers : aqueue'[u] = IF u = v THEN r ELSE aqueue[u]
  BY DEF AsyncTypes
<1> HIDE DEF r
<1>4. aqueue' \in [A!Workers -> Seq(Tasks)]
  BY <1>2 DEF AsyncTypes, r
<1> HIDE DEF k
<1>5. Lines'
  BY <1>1, <1>2, <1>3 DEF Lines
<1>6. k # abuffer[v]
  BY <1>1, <1>2
<1> QED
  BY <1>2, <1>3, <1>4, <1>5, <1>6 DEF InLine, k

LEMMA PopTakes ==
    ASSUME A!AsyncAssumption, AsyncTypes, Lines, NEW w \in A!Workers, A!Pop(w)
    PROVE  NothingTaken(w) \/ \E k \in Tasks : Taken(w, w, k)
<1>1. CASE abuffer[w] # NULL
  <2> DEFINE k == abuffer[w]
  <2>1. /\ k \in Tasks /\ InLine(w, k) /\ ~Has(aqueue[w], k)
    BY <1>1 DEF AsyncTypes, InLine, Lines
  <2>2. aqueue' = aqueue /\ A!Got(w, k)
    BY <1>1 DEF A!Pop
  <2>3. /\ abuffer' \in [A!Workers -> Tasks \cup {NULL}]
        /\ \A v \in A!Workers : abuffer'[v] = IF v = w THEN NULL ELSE abuffer[v]
    BY <1>1 DEF A!Pop, AsyncTypes
  <2>4. \A v \in A!Workers : aqueue[v] \in Seq(Tasks) /\ ~Has(aqueue[v], NULL)
    <3>1. NULL \notin Tasks
      BY DEF A!AsyncAssumption
    <3> QED
      BY <3>1, ElementOfSeq DEF AsyncTypes, Has
  <2>5. Lines'
    BY <2>2, <2>3, <2>4 DEF Lines
  <2>6. NULL \notin Tasks
    BY DEF A!AsyncAssumption
  <2>7. \A u \in A!Workers, x \in Tasks :
           InLine(u, x)' <=> InLine(u, x) /\ ~(u = w /\ x = k)
    BY <2>1, <2>2, <2>3, <2>6 DEF InLine
  <2>8. /\ aqueue' \in [A!Workers -> Seq(Tasks)] /\ apc[w] \in {"pop", "steal"}
        /\ UNCHANGED <<build, held, aremaining, task, future>>
    BY <2>2 DEF A!Pop, AsyncTypes
  <2> QED
    BY <2>1, <2>2, <2>3, <2>5, <2>7, <2>8 DEF Taken
<1>2. CASE abuffer[w] = NULL /\ aqueue[w] # <<>>
  <2>1. /\ abuffer' = abuffer /\ apc[w] \in {"pop", "steal"}
        /\ UNCHANGED <<build, held, aremaining, task, future>>
    BY <1>2 DEF A!Pop
  <2>2. CASE build = "cl"
    <3>1. /\ A!Got(w, aqueue[w][Len(aqueue[w])])
          /\ aqueue' = [aqueue EXCEPT ![w] = SubSeq(@, 1, Len(aqueue[w]) - 1)]
      BY <1>2, <2>2 DEF A!Pop
    <3> QED
      BY <1>2, <2>1, <3>1, LastTaken DEF Taken, AsyncTypes
  <2>3. CASE build # "cl"
    <3>1. A!Got(w, Head(aqueue[w])) /\ aqueue' = [aqueue EXCEPT ![w] = Tail(@)]
      BY <1>2, <2>3 DEF A!Pop
    <3> QED
      BY <1>2, <2>1, <3>1, HeadTaken DEF Taken, AsyncTypes
  <2> QED
    BY <2>2, <2>3
<1>3. CASE abuffer[w] = NULL /\ aqueue[w] = <<>>
  BY <1>3 DEF A!Pop, NothingTaken, A!queueVars
<1> QED
  BY <1>1, <1>2, <1>3

LEMMA StealTakes ==
    ASSUME A!AsyncAssumption, AsyncTypes, Lines, NEW w \in A!Workers, A!Steal(w)
    PROVE  NothingTaken(w) \/ \E v \in A!Workers, k \in Tasks : Taken(w, v, k)
<1> DEFINE v == (w + avictim[w]) % NWorkers
<1>1. v \in A!Workers
  BY DEF A!AsyncAssumption, AsyncTypes, A!Workers
<1>2. avictim[w] + 1 \in Nat \ {0}
  BY DEF AsyncTypes
<1>3. /\ abuffer' = abuffer /\ apc[w] \in {"pop", "steal"}
      /\ UNCHANGED <<build, held, aremaining, task, future>>
  BY DEF A!Steal
<1>4. \/ aqueue[v] # <<>> /\ A!Got(w, Head(aqueue[v])) /\ aqueue' = [aqueue EXCEPT ![v] = Tail(@)]
      \/ A!TryVictim(w, avictim[w] + 1) /\ aqueue' = aqueue
  BY DEF A!Steal
<1> HIDE DEF v
<1>5. CASE aqueue[v] # <<>> /\ A!Got(w, Head(aqueue[v])) /\ aqueue' = [aqueue EXCEPT ![v] = Tail(@)]
  BY <1>1, <1>3, <1>5, HeadTaken DEF Taken, AsyncTypes
<1>6. CASE A!TryVictim(w, avictim[w] + 1) /\ aqueue' = aqueue
  BY <1>2, <1>3, <1>6 DEF NothingTaken
<1> QED
  BY <1>4, <1>5, <1>6

----------------------------------------------------------------------------
(* Its steps.                                                              *)

\* What worker v does with the task in its hands stays the same.
SameService(v) ==
    \/ apc[v] \notin Carrying /\ apc'[v] \notin Carrying
    \/ /\ acur'[v] = acur[v] /\ held'[v] = held[v]
       /\ \/ apc'[v] = apc[v]
          \/ apc[v] = "return" /\ apc'[v] = "fulfil"
          \/ apc[v] = "await" /\ apc'[v] = "register"
          \/ apc[v] = "unlock_return" /\ apc'[v] = "delete"

\* A step that moves no task and answers no request.
LEMMA AsyncQuiet ==
    ASSUME AsyncInv, AsyncTypes', UNCHANGED <<aremaining, task, aqueue, abuffer>>,
           LocksHeld',
           \A f \in A!Futures : /\ future'[f].ready = future[f].ready
                                /\ future'[f].waiter = future[f].waiter,
           \A v \in A!Workers : SameService(v)
    PROVE  AsyncInv' /\ Booked
<1>1. \A v \in A!Workers, x \in Tasks :
         /\ InLine(v, x)' <=> InLine(v, x)
         /\ Carried(v, x)' <=> Carried(v, x)
  BY DEF InLine, Carried, Carrying, SameService
<1>0. \A x : Alive(x)' <=> Alive(x)
  BY DEF Alive
<1>3. \A x \in Tasks : Owes(x)' <=> Owes(x)
  <2>1. \A v \in A!Workers, x \in Tasks :
           apc'[v] \in {"unlock_return", "delete"} /\ acur'[v] = x
              <=> apc[v] \in {"unlock_return", "delete"} /\ acur[v] = x
    BY DEF SameService, Carrying
  <2>2. \A x \in Tasks : Released(x)' <=> Released(x)
    BY <2>1 DEF Released
  <2> QED
    BY <1>0, <2>2 DEF Owes
<1>4. Spots'
  <2>1. Lines'
    BY DEF AsyncInv, Spots, Lines
  <2>2. OneSpot'
    BY <1>0, <1>1 DEF AsyncInv, Spots, OneSpot
  <2> QED
    BY <2>1, <2>2 DEF Spots
<1>5. HandsServed'
  <2> SUFFICES ASSUME NEW v \in A!Workers, apc'[v] \in Carrying
               PROVE  acur'[v] \in Tasks /\ AtHand(v)'
    BY DEF HandsServed
  <2>1. acur[v] \in Tasks /\ AtHand(v)
    BY DEF AsyncInv, Serving, HandsServed, SameService, Carrying
  <2> QED
    BY <2>1 DEF AtHand, SameService, Carrying
<1>6. Frames'
  <2> SUFFICES ASSUME NEW x \in Tasks, Alive(x) PROVE Frame(x)'
    BY <1>0, <1>1 DEF Frames
  <2>1. Frame(x)
    BY DEF AsyncInv, Awaits, Frames
  <2>2. \A i \in 0..(Branching - 1) : <<x, i>> \in A!Futures
    BY DEF A!Futures
  <2> QED
    BY <2>1, <2>2 DEF Frame
<1>7. Promised'
  <2>1. \A x \in Tasks : Owes(x) => task[x].promise \in A!Futures
    BY DEF AsyncInv, AsyncTypes, Owes, Alive, A!TaskT
  <2>2. \A x \in Tasks : Owes(x) => future'[task[x].promise].ready = future[task[x].promise].ready
    BY <2>1
  <2>3. Promised
    BY DEF AsyncInv, Awaits
  <2> QED
    BY <1>0, <1>1, <1>3, <2>2, <2>3 DEF Promised
<1>8. WaitersWait'
  BY <1>0, <1>1, AsyncInv DEF AsyncInv, Awaits, WaitersWait, AsyncTypes, FutureT, Alive
<1>9. Woken'
  <2>1. \A v \in A!Workers, x \in Tasks :
           (InLine(v, x) \/ Carried(v, x)) /\ task[x].waiting # NULL
              => task[x].waiting \in A!Futures
    BY DEF AsyncInv, AsyncTypes, Spots, OneSpot, Alive, A!TaskT
  <2> QED
    BY <1>0, <1>1, <2>1 DEF AsyncInv, Awaits, Woken
<1>10. AllKnown'
  <2>1. \A x \in Tasks : Alive(x) => task[x].waiting \in A!Futures \cup {NULL}
    BY DEF AsyncInv, AsyncTypes, Alive, A!TaskT
  <2>2. \A x \in Tasks : Alive(x) => (Waiting(x)' <=> Waiting(x))
    BY <2>1 DEF Waiting
  <2>3. KnownTasks'
    BY <1>0, <1>1, <2>2 DEF AsyncInv, AllKnown, KnownTasks
  <2>4. KnownWaiters'
    <3> SUFFICES ASSUME NEW x \in Tasks, Alive(x), Waiting(x)
                 PROVE  future'[task[x].waiting].waiter = x
      BY <1>0, <2>2 DEF KnownWaiters
    <3>1. task[x].waiting \in A!Futures /\ future[task[x].waiting].waiter = x
      BY <2>1 DEF Waiting, AsyncInv, AllKnown, KnownWaiters
    <3> QED
      BY <3>1
  <2>5. KnownDebts'
    <3>1. \A p \in Tasks, i \in 0..(Branching - 1) : <<p, i>> \in A!Futures
      BY DEF A!Futures
    <3>2. \A p \in Tasks, i \in 0..(Branching - 1) :
             future'[<<p, i>>].ready = future[<<p, i>>].ready
      BY <3>1
    <3> QED
      BY <1>0, <1>3, <3>2 DEF AsyncInv, AllKnown, KnownDebts
  <2> QED
    BY <2>3, <2>4, <2>5 DEF AllKnown
<1>11. Booked
  <2>1. A!Final \in A!Futures
    BY DEF A!Futures
  <2> QED
    BY <1>0, <1>3, <2>1 DEF Booked
<1> QED
  BY <1>4, <1>5, <1>6, <1>7, <1>8, <1>9, <1>10, <1>11 DEF AsyncInv, Serving, Awaits

\* The types of what a step with a task in hand works on.
LEMMA HandFacts ==
    ASSUME A!AsyncAssumption, AsyncInv, NEW w \in A!Workers, apc[w] \in Carrying
    PROVE  LET k == acur[w]
               t == task[k]
           IN  /\ k \in Tasks /\ Alive(k) /\ t \in A!TaskT /\ AtHand(w) /\ Frame(k)
               /\ Carried(w, k)
               /\ \A v \in A!Workers : ~InLine(v, k) /\ (Carried(v, k) => v = w)
<1>1. acur[w] \in Tasks /\ AtHand(w)
  BY DEF AsyncInv, Serving, HandsServed
<1>2. Carried(w, acur[w])
  BY DEF Carried
<1>3. Alive(acur[w])
  BY <1>1, <1>2 DEF AsyncInv, Spots, OneSpot
<1>4. task[acur[w]] \in A!TaskT /\ Frame(acur[w])
  BY <1>1, <1>3 DEF AsyncInv, AsyncTypes, Alive, Awaits, Frames
<1>5. \A v \in A!Workers : ~InLine(v, acur[w]) /\ (Carried(v, acur[w]) => v = w)
  BY <1>1, <1>2 DEF AsyncInv, Spots, OneSpot
<1> QED
  BY <1>1, <1>2, <1>3, <1>4, <1>5

\* skynet's requests.
LEMMA Requests ==
    ASSUME A!AsyncAssumption, NEW t \in A!TaskT
    PROVE  /\ A!Request(t) = "return" => A!IsLeaf(t) \/ (t.started = Branching /\ t.awaited = Branching)
           /\ A!Request(t) = "async" => ~A!IsLeaf(t) /\ t.started < Branching
           /\ A!Request(t) = "await" =>
                 ~A!IsLeaf(t) /\ t.started = Branching /\ t.awaited < Branching
           /\ A!Request(t) \in {"return", "async", "await"}
<1>1. /\ t.started \in 0..Branching /\ t.awaited \in 0..Branching /\ Branching \in Nat \ {0}
  BY DEF A!TaskT, A!AsyncAssumption
<1> QED
  BY <1>1 DEF A!Request

\* It depends on the node and the two counts.
LEMMA SameRequest ==
    ASSUME NEW t, NEW u, t.num = u.num, t.started = u.started, t.awaited = u.awaited
    PROVE  A!Request(t) = A!Request(u) /\ (A!IsLeaf(t) <=> A!IsLeaf(u))
BY DEF A!Request, A!IsLeaf

\* What the locks of the others rest on is not disturbed.
LEMMA LocksKept ==
    ASSUME LocksInv, NEW w \in A!Workers, build' = build,
           \A v \in A!Workers \ {w} : apc'[v] = apc[v] /\ held'[v] = held[v],
           apc'[w] \in A!Locked =>
              /\ future'[held'[w]].blocked
              /\ \A v \in A!Workers \ {w} : apc[v] \in A!Locked => held[v] # held'[w],
           \A v \in A!Workers \ {w} : apc[v] \in A!Locked => future'[held[v]].blocked,
           \A v \in A!Workers \ {w} : Unlocking(v) => Guarded(v)',
           apc'[w] \in {"unlock_return", "unlock_await"} => Guarded(w)',
           RootOnly'
    PROVE  LocksInv'
<1>1. A!FutureLocks'
  BY DEF LocksInv, A!FutureLocks
<1>2. Blocked'
  BY DEF LocksInv, Blocked
<1>3. \A v \in A!Workers : Unlocking(v)' => Guarded(v)'
  BY DEF Unlocking
<1> QED
  BY <1>1, <1>2, <1>3 DEF LocksInv

LEMMA GuardedSame ==
    ASSUME NEW v \in A!Workers, Guarded(v), build' = build, task' = task,
           held'[v] = held[v], abuffer'[v] = abuffer[v], apc'[v] = apc[v],
           future'[held[v]].ready = future[held[v]].ready
    PROVE  Guarded(v)'
BY DEF Guarded, Pinned, Sole, Alive

\* Steps that change no task.
LEMMA LocksQuiet ==
    ASSUME LocksInv, Serving, NEW w \in A!Workers, build' = build, task' = task,
           \A v \in A!Workers \ {w} :
              apc'[v] = apc[v] /\ held'[v] = held[v] /\ abuffer'[v] = abuffer[v],
           \A f \in A!Futures : future'[f].ready = future[f].ready,
           \A v \in A!Workers \ {w} : apc[v] \in A!Locked => future'[held[v]].blocked,
           apc'[w] \in A!Locked =>
              /\ apc'[w] \in {"fulfil", "register"}
              /\ future'[held'[w]].blocked
              /\ \A v \in A!Workers \ {w} : apc[v] \in A!Locked => held[v] # held'[w]
    PROVE  LocksInv'
<1>1. \A v \in A!Workers : Unlocking(v) => apc[v] \in A!Locked /\ held[v] \in A!Futures
  BY DEF Unlocking, A!Locked, Serving, LocksHeld
<1>2. \A v \in A!Workers \ {w} : Unlocking(v) => Guarded(v)'
  BY <1>1, GuardedSame DEF LocksInv
<1>3. RootOnly'
  BY DEF LocksInv, RootOnly, Alive
<1>4. apc'[w] \notin {"unlock_return", "unlock_await"}
  BY DEF A!Locked
<1> QED
  BY <1>2, <1>3, <1>4, LocksKept

LEMMA TakenInv ==
    ASSUME A!AsyncAssumption, AsyncInv, NEW w \in A!Workers, NEW v \in A!Workers, NEW k \in Tasks,
           Taken(w, v, k)
    PROVE  AsyncInv' /\ Booked /\ (LocksInv => LocksInv')
<1>1. /\ apc' = [apc EXCEPT ![w] = "check"] /\ acur' = [acur EXCEPT ![w] = k]
      /\ avictim' = [avictim EXCEPT ![w] = 1] /\ apc[w] \in {"pop", "steal"}
      /\ UNCHANGED <<build, held, aremaining, task, future>>
  BY DEF Taken, A!Got, A!Goto
<1>2. AsyncTypes'
  <2>1. 1 \in 1..NWorkers /\ "check" \in A!Labels
    BY DEF A!AsyncAssumption, A!Labels
  <2> QED
    BY <1>1, <2>1 DEF AsyncInv, AsyncTypes, Taken
<1>3. \A u \in A!Workers : /\ apc'[u] = IF u = w THEN "check" ELSE apc[u]
                           /\ acur'[u] = IF u = w THEN k ELSE acur[u]
  BY <1>1 DEF AsyncInv, AsyncTypes
<1>4. \A u \in A!Workers, x \in Tasks :
         /\ InLine(u, x)' <=> InLine(u, x) /\ ~(u = v /\ x = k)
         /\ Carried(u, x)' <=> Carried(u, x) \/ (u = w /\ x = k)
  <2>1. "check" \in Carrying /\ apc[w] \notin Carrying
    BY <1>1 DEF Carrying
  <2> QED
    BY <1>3, <2>1 DEF Taken, Carried
<1>5. \A x : Alive(x)' <=> Alive(x)
  BY <1>1 DEF Alive
<1>6. \A x \in Tasks : Owes(x)' <=> Owes(x)
  BY <1>1, <1>3, <1>5 DEF Owes, Released
<1>7. Spots'
  <2>1. InLine(v, k)
    BY DEF Taken
  <2>2. Lines'
    BY DEF Taken
  <2>3. OneSpot'
    BY <1>4, <1>5, <2>1 DEF AsyncInv, Spots, OneSpot
  <2> QED
    BY <2>2, <2>3 DEF Spots
<1>8. HandsServed'
  <2> SUFFICES ASSUME NEW u \in A!Workers, apc'[u] \in Carrying
               PROVE  acur'[u] \in Tasks /\ AtHand(u)'
    BY DEF HandsServed
  <2>1. CASE u = w
    BY <1>3, <2>1 DEF AtHand
  <2>2. CASE u # w
    <3>1. acur[u] \in Tasks /\ AtHand(u)
      BY <1>3, <2>2 DEF AsyncInv, Serving, HandsServed
    <3> QED
      BY <1>1, <1>3, <2>2, <3>1 DEF AtHand
  <2> QED
    BY <2>1, <2>2
<1>9. LocksHeld'
  BY <1>1, <1>3 DEF AsyncInv, Serving, LocksHeld, A!Locked
<1>10. Awaits'
  <2>1. Frames'
    BY <1>1, <1>5 DEF AsyncInv, Awaits, Frames, Frame
  <2>2. Promised'
    BY <1>1, <1>5, <1>6 DEF AsyncInv, Awaits, Promised
  <2>3. WaitersWait'
    BY <1>1, <1>5 DEF AsyncInv, Awaits, WaitersWait
  <2>4. Woken'
    <3>1. InLine(v, k)
      BY DEF Taken
    <3> QED
      BY <1>1, <1>4, <3>1 DEF AsyncInv, Awaits, Woken
  <2> QED
    BY <2>1, <2>2, <2>3, <2>4 DEF Awaits
<1>11. AllKnown'
  <2>1. KnownTasks'
    <3>1. InLine(v, k)
      BY DEF Taken
    <3> QED
      BY <1>1, <1>4, <1>5, <3>1 DEF AsyncInv, AllKnown, KnownTasks, Waiting
  <2>2. KnownWaiters'
    BY <1>1, <1>5 DEF AsyncInv, AllKnown, KnownWaiters, Waiting
  <2>3. KnownDebts'
    BY <1>1, <1>5, <1>6 DEF AsyncInv, AllKnown, KnownDebts
  <2> QED
    BY <2>1, <2>2, <2>3 DEF AllKnown
<1>12. LocksInv => LocksInv'
  <2> SUFFICES ASSUME LocksInv PROVE LocksInv'
    OBVIOUS
  <2>1. /\ apc'[w] = "check" /\ "check" \notin A!Locked
        /\ \A u \in A!Workers \ {w} : apc'[u] = apc[u] /\ held'[u] = held[u] /\ abuffer'[u] = abuffer[u]
    BY <1>1, <1>3 DEF Taken, A!Locked
  <2>2. \A u \in A!Workers : apc[u] \in A!Locked => future'[held[u]].blocked
    BY <1>1 DEF LocksInv, Blocked
  <2>3. \A f \in A!Futures : future'[f].ready = future[f].ready
    BY <1>1
  <2> QED
    BY <1>1, <2>1, <2>2, <2>3, LocksQuiet DEF AsyncInv
<1>13. Booked
  BY <1>1, <1>5, <1>6 DEF Booked
<1> QED
  BY <1>2, <1>7, <1>8, <1>9, <1>10, <1>11, <1>12, <1>13 DEF AsyncInv, Serving

LEMMA MoveQuiet ==
    ASSUME A!AsyncAssumption, AsyncInv, NEW w \in A!Workers, NEW label \in A!Labels,
           A!Goto(w, label), avictim' \in [A!Workers -> 1..NWorkers],
           UNCHANGED <<build, acur, held, aqueue, abuffer, aremaining, task>>,
           future' \in [A!Futures -> FutureT],
           \A f \in A!Futures : /\ future'[f].ready = future[f].ready
                                /\ future'[f].waiter = future[f].waiter,
           \/ apc[w] \notin Carrying /\ label \notin Carrying \cup A!Locked
           \/ apc[w] = "return" /\ label = "fulfil"
           \/ apc[w] = "await" /\ label = "register"
           \/ apc[w] = "unlock_return" /\ label = "delete"
    PROVE  AsyncInv' /\ Booked
<1>1. \A v \in A!Workers : apc'[v] = IF v = w THEN label ELSE apc[v]
  BY DEF A!Goto, AsyncInv, AsyncTypes
<1>2. AsyncTypes'
  BY DEF A!Goto, AsyncInv, AsyncTypes
<1>3. ASSUME label \in A!Locked PROVE held[w] \in A!Futures
  <2>1. apc[w] \in {"return", "await"}
    BY <1>3 DEF Carrying, A!Locked
  <2>2. /\ acur[w] \in Tasks /\ task[acur[w]] \in A!TaskT /\ AtHand(w)
    BY <2>1, HandFacts DEF Carrying
  <2>3. CASE apc[w] = "return"
    BY <2>2, <2>3 DEF AtHand, A!TaskT
  <2>4. CASE apc[w] = "await"
    <3>1. /\ A!Request(task[acur[w]]) = "await" /\ held[w] = <<acur[w], task[acur[w]].awaited>>
      BY <2>2, <2>4 DEF AtHand
    <3>2. task[acur[w]].awaited \in 0..(Branching - 1)
      BY <2>2, <3>1, Requests DEF A!TaskT, A!AsyncAssumption
    <3> QED
      BY <2>2, <3>1, <3>2 DEF A!Futures
  <2> QED
    BY <2>1, <2>3, <2>4
<1>4. LocksHeld'
  BY <1>1, <1>3 DEF AsyncInv, Serving, LocksHeld
<1>5. \A v \in A!Workers : SameService(v)
  BY <1>1 DEF SameService
<1> QED
  BY <1>2, <1>4, <1>5, AsyncQuiet

LEMMA AcquireInv ==
    ASSUME A!AsyncAssumption, AsyncInv, NEW w \in A!Workers, A!Acquire(w) \/ A!Unlock(w)
    PROVE  AsyncInv' /\ Booked /\ (LocksInv => LocksInv')
<1> DEFINE label == CASE apc[w] = "return" -> "fulfil"
                      [] apc[w] = "await" -> "register"
                      [] apc[w] = "unlock_return" -> "delete"
                      [] apc[w] = "unlock_await" -> "pop"
<1>1. /\ apc[w] \in {"return", "await", "unlock_return", "unlock_await"}
      /\ UNCHANGED <<build, acur, avictim, held, aqueue, abuffer, aremaining, task>>
      /\ \E b \in BOOLEAN : future' = [future EXCEPT ![held[w]].blocked = b]
      /\ A!Goto(w, label)
  BY DEF A!Acquire, A!Unlock, A!queueVars
<1>2. /\ label \in A!Labels
      /\ \/ apc[w] \notin Carrying /\ label \notin Carrying \cup A!Locked
         \/ apc[w] = "return" /\ label = "fulfil"
         \/ apc[w] = "await" /\ label = "register"
         \/ apc[w] = "unlock_return" /\ label = "delete"
  BY <1>1 DEF A!Labels, Carrying, A!Locked
<1>3. /\ future' \in [A!Futures -> FutureT]
      /\ \A f \in A!Futures : /\ future'[f].ready = future[f].ready
                              /\ future'[f].waiter = future[f].waiter
  <2>1. PICK b \in BOOLEAN : future' = [future EXCEPT ![held[w]].blocked = b]
    BY <1>1
  <2>2. \A f \in A!Futures : /\ future[f] \in FutureT
                             /\ future'[f] = IF f = held[w] THEN [future[f] EXCEPT !.blocked = b]
                                                            ELSE future[f]
    BY <2>1 DEF AsyncInv, AsyncTypes
  <2>3. ASSUME NEW r \in FutureT
        PROVE  LET s == [r EXCEPT !.blocked = b]
               IN  s \in FutureT /\ s.ready = r.ready /\ s.waiter = r.waiter
    BY DEF FutureT
  <2>4. future' \in [A!Futures -> FutureT]
    BY <2>1, <2>2, <2>3 DEF AsyncInv, AsyncTypes
  <2> QED
    BY <2>2, <2>3, <2>4
<1> HIDE DEF label
<1>4. avictim' \in [A!Workers -> 1..NWorkers]
  BY <1>1 DEF AsyncInv, AsyncTypes
<1>5. AsyncInv' /\ Booked
  BY <1>1, <1>2, <1>3, <1>4, MoveQuiet
<1>6. LocksInv => LocksInv'
  <2> SUFFICES ASSUME LocksInv PROVE LocksInv'
    OBVIOUS
  <2>1. \A v \in A!Workers : apc'[v] = IF v = w THEN label ELSE apc[v]
    BY <1>1 DEF A!Goto, AsyncInv, AsyncTypes
  <2>2. \A v \in A!Workers \ {w} : apc'[v] = apc[v] /\ held'[v] = held[v] /\ abuffer'[v] = abuffer[v]
    BY <1>1, <2>1
  <2>3. \A f \in A!Futures \ {held[w]} : future'[f].blocked = future[f].blocked
    BY <1>1 DEF AsyncInv, AsyncTypes
  <2>4. \A v \in A!Workers : apc[v] \in A!Locked => held[v] \in A!Futures /\ future[held[v]].blocked
    BY DEF LocksInv, Blocked, AsyncInv, Serving, LocksHeld
  <2>5. \A v \in A!Workers \ {w} : apc[v] \in A!Locked => held[v] # held[w]
    <3>1. CASE A!Acquire(w)
      BY <2>4, <3>1 DEF A!Acquire
    <3>2. CASE A!Unlock(w)
      BY <3>2 DEF A!Unlock, A!Locked, LocksInv, A!FutureLocks
    <3> QED
      BY <3>1, <3>2
  <2>6. \A v \in A!Workers \ {w} : apc[v] \in A!Locked => future'[held[v]].blocked
    BY <2>3, <2>4, <2>5
  <2>7. label \in A!Locked => label \in {"fulfil", "register"} /\ future'[held'[w]].blocked
    <3>1. CASE A!Acquire(w)
      <4>1. held[w] \in A!Futures
        BY <1>2, <1>5, <2>1, <3>1 DEF A!Acquire, label, AsyncInv, Serving, LocksHeld, A!Locked
      <4>2. future[held[w]] \in FutureT /\ future' = [future EXCEPT ![held[w]].blocked = TRUE]
        BY <3>1, <4>1 DEF A!Acquire, AsyncInv, AsyncTypes
      <4>3. future'[held[w]].blocked
        BY <4>1, <4>2 DEF FutureT, AsyncInv, AsyncTypes
      <4> QED
        BY <1>1, <3>1, <4>3 DEF A!Acquire, label
    <3>2. CASE A!Unlock(w)
      BY <3>2 DEF A!Unlock, label, A!Locked
    <3> QED
      BY <3>1, <3>2
  <2>8. apc'[w] = label
    BY <2>1
  <2> QED
    BY <1>1, <1>3, <2>2, <2>5, <2>6, <2>7, <2>8, LocksQuiet DEF AsyncInv
<1> QED
  BY <1>5, <1>6

LEMMA IdleInv ==
    ASSUME A!AsyncAssumption, AsyncInv, NEW w \in A!Workers, NothingTaken(w) \/ A!Idle(w)
    PROVE  AsyncInv' /\ Booked /\ (LocksInv => LocksInv')
<1>1. /\ UNCHANGED <<build, acur, held, aqueue, abuffer, aremaining, task, future>>
      /\ apc[w] \in {"pop", "steal", "idle"}
      /\ avictim' \in [A!Workers -> 1..NWorkers]
      /\ \E label \in {"pop", "steal", "idle", "exited"} : A!Goto(w, label)
  <2>1. CASE NothingTaken(w)
    BY <2>1 DEF NothingTaken, A!TryVictim, AsyncInv, AsyncTypes, A!AsyncAssumption
  <2>2. CASE A!Idle(w)
    BY <2>2 DEF A!Idle, A!queueVars, AsyncInv, AsyncTypes
  <2> QED
    BY <2>1, <2>2
<1>2. PICK label \in {"pop", "steal", "idle", "exited"} : A!Goto(w, label)
  BY <1>1
<1>3. label \in A!Labels /\ apc[w] \notin Carrying /\ label \notin Carrying \cup A!Locked
  BY <1>1 DEF A!Labels, Carrying, A!Locked
<1>4. future' \in [A!Futures -> FutureT]
  BY <1>1 DEF AsyncInv, AsyncTypes
<1>5. AsyncInv' /\ Booked
  BY <1>1, <1>2, <1>3, <1>4, MoveQuiet
<1>6. LocksInv => LocksInv'
  <2> SUFFICES ASSUME LocksInv PROVE LocksInv'
    OBVIOUS
  <2>1. /\ apc'[w] \notin A!Locked
        /\ \A v \in A!Workers \ {w} : apc'[v] = apc[v] /\ held'[v] = held[v] /\ abuffer'[v] = abuffer[v]
    BY <1>1, <1>2, <1>3 DEF A!Goto, AsyncInv, AsyncTypes
  <2>2. \A v \in A!Workers : apc[v] \in A!Locked => future'[held[v]].blocked
    BY <1>1 DEF LocksInv, Blocked
  <2>3. \A f \in A!Futures : future'[f].ready = future[f].ready
    BY <1>1
  <2> QED
    BY <1>1, <2>1, <2>2, <2>3, LocksQuiet DEF AsyncInv
<1> QED
  BY <1>5, <1>6

\* Before Run no thread has taken a step.
Started == apc[0] = "run" => \A w \in A!Workers : apc[w] \in {"run", "new"}

LEMMA StartedStep ==
    ASSUME A!AsyncAssumption, AsyncTypes, Started, [A!Next]_A!vars PROVE Started'
<1>0. 0 \in A!Workers
  BY DEF A!AsyncAssumption, A!Workers
<1>1. CASE A!Run \/ A!Join
  BY <1>0, <1>1 DEF A!Run, A!Join, A!Goto, AsyncTypes, Started
<1>2. ASSUME NEW w \in A!Workers, A!Worker(w) PROVE Started'
  <2>1. apc[w] \notin {"run", "new"}
    BY <1>2 DEF A!Worker, A!Pop, A!Steal, A!Idle, A!Resume, A!Acquire, A!Unlock, A!Fulfil,
                A!Delete, A!Register, A!StartChild, A!Requeue
  <2>2. \A v \in A!Workers : v # w => apc'[v] = apc[v]
    BY <1>2 DEF AsyncTypes, A!Worker, A!Pop, A!Steal, A!Idle, A!Resume, A!Acquire, A!Unlock,
                A!Fulfil, A!Delete, A!Register, A!StartChild, A!Requeue, A!Goto, A!Got,
                A!TryVictim
  <2>3. apc'[0] # "run"
    BY <1>0, <1>2, <2>1, <2>2
       DEF AsyncTypes, Started, A!Worker, A!Pop, A!Steal, A!Idle, A!Resume, A!Acquire, A!Unlock,
           A!Fulfil, A!Delete, A!Register, A!StartChild, A!Requeue, A!Goto, A!Got, A!TryVictim,
           A!Request
  <2> QED
    BY <2>3 DEF Started
<1>3. CASE UNCHANGED A!vars
  BY <1>3 DEF A!vars, Started
<1>4. \/ A!Run \/ A!Join \/ UNCHANGED A!vars
      \/ \E w \in A!Workers : A!Worker(w)
  BY DEF A!Next, A!Done, A!vars
<1> QED
  BY <1>1, <1>2, <1>3, <1>4

LEMMA MainInv ==
    ASSUME A!AsyncAssumption, AsyncInv, Started, A!Run \/ A!Join \/ UNCHANGED A!vars
    PROVE  AsyncInv' /\ Booked /\ (LocksInv => LocksInv')
<1>0. 0 \in A!Workers
  BY DEF A!AsyncAssumption, A!Workers
<1>1. UNCHANGED <<build, acur, avictim, held, aqueue, abuffer, aremaining, task, future>>
  BY DEF A!Run, A!Join, A!vars, A!queueVars
<1>2. \/ apc' = [w \in A!Workers |-> "pop"] /\ \A w \in A!Workers : apc[w] \in {"run", "new"}
      \/ A!Goto(0, "done") /\ apc[0] = "exited"
      \/ apc' = apc
  <2>1. CASE A!Run
    BY <2>1 DEF A!Run, Started
  <2>2. CASE A!Join
    BY <1>0, <2>2 DEF A!Join
  <2>3. CASE UNCHANGED A!vars
    BY <2>3 DEF A!vars
  <2> QED
    BY <2>1, <2>2, <2>3
<1>3. \A w \in A!Workers :
         \/ apc'[w] = apc[w]
         \/ apc[w] \in {"run", "new", "exited"} /\ apc'[w] \in {"pop", "done"}
  BY <1>2 DEF A!Goto, AsyncInv, AsyncTypes
<1>4. \A l \in {"pop", "done", "run", "new", "exited"} : l \notin Carrying /\ l \notin A!Locked
  BY DEF Carrying, A!Locked
<1>5. apc' \in [A!Workers -> A!Labels]
  BY <1>2 DEF A!Goto, A!Labels, AsyncInv, AsyncTypes
<1>6. AsyncTypes'
  BY <1>1, <1>5 DEF AsyncInv, AsyncTypes
<1>7. LocksHeld'
  BY <1>1, <1>3, <1>4 DEF AsyncInv, Serving, LocksHeld
<1>8. \A v \in A!Workers : SameService(v)
  BY <1>1, <1>3, <1>4 DEF SameService
<1>9. LocksInv => LocksInv'
  <2> SUFFICES ASSUME LocksInv PROVE LocksInv'
    OBVIOUS
  <2>1. \A w \in A!Workers : apc'[w] \in A!Locked => apc'[w] = apc[w]
    BY <1>3, <1>4
  <2>2. A!FutureLocks'
    BY <1>1, <2>1 DEF LocksInv, A!FutureLocks
  <2>3. Blocked'
    BY <1>1, <2>1 DEF LocksInv, Blocked
  <2>4. RootOnly'
    BY <1>1 DEF LocksInv, RootOnly, Alive
  <2>5. ASSUME NEW w \in A!Workers, Unlocking(w)' PROVE Guarded(w)'
    <3>1. apc'[w] = apc[w] /\ Unlocking(w)
      BY <2>1, <2>5 DEF Unlocking, A!Locked
    <3> QED
      BY <1>1, <3>1, GuardedSame DEF LocksInv
  <2> QED
    BY <1>1, <2>2, <2>3, <2>4, <2>5 DEF LocksInv
<1> QED
  BY <1>1, <1>6, <1>7, <1>8, <1>9, AsyncQuiet

\* The worker's task leaves its hands.
LEMMA NotInHand ==
    ASSUME AsyncInv, NEW w \in A!Workers, NEW label \in A!Labels \ Carrying,
           A!Goto(w, label), acur' = acur
    PROVE  /\ \A v \in A!Workers : apc'[v] = IF v = w THEN label ELSE apc[v]
           /\ \A v \in A!Workers, x \in Tasks : Carried(v, x)' <=> v # w /\ Carried(v, x)
<1>1. \A v \in A!Workers : apc'[v] = IF v = w THEN label ELSE apc[v]
  BY DEF A!Goto, AsyncInv, AsyncTypes
<1> QED
  BY <1>1 DEF Carried

\* What the other workers do is not disturbed while their tasks are not.
LEMMA OthersServed ==
    ASSUME AsyncInv, NEW w \in A!Workers,
           \A v \in A!Workers \ {w} :
              apc'[v] = apc[v] /\ acur'[v] = acur[v] /\ held'[v] = held[v],
           \A v \in A!Workers \ {w} : apc[v] \in Carrying => task'[acur[v]] = task[acur[v]],
           apc'[w] \in Carrying => acur'[w] \in Tasks /\ AtHand(w)'
    PROVE  HandsServed'
<1> SUFFICES ASSUME NEW v \in A!Workers \ {w}, apc[v] \in Carrying
             PROVE  acur[v] \in Tasks /\ AtHand(v)'
  BY DEF HandsServed
<1>1. acur[v] \in Tasks /\ AtHand(v)
  BY DEF AsyncInv, Serving, HandsServed
<1> QED
  BY <1>1 DEF AtHand

LEMMA RequeueInv ==
    ASSUME A!AsyncAssumption, AsyncInv, NEW w \in A!Workers, A!Requeue(w)
    PROVE  AsyncInv' /\ Booked /\ (LocksInv => LocksInv')
<1> DEFINE k == acur[w]
<1>1. /\ apc[w] = "requeue" /\ A!Push(w, k) /\ A!Goto(w, "pop")
      /\ UNCHANGED <<build, acur, avictim, held, abuffer, aremaining, task, future>>
  BY DEF A!Requeue
<1>2. /\ k \in Tasks /\ Alive(k) /\ AtHand(w) /\ Carried(w, k)
      /\ \A v \in A!Workers : ~InLine(v, k) /\ (Carried(v, k) => v = w)
  BY <1>1, HandFacts DEF Carrying
<1> HIDE DEF k
<1>3. /\ aqueue' \in [A!Workers -> Seq(Tasks)]
      /\ Lines'
      /\ \A v \in A!Workers, x \in Tasks :
            InLine(v, x)' <=> (v = w /\ x = k) \/ InLine(v, x)
  BY <1>1, <1>2, AsyncPush DEF AsyncInv, Spots
<1>4. "pop" \in A!Labels \ Carrying /\ "pop" \notin A!Locked
  BY DEF A!Labels, Carrying, A!Locked
<1>5. /\ \A v \in A!Workers : apc'[v] = IF v = w THEN "pop" ELSE apc[v]
      /\ \A v \in A!Workers, x \in Tasks : Carried(v, x)' <=> v # w /\ Carried(v, x)
  BY <1>1, <1>4, NotInHand
<1>6. AsyncTypes'
  BY <1>1, <1>3, <1>4 DEF A!Goto, AsyncInv, AsyncTypes
<1>7. \A x : Alive(x)' <=> Alive(x)
  BY <1>1 DEF Alive
<1>8. OneSpot'
  BY <1>2, <1>3, <1>5, <1>7 DEF AsyncInv, Spots, OneSpot
<1>9. HandsServed'
  BY <1>1, <1>4, <1>5, OthersServed
<1>10. LocksHeld'
  BY <1>1, <1>4, <1>5 DEF AsyncInv, Serving, LocksHeld
<1>11. \A x \in Tasks : Owes(x)' <=> Owes(x)
  BY <1>1, <1>5, <1>7 DEF Owes, Released
<1>12. Awaits'
  <2>1. Frames'
    BY <1>1, <1>7 DEF AsyncInv, Awaits, Frames, Frame
  <2>2. Promised'
    BY <1>1, <1>7, <1>11 DEF AsyncInv, Awaits, Promised
  <2>3. WaitersWait'
    BY <1>1, <1>7 DEF AsyncInv, Awaits, WaitersWait
  <2>4. Woken'
    BY <1>1, <1>2, <1>3, <1>5 DEF AsyncInv, Awaits, Woken
  <2> QED
    BY <2>1, <2>2, <2>3, <2>4 DEF Awaits
<1>13. AllKnown'
  <2>1. KnownTasks'
    BY <1>1, <1>2, <1>3, <1>5, <1>7 DEF AsyncInv, AllKnown, KnownTasks, Waiting, Carried, k
  <2>2. KnownWaiters'
    BY <1>1, <1>7 DEF AsyncInv, AllKnown, KnownWaiters, Waiting
  <2>3. KnownDebts'
    BY <1>1, <1>7, <1>11 DEF AsyncInv, AllKnown, KnownDebts
  <2> QED
    BY <2>1, <2>2, <2>3 DEF AllKnown
<1>14. LocksInv => LocksInv'
  <2> SUFFICES ASSUME LocksInv PROVE LocksInv'
    OBVIOUS
  <2>1. \A v \in A!Workers : apc[v] \in A!Locked => future'[held[v]].blocked
    BY <1>1 DEF LocksInv, Blocked
  <2> QED
    BY <1>1, <1>4, <1>5, <2>1, LocksQuiet DEF AsyncInv
<1>15. Booked
  BY <1>1, <1>7, <1>11 DEF Booked
<1> QED
  BY <1>3, <1>6, <1>8, <1>9, <1>10, <1>12, <1>13, <1>14, <1>15 DEF AsyncInv, Spots, Serving

LEMMA DeleteInv ==
    ASSUME A!AsyncAssumption, AsyncInv, NEW w \in A!Workers, A!Delete(w)
    PROVE  AsyncInv' /\ Booked /\ (LocksInv => LocksInv')
<1> DEFINE k == acur[w]
<1>1. /\ apc[w] = "delete" /\ A!Goto(w, "pop") /\ task' = [task EXCEPT ![k] = NULL]
      /\ aremaining' = aremaining - 1
      /\ UNCHANGED <<build, acur, avictim, held, aqueue, abuffer, future>>
  BY DEF A!Delete, A!queueVars
<1>2. /\ k \in Tasks /\ Alive(k) /\ task[k] \in A!TaskT /\ AtHand(w) /\ Frame(k) /\ Carried(w, k)
      /\ \A v \in A!Workers : ~InLine(v, k) /\ (Carried(v, k) => v = w)
  BY <1>1, HandFacts DEF Carrying
<1>3. task[k].waiting = NULL /\ A!Request(task[k]) = "return"
  BY <1>1, <1>2 DEF AtHand
<1>4. "pop" \in A!Labels \ Carrying /\ "pop" \notin A!Locked
  BY DEF A!Labels, Carrying, A!Locked
<1>5. /\ \A v \in A!Workers : apc'[v] = IF v = w THEN "pop" ELSE apc[v]
      /\ \A v \in A!Workers, x \in Tasks : Carried(v, x)' <=> v # w /\ Carried(v, x)
  BY <1>1, <1>4, NotInHand
<1>6. \A x \in Tasks : task'[x] = IF x = k THEN NULL ELSE task[x]
  BY <1>1 DEF AsyncInv, AsyncTypes
<1>7. AsyncTypes'
  BY <1>1, <1>4 DEF A!Goto, AsyncInv, AsyncTypes
<1>8. \A x \in Tasks : Alive(x)' <=> x # k /\ Alive(x)
  BY <1>6 DEF Alive
<1>9. \A v \in A!Workers, x \in Tasks : InLine(v, x)' <=> InLine(v, x)
  BY <1>1 DEF InLine
<1>10. \A x \in Tasks : Owes(x)' <=> Owes(x)
  <2>1. Released(k)
    BY <1>1 DEF Released
  <2>2. \A x \in Tasks \ {k} : Released(x)' <=> Released(x)
    BY <1>1, <1>5 DEF Released
  <2> QED
    BY <1>8, <2>1, <2>2 DEF Owes
<1>11. Spots'
  <2>1. Lines'
    BY <1>1 DEF AsyncInv, Spots, Lines
  <2>2. OneSpot'
    BY <1>2, <1>5, <1>8, <1>9 DEF AsyncInv, Spots, OneSpot
  <2> QED
    BY <2>1, <2>2 DEF Spots
<1>12. HandsServed'
  <2>1. \A v \in A!Workers \ {w} : apc[v] \in Carrying => acur[v] \in Tasks /\ acur[v] # k
    BY <1>2 DEF AsyncInv, Serving, HandsServed, Carried
  <2> QED
    BY <1>1, <1>4, <1>5, <1>6, <2>1, OthersServed
<1>13. LocksHeld'
  BY <1>1, <1>4, <1>5 DEF AsyncInv, Serving, LocksHeld
<1>14. Frames'
  BY <1>1, <1>6, <1>8 DEF AsyncInv, Awaits, Frames, Frame
<1>15. Promised'
  <2> SUFFICES ASSUME NEW x \in Tasks, Owes(x),
                      NEW i \in 0..(Branching - 1), task[x].promise = <<k, i>>
               PROVE  FALSE
    <3>1. \A x \in Tasks : Owes(x) => x # k
      BY <1>8, <1>10 DEF Owes
    <3>2. Promised
      BY DEF AsyncInv, Awaits
    <3> QED
      BY <1>1, <1>6, <1>8, <1>10, <3>1, <3>2 DEF Promised
  <2>1. ~future[<<k, i>>].ready /\ i < task[k].started
    BY <1>2 DEF AsyncInv, Awaits, Promised
  <2>2. i < task[k].awaited
    BY <1>2, <1>3, <2>1, Requests DEF Frame, A!TaskT
  <2> QED
    BY <1>2, <2>1, <2>2 DEF Frame
<1>16. WaitersWait'
  <2> SUFFICES ASSUME NEW f \in A!Futures, future[f].waiter # NULL
               PROVE  Alive(future[f].waiter)' /\ task'[future[f].waiter].waiting = f
    BY <1>1 DEF WaitersWait
  <2>1. /\ future[f].waiter \in Tasks
        /\ Alive(future[f].waiter) /\ task[future[f].waiter].waiting = f
    BY DEF AsyncInv, AsyncTypes, Awaits, WaitersWait, FutureT
  <2>2. f # NULL
    BY DEF A!AsyncAssumption
  <2>3. future[f].waiter # k
    BY <1>3, <2>1, <2>2
  <2> QED
    BY <1>1, <1>6, <1>8, <2>1, <2>3
<1>17. Woken'
  BY <1>1, <1>2, <1>5, <1>6, <1>9 DEF AsyncInv, Awaits, Woken
<1>18. AllKnown'
  <2>1. KnownTasks'
    <3> SUFFICES ASSUME NEW x \in Tasks, x # k, Alive(x)
                 PROVE  \/ \E v \in A!Workers : InLine(v, x)' \/ Carried(v, x)'
                        \/ Waiting(x)'
      BY <1>8 DEF KnownTasks
    <3>1. Waiting(x)' <=> Waiting(x)
      BY <1>1, <1>6 DEF Waiting
    <3>2. ~Carried(w, x)
      BY DEF Carried
    <3> QED
      BY <1>5, <1>9, <3>1, <3>2 DEF AsyncInv, AllKnown, KnownTasks
  <2>2. KnownWaiters'
    BY <1>1, <1>6, <1>8 DEF AsyncInv, AllKnown, KnownWaiters, Waiting
  <2>3. KnownDebts'
    <3>1. \A x \in Tasks : Owes(x) => x # k
      BY <1>8, <1>10 DEF Owes
    <3> QED
      BY <1>1, <1>6, <1>8, <1>10, <3>1 DEF AsyncInv, AllKnown, KnownDebts
  <2> QED
    BY <2>1, <2>2, <2>3 DEF AllKnown
<1>19. LocksInv => LocksInv'
  <2> SUFFICES ASSUME LocksInv PROVE LocksInv'
    OBVIOUS
  <2>1. \A v \in A!Workers : apc[v] \in A!Locked => future'[held[v]].blocked
    BY <1>1 DEF LocksInv, Blocked
  <2>2. RootOnly'
    BY <1>6, <1>8 DEF LocksInv, RootOnly
  <2>3. ASSUME NEW v \in A!Workers \ {w}, Unlocking(v) PROVE Guarded(v)'
    <3>1. Guarded(v) /\ apc'[v] = apc[v]
      BY <1>5, <2>3 DEF LocksInv
    <3> SUFFICES ASSUME NEW p \in Tasks, NEW i \in 0..(Branching - 1), held[v] = <<p, i>>
                 PROVE  /\ build = "tk" => Pinned(v, p, i)'
                        /\ A!LastLayer <= Branching => Sole(p, i)'
      BY <1>1 DEF Guarded
    <3>2. ASSUME build = "tk" PROVE Pinned(v, p, i)'
      <4>1. Pinned(v, p, i)
        BY <3>1, <3>2 DEF Guarded
      <4>2. p # k
        BY <1>2, <1>3, <4>1, Requests DEF Pinned, Frame, A!TaskT
      <4>3. task'[p] = task[p] /\ Alive(p)'
        BY <1>6, <1>8, <4>1, <4>2 DEF Pinned
      <4> QED
        BY <1>1, <3>1, <4>1, <4>3 DEF Pinned
    <3>3. ASSUME A!LastLayer <= Branching PROVE Sole(p, i)'
      BY <1>6, <1>8, <3>1, <3>3 DEF Guarded, Sole
    <3> QED
      BY <3>2, <3>3
  <2> QED
    BY <1>1, <1>4, <1>5, <2>1, <2>2, <2>3, LocksKept DEF A!Locked
<1>20. Booked
  <2>1. \A x \in Tasks : Owes(x) => x # k
    BY <1>8, <1>10 DEF Owes
  <2> QED
    BY <1>1, <1>2, <1>6, <1>8, <1>10, <2>1 DEF Booked
<1> QED
  BY <1>7, <1>11, <1>12, <1>13, <1>14, <1>15, <1>16, <1>17, <1>18, <1>19, <1>20
     DEF AsyncInv, Serving, Awaits

LEMMA ResumeInv ==
    ASSUME A!AsyncAssumption, AsyncInv, NEW w \in A!Workers, A!Resume(w)
    PROVE  AsyncInv' /\ Booked /\ (LocksInv => LocksInv')
<1> DEFINE k == acur[w]
           r == task[k]
           t == A!Answered(r)
           f == r.waiting
<1>1. /\ apc[w] = "check" /\ task' = [task EXCEPT ![k] = t]
      /\ f # NULL => future[f].ready
      /\ future' = IF f = NULL THEN future ELSE [future EXCEPT ![f].waiter = NULL]
      /\ held' = [held EXCEPT ![w] = A!Subject(k, t)]
      /\ A!Goto(w, A!Request(t))
      /\ UNCHANGED <<build, acur, avictim, aqueue, abuffer, aremaining>>
  BY DEF A!Resume, A!queueVars
<1>2. /\ k \in Tasks /\ Alive(k) /\ r \in A!TaskT /\ Frame(k) /\ Carried(w, k)
      /\ \A v \in A!Workers : ~InLine(v, k) /\ (Carried(v, k) => v = w)
  BY <1>1, HandFacts DEF Carrying
<1>3. f # NULL => f \in A!Futures /\ f = <<k, r.awaited>> /\ future[f] \in FutureT
                  /\ r.started = Branching /\ r.awaited < Branching /\ ~A!IsLeaf(r)
  BY <1>2, Requests DEF Frame, A!TaskT, AsyncInv, AsyncTypes
<1>4. /\ t \in A!TaskT /\ t.num = r.num /\ t.promise = r.promise /\ t.started = r.started
      /\ t.waiting = NULL
      /\ f = NULL => t.awaited = r.awaited
      /\ f # NULL => t.awaited = r.awaited + 1
  <2>1. CASE f = NULL
    BY <1>2, <2>1 DEF A!Answered
  <2>2. CASE f # NULL
    <3>1. /\ r.awaited + 1 \in 0..Branching /\ r.sum + future[f].result \in Nat
      BY <1>2, <1>3, <2>2 DEF A!TaskT, FutureT, A!AsyncAssumption
    <3>2. t = [r EXCEPT !.waiting = NULL, !.awaited = r.awaited + 1,
                        !.sum = r.sum + future[f].result]
      BY <2>2 DEF A!Answered
    <3> QED
      BY <1>2, <2>2, <3>1, <3>2 DEF A!TaskT
  <2> QED
    BY <2>1, <2>2
<1>5. /\ A!Request(t) \in {"return", "async", "await"}
      /\ A!Request(t) = "async" => t.started < Branching
      /\ A!Request(t) = "await" => t.awaited < Branching
  BY <1>4, Requests
<1> HIDE DEF t
<1>6. /\ A!Request(t) = "return" => A!Subject(k, t) = t.promise
      /\ A!Request(t) = "async" => A!Subject(k, t) = <<k, t.started>>
      /\ A!Request(t) = "await" => A!Subject(k, t) = <<k, t.awaited>>
  BY DEF A!Subject
<1>7. A!Subject(k, t) \in A!Futures
  BY <1>2, <1>4, <1>5, <1>6 DEF A!TaskT, A!Futures, A!AsyncAssumption
<1> HIDE DEF k, r, f
<1>8. \A v \in A!Workers : /\ apc'[v] = IF v = w THEN A!Request(t) ELSE apc[v]
                           /\ held'[v] = IF v = w THEN A!Subject(k, t) ELSE held[v]
  BY <1>1 DEF A!Goto, AsyncInv, AsyncTypes
<1>9. \A x \in Tasks : task'[x] = IF x = k THEN t ELSE task[x]
  BY <1>1 DEF AsyncInv, AsyncTypes
<1>10. /\ future' \in [A!Futures -> FutureT]
       /\ \A g \in A!Futures : future'[g].ready = future[g].ready
                               /\ future'[g].blocked = future[g].blocked
       /\ \A g \in A!Futures : future'[g].waiter = IF g = f /\ f # NULL THEN NULL
                                                                    ELSE future[g].waiter
  <2>1. CASE f = NULL
    BY <1>1, <2>1 DEF AsyncInv, AsyncTypes
  <2>2. CASE f # NULL
    <3>1. future' = [future EXCEPT ![f].waiter = NULL]
      BY <1>1, <2>2
    <3>2. /\ [future[f] EXCEPT !.waiter = NULL] \in FutureT
          /\ [future[f] EXCEPT !.waiter = NULL].ready = future[f].ready
          /\ [future[f] EXCEPT !.waiter = NULL].blocked = future[f].blocked
          /\ [future[f] EXCEPT !.waiter = NULL].waiter = NULL
      BY <1>3, <2>2 DEF FutureT
    <3>3. \A g \in A!Futures : future'[g] = IF g = f THEN [future[f] EXCEPT !.waiter = NULL]
                                                     ELSE future[g]
      BY <3>1 DEF AsyncInv, AsyncTypes
    <3>4. future' \in [A!Futures -> FutureT]
      BY <3>1, <3>2 DEF AsyncInv, AsyncTypes
    <3> QED
      BY <2>2, <3>2, <3>3, <3>4
  <2> QED
    BY <2>1, <2>2
<1>11. AsyncTypes'
  <2>1. A!Request(t) \in A!Labels
    BY <1>5 DEF A!Labels
  <2> QED
    BY <1>1, <1>4, <1>7, <1>10, <2>1 DEF A!Goto, AsyncInv, AsyncTypes
<1>12. \A x \in Tasks : Alive(x)' <=> Alive(x)
  <2>1. t # NULL
    BY <1>4 DEF A!AsyncAssumption
  <2> QED
    BY <1>2, <1>9, <2>1 DEF Alive
<1>13. \A v \in A!Workers, x \in Tasks : /\ InLine(v, x)' <=> InLine(v, x)
                                         /\ Carried(v, x)' <=> Carried(v, x)
  <2>1. A!Request(t) \in Carrying /\ apc[w] \in Carrying
    BY <1>1, <1>5 DEF Carrying
  <2> QED
    BY <1>1, <1>8, <2>1 DEF InLine, Carried
<1>14. \A x \in Tasks : Owes(x)' <=> Owes(x)
  <2>1. \A v \in A!Workers : apc'[v] \in {"unlock_return", "delete"}
                              <=> apc[v] \in {"unlock_return", "delete"}
    BY <1>1, <1>5, <1>8
  <2> QED
    BY <1>1, <1>12, <2>1 DEF Owes, Released
<1>15. Spots'
  <2>1. Lines'
    BY <1>1 DEF AsyncInv, Spots, Lines
  <2>2. OneSpot'
    BY <1>12, <1>13 DEF AsyncInv, Spots, OneSpot
  <2> QED
    BY <2>1, <2>2 DEF Spots
<1>16. HandsServed'
  <2>1. \A v \in A!Workers \ {w} : apc[v] \in Carrying => acur[v] \in Tasks /\ acur[v] # k
    BY <1>2 DEF AsyncInv, Serving, HandsServed, Carried
  <2>2. acur'[w] \in Tasks /\ AtHand(w)'
    <3>1. acur'[w] = k /\ task'[k] = t /\ apc'[w] = A!Request(t) /\ held'[w] = A!Subject(k, t)
      BY <1>1, <1>2, <1>8, <1>9 DEF k
    <3> QED
      BY <1>2, <1>4, <1>5, <1>6, <3>1 DEF AtHand
  <2> QED
    BY <1>1, <1>8, <1>9, <2>1, <2>2, OthersServed
<1>17. LocksHeld'
  BY <1>7, <1>8 DEF AsyncInv, Serving, LocksHeld
<1>18. Frames'
  <2> SUFFICES ASSUME NEW x \in Tasks, Alive(x) PROVE Frame(x)'
    BY <1>12 DEF Frames
  <2>1. Frame(x) /\ \A i \in 0..(Branching - 1) : <<x, i>> \in A!Futures
    BY DEF AsyncInv, Awaits, Frames, A!Futures
  <2>2. CASE x # k
    BY <1>9, <1>10, <2>1, <2>2 DEF Frame
  <2>3. CASE x = k /\ f = NULL
    <3>1. task'[x] = t /\ t = r
      BY <1>9, <2>3 DEF t, f, A!Answered
    <3> QED
      BY <1>4, <1>10, <2>1, <2>3, <3>1 DEF Frame, r
  <2>4. CASE x = k /\ f # NULL
    <3>1. task'[x] = t /\ (A!IsLeaf(t) <=> A!IsLeaf(r))
      BY <1>4, <1>9, <2>4 DEF A!IsLeaf
    <3>2. \A i \in 0..(Branching - 1) : i < t.awaited => future[<<k, i>>].ready
      <4>1. \A i \in 0..(Branching - 1) : i < t.awaited => i < r.awaited \/ i = r.awaited
        BY <1>2, <1>4, <2>4 DEF A!TaskT
      <4>2. future[<<k, r.awaited>>].ready
        BY <1>1, <1>3, <2>4 DEF f, r
      <4> QED
        BY <2>1, <2>4, <4>1, <4>2 DEF Frame, r
    <3> QED
      BY <1>3, <1>4, <1>10, <2>1, <2>4, <3>1, <3>2 DEF Frame
  <2> QED
    BY <2>2, <2>3, <2>4
<1>19. Promised'
  <2>1. \A x \in Tasks : Owes(x) => task[x].promise \in A!Futures
    BY DEF AsyncInv, AsyncTypes, Owes, Alive, A!TaskT
  <2>2. \A x \in Tasks : task'[x].promise = task[x].promise /\ task'[x].started = task[x].started
    BY <1>4, <1>9 DEF r
  <2>3. Promised
    BY DEF AsyncInv, Awaits
  <2> QED
    BY <1>10, <1>12, <1>14, <2>1, <2>2, <2>3 DEF Promised
<1>20. WaitersWait'
  <2> SUFFICES ASSUME NEW g \in A!Futures, future'[g].waiter # NULL
               PROVE  Alive(future[g].waiter)' /\ task'[future'[g].waiter].waiting = g
    BY DEF WaitersWait
  <2>1. future'[g].waiter = future[g].waiter /\ (f # NULL => g # f)
    BY <1>10
  <2>2. /\ future[g].waiter \in Tasks
        /\ Alive(future[g].waiter) /\ task[future[g].waiter].waiting = g
    BY <2>1 DEF AsyncInv, AsyncTypes, Awaits, WaitersWait, FutureT
  <2>3. future[g].waiter # k
    <3>1. g # NULL
      BY DEF A!AsyncAssumption
    <3> QED
      BY <2>1, <2>2, <3>1 DEF f, r
  <2> QED
    BY <1>9, <1>12, <2>1, <2>2, <2>3
<1>21. Woken'
  <2> SUFFICES ASSUME NEW v \in A!Workers, NEW x \in Tasks, InLine(v, x) \/ Carried(v, x),
                      task'[x].waiting # NULL
               PROVE  future'[task'[x].waiting].ready
    BY <1>13 DEF Woken
  <2>1. x # k /\ task'[x] = task[x]
    BY <1>4, <1>9
  <2>2. task[x].waiting \in A!Futures
    BY <2>1 DEF AsyncInv, AsyncTypes, Spots, OneSpot, Alive, A!TaskT
  <2> QED
    BY <1>10, <2>1, <2>2 DEF AsyncInv, Awaits, Woken
<1>22. AllKnown'
  <2>1. ~Waiting(k) /\ \A x \in Tasks : x = k => ~Waiting(x)'
    BY <1>1, <1>4, <1>9 DEF Waiting, f, r
  <2>2. \A x \in Tasks : Alive(x) => (Waiting(x)' <=> Waiting(x))
    <3> SUFFICES ASSUME NEW x \in Tasks, Alive(x), x # k PROVE Waiting(x)' <=> Waiting(x)
      BY <2>1
    <3>1. task'[x] = task[x] /\ (task[x].waiting # NULL => task[x].waiting \in A!Futures)
      BY <1>9 DEF AsyncInv, AsyncTypes, Alive, A!TaskT
    <3> QED
      BY <1>10, <3>1 DEF Waiting
  <2>3. KnownTasks'
    BY <1>12, <1>13, <2>2 DEF AsyncInv, AllKnown, KnownTasks
  <2>4. KnownWaiters'
    <3> SUFFICES ASSUME NEW x \in Tasks, Alive(x), Waiting(x)
                 PROVE  future'[task'[x].waiting].waiter = x
      BY <1>12, <2>2 DEF KnownWaiters
    <3>1. /\ task'[x] = task[x] /\ task[x].waiting \in A!Futures /\ ~future[task[x].waiting].ready
          /\ future[task[x].waiting].waiter = x
      BY <1>9, <2>1 DEF AsyncInv, AsyncTypes, Alive, A!TaskT, Waiting, AllKnown, KnownWaiters
    <3>2. f # NULL => task[x].waiting # f
      BY <1>1, <3>1
    <3> QED
      BY <1>10, <3>1, <3>2
  <2>5. KnownDebts'
    <3>1. \A x \in Tasks : task'[x].promise = task[x].promise /\ task'[x].started = task[x].started
      BY <1>4, <1>9 DEF r
    <3>2. \A x \in Tasks, i \in 0..(Branching - 1) :
             future'[<<x, i>>].ready = future[<<x, i>>].ready
      BY <1>10 DEF A!Futures
    <3> QED
      BY <1>12, <1>14, <3>1, <3>2 DEF AsyncInv, AllKnown, KnownDebts
  <2> QED
    BY <2>3, <2>4, <2>5 DEF AllKnown
<1>23. LocksInv => LocksInv'
  <2> SUFFICES ASSUME LocksInv PROVE LocksInv'
    OBVIOUS
  <2>1. \A v \in A!Workers : apc[v] \in A!Locked => held[v] \in A!Futures /\ future'[held[v]].blocked
    BY <1>10 DEF LocksInv, Blocked, AsyncInv, Serving, LocksHeld
  <2>2. \A x \in Tasks : task'[x].num = task[x].num /\ task'[x].started = task[x].started
    BY <1>4, <1>9 DEF r
  <2>3. RootOnly'
    BY <1>12, <2>2 DEF LocksInv, RootOnly, A!IsLeaf
  <2>4. ASSUME NEW v \in A!Workers \ {w}, Unlocking(v) PROVE Guarded(v)'
    <3>1. Guarded(v) /\ apc'[v] = apc[v] /\ held'[v] = held[v] /\ held[v] \in A!Futures
      BY <1>8, <2>1, <2>4 DEF LocksInv, Unlocking, A!Locked
    <3> SUFFICES ASSUME NEW p \in Tasks, NEW i \in 0..(Branching - 1), held[v] = <<p, i>>
                 PROVE  /\ build = "tk" => Pinned(v, p, i)'
                        /\ A!LastLayer <= Branching => Sole(p, i)'
      BY <1>1, <3>1 DEF Guarded
    <3>2. ASSUME build = "tk" PROVE Pinned(v, p, i)'
      <4>1. Pinned(v, p, i)
        BY <3>1, <3>2 DEF Guarded
      <4>2. abuffer'[v] = abuffer[v] /\ future'[held[v]].ready = future[held[v]].ready
        BY <1>1, <1>10, <3>1
      <4>3. CASE p # k
        <5>1. task'[p] = task[p] /\ Alive(p)'
          BY <1>9, <1>12, <4>1, <4>3 DEF Pinned
        <5> QED
          BY <3>1, <4>1, <4>2, <5>1 DEF Pinned
      <4>4. CASE p = k
        <5>1. task'[p] = t /\ Alive(p)'
          BY <1>9, <1>12, <4>1, <4>4 DEF Pinned
        <5>2. f # NULL => f # held[v]
          <6>1. abuffer[v] # k
            BY <1>2 DEF InLine
          <6> QED
            BY <1>1, <4>1, <4>4, <6>1 DEF Pinned, f, r
        <5>3. held[v] # NULL
          BY <3>1 DEF A!AsyncAssumption
        <5>4. apc[v] # "unlock_await"
          BY <4>1, <4>4, <5>2, <5>3 DEF Pinned, f, r
        <5>5. r.awaited <= i /\ i < t.started /\ (f # NULL => r.awaited # i)
          BY <1>3, <1>4, <4>1, <4>4, <5>2 DEF Pinned, r
        <5>6. t.awaited <= i
          BY <1>2, <1>4, <5>5 DEF A!TaskT
        <5> QED
          BY <1>4, <3>1, <4>2, <5>1, <5>3, <5>4, <5>5, <5>6 DEF Pinned
      <4> QED
        BY <4>3, <4>4
    <3>3. ASSUME A!LastLayer <= Branching PROVE Sole(p, i)'
      BY <1>12, <2>2, <3>1, <3>3 DEF Guarded, Sole, A!IsLeaf
    <3> QED
      BY <3>2, <3>3
  <2>5. apc'[w] \notin A!Locked /\ apc'[w] \notin {"unlock_return", "unlock_await"}
    BY <1>5, <1>8 DEF A!Locked
  <2> QED
    BY <1>1, <1>8, <2>1, <2>3, <2>4, <2>5, LocksKept
<1>24. Booked
  <2>1. \A x \in Tasks : task'[x].promise = task[x].promise
    BY <1>4, <1>9 DEF r
  <2>2. A!Final \in A!Futures
    BY DEF A!Futures
  <2> QED
    BY <1>1, <1>10, <1>12, <1>14, <2>1, <2>2 DEF Booked
<1> QED
  BY <1>11, <1>15, <1>16, <1>17, <1>18, <1>19, <1>20, <1>21, <1>22, <1>23, <1>24
     DEF AsyncInv, Serving, Awaits

LEMMA FulfilInv ==
    ASSUME A!AsyncAssumption, AsyncInv, NEW w \in A!Workers, A!Fulfil(w)
    PROVE  AsyncInv' /\ Booked /\ (LocksInv => LocksInv')
<1> DEFINE k == acur[w]
           h == held[w]
           p == future[h].waiter
<1>1. /\ apc[w] = "fulfil" /\ A!Goto(w, "unlock_return")
      /\ future' = [future EXCEPT ![h].result = A!Result(task[k]), ![h].ready = TRUE]
      /\ p = NULL => aqueue' = aqueue /\ abuffer' = abuffer
      /\ p # NULL => A!PushFirst(w, p)
      /\ UNCHANGED <<build, acur, avictim, held, aremaining, task>>
  BY DEF A!Fulfil, A!queueVars
<1>2. /\ k \in Tasks /\ Alive(k) /\ task[k] \in A!TaskT /\ AtHand(w) /\ Carried(w, k)
      /\ \A v \in A!Workers : ~InLine(v, k) /\ (Carried(v, k) => v = w)
  BY <1>1, HandFacts DEF Carrying
<1>3. /\ A!Request(task[k]) = "return" /\ h = task[k].promise /\ h \in A!Futures
  BY <1>1, <1>2 DEF AtHand, A!TaskT
<1>4. Owes(k) /\ ~future[h].ready
  <2>1. \A v \in A!Workers : apc[v] \in {"unlock_return", "delete"} => acur[v] # k
    BY <1>1, <1>2 DEF Carried, Carrying
  <2>2. Owes(k)
    BY <1>2, <2>1 DEF Owes, Released
  <2> QED
    BY <1>2, <1>3, <2>2 DEF AsyncInv, Awaits, Promised
<1>5. p # NULL => /\ p \in Tasks /\ Alive(p) /\ task[p].waiting = h
                  /\ \A v \in A!Workers : ~InLine(v, p) /\ ~Carried(v, p)
  <2>1. p # NULL => p \in Tasks /\ Alive(p) /\ task[p].waiting = h
    BY <1>3 DEF AsyncInv, AsyncTypes, FutureT, Awaits, WaitersWait
  <2>2. h # NULL
    BY <1>3 DEF A!AsyncAssumption
  <2> QED
    BY <1>4, <2>1, <2>2 DEF AsyncInv, Awaits, Woken
<1> HIDE DEF p
<1>6. /\ aqueue' \in [A!Workers -> Seq(Tasks)]
      /\ abuffer' \in [A!Workers -> Tasks \cup {NULL}]
      /\ Lines'
      /\ \A v \in A!Workers, x \in Tasks :
            InLine(v, x)' <=> (v = w /\ x = p /\ p # NULL) \/ InLine(v, x)
      /\ \A v \in A!Workers \ {w} : abuffer'[v] = abuffer[v]
      /\ build = "tk" /\ p # NULL => abuffer'[w] = p
  <2>1. CASE p = NULL
    BY <1>1, <2>1 DEF AsyncInv, AsyncTypes, Spots, Lines, InLine
  <2>2. CASE p # NULL
    BY <1>1, <1>5, <2>2, AsyncPushFirst DEF AsyncInv, Spots
  <2> QED
    BY <2>1, <2>2
<1>7. /\ future' \in [A!Futures -> FutureT]
      /\ \A f \in A!Futures : /\ future'[f].ready <=> f = h \/ future[f].ready
                              /\ future'[f].waiter = future[f].waiter
                              /\ future'[f].blocked = future[f].blocked
  <2>1. A!Result(task[k]) \in Nat
    <3>1. A!LastLayer \in Int
      BY SameTree, RootIsNode DEF A!AsyncAssumption, LastLayer
    <3> QED
      BY <1>2, <3>1 DEF A!Result, A!IsLeaf, A!TaskT
  <2>2. future[h] \in FutureT
    BY <1>3 DEF AsyncInv, AsyncTypes
  <2> DEFINE r == [future[h] EXCEPT !.result = A!Result(task[k]), !.ready = TRUE]
  <2>3. /\ r \in FutureT /\ r.ready = TRUE /\ r.waiter = future[h].waiter
        /\ r.blocked = future[h].blocked
    BY <2>1, <2>2 DEF FutureT
  <2>4. future' = [future EXCEPT ![h] = r]
    BY <1>1, <1>3 DEF AsyncInv, AsyncTypes
  <2> HIDE DEF r
  <2>5. \A f \in A!Futures : future'[f] = IF f = h THEN r ELSE future[f]
    BY <2>4 DEF AsyncInv, AsyncTypes
  <2>6. future' \in [A!Futures -> FutureT]
    BY <2>3, <2>4 DEF AsyncInv, AsyncTypes
  <2>7. \A f \in A!Futures : future[f].ready \in BOOLEAN
    BY DEF AsyncInv, AsyncTypes, FutureT
  <2> QED
    BY <2>3, <2>5, <2>6, <2>7
<1> HIDE DEF k, h
<1>8. \A v \in A!Workers : apc'[v] = IF v = w THEN "unlock_return" ELSE apc[v]
  BY <1>1 DEF A!Goto, AsyncInv, AsyncTypes
<1>9. AsyncTypes'
  <2>1. "unlock_return" \in A!Labels
    BY DEF A!Labels, A!Locked
  <2> QED
    BY <1>1, <1>6, <1>7, <2>1 DEF A!Goto, AsyncInv, AsyncTypes
<1>10. \A x : Alive(x)' <=> Alive(x)
  BY <1>1 DEF Alive
<1>11. \A v \in A!Workers, x \in Tasks : Carried(v, x)' <=> Carried(v, x)
  <2>1. "unlock_return" \in Carrying /\ apc[w] \in Carrying
    BY <1>1 DEF Carrying
  <2> QED
    BY <1>1, <1>8, <2>1 DEF Carried
<1>12. \A x \in Tasks : Owes(x)' <=> x # k /\ Owes(x)
  <2>1. \A x \in Tasks : x = k => Released(x)'
    BY <1>1, <1>8 DEF Released, k
  <2>2. \A x \in Tasks \ {k} : Released(x)' <=> Released(x)
    BY <1>1, <1>8 DEF Released, k
  <2> QED
    BY <1>10, <2>1, <2>2 DEF Owes
<1>13. OneSpot'
  BY <1>5, <1>6, <1>10, <1>11 DEF AsyncInv, Spots, OneSpot
<1>14. HandsServed'
  <2>1. acur'[w] = acur[w] /\ held'[w] = held[w] /\ task' = task /\ apc'[w] = "unlock_return"
    BY <1>1, <1>8
  <2>2. acur'[w] \in Tasks /\ AtHand(w)'
    BY <1>1, <1>2, <2>1 DEF AtHand, k
  <2> QED
    BY <1>1, <1>8, <2>2, OthersServed
<1>15. LocksHeld'
  BY <1>1, <1>3, <1>8 DEF AsyncInv, Serving, LocksHeld, h
<1>16. Frames'
  <2> SUFFICES ASSUME NEW x \in Tasks, Alive(x) PROVE Frame(x)'
    BY <1>10 DEF Frames
  <2>1. Frame(x) /\ \A i \in 0..(Branching - 1) : <<x, i>> \in A!Futures
    BY DEF AsyncInv, Awaits, Frames, A!Futures
  <2> QED
    BY <1>1, <1>7, <2>1 DEF Frame
<1>17. Promised'
  <2>1. \A x \in Tasks : Owes(x) /\ x # k => task[x].promise \in A!Futures /\ task[x].promise # h
    BY <1>2, <1>3, <1>4 DEF AsyncInv, AsyncTypes, Owes, Alive, A!TaskT, Awaits, Promised
  <2>2. Promised
    BY DEF AsyncInv, Awaits
  <2> QED
    BY <1>1, <1>7, <1>10, <1>12, <2>1, <2>2 DEF Promised
<1>18. WaitersWait'
  <2> SUFFICES ASSUME NEW f \in A!Futures, future'[f].waiter # NULL
               PROVE  Alive(future[f].waiter)' /\ task'[future'[f].waiter].waiting = f
    BY <1>7 DEF WaitersWait
  <2>1. future'[f].waiter = future[f].waiter
    BY <1>7
  <2>2. Alive(future[f].waiter) /\ task[future[f].waiter].waiting = f
    BY <2>1 DEF AsyncInv, Awaits, WaitersWait
  <2> QED
    BY <1>1, <2>1, <2>2 DEF Alive
<1>19. Woken'
  <2> SUFFICES ASSUME NEW v \in A!Workers, NEW x \in Tasks, InLine(v, x)' \/ Carried(v, x)',
                      task[x].waiting # NULL
               PROVE  future'[task[x].waiting].ready
    BY <1>1 DEF Woken
  <2>1. CASE x = p /\ p # NULL
    BY <1>3, <1>5, <1>7, <2>1
  <2>2. CASE InLine(v, x) \/ Carried(v, x)
    <3>1. task[x].waiting \in A!Futures /\ future[task[x].waiting].ready
      BY <2>2 DEF AsyncInv, AsyncTypes, Spots, OneSpot, Alive, A!TaskT, Awaits, Woken
    <3> QED
      BY <1>7, <3>1
  <2> QED
    BY <1>6, <1>11, <2>1, <2>2
<1>20. AllKnown'
  <2>1. \A x \in Tasks : Alive(x) /\ Waiting(x) =>
           task[x].waiting \in A!Futures /\ (Waiting(x)' <=> task[x].waiting # h)
    BY <1>1, <1>7 DEF AsyncInv, AsyncTypes, Alive, A!TaskT, Waiting
  <2>2. KnownTasks'
    <3> SUFFICES ASSUME NEW x \in Tasks, Alive(x)
                 PROVE  \/ \E v \in A!Workers : InLine(v, x)' \/ Carried(v, x)'
                        \/ Waiting(x)'
      BY <1>10 DEF KnownTasks
    <3>1. CASE \E v \in A!Workers : InLine(v, x) \/ Carried(v, x)
      BY <1>6, <1>11, <3>1
    <3>2. CASE Waiting(x) /\ task[x].waiting = h
      <4>1. x = p /\ p # NULL
        BY <3>2 DEF AsyncInv, AllKnown, KnownWaiters, p, A!AsyncAssumption
      <4> QED
        BY <1>6, <4>1
    <3>3. CASE Waiting(x) /\ task[x].waiting # h
      BY <2>1, <3>3
    <3> QED
      BY <3>1, <3>2, <3>3 DEF AsyncInv, AllKnown, KnownTasks
  <2>3. KnownWaiters'
    <3> SUFFICES ASSUME NEW x \in Tasks, Alive(x), Waiting(x)'
                 PROVE  future'[task[x].waiting].waiter = x
      BY <1>1, <1>10 DEF KnownWaiters
    <3>1. task[x].waiting \in A!Futures
      BY <1>1 DEF AsyncInv, AsyncTypes, Alive, A!TaskT, Waiting
    <3>2. Waiting(x)
      BY <1>1, <1>7, <3>1 DEF Waiting
    <3> QED
      BY <1>7, <3>1, <3>2 DEF AsyncInv, AllKnown, KnownWaiters
  <2>4. KnownDebts'
    <3> SUFFICES ASSUME NEW x \in Tasks, NEW i \in 0..(Branching - 1),
                        Alive(x), i < task[x].started, <<x, i>> # h, ~future[<<x, i>>].ready
                 PROVE  \E j \in Tasks : Owes(j)' /\ task[j].promise = <<x, i>>
      <4>1. \A x \in Tasks, i \in 0..(Branching - 1) :
               future'[<<x, i>>].ready <=> <<x, i>> = h \/ future[<<x, i>>].ready
        BY <1>7 DEF A!Futures
      <4>2. task' = task
        BY <1>1
      <4> QED
        BY <1>10, <4>1, <4>2 DEF KnownDebts
    <3>1. PICK j \in Tasks : Owes(j) /\ task[j].promise = <<x, i>>
      BY DEF AsyncInv, AllKnown, KnownDebts
    <3>2. j # k
      BY <1>3, <3>1
    <3> QED
      BY <1>12, <3>1, <3>2
  <2> QED
    BY <2>2, <2>3, <2>4 DEF AllKnown
<1>21. LocksInv => LocksInv'
  <2> SUFFICES ASSUME LocksInv PROVE LocksInv'
    OBVIOUS
  <2>1. \A v \in A!Workers : apc[v] \in A!Locked => held[v] \in A!Futures /\ future'[held[v]].blocked
    BY <1>7 DEF LocksInv, Blocked, AsyncInv, Serving, LocksHeld
  <2>2. RootOnly'
    BY <1>1, <1>10 DEF LocksInv, RootOnly
  <2>3. \A v \in A!Workers \ {w} : apc[v] \in A!Locked => held[v] # h
    BY <1>1 DEF LocksInv, A!FutureLocks, A!Locked, h
  <2>4. ASSUME NEW v \in A!Workers \ {w}, Unlocking(v) PROVE Guarded(v)'
    <3>1. Guarded(v) /\ apc[v] \in A!Locked
      BY <2>4 DEF LocksInv, Unlocking, A!Locked
    <3>2. future'[held[v]].ready <=> future[held[v]].ready
      BY <1>7, <2>1, <2>3, <3>1
    <3>3. apc'[v] = apc[v] /\ held'[v] = held[v] /\ abuffer'[v] = abuffer[v]
      BY <1>1, <1>6, <1>8
    <3> QED
      BY <1>1, <3>1, <3>2, <3>3 DEF Guarded, Pinned, Sole, Alive
  <2>5. Guarded(w)'
    <3> SUFFICES ASSUME NEW q \in Tasks, NEW i \in 0..(Branching - 1), h = <<q, i>>
                 PROVE  /\ build = "tk" => Pinned(w, q, i)'
                        /\ A!LastLayer <= Branching => Sole(q, i)'
      BY <1>1 DEF Guarded, h
    <3>1. Alive(q) /\ i < task[q].started /\ Frame(q) /\ task[q] \in A!TaskT
      <4>1. Alive(q) /\ i < task[q].started
        BY <1>2, <1>3, <1>4 DEF AsyncInv, Awaits, Promised
      <4> QED
        BY <4>1 DEF AsyncInv, AsyncTypes, Awaits, Frames, Alive
    <3>2. task[q].awaited <= i
      BY <1>4, <3>1 DEF Frame, A!TaskT
    <3>3. ASSUME build = "tk" PROVE Pinned(w, q, i)'
      <4>1. task[q].waiting = h => q = p /\ p # NULL
        BY <1>3, <1>4, <3>1 DEF AsyncInv, AllKnown, KnownWaiters, Waiting, p, A!AsyncAssumption
      <4>2. held'[w] = h /\ apc'[w] = "unlock_return" /\ task' = task
        BY <1>1, <1>8 DEF h
      <4> QED
        BY <1>6, <1>10, <3>1, <3>2, <3>3, <4>1, <4>2 DEF Pinned
    <3>4. ASSUME A!LastLayer <= Branching PROVE Sole(q, i)'
      <4>1. ~A!IsLeaf(task[q])
        BY <3>1 DEF Frame, A!TaskT
      <4>2. Sole(q, i)
        BY <3>1, <3>4, <4>1 DEF Sole, LocksInv, RootOnly
      <4> QED
        BY <1>1, <1>10, <4>2 DEF Sole
    <3> QED
      BY <3>3, <3>4
  <2>6. held'[w] = h /\ future'[h].blocked
    BY <1>1, <2>1 DEF h, A!Locked
  <2> QED
    BY <1>1, <1>8, <2>1, <2>2, <2>3, <2>4, <2>5, <2>6, LocksKept
<1>22. Booked
  <2>1. future'[h].ready /\ A!Final \in A!Futures
    BY <1>3, <1>7 DEF A!Futures
  <2> QED
    BY <1>1, <1>3, <1>7, <1>10, <1>12, <2>1 DEF Booked
<1> QED
  BY <1>6, <1>9, <1>13, <1>14, <1>15, <1>16, <1>17, <1>18, <1>19, <1>20, <1>21, <1>22
     DEF AsyncInv, Spots, Serving, Awaits

LEMMA RegisterInv ==
    ASSUME A!AsyncAssumption, AsyncInv, NEW w \in A!Workers, A!Register(w)
    PROVE  AsyncInv' /\ Booked /\ (LocksInv => LocksInv')
<1> DEFINE k == acur[w]
           h == held[w]
           t == [task[k] EXCEPT !.waiting = h]
<1>1. /\ apc[w] = "register" /\ A!Goto(w, "unlock_await")
      /\ task' = [task EXCEPT ![k].waiting = h]
      /\ future[h].ready => A!PushFirst(w, k) /\ future' = future
      /\ ~future[h].ready => /\ future' = [future EXCEPT ![h].waiter = k]
                             /\ aqueue' = aqueue /\ abuffer' = abuffer
      /\ UNCHANGED <<build, acur, avictim, held, aremaining>>
  BY DEF A!Register, A!queueVars
<1>2. /\ k \in Tasks /\ Alive(k) /\ task[k] \in A!TaskT /\ AtHand(w) /\ Carried(w, k) /\ Frame(k)
      /\ \A v \in A!Workers : ~InLine(v, k) /\ (Carried(v, k) => v = w)
  BY <1>1, HandFacts DEF Carrying
<1>3. /\ A!Request(task[k]) = "await" /\ h = <<k, task[k].awaited>> /\ task[k].waiting = NULL
      /\ h \in A!Futures /\ h # NULL
  <2>1. /\ A!Request(task[k]) = "await" /\ h = <<k, task[k].awaited>> /\ task[k].waiting = NULL
    BY <1>1, <1>2 DEF AtHand
  <2>2. task[k].awaited \in 0..(Branching - 1)
    BY <1>2, <2>1, Requests DEF A!TaskT, A!AsyncAssumption
  <2>3. h \in A!Futures
    BY <1>2, <2>1, <2>2 DEF A!Futures
  <2> QED
    BY <2>1, <2>3 DEF A!AsyncAssumption
<1>4. /\ t \in A!TaskT /\ t # NULL /\ t.waiting = h /\ t.num = task[k].num
      /\ t.promise = task[k].promise /\ t.started = task[k].started /\ t.awaited = task[k].awaited
  <2>1. /\ t \in A!TaskT /\ t.waiting = h /\ t.num = task[k].num /\ t.promise = task[k].promise
        /\ t.started = task[k].started /\ t.awaited = task[k].awaited
    BY <1>2, <1>3 DEF A!TaskT
  <2> QED
    BY <2>1 DEF A!AsyncAssumption
<1>5. /\ task' \in [Tasks -> A!TaskT \cup {NULL}]
      /\ \A x \in Tasks : task'[x] = IF x = k THEN t ELSE task[x]
  <2>1. task' = [task EXCEPT ![k] = t]
    BY <1>1
  <2> QED
    BY <1>4, <2>1 DEF AsyncInv, AsyncTypes
<1> HIDE DEF t
<1>6. \A f \in A!Futures : future[f].ready \in BOOLEAN
  BY DEF AsyncInv, AsyncTypes, FutureT
<1>7. /\ aqueue' \in [A!Workers -> Seq(Tasks)]
      /\ abuffer' \in [A!Workers -> Tasks \cup {NULL}]
      /\ Lines'
      /\ \A v \in A!Workers, x \in Tasks :
            InLine(v, x)' <=> (v = w /\ x = k /\ future[h].ready) \/ InLine(v, x)
      /\ \A v \in A!Workers \ {w} : abuffer'[v] = abuffer[v]
      /\ build = "tk" /\ future[h].ready => abuffer'[w] = k
  <2>1. CASE ~future[h].ready
    BY <1>1, <2>1 DEF AsyncInv, AsyncTypes, Spots, Lines, InLine
  <2>2. CASE future[h].ready
    BY <1>1, <1>2, <2>2, AsyncPushFirst DEF AsyncInv, Spots
  <2> QED
    BY <2>1, <2>2
<1>8. /\ future' \in [A!Futures -> FutureT]
      /\ \A f \in A!Futures : /\ future'[f].ready = future[f].ready
                              /\ future'[f].blocked = future[f].blocked
                              /\ future'[f].waiter = IF f = h /\ ~future[h].ready
                                                     THEN k ELSE future[f].waiter
  <2>1. CASE future[h].ready
    BY <1>1, <2>1 DEF AsyncInv, AsyncTypes
  <2>2. CASE ~future[h].ready
    <3> DEFINE r == [future[h] EXCEPT !.waiter = k]
    <3>1. future' = [future EXCEPT ![h] = r]
      BY <1>1, <2>2
    <3>2. /\ r \in FutureT /\ r.waiter = k /\ r.ready = future[h].ready
          /\ r.blocked = future[h].blocked
      BY <1>2, <1>3, ZenonT(60) DEF FutureT, AsyncInv, AsyncTypes
    <3> HIDE DEF r
    <3>3. \A f \in A!Futures : future'[f] = IF f = h THEN r ELSE future[f]
      BY <3>1 DEF AsyncInv, AsyncTypes
    <3>4. future' \in [A!Futures -> FutureT]
      BY <3>1, <3>2 DEF AsyncInv, AsyncTypes
    <3> QED
      BY <2>2, <3>2, <3>3, <3>4
  <2> QED
    BY <2>1, <2>2
<1> HIDE DEF k, h
<1>9. "unlock_await" \in A!Labels \ Carrying
  BY DEF A!Labels, Carrying, A!Locked
<1>10. /\ \A v \in A!Workers : apc'[v] = IF v = w THEN "unlock_await" ELSE apc[v]
       /\ \A v \in A!Workers, x \in Tasks : Carried(v, x)' <=> v # w /\ Carried(v, x)
  BY <1>1, <1>9, NotInHand
<1>11. AsyncTypes'
  BY <1>1, <1>5, <1>7, <1>8, <1>9 DEF A!Goto, AsyncInv, AsyncTypes
<1>12. \A x \in Tasks : Alive(x)' <=> Alive(x)
  BY <1>2, <1>4, <1>5 DEF Alive
<1>13. \A x \in Tasks : Owes(x)' <=> Owes(x)
  <2>1. \A x \in Tasks : Released(x)' <=> Released(x)
    BY <1>1, <1>10 DEF Released
  <2> QED
    BY <1>12, <2>1 DEF Owes
<1>14. OneSpot'
  <2>1. \A v \in A!Workers, x \in Tasks : x = k => ~Carried(v, x)'
    BY <1>2, <1>10
  <2> QED
    BY <1>2, <1>7, <1>10, <1>12, <2>1 DEF AsyncInv, Spots, OneSpot
<1>15. HandsServed'
  <2>1. \A v \in A!Workers \ {w} : apc[v] \in Carrying => acur[v] \in Tasks /\ acur[v] # k
    BY <1>2 DEF AsyncInv, Serving, HandsServed, Carried
  <2> QED
    BY <1>1, <1>5, <1>9, <1>10, <2>1, OthersServed
<1>16. LocksHeld'
  BY <1>1, <1>3, <1>10 DEF AsyncInv, Serving, LocksHeld, h
<1>17. Frames'
  <2> SUFFICES ASSUME NEW x \in Tasks, Alive(x) PROVE Frame(x)'
    BY <1>12 DEF Frames
  <2>1. Frame(x) /\ \A i \in 0..(Branching - 1) : <<x, i>> \in A!Futures
    BY DEF AsyncInv, Awaits, Frames, A!Futures
  <2>2. CASE x # k
    BY <1>5, <1>8, <2>1, <2>2 DEF Frame
  <2>3. CASE x = k
    <3>1. A!Request(t) = "await" /\ (A!IsLeaf(t) <=> A!IsLeaf(task[k]))
      BY <1>3, <1>4, SameRequest
    <3>2. task'[x] = t
      BY <1>2, <1>5, <2>3
    <3> QED
      BY <1>3, <1>4, <1>8, <2>1, <2>3, <3>1, <3>2 DEF Frame
  <2> QED
    BY <2>2, <2>3
<1>18. Promised'
  <2>1. \A x \in Tasks : Owes(x) => task[x].promise \in A!Futures
    BY DEF AsyncInv, AsyncTypes, Owes, Alive, A!TaskT
  <2>2. \A x \in Tasks : task'[x].promise = task[x].promise /\ task'[x].started = task[x].started
    BY <1>4, <1>5
  <2>3. Promised
    BY DEF AsyncInv, Awaits
  <2> QED
    BY <1>8, <1>12, <1>13, <2>1, <2>2, <2>3 DEF Promised
<1>19. WaitersWait'
  <2> SUFFICES ASSUME NEW f \in A!Futures, future'[f].waiter # NULL
               PROVE  \E x \in Tasks : /\ future'[f].waiter = x
                                       /\ Alive(x)' /\ task'[x].waiting = f
    BY DEF WaitersWait, Alive
  <2>1. CASE f = h /\ ~future[h].ready
    BY <1>2, <1>3, <1>4, <1>5, <1>8, <1>12, <2>1
  <2>2. CASE ~(f = h /\ ~future[h].ready)
    <3> DEFINE x == future[f].waiter
    <3>1. future'[f].waiter = x
      BY <1>8, <2>2
    <3>2. x \in Tasks /\ Alive(x) /\ task[x].waiting = f
      BY <3>1 DEF AsyncInv, AsyncTypes, FutureT, Awaits, WaitersWait
    <3>3. x # k
      <4>1. f # NULL
        BY DEF A!AsyncAssumption
      <4> QED
        BY <1>3, <3>2, <4>1
    <3> QED
      BY <1>5, <1>12, <3>1, <3>2, <3>3
  <2> QED
    BY <2>1, <2>2
<1>20. Woken'
  <2> SUFFICES ASSUME NEW v \in A!Workers, NEW x \in Tasks, InLine(v, x)' \/ Carried(v, x)',
                      task'[x].waiting # NULL
               PROVE  future'[task'[x].waiting].ready
    BY DEF Woken
  <2>1. CASE x = k
    <3>1. future[h].ready
      BY <1>2, <1>7, <1>10, <2>1
    <3> QED
      BY <1>2, <1>3, <1>4, <1>5, <1>8, <2>1, <3>1
  <2>2. CASE x # k
    <3>1. InLine(v, x) \/ Carried(v, x)
      BY <1>7, <1>10, <2>2
    <3>2. /\ task'[x] = task[x] /\ task[x].waiting \in A!Futures
          /\ future[task[x].waiting].ready
      BY <1>5, <2>2, <3>1 DEF AsyncInv, AsyncTypes, Spots, OneSpot, Alive, A!TaskT, Awaits, Woken
    <3> QED
      BY <1>8, <3>2
  <2> QED
    BY <2>1, <2>2
<1>21. AllKnown'
  <2>1. ~Waiting(k)
    BY <1>3 DEF Waiting
  <2>2. \A x \in Tasks : Alive(x) /\ x # k =>
           /\ task'[x] = task[x]
           /\ task[x].waiting \in A!Futures \cup {NULL} /\ task[x].waiting # h
           /\ Waiting(x)' <=> Waiting(x)
    <3> SUFFICES ASSUME NEW x \in Tasks, Alive(x), x # k
                 PROVE  /\ task'[x] = task[x]
                        /\ task[x].waiting \in A!Futures \cup {NULL} /\ task[x].waiting # h
                        /\ Waiting(x)' <=> Waiting(x)
      OBVIOUS
    <3>1. task'[x] = task[x]
      BY <1>5
    <3>2. task[x].waiting \in A!Futures \cup {NULL}
      BY DEF AsyncInv, AsyncTypes, Alive, A!TaskT
    <3>3. task[x].waiting # h
      BY <1>3 DEF AsyncInv, Awaits, Frames, Frame
    <3> QED
      BY <1>8, <3>1, <3>2, <3>3 DEF Waiting
  <2>3. KnownTasks'
    <3> SUFFICES ASSUME NEW x \in Tasks, Alive(x)
                 PROVE  \/ \E v \in A!Workers : InLine(v, x)' \/ Carried(v, x)'
                        \/ Waiting(x)'
      BY <1>12 DEF KnownTasks
    <3>1. CASE x # k
      <4>1. ~Carried(w, x)
        BY <3>1 DEF Carried, k
      <4> QED
        BY <1>7, <1>10, <2>2, <3>1, <4>1 DEF AsyncInv, AllKnown, KnownTasks
    <3>2. CASE x = k /\ future[h].ready
      BY <1>7, <3>2
    <3>3. CASE x = k /\ ~future[h].ready
      BY <1>2, <1>3, <1>4, <1>5, <1>8, <3>3 DEF Waiting
    <3> QED
      BY <3>1, <3>2, <3>3
  <2>4. KnownWaiters'
    <3> SUFFICES ASSUME NEW x \in Tasks, Alive(x), Waiting(x)'
                 PROVE  future'[task'[x].waiting].waiter = x
      BY <1>12 DEF KnownWaiters
    <3>1. CASE x # k
      <4>1. Waiting(x) /\ task[x].waiting \in A!Futures /\ task[x].waiting # h
        BY <2>2, <3>1 DEF Waiting
      <4> QED
        BY <1>8, <2>2, <3>1, <4>1 DEF AsyncInv, AllKnown, KnownWaiters
    <3>2. CASE x = k
      BY <1>2, <1>3, <1>4, <1>5, <1>6, <1>8, <3>2 DEF Waiting
    <3> QED
      BY <3>1, <3>2
  <2>5. KnownDebts'
    <3>1. \A x \in Tasks : task'[x].promise = task[x].promise /\ task'[x].started = task[x].started
      BY <1>4, <1>5
    <3>2. \A x \in Tasks, i \in 0..(Branching - 1) :
             future'[<<x, i>>].ready = future[<<x, i>>].ready
      BY <1>8 DEF A!Futures
    <3> QED
      BY <1>12, <1>13, <3>1, <3>2 DEF AsyncInv, AllKnown, KnownDebts
  <2> QED
    BY <2>3, <2>4, <2>5 DEF AllKnown
<1>22. LocksInv => LocksInv'
  <2> SUFFICES ASSUME LocksInv PROVE LocksInv'
    OBVIOUS
  <2>1. \A v \in A!Workers : apc[v] \in A!Locked => held[v] \in A!Futures /\ future'[held[v]].blocked
    BY <1>8 DEF LocksInv, Blocked, AsyncInv, Serving, LocksHeld
  <2>2. \A x \in Tasks : /\ task'[x].num = task[x].num /\ task'[x].started = task[x].started
                           /\ task'[x].awaited = task[x].awaited
    BY <1>4, <1>5
  <2>3. RootOnly'
    BY <1>12, <2>2 DEF LocksInv, RootOnly, A!IsLeaf
  <2>4. \A v \in A!Workers \ {w} : apc[v] \in A!Locked => held[v] # h
    BY <1>1 DEF LocksInv, A!FutureLocks, A!Locked, h
  <2>5. ASSUME NEW v \in A!Workers \ {w}, Unlocking(v) PROVE Guarded(v)'
    <3>1. Guarded(v) /\ apc[v] \in A!Locked
      BY <2>5 DEF LocksInv, Unlocking, A!Locked
    <3>2. future'[held[v]].ready = future[held[v]].ready /\ held[v] # h /\ held[v] # NULL
      BY <1>8, <2>1, <2>4, <3>1 DEF A!AsyncAssumption
    <3>3. apc'[v] = apc[v] /\ held'[v] = held[v] /\ abuffer'[v] = abuffer[v] /\ build' = build
      BY <1>1, <1>7, <1>10
    <3> SUFFICES ASSUME NEW p \in Tasks, NEW i \in 0..(Branching - 1), held[v] = <<p, i>>
                 PROVE  /\ build = "tk" => Pinned(v, p, i)'
                        /\ A!LastLayer <= Branching => Sole(p, i)'
      BY <3>3 DEF Guarded
    <3>4. ASSUME build = "tk" PROVE Pinned(v, p, i)'
      <4>1. Pinned(v, p, i)
        BY <3>1, <3>4 DEF Guarded
      <4>2. apc[v] = "unlock_await" => p # k
        BY <1>3, <3>2, <4>1 DEF Pinned
      <4>3. task'[p].waiting = IF p = k THEN h ELSE task[p].waiting
        BY <1>4, <1>5
      <4> QED
        BY <1>12, <2>2, <3>2, <3>3, <4>1, <4>2, <4>3 DEF Pinned
    <3>5. ASSUME A!LastLayer <= Branching PROVE Sole(p, i)'
      BY <1>12, <2>2, <3>1, <3>5 DEF Guarded, Sole, A!IsLeaf
    <3> QED
      BY <3>4, <3>5
  <2>6. held'[w] = h /\ future'[h].blocked
    BY <1>1, <2>1 DEF h, A!Locked
  <2>7. Guarded(w)'
    <3> SUFFICES ASSUME NEW p \in Tasks, NEW i \in 0..(Branching - 1), h = <<p, i>>
                 PROVE  /\ build = "tk" => Pinned(w, p, i)'
                        /\ A!LastLayer <= Branching => Sole(p, i)'
      BY <1>1, <2>6 DEF Guarded
    <3>1. p = k /\ i = task[k].awaited /\ ~A!IsLeaf(task[k]) /\ task[k].started = Branching
      BY <1>2, <1>3, Requests
    <3>2. task'[p] = t /\ t.waiting = h /\ Alive(p)'
      BY <1>2, <1>4, <1>5, <1>12, <3>1
    <3>3. future'[h].ready = future[h].ready
      BY <1>3, <1>8
    <3>4. ASSUME build = "tk" PROVE Pinned(w, p, i)'
      <4>1. t.awaited <= i /\ i < t.started
        BY <1>2, <1>4, <3>1 DEF A!TaskT
      <4> QED
        BY <1>7, <2>6, <3>1, <3>2, <3>3, <3>4, <4>1 DEF Pinned
    <3>5. ASSUME A!LastLayer <= Branching PROVE Sole(p, i)'
      <4>1. \A x \in Tasks : Alive(x) /\ ~A!IsLeaf(task[x]) => x = k
        BY <1>2, <3>1, <3>5 DEF LocksInv, RootOnly
      <4>2. i < task[k].started
        BY <3>1 DEF A!AsyncAssumption
      <4>3. Sole(p, i)
        BY <3>1, <4>1, <4>2 DEF Sole
      <4> QED
        BY <1>12, <2>2, <4>3 DEF Sole, A!IsLeaf
    <3> QED
      BY <3>4, <3>5
  <2> QED
    BY <1>1, <1>10, <2>1, <2>3, <2>4, <2>5, <2>6, <2>7, LocksKept
<1>23. Booked
  <2>1. \A x \in Tasks : task'[x].promise = task[x].promise
    BY <1>4, <1>5
  <2>2. A!Final \in A!Futures
    BY DEF A!Futures
  <2> QED
    BY <1>1, <1>8, <1>12, <1>13, <2>1, <2>2 DEF Booked
<1> QED
  BY <1>7, <1>11, <1>14, <1>15, <1>16, <1>17, <1>18, <1>19, <1>20, <1>21, <1>22, <1>23
     DEF AsyncInv, Spots, Serving, Awaits

LEMMA StartChildInv ==
    ASSUME A!AsyncAssumption, AsyncInv, NEW w \in A!Workers, A!StartChild(w)
    PROVE  AsyncInv' /\ Booked /\ (LocksInv => LocksInv')
<1> DEFINE p == acur[w]
           h == held[w]
           n == task[p].num * Branching + task[p].started
           t == A!NewTask(n, h)
           u == [task[p] EXCEPT !.started = @ + 1]
<1>1. /\ apc[w] = "async" /\ A!Goto(w, "requeue")
      /\ future' = [future EXCEPT ![h].ready = FALSE, ![h].waiter = NULL, ![h].blocked = FALSE]
      /\ aremaining' = aremaining + 1
      /\ UNCHANGED <<build, acur, avictim, held>>
  BY DEF A!StartChild
<1>2. PICK k \in Tasks : /\ task[k] = NULL
                         /\ task' = [task EXCEPT ![k] = t, ![p].started = @ + 1]
                         /\ A!PushFirst(w, k)
  BY DEF A!StartChild
<1>3. /\ p \in Tasks /\ Alive(p) /\ task[p] \in A!TaskT /\ AtHand(w) /\ Carried(w, p) /\ Frame(p)
      /\ \A v \in A!Workers : ~InLine(v, p) /\ (Carried(v, p) => v = w)
  BY <1>1, HandFacts DEF Carrying
<1>4. /\ A!Request(task[p]) = "async" /\ h = <<p, task[p].started>> /\ task[p].waiting = NULL
      /\ ~A!IsLeaf(task[p]) /\ task[p].started \in 0..(Branching - 1) /\ h \in A!Futures
      /\ task[p].awaited = 0
  <2>1. /\ A!Request(task[p]) = "async" /\ h = <<p, task[p].started>> /\ task[p].waiting = NULL
    BY <1>1, <1>3 DEF AtHand
  <2>2. /\ ~A!IsLeaf(task[p]) /\ task[p].started \in 0..(Branching - 1)
    BY <1>3, <2>1, Requests DEF A!TaskT, A!AsyncAssumption
  <2>3. h \in A!Futures
    BY <1>3, <2>1, <2>2 DEF A!Futures
  <2>4. task[p].awaited = 0
    BY <1>3, <2>2 DEF Frame, A!TaskT, A!AsyncAssumption
  <2> QED
    BY <2>1, <2>2, <2>3, <2>4
<1>5. k # p /\ ~Alive(k) /\ \A v \in A!Workers : ~InLine(v, k) /\ ~Carried(v, k)
  BY <1>2, <1>3 DEF Alive, AsyncInv, Spots, OneSpot
<1>6. /\ t \in A!TaskT /\ t # NULL /\ t.promise = h /\ t.started = 0 /\ t.awaited = 0
      /\ t.waiting = NULL /\ t.num = n
  <2>1. n \in Nat
    BY <1>3, <1>4 DEF A!TaskT, A!AsyncAssumption
  <2> HIDE DEF n
  <2>2. t \in A!TaskT
    BY <1>4, <2>1 DEF A!NewTask, A!TaskT, A!AsyncAssumption
  <2> QED
    BY <2>2 DEF A!NewTask, A!AsyncAssumption
<1>7. /\ u \in A!TaskT /\ u # NULL /\ u.waiting = NULL /\ u.num = task[p].num /\ u.awaited = 0
      /\ u.promise = task[p].promise /\ u.started = task[p].started + 1
  <2>1. task[p].started + 1 \in 0..Branching
    BY <1>4 DEF A!AsyncAssumption
  <2>2. /\ u \in A!TaskT /\ u.waiting = NULL /\ u.num = task[p].num /\ u.awaited = 0
        /\ u.promise = task[p].promise /\ u.started = task[p].started + 1
    BY <1>3, <1>4, <2>1 DEF A!TaskT
  <2> QED
    BY <2>2 DEF A!AsyncAssumption
<1>8. /\ task' \in [Tasks -> A!TaskT \cup {NULL}]
      /\ \A x \in Tasks : task'[x] = IF x = k THEN t ELSE IF x = p THEN u ELSE task[x]
  <2>1. task' = [task EXCEPT ![k] = t, ![p] = u]
    BY <1>2, <1>3, <1>5 DEF AsyncInv, AsyncTypes
  <2> HIDE DEF t, u
  <2> QED
    BY <1>6, <1>7, <2>1, <1>3, <1>5 DEF AsyncInv, AsyncTypes
<1> HIDE DEF t, u, n
<1>9. /\ aqueue' \in [A!Workers -> Seq(Tasks)]
      /\ abuffer' \in [A!Workers -> Tasks \cup {NULL}]
      /\ Lines'
      /\ \A v \in A!Workers, x \in Tasks :
            InLine(v, x)' <=> (v = w /\ x = k) \/ InLine(v, x)
      /\ \A v \in A!Workers \ {w} : abuffer'[v] = abuffer[v]
  BY <1>2, <1>5, AsyncPushFirst DEF AsyncInv, Spots
<1>10. /\ future' \in [A!Futures -> FutureT]
       /\ \A f \in A!Futures : /\ future'[f].ready = IF f = h THEN FALSE ELSE future[f].ready
                               /\ future'[f].waiter = IF f = h THEN NULL ELSE future[f].waiter
                               /\ f # h => future'[f].blocked = future[f].blocked
  <2> DEFINE r == [future[h] EXCEPT !.ready = FALSE, !.waiter = NULL, !.blocked = FALSE]
  <2>1. future' = [future EXCEPT ![h] = r]
    BY <1>1, <1>4 DEF AsyncInv, AsyncTypes
  <2>2. r \in FutureT /\ r.ready = FALSE /\ r.waiter = NULL
    <3>1. future[h] \in FutureT
      BY <1>4 DEF AsyncInv, AsyncTypes
    <3> QED
      BY <3>1 DEF FutureT
  <2> HIDE DEF r
  <2>3. \A f \in A!Futures : future'[f] = IF f = h THEN r ELSE future[f]
    BY <2>1 DEF AsyncInv, AsyncTypes
  <2>4. future' \in [A!Futures -> FutureT]
    BY <2>1, <2>2 DEF AsyncInv, AsyncTypes
  <2> QED
    BY <2>2, <2>3, <2>4
<1> HIDE DEF p, h
<1>11. \A v \in A!Workers : apc'[v] = IF v = w THEN "requeue" ELSE apc[v]
  BY <1>1 DEF A!Goto, AsyncInv, AsyncTypes
<1>12. AsyncTypes'
  <2>1. "requeue" \in A!Labels
    BY DEF A!Labels
  <2> QED
    BY <1>1, <1>8, <1>9, <1>10, <2>1 DEF A!Goto, AsyncInv, AsyncTypes
<1>13. \A x \in Tasks : Alive(x)' <=> x = k \/ Alive(x)
  BY <1>3, <1>6, <1>7, <1>8 DEF Alive
<1>14. \A v \in A!Workers, x \in Tasks : Carried(v, x)' <=> Carried(v, x)
  <2>1. "requeue" \in Carrying /\ apc[w] \in Carrying
    BY <1>1 DEF Carrying
  <2> QED
    BY <1>1, <1>11, <2>1 DEF Carried
<1>15. \A x \in Tasks : Owes(x)' <=> x = k \/ Owes(x)
  <2>1. \A x \in Tasks : Released(x)' <=> Released(x)
    BY <1>1, <1>11 DEF Released
  <2>2. ~Released(k)
    BY <1>5 DEF Released, Carried, Carrying
  <2> QED
    BY <1>13, <2>1, <2>2 DEF Owes
<1>16. OneSpot'
  BY <1>5, <1>9, <1>13, <1>14 DEF AsyncInv, Spots, OneSpot
<1>17. HandsServed'
  <2>1. \A v \in A!Workers \ {w} : apc[v] \in Carrying => acur[v] \in Tasks /\ acur[v] # p /\ acur[v] # k
    BY <1>3, <1>5 DEF AsyncInv, Serving, HandsServed, Carried
  <2>2. acur'[w] \in Tasks /\ AtHand(w)'
    <3>1. acur'[w] = p /\ task'[p] = u /\ apc'[w] = "requeue"
      BY <1>1, <1>3, <1>5, <1>8, <1>11 DEF p
    <3> QED
      BY <1>3, <1>7, <3>1 DEF AtHand
  <2> QED
    BY <1>1, <1>8, <1>11, <2>1, <2>2, OthersServed
<1>18. LocksHeld'
  BY <1>1, <1>11 DEF AsyncInv, Serving, LocksHeld, A!Locked
<1>19. Frames'
  <2> SUFFICES ASSUME NEW x \in Tasks, x = k \/ Alive(x) PROVE Frame(x)'
    BY <1>13 DEF Frames
  <2>1. \A i \in 0..(Branching - 1) : <<x, i>> \in A!Futures
    BY DEF A!Futures
  <2>2. CASE x = k
    <3>1. task'[x] = t
      BY <1>8, <2>2
    <3> QED
      BY <1>6, <3>1 DEF Frame, A!AsyncAssumption
  <2>3. CASE x = p
    <3>1. task'[x] = u /\ (A!IsLeaf(u) <=> A!IsLeaf(task[p]))
      BY <1>5, <1>7, <1>8, <2>3 DEF A!IsLeaf
    <3> QED
      BY <1>4, <1>7, <3>1 DEF Frame, A!AsyncAssumption
  <2>4. CASE x # k /\ x # p
    <3>1. Frame(x) /\ task'[x] = task[x]
      BY <1>8, <2>4 DEF AsyncInv, Awaits, Frames
    <3>2. \A i \in 0..(Branching - 1) : <<x, i>> # h
      BY <1>4, <2>4
    <3> QED
      BY <1>10, <2>1, <3>1, <3>2 DEF Frame
  <2> QED
    BY <2>2, <2>3, <2>4
<1>20. Promised'
  <2>1. Promised
    BY DEF AsyncInv, Awaits
  <2>2. \A x \in Tasks : Owes(x) => /\ task[x].promise \in A!Futures /\ task[x].promise # h
                                    /\ x # k /\ task'[x].promise = task[x].promise
    <3> SUFFICES ASSUME NEW x \in Tasks, Owes(x)
                 PROVE  /\ task[x].promise \in A!Futures /\ task[x].promise # h
                        /\ x # k /\ task'[x].promise = task[x].promise
      OBVIOUS
    <3>1. task[x].promise \in A!Futures /\ x # k
      BY <1>5 DEF AsyncInv, AsyncTypes, Owes, Alive, A!TaskT
    <3>2. task[x].promise # h
      BY <1>3, <1>4, <2>1 DEF Promised
    <3>3. task'[x].promise = task[x].promise
      BY <1>7, <1>8, <3>1
    <3> QED
      BY <3>1, <3>2, <3>3
  <2>3. task'[k].promise = h /\ ~future'[h].ready
    BY <1>4, <1>6, <1>8, <1>10
  <2>4. \A x \in Tasks : Alive(x) => task'[x].started = IF x = p THEN task[p].started + 1
                                                                 ELSE task[x].started
    BY <1>5, <1>7, <1>8
  <2>5. \A x \in Tasks, i \in 0..(Branching - 1) : h = <<x, i>> =>
           Alive(x)' /\ i < task'[x].started
    BY <1>3, <1>4, <1>13, <2>4
  <2>6. ASSUME NEW x \in Tasks, Owes(x),
               NEW q \in Tasks, NEW i \in 0..(Branching - 1), task'[x].promise = <<q, i>>
        PROVE  Alive(q)' /\ i < task'[q].started
    <3>1. Alive(q) /\ i < task[q].started
      BY <2>1, <2>2, <2>6 DEF Promised
    <3>2. task'[q].started = IF q = p THEN task[p].started + 1 ELSE task[q].started
      BY <2>4, <3>1
    <3>3. task[p].started \in Nat
      BY <1>4
    <3> QED
      BY <1>13, <3>1, <3>2, <3>3
  <2>7. \A x \in Tasks : Owes(x) => ~future'[task'[x].promise].ready
    BY <1>10, <2>1, <2>2 DEF Promised
  <2>8. \A x, y \in Tasks : Owes(x)' /\ Owes(y)' /\ task'[x].promise = task'[y].promise => x = y
    BY <1>15, <2>1, <2>2, <2>3 DEF Promised
  <2>9. ASSUME NEW x \in Tasks, Owes(x)'
        PROVE  /\ ~future'[task'[x].promise].ready
               /\ \A q \in Tasks, i \in 0..(Branching - 1) :
                     task'[x].promise = <<q, i>> => Alive(q)' /\ i < task'[q].started
    BY <1>15, <2>3, <2>5, <2>6, <2>7, <2>9
  <2> QED
    BY <2>8, <2>9 DEF Promised
<1>21. WaitersWait'
  <2> SUFFICES ASSUME NEW f \in A!Futures, future'[f].waiter # NULL
               PROVE  \E x \in Tasks : /\ future'[f].waiter = x
                                       /\ Alive(x)' /\ task'[x].waiting = f
    BY DEF WaitersWait, Alive
  <2> DEFINE x == future[f].waiter
  <2>1. future'[f].waiter = x /\ f # h
    BY <1>10
  <2>2. x \in Tasks /\ Alive(x) /\ task[x].waiting = f
    BY <2>1 DEF AsyncInv, AsyncTypes, FutureT, Awaits, WaitersWait
  <2>3. x # k /\ x # p
    <3>1. f # NULL
      BY DEF A!AsyncAssumption
    <3> QED
      BY <1>4, <1>5, <2>2, <3>1
  <2> QED
    BY <1>8, <1>13, <2>1, <2>2, <2>3
<1>22. Woken'
  <2> SUFFICES ASSUME NEW v \in A!Workers, NEW x \in Tasks, InLine(v, x)' \/ Carried(v, x)',
                      task'[x].waiting # NULL
               PROVE  future'[task'[x].waiting].ready
    BY DEF Woken
  <2>1. x # k /\ x # p
    BY <1>6, <1>7, <1>8
  <2>2. InLine(v, x) \/ Carried(v, x)
    BY <1>9, <1>14, <2>1
  <2>3. /\ task'[x] = task[x] /\ task[x].waiting \in A!Futures
        /\ future[task[x].waiting].ready /\ Frame(x)
    BY <1>8, <2>1, <2>2
       DEF AsyncInv, AsyncTypes, Spots, OneSpot, Alive, A!TaskT, Awaits, Woken, Frames
  <2>4. task[x].waiting # h
    BY <1>4, <2>1, <2>3 DEF Frame, A!AsyncAssumption
  <2> QED
    BY <1>10, <2>3, <2>4
<1>23. AllKnown'
  <2>1. ~Waiting(p) /\ \A x \in Tasks : x = p \/ x = k => ~Waiting(x)'
    BY <1>3, <1>4, <1>6, <1>7, <1>8 DEF Waiting
  <2>2. \A x \in Tasks : Alive(x) /\ x # p /\ x # k =>
           /\ task'[x] = task[x]
           /\ task[x].waiting \in A!Futures \cup {NULL} /\ task[x].waiting # h
           /\ Waiting(x)' <=> Waiting(x)
    <3> SUFFICES ASSUME NEW x \in Tasks, Alive(x), x # p, x # k
                 PROVE  /\ task'[x] = task[x]
                        /\ task[x].waiting \in A!Futures \cup {NULL} /\ task[x].waiting # h
                        /\ Waiting(x)' <=> Waiting(x)
      OBVIOUS
    <3>1. task'[x] = task[x]
      BY <1>8
    <3>2. task[x].waiting \in A!Futures \cup {NULL}
      BY DEF AsyncInv, AsyncTypes, Alive, A!TaskT
    <3>3. task[x].waiting # h
      BY <1>4 DEF AsyncInv, Awaits, Frames, Frame, A!AsyncAssumption
    <3> QED
      BY <1>10, <3>1, <3>2, <3>3 DEF Waiting
  <2>3. KnownTasks'
    <3> SUFFICES ASSUME NEW x \in Tasks, x = k \/ Alive(x)
                 PROVE  \/ \E v \in A!Workers : InLine(v, x)' \/ Carried(v, x)'
                        \/ Waiting(x)'
      BY <1>13 DEF KnownTasks
    <3>1. CASE x = k
      BY <1>9, <3>1
    <3>2. CASE x = p
      BY <1>3, <1>14, <3>2
    <3>3. CASE x # p /\ x # k
      BY <1>9, <1>14, <2>2, <3>3 DEF AsyncInv, AllKnown, KnownTasks
    <3> QED
      BY <3>1, <3>2, <3>3
  <2>4. KnownWaiters'
    <3> SUFFICES ASSUME NEW x \in Tasks, x = k \/ Alive(x), Waiting(x)'
                 PROVE  future'[task'[x].waiting].waiter = x
      BY <1>13 DEF KnownWaiters
    <3>1. x # k /\ x # p
      BY <2>1
    <3>2. Waiting(x) /\ task[x].waiting \in A!Futures /\ task[x].waiting # h
      BY <2>2, <3>1 DEF Waiting
    <3> QED
      BY <1>10, <2>2, <3>1, <3>2, ZenonT(60) DEF AsyncInv, AllKnown, KnownWaiters
  <2>5. KnownDebts'
    <3> SUFFICES ASSUME NEW x \in Tasks, NEW i \in 0..(Branching - 1), x = k \/ Alive(x),
                        i < task'[x].started
                 PROVE  \/ future'[<<x, i>>].ready
                        \/ \E j \in Tasks : Owes(j)' /\ task'[j].promise = <<x, i>>
      BY <1>13 DEF KnownDebts
    <3>1. x # k
      BY <1>6, <1>8
    <3>2. CASE <<x, i>> = h
      BY <1>6, <1>8, <1>15, <3>2
    <3>3. CASE <<x, i>> # h
      <4>1. i < task[x].started
        <5>1. CASE x = p
          BY <1>4, <1>5, <1>7, <1>8, <3>3, <5>1
        <5>2. CASE x # p
          BY <1>8, <3>1, <5>2
        <5> QED
          BY <5>1, <5>2
      <4>2. future'[<<x, i>>].ready = future[<<x, i>>].ready
        BY <1>10, <3>3 DEF A!Futures
      <4>3. ASSUME NEW j \in Tasks, Owes(j), task[j].promise = <<x, i>>
            PROVE  Owes(j)' /\ task'[j].promise = <<x, i>>
        <5>1. j # k
          BY <1>5, <4>3 DEF Owes
        <5> QED
          BY <1>7, <1>8, <1>15, <4>3, <5>1
      <4> QED
        BY <3>1, <4>1, <4>2, <4>3 DEF AsyncInv, AllKnown, KnownDebts
    <3> QED
      BY <3>2, <3>3
  <2> QED
    BY <2>3, <2>4, <2>5 DEF AllKnown
<1>24. LocksInv => LocksInv'
  <2> SUFFICES ASSUME LocksInv PROVE LocksInv'
    OBVIOUS
  <2>1. \A x \in Tasks : Alive(x) => /\ task'[x].num = task[x].num
                                     /\ task'[x].awaited = task[x].awaited
                                     /\ task'[x].waiting = task[x].waiting
                                     /\ task[x].started \in Nat
                                     /\ task'[x].started \in Nat
                                     /\ task[x].started <= task'[x].started
    <3> SUFFICES ASSUME NEW x \in Tasks, Alive(x)
                 PROVE  /\ task'[x].num = task[x].num
                        /\ task'[x].awaited = task[x].awaited
                        /\ task'[x].waiting = task[x].waiting
                        /\ task[x].started \in Nat /\ task'[x].started \in Nat
                        /\ task[x].started <= task'[x].started
      OBVIOUS
    <3>1. x # k /\ task[x].started \in Nat
      BY <1>5 DEF AsyncInv, AsyncTypes, Alive, A!TaskT, A!AsyncAssumption
    <3>2. CASE x = p
      BY <1>4, <1>7, <1>8, <3>1, <3>2
    <3>3. CASE x # p
      BY <1>8, <3>1, <3>3
    <3> QED
      BY <3>2, <3>3
  <2>2. A!LastLayer <= Branching => t.num >= 1 /\ A!IsLeaf(t)
    <3> SUFFICES ASSUME A!LastLayer <= Branching PROVE t.num >= 1 /\ A!IsLeaf(t)
      OBVIOUS
    <3>1. A!LastLayer \in Int /\ Branching \in Nat \ {0}
      BY SameTree, RootIsNode DEF LastLayer, A!AsyncAssumption
    <3>2. task[p].num \in Nat /\ task[p].num >= 1 /\ task[p].started \in Nat
      BY <1>3, <1>4 DEF LocksInv, RootOnly, A!TaskT
    <3>3. task[p].num * Branching >= Branching
      BY <3>1, <3>2
    <3>4. n \in Nat /\ n >= Branching
      BY <3>1, <3>2, <3>3 DEF n
    <3> QED
      BY <1>6, <3>1, <3>4 DEF A!IsLeaf
  <2>3. RootOnly'
    <3>1. \A x \in Tasks : x = k => task'[x] = t
      BY <1>8
    <3> SUFFICES ASSUME A!LastLayer <= Branching
                 PROVE  /\ \A x \in Tasks : Alive(x)' => task'[x].num >= 1
                        /\ \A x, y \in Tasks :
                              Alive(x)' /\ ~(task'[x].num >= A!LastLayer) /\
                              Alive(y)' /\ ~(task'[y].num >= A!LastLayer) => x = y
      BY DEF RootOnly, A!IsLeaf
    <3>2. /\ \A x \in Tasks : Alive(x) => task[x].num >= 1
          /\ \A x, y \in Tasks :
                Alive(x) /\ ~(task[x].num >= A!LastLayer) /\
                Alive(y) /\ ~(task[y].num >= A!LastLayer) => x = y
      BY DEF LocksInv, RootOnly, A!IsLeaf
    <3> QED
      BY <1>13, <2>1, <2>2, <3>1, <3>2 DEF A!IsLeaf
  <2>4. ASSUME NEW v \in A!Workers \ {w}, apc[v] \in A!Locked PROVE held[v] \in A!Futures /\ held[v] # h
    <3>1. held[v] \in A!Futures
      BY <2>4 DEF AsyncInv, Serving, LocksHeld
    <3>2. CASE apc[v] \in {"fulfil", "register"}
      <4>1. /\ acur[v] \in Tasks /\ Alive(acur[v]) /\ task[acur[v]] \in A!TaskT /\ AtHand(v)
            /\ Carried(v, acur[v]) /\ \A y \in A!Workers : Carried(y, acur[v]) => y = v
        BY <3>2, HandFacts DEF Carrying
      <4>2. CASE apc[v] = "register"
        <5>1. acur[v] # p
          BY <1>3, <4>1
        <5> QED
          BY <1>4, <3>1, <4>1, <4>2, <5>1 DEF AtHand
      <4>3. CASE apc[v] = "fulfil"
        <5>1. held[v] = task[acur[v]].promise
          BY <4>1, <4>3 DEF AtHand
        <5>2. Owes(acur[v])
          BY <4>1, <4>3 DEF Owes, Released, Carried, Carrying
        <5> QED
          BY <1>3, <1>4, <3>1, <4>1, <5>1, <5>2 DEF AsyncInv, Awaits, Promised
      <4> QED
        BY <3>2, <4>2, <4>3
    <3>3. CASE Unlocking(v)
      <4>1. Guarded(v)
        BY <3>3 DEF LocksInv
      <4> SUFFICES ASSUME held[v] = h PROVE FALSE
        BY <3>1
      <4>3. ~Pinned(v, p, task[p].started) /\ ~Sole(p, task[p].started)
        BY <1>3, <1>4 DEF Pinned, Sole
      <4> QED
        BY <1>3, <1>4, <4>1, <4>3 DEF Guarded, LocksInv
    <3> QED
      BY <2>4, <3>1, <3>2, <3>3 DEF A!Locked, Unlocking
  <2>5. \A v \in A!Workers \ {w} : apc[v] \in A!Locked => future'[held[v]].blocked
    BY <1>10, <2>4 DEF LocksInv, Blocked
  <2>6. ASSUME NEW v \in A!Workers \ {w}, Unlocking(v) PROVE Guarded(v)'
    <3>1. Guarded(v) /\ held[v] \in A!Futures /\ held[v] # h
      BY <2>4, <2>6 DEF LocksInv, Unlocking, A!Locked
    <3>2. /\ apc'[v] = apc[v] /\ held'[v] = held[v] /\ abuffer'[v] = abuffer[v] /\ build' = build
          /\ future'[held[v]].ready = future[held[v]].ready
      BY <1>1, <1>9, <1>10, <1>11, <3>1
    <3> SUFFICES ASSUME NEW q \in Tasks, NEW i \in 0..(Branching - 1), held[v] = <<q, i>>
                 PROVE  /\ build = "tk" => Pinned(v, q, i)'
                        /\ A!LastLayer <= Branching => Sole(q, i)'
      BY <3>2 DEF Guarded
    <3>3. ASSUME build = "tk" PROVE Pinned(v, q, i)'
      <4>1. Pinned(v, q, i)
        BY <3>1, <3>3 DEF Guarded
      <4>2. Alive(q)' /\ i < task'[q].started
        BY <1>13, <2>1, <4>1 DEF Pinned
      <4> QED
        BY <2>1, <3>2, <4>1, <4>2 DEF Pinned
    <3>4. ASSUME A!LastLayer <= Branching PROVE Sole(q, i)'
      <4>1. Sole(q, i)
        BY <3>1, <3>4 DEF Guarded
      <4> SUFFICES ASSUME NEW x \in Tasks, Alive(x)', ~(task'[x].num >= A!LastLayer)
                   PROVE  x = q /\ i < task'[x].started
        BY DEF Sole, A!IsLeaf
      <4>2. x # k
        BY <1>8, <2>2, <3>4 DEF A!IsLeaf
      <4>3. Alive(x) /\ ~(task[x].num >= A!LastLayer)
        BY <1>13, <2>1, <4>2
      <4>4. x = q /\ i < task[x].started
        BY <4>1, <4>3 DEF Sole, A!IsLeaf
      <4> QED
        BY <2>1, <4>3, <4>4
    <3> QED
      BY <3>3, <3>4
  <2>7. apc'[w] \notin A!Locked /\ apc'[w] \notin {"unlock_return", "unlock_await"}
    BY <1>11 DEF A!Locked
  <2> QED
    BY <1>1, <1>11, <2>3, <2>5, <2>6, <2>7, LocksKept
<1>25. Booked
  <2>1. A!Final \in A!Futures /\ A!Final # h
    BY <1>3, <1>4 DEF A!Futures, A!Final, A!AsyncAssumption
  <2>2. \A x \in Tasks : Owes(x) => x # k
    BY <1>5 DEF Owes
  <2>3. \A x \in Tasks : Owes(x) => task'[x].promise = task[x].promise
    BY <1>7, <1>8, <2>2
  <2> QED
    BY <1>1, <1>3, <1>5, <1>10, <1>13, <1>15, <2>1, <2>3 DEF Booked
<1> QED
  BY <1>9, <1>12, <1>16, <1>17, <1>18, <1>19, <1>20, <1>21, <1>22, <1>23, <1>24, <1>25
     DEF AsyncInv, Spots, Serving, Awaits

LEMMA AsyncInit == ASSUME A!AsyncAssumption, A!Init PROVE AsyncInv /\ Started
<1>1. PICK k \in Tasks :
         /\ task = [b \in Tasks |-> IF b = k THEN A!NewTask(1, A!Final) ELSE NULL]
         /\ aqueue = [w \in A!Workers |-> IF w = 0 THEN <<k>> ELSE <<>>]
  BY DEF A!Init
<1>2. /\ build \in {"cl", "tk"}
      /\ apc = [w \in A!Workers |-> IF w = 0 THEN "run" ELSE "new"]
      /\ acur = [w \in A!Workers |-> NULL] /\ avictim = [w \in A!Workers |-> 1]
      /\ held = [w \in A!Workers |-> NULL] /\ abuffer = [w \in A!Workers |-> NULL]
      /\ future = [f \in A!Futures |-> [blocked |-> FALSE, ready |-> FALSE,
                                         result |-> 0, waiter |-> NULL]]
  BY DEF A!Init
<1> DEFINE t == A!NewTask(1, A!Final)
<1>3. /\ t \in A!TaskT /\ t # NULL /\ t.promise = A!Final /\ t.started = 0 /\ t.awaited = 0
      /\ t.waiting = NULL
  <2>1. A!Final \in A!Futures
    BY DEF A!Futures
  <2>2. t \in A!TaskT
    BY <2>1 DEF A!NewTask, A!TaskT, A!AsyncAssumption
  <2> QED
    BY <2>2 DEF A!NewTask, A!AsyncAssumption
<1> HIDE DEF t
<1>4. AsyncTypes
  <2>1. <<k>> \in Seq(Tasks) /\ <<>> \in Seq(Tasks)
    OBVIOUS
  <2>2. aqueue \in [A!Workers -> Seq(Tasks)]
    BY <1>1, <2>1
  <2>3. task \in [Tasks -> A!TaskT \cup {NULL}]
    BY <1>1, <1>3 DEF t
  <2>4. future \in [A!Futures -> FutureT]
    BY <1>2 DEF FutureT
  <2>5. apc \in [A!Workers -> A!Labels] /\ avictim \in [A!Workers -> 1..NWorkers]
    BY <1>2 DEF A!Labels, A!AsyncAssumption
  <2> QED
    BY <1>2, <2>2, <2>3, <2>4, <2>5 DEF AsyncTypes
<1>5. \A w \in A!Workers : /\ apc[w] \in {"run", "new"} /\ apc[w] \notin Carrying /\ apc[w] \notin A!Locked
                           /\ apc[w] \notin {"unlock_return", "delete"}
  BY <1>2 DEF Carrying, A!Locked
<1>6. \A x \in Tasks : (Alive(x) <=> x = k) /\ (x = k => task[x] = t)
  BY <1>1, <1>3 DEF Alive, t
<1>7. NULL \notin Tasks
  BY DEF A!AsyncAssumption
<1>8. \A w \in A!Workers : Distinct(aqueue[w]) /\ \A x : Has(aqueue[w], x) <=> w = 0 /\ x = k
  BY <1>1 DEF Has, Distinct
<1>9. \A w \in A!Workers, x \in Tasks : (InLine(w, x) <=> w = 0 /\ x = k) /\ ~Carried(w, x)
  BY <1>2, <1>5, <1>7, <1>8 DEF InLine, Carried
<1>10. Spots
  BY <1>2, <1>6, <1>7, <1>8, <1>9 DEF Spots, Lines, OneSpot
<1>11. Serving
  BY <1>5 DEF Serving, HandsServed, LocksHeld
<1>12. Frames
  BY <1>3, <1>6 DEF Frames, Frame, A!AsyncAssumption
<1>13. Promised
  <2>1. \A x \in Tasks : Owes(x) => x = k /\ task[x].promise = A!Final
    BY <1>3, <1>6 DEF Owes
  <2>2. A!Final \in A!Futures /\ ~future[A!Final].ready
    BY <1>2 DEF A!Futures
  <2>3. \A p \in Tasks, i \in 0..(Branching - 1) : <<p, i>> # A!Final
    BY <1>7 DEF A!Final
  <2> QED
    BY <2>1, <2>2, <2>3 DEF Promised
<1>14. WaitersWait
  BY <1>2 DEF WaitersWait
<1>15. Woken
  BY <1>3, <1>6, <1>9 DEF Woken
<1>16. Started
  BY <1>5 DEF Started
<1>17. AllKnown
  <2>1. 0 \in A!Workers
    BY DEF A!AsyncAssumption, A!Workers
  <2> QED
    BY <1>3, <1>6, <1>9, <2>1 DEF AllKnown, KnownTasks, KnownWaiters, KnownDebts, Waiting
<1> QED
  BY <1>4, <1>10, <1>11, <1>12, <1>13, <1>14, <1>15, <1>16, <1>17 DEF AsyncInv, Awaits

LEMMA AsyncStepInv ==
    ASSUME A!AsyncAssumption, AsyncInv, Started, [A!Next]_A!vars
    PROVE  AsyncInv' /\ Started' /\ Booked /\ (LocksInv => LocksInv')
<1>1. Started'
  BY StartedStep DEF AsyncInv
<1>2. ASSUME NEW w \in A!Workers, A!Pop(w) \/ A!Steal(w)
      PROVE  AsyncInv' /\ Booked /\ (LocksInv => LocksInv')
  <2>1. NothingTaken(w) \/ \E v \in A!Workers, k \in Tasks : Taken(w, v, k)
    BY <1>2, PopTakes, StealTakes DEF AsyncInv, Spots
  <2> QED
    BY <2>1, IdleInv, TakenInv
<1>3. ASSUME NEW w \in A!Workers, A!Worker(w)
      PROVE  AsyncInv' /\ Booked /\ (LocksInv => LocksInv')
  <2>1. CASE A!Pop(w) \/ A!Steal(w)
    BY <1>2, <2>1
  <2>2. CASE A!Idle(w)
    BY <2>2, IdleInv
  <2>3. CASE A!Resume(w)
    BY <2>3, ResumeInv
  <2>4. CASE A!Acquire(w) \/ A!Unlock(w)
    BY <2>4, AcquireInv
  <2>5. CASE A!Fulfil(w)
    BY <2>5, FulfilInv
  <2>6. CASE A!Delete(w)
    BY <2>6, DeleteInv
  <2>7. CASE A!Register(w)
    BY <2>7, RegisterInv
  <2>8. CASE A!StartChild(w)
    BY <2>8, StartChildInv
  <2>9. CASE A!Requeue(w)
    BY <2>9, RequeueInv
  <2> QED
    BY <1>3, <2>1, <2>2, <2>3, <2>4, <2>5, <2>6, <2>7, <2>8, <2>9 DEF A!Worker
<1>4. \/ A!Run \/ A!Join \/ UNCHANGED A!vars
      \/ \E w \in A!Workers : A!Worker(w)
  BY DEF A!Next, A!Done
<1> QED
  BY <1>1, <1>3, <1>4, MainInv

LEMMA AsyncInvariance == ASSUME A!AsyncAssumption PROVE A!Spec => [](AsyncInv /\ Started)
<1>1. A!Init => AsyncInv /\ Started
  BY AsyncInit
<1>2. AsyncInv /\ Started /\ [A!Next]_A!vars => (AsyncInv /\ Started)'
  BY AsyncStepInv
<1> QED
  BY <1>1, <1>2, PTL DEF A!Spec

LEMMA ResumedAreReady == AsyncInv => A!AwaitedIsReady
<1> SUFFICES ASSUME AsyncInv, NEW w \in A!Workers, apc[w] = "check", task[acur[w]].waiting # NULL
             PROVE  future[task[acur[w]].waiting].ready
  BY DEF A!AwaitedIsReady
<1>1. acur[w] \in Tasks /\ Carried(w, acur[w])
  BY DEF AsyncInv, Serving, HandsServed, Carried, Carrying
<1> QED
  BY <1>1 DEF AsyncInv, Awaits, Woken

\* The assertion that an awaited future is no longer WAITING when its task is
\* resumed never fails, for any tree and number of workers: in the build with
\* Chase-Lev queues, and in the one with ticket queues until one of them has
\* to grow (TicketSlots).
THEOREM AwaitedFuturesAreReady ==
    ASSUME A!AsyncAssumption PROVE A!Spec => []A!AwaitedIsReady
BY ResumedAreReady, AsyncInvariance, PTL

\* A task that was started and is not deleted is in a queue, in the hands of a
\* worker, or registered with the future it awaits, and that future has a
\* task left to fulfil it: whichever of async_return and the await comes
\* first, none is forgotten and none waits for nobody; with ticket queues, until
\* one of them has to grow.
NoneForgotten ==
    \A k \in Tasks : task[k] # NULL =>
       \/ \E w \in A!Workers : InLine(w, k) \/ Carried(w, k)
       \/ LET f == task[k].waiting
          IN  /\ f \in A!Futures
              /\ ~future[f].ready
              /\ future[f].waiter = k
              /\ \E j \in Tasks : Owes(j) /\ task[j].promise = f

THEOREM NoTaskIsForgotten ==
    ASSUME A!AsyncAssumption PROVE A!Spec => []NoneForgotten
<1>1. AsyncInv => NoneForgotten
  <2> SUFFICES ASSUME AsyncInv, NEW k \in Tasks, Alive(k),
                      ~\E w \in A!Workers : InLine(w, k) \/ Carried(w, k)
               PROVE  LET f == task[k].waiting
                      IN  /\ f \in A!Futures
                          /\ ~future[f].ready
                          /\ future[f].waiter = k
                          /\ \E j \in Tasks : Owes(j) /\ task[j].promise = f
    BY DEF NoneForgotten, Alive
  <2> DEFINE t == task[k]
             f == t.waiting
  <2>1. Waiting(k) /\ t \in A!TaskT /\ Frame(k)
    BY DEF AsyncInv, AsyncTypes, AllKnown, KnownTasks, Awaits, Frames, Alive
  <2>2. f \in A!Futures /\ ~future[f].ready /\ future[f].waiter = k
    BY <2>1 DEF Waiting, A!TaskT, AsyncInv, AllKnown, KnownWaiters
  <2>3. f = <<k, t.awaited>> /\ A!Request(t) = "await"
    BY <2>1 DEF Waiting, Frame
  <2>4. t.awaited \in 0..(Branching - 1) /\ t.awaited < t.started
    BY <2>1, <2>3, Requests DEF A!TaskT, A!AsyncAssumption
  <2> HIDE DEF t
  <2>5. \E j \in Tasks : Owes(j) /\ task[j].promise = f
    BY <2>2, <2>3, <2>4 DEF AsyncInv, AllKnown, KnownDebts, t
  <2> QED
    BY <2>2, <2>5 DEF t
<1> QED
  BY <1>1, AsyncInvariance, PTL

\* Where the memory of futures is not reused too early.
LocksApply == build = "tk" \/ A!LastLayer <= Branching

LEMMA LocksInit ==
    ASSUME A!AsyncAssumption, A!Init, LocksApply PROVE LocksInv
<1>1. PICK k \in Tasks : task = [b \in Tasks |-> IF b = k THEN A!NewTask(1, A!Final) ELSE NULL]
  BY DEF A!Init
<1>2. \A w \in A!Workers : apc[w] \notin A!Locked
  BY DEF A!Init, A!Locked
<1>3. \A x \in Tasks : Alive(x) => x = k /\ task[x].num = 1
  BY <1>1 DEF Alive, A!NewTask
<1>4. RootOnly
  BY <1>3 DEF RootOnly
<1> QED
  BY <1>2, <1>4 DEF LocksApply, LocksInv, A!FutureLocks, Blocked, Unlocking, A!Locked

LEMMA BuildStays == ASSUME [A!Next]_A!vars PROVE LocksApply' <=> LocksApply
<1>1. build' = build
  BY DEF A!Next, A!vars, A!Run, A!Join, A!Done, A!Worker, A!Pop, A!Steal, A!Idle, A!Resume,
         A!Acquire, A!Unlock, A!Fulfil, A!Delete, A!Register, A!StartChild, A!Requeue
<1> QED
  BY <1>1 DEF LocksApply

\* The spinlock of a future excludes: no two workers are between ACQUIRE_LOCK
\* and RELEASE_LOCK of the same one.  It is so in libseff_async_tk.c until a
\* ticket queue has to grow, and with Chase-Lev queues when only the root
\* starts tasks.
THEOREM FutureLocksExclude ==
    ASSUME A!AsyncAssumption PROVE A!Spec => [](LocksApply => A!FutureLocks)
<1> DEFINE I == AsyncInv /\ Started /\ (LocksApply => LocksInv)
<1>1. A!Init => I
  BY AsyncInit, LocksInit
<1>2. I /\ [A!Next]_A!vars => I'
  BY BuildStays, AsyncStepInv
<1>3. I => (LocksApply => A!FutureLocks)
  BY DEF LocksInv
<1> QED
  BY <1>1, <1>2, <1>3, PTL DEF A!Spec

Living == {k \in Tasks : Alive(k)}

\* The tasks are counted, nobody leaves before the last one, and while the
\* root's future is not ready a task is left that owes it.
Tally ==
    /\ IsFiniteSet(Living)
    /\ aremaining = Cardinality(Living)
    /\ \A w \in A!Workers : apc[w] \in {"exited", "done"} => Living = {}
    /\ future[A!Final].ready \/ \E k \in Tasks : Owes(k) /\ task[k].promise = A!Final

LEMMA TallyInit == ASSUME A!AsyncAssumption, A!Init PROVE Tally
<1>1. PICK k \in Tasks : task = [b \in Tasks |-> IF b = k THEN A!NewTask(1, A!Final) ELSE NULL]
  BY DEF A!Init
<1>2. A!NewTask(1, A!Final) # NULL /\ A!NewTask(1, A!Final).promise = A!Final
  <2>1. A!NewTask(1, A!Final) \in A!TaskT
    BY DEF A!NewTask, A!TaskT, A!Futures, A!AsyncAssumption
  <2> QED
    BY <2>1 DEF A!NewTask, A!AsyncAssumption
<1>3. Living = {k} /\ task[k].promise = A!Final
  BY <1>1, <1>2 DEF Living, Alive
<1>4. \A w \in A!Workers : apc[w] \in {"run", "new"}
  BY DEF A!Init
<1>5. Owes(k)
  BY <1>3, <1>4 DEF Owes, Released, Living
<1>6. aremaining = 1
  BY DEF A!Init
<1> QED
  BY <1>3, <1>4, <1>5, <1>6, FS_Singleton DEF Tally

LEMMA TallyStep ==
    ASSUME A!AsyncAssumption, AsyncInv, Started, Tally, [A!Next]_A!vars PROVE Tally'
<1>1. Booked
  BY AsyncStepInv
<1>2. /\ IsFiniteSet(Living)'
      /\ aremaining' = Cardinality(Living')
      /\ Living = {} => Living' = {}
  <2>1. CASE aremaining' = aremaining /\ \A k \in Tasks : Alive(k)' <=> Alive(k)
    <3>1. Living' = Living
      BY <2>1 DEF Living
    <3> QED
      BY <2>1, <3>1 DEF Tally
  <2>2. CASE /\ aremaining' = aremaining + 1
             /\ \E j, k \in Tasks : /\ Alive(j) /\ ~Alive(k)
                                      /\ \A x \in Tasks : Alive(x)' <=> x = k \/ Alive(x)
    <3>1. PICK j, k \in Tasks : /\ Alive(j) /\ ~Alive(k)
                                /\ \A x \in Tasks : Alive(x)' <=> x = k \/ Alive(x)
      BY <2>2
    <3>2. Living' = Living \cup {k} /\ k \notin Living /\ j \in Living
      BY <3>1 DEF Living
    <3> QED
      BY <2>2, <3>2, FS_AddElement DEF Tally
  <2>3. CASE /\ aremaining' = aremaining - 1
             /\ \E k \in Tasks : /\ Alive(k)
                                /\ \A x \in Tasks : Alive(x)' <=> x # k /\ Alive(x)
    <3>1. PICK k \in Tasks : Alive(k) /\ \A x \in Tasks : Alive(x)' <=> x # k /\ Alive(x)
      BY <2>3
    <3>2. Living' = Living \ {k} /\ k \in Living
      BY <3>1 DEF Living
    <3> QED
      BY <2>3, <3>2, FS_RemoveElement DEF Tally
  <2> QED
    BY <1>1, <2>1, <2>2, <2>3 DEF Booked
<1>3. ASSUME NEW w \in A!Workers, apc'[w] \in {"exited", "done"}
      PROVE  Living' = {}
  <2>1. \/ \E v \in A!Workers : apc[v] \in {"exited", "done"}
        \/ aremaining = 0
    <3>1. CASE A!Run \/ A!Join \/ UNCHANGED A!vars
      BY <1>3, <3>1 DEF A!Run, A!Join, A!vars
    <3>2. ASSUME NEW v \in A!Workers, A!Worker(v)
          PROVE  apc[w] \in {"exited", "done"} \/ aremaining = 0
      <4>1. w # v => apc'[w] = apc[w]
        BY <3>2 DEF AsyncInv, AsyncTypes, A!Worker, A!Pop, A!Steal, A!Idle, A!Resume, A!Acquire,
                    A!Unlock, A!Fulfil, A!Delete, A!Register, A!StartChild, A!Requeue, A!Goto,
                    A!Got, A!TryVictim
      <4>2. w = v => aremaining = 0
        BY <1>3, <3>2 DEF AsyncInv, AsyncTypes, A!Worker, A!Pop, A!Steal, A!Idle, A!Resume,
                          A!Acquire, A!Unlock, A!Fulfil, A!Delete, A!Register, A!StartChild,
                          A!Requeue, A!Goto, A!Got, A!TryVictim, A!Request
      <4> QED
        BY <1>3, <4>1, <4>2
    <3> QED
      BY <3>1, <3>2 DEF A!Next, A!Done
  <2>2. Living = {}
    BY <2>1, FS_EmptySet DEF Tally
  <2> QED
    BY <1>2, <2>2
<1>4. future'[A!Final].ready \/ \E k \in Tasks : Owes(k)' /\ task'[k].promise = A!Final
  BY <1>1 DEF Tally, Booked
<1> QED
  BY <1>2, <1>3, <1>4 DEF Tally

LEMMA AsyncTally == ASSUME A!AsyncAssumption PROVE A!Spec => []Tally
<1>1. A!Init => AsyncInv /\ Started /\ Tally
  BY AsyncInit, TallyInit
<1>2. AsyncInv /\ Started /\ Tally /\ [A!Next]_A!vars => (AsyncInv /\ Started /\ Tally)'
  BY AsyncStepInv, TallyStep
<1> QED
  BY <1>1, <1>2, PTL DEF A!Spec

LEMMA AsyncTypesHold == AsyncInv /\ Tally => A!TypeOK
  BY FS_CardinalityType DEF AsyncInv, AsyncTypes, FutureT, Tally, A!TypeOK

\* The scheduler's variables keep their types: remaining_tasks, unsigned in
\* the code, does not wrap; with ticket queues, until one of them has to grow.
THEOREM AsyncTypeCorrectness == ASSUME A!AsyncAssumption PROVE A!Spec => []A!TypeOK
BY AsyncTypesHold, AsyncInvariance, AsyncTally, PTL

\* Once the threads have left, and so when async_scheduler_run returns, every
\* task has been deleted and the root's future is fulfilled; with ticket
\* queues, if none of them had to grow.
RunsToTheEnd ==
    \A w \in A!Workers : apc[w] \in {"exited", "done"} =>
       (\A k \in Tasks : task[k] = NULL) /\ future[A!Final].ready

THEOREM ThreadsLeaveWhenAllIsDone == ASSUME A!AsyncAssumption PROVE A!Spec => []RunsToTheEnd
<1>1. Tally => RunsToTheEnd
  BY DEF Tally, RunsToTheEnd, Living, Owes, Alive
<1> QED
  BY <1>1, AsyncTally, PTL

----------------------------------------------------------------------------
(* Part 4: module SkynetSeq, and all the programs of the benchmark.        *)

FrameT == [num : Nat \ {0}, i : SQ!Children, finished : 0..shape.branching,
           ended : SUBSET SQ!Children]

\* A node in its loop has counted some of its children, and i goes with the
\* count: it never wraps around before all are counted.
Counts(f) == f.finished < shape.branching /\ f.i = f.finished

\* Who resumed a child is in its loop; so is the last node, or it is a leaf,
\* or it has counted all its children.
SeqInv ==
    /\ shape \in [branching : Branchings, depth : Depths]
    /\ at \in {"loop", "yield", "return", "main", "done"}
    /\ total \in Nat
    /\ chain \in Seq(FrameT)
    /\ chain = <<>> <=> at = "done"
    /\ \A c \in 1..Len(chain) : c < Len(chain) \/ at = "loop" => Counts(chain[c])
    /\ at = "yield" => chain[Len(chain)].num >= SQ!LastLayer

LEMMA ShapeTypes ==
    ASSUME SQ!SkynetSeqAssumption, shape \in [branching : Branchings, depth : Depths]
    PROVE  /\ shape.branching \in Nat \ {0} /\ SQ!LastLayer \in Int
           /\ 0 \in SQ!Children
           /\ \A n \in Nat \ {0} : /\ SQ!Frame(n) \in FrameT
                                   /\ Counts(SQ!Frame(n))
                                   /\ SQ!StartOf(n) = "yield" => n >= SQ!LastLayer
<1>1. shape.branching \in Nat \ {0} /\ shape.depth \in Nat \ {0}
  BY DEF SQ!SkynetSeqAssumption
<1>2. SQ!LastLayer \in Int
  BY <1>1, SameTree, RootIsNode
<1>3. 0 \in SQ!Children
  BY <1>1 DEF SQ!Children
<1>4. ASSUME NEW n \in Nat \ {0}
      PROVE  SQ!Frame(n) \in FrameT /\ Counts(SQ!Frame(n))
  BY <1>1, <1>3 DEF SQ!Frame, FrameT, Counts
<1> QED
  BY <1>1, <1>2, <1>3, <1>4 DEF SQ!StartOf

\* The loop's "i = (i + 1) % 10": it is 0 again when all are counted.
LEMMA NextChild ==
    ASSUME NEW b \in Nat \ {0}, NEW i \in 0..(b - 1)
    PROVE  (i + 1) % b = IF i + 1 = b THEN 0 ELSE i + 1
<1> DEFINE x == i + 1
           q == x \div b
           r == x % b
<1>1. x \in 1..b
  OBVIOUS
<1> HIDE DEF x
<1>2. q \in Int /\ r \in 0..(b - 1) /\ x = b * q + r
  BY <1>1
<1> HIDE DEF q, r
<1>3. CASE q <= -1
  BY <1>1, <1>2, <1>3
<1>4. CASE q = 0
  BY <1>1, <1>2, <1>4 DEF x, r
<1>5. CASE q = 1
  BY <1>1, <1>2, <1>5 DEF x, r
<1>6. CASE q >= 2
  BY <1>1, <1>2, <1>6
<1> QED
  BY <1>2, <1>3, <1>4, <1>5, <1>6

LEMMA SeqInit == ASSUME SQ!SkynetSeqAssumption, SQ!Init PROVE SeqInv
<1>1. /\ shape \in [branching : Branchings, depth : Depths] /\ chain = <<SQ!Frame(1)>>
      /\ at = SQ!StartOf(1) /\ total = 0
  BY DEF SQ!Init
<1>2. /\ SQ!Frame(1) \in FrameT /\ Counts(SQ!Frame(1)) /\ SQ!Frame(1).num = 1
      /\ at = "yield" => 1 >= SQ!LastLayer
  BY <1>1, ShapeTypes DEF SQ!Frame
<1>3. /\ chain \in Seq(FrameT) /\ Len(chain) = 1 /\ chain # <<>>
      /\ chain[1] = SQ!Frame(1)
  BY <1>1, <1>2
<1>4. at \in {"loop", "yield"}
  BY <1>1 DEF SQ!StartOf
<1> QED
  BY <1>1, <1>2, <1>3, <1>4 DEF SeqInv

LEMMA SeqStepInv == ASSUME SQ!SkynetSeqAssumption, SeqInv, [SQ!Next]_SQ!vars PROVE SeqInv'
<1> DEFINE n == Len(chain)
<1>1. /\ shape.branching \in Nat \ {0} /\ SQ!LastLayer \in Int
      /\ \A m \in Nat \ {0} : /\ SQ!Frame(m) \in FrameT
                              /\ Counts(SQ!Frame(m))
                              /\ SQ!StartOf(m) = "yield" => m >= SQ!LastLayer
  BY ShapeTypes DEF SeqInv
<1>2. n \in Nat /\ chain \in Seq(FrameT) /\ \A c \in 1..n : chain[c] \in FrameT
  BY DEF SeqInv
<1>3. at # "done" => n >= 1
  BY <1>2, EmptySeq DEF SeqInv
<1>4. CASE SQ!Done \/ UNCHANGED SQ!vars
  BY <1>4 DEF SQ!Done, SQ!vars, SeqInv, Counts, FrameT, SQ!Children, SQ!LastLayer
<1>5. CASE SQ!ResumeChild
  <2> DEFINE k == SQ!me.num * shape.branching + SQ!me.i
  <2>1. /\ at = "loop" /\ shape' = shape /\ total' = total
        /\ chain' = Append(chain, SQ!Frame(k)) /\ at' = SQ!StartOf(k)
    BY <1>5 DEF SQ!ResumeChild
  <2>2. k \in Nat \ {0}
    <3>1. SQ!me \in FrameT
      BY <1>2, <1>3, <2>1 DEF SQ!me
    <3>2. SQ!me.num \in Nat \ {0} /\ SQ!me.i \in Nat
      BY <3>1, <1>1 DEF FrameT, SQ!Children
    <3> HIDE DEF SQ!me
    <3>3. SQ!me.num * shape.branching \in Nat /\ SQ!me.num * shape.branching >= 1
      BY <3>2, <1>1
    <3> QED
      BY <3>2, <3>3
  <2> HIDE DEF k
  <2>3. SQ!Frame(k) \in FrameT /\ SQ!Frame(k).num = k /\ Counts(SQ!Frame(k))
    BY <1>1, <2>2 DEF SQ!Frame
  <2>4. /\ chain' \in Seq(FrameT) /\ Len(chain') = n + 1 /\ chain' # <<>>
        /\ chain'[n + 1] = SQ!Frame(k) /\ \A c \in 1..n : chain'[c] = chain[c]
    BY <1>2, <2>1, <2>3, AppendProperties
  <2>5. FrameT' = FrameT /\ SQ!LastLayer' = SQ!LastLayer
    BY <2>1 DEF FrameT, SQ!Children, SQ!LastLayer
  <2>6. \A c \in 1..Len(chain') : Counts(chain[c])' 
    <3> SUFFICES ASSUME NEW c \in 1..(n + 1) PROVE Counts(chain'[c])
      BY <2>1, <2>4 DEF Counts
    <3>1. CASE c = n + 1
      BY <2>3, <2>4, <3>1
    <3>2. CASE c \in 1..n
      BY <2>1, <2>4, <3>2 DEF SeqInv
    <3> QED
      BY <1>2, <3>1, <3>2
  <2>7. at' \in {"loop", "yield"} /\ (at' = "yield" => k >= SQ!LastLayer)
    BY <1>1, <2>1, <2>2 DEF SQ!StartOf
  <2> QED
    BY <2>1, <2>3, <2>4, <2>5, <2>6, <2>7 DEF SeqInv
<1>6. CASE SQ!Yield
  <2>1. /\ at = "yield" /\ at' = "main" /\ shape' = shape /\ chain' = chain
        /\ total' = total + (chain[n].num - SQ!LastLayer)
    BY <1>6 DEF SQ!Yield, SQ!me
  <2>2. chain[n].num \in Nat /\ chain[n].num >= SQ!LastLayer
    BY <1>2, <1>3, <2>1 DEF SeqInv, FrameT
  <2>3. total' \in Nat
    BY <1>1, <2>1, <2>2 DEF SeqInv
  <2> QED
    BY <2>1, <2>3 DEF SeqInv, Counts, FrameT, SQ!Children, SQ!LastLayer
<1>7. CASE SQ!MainResumes
  BY <1>7 DEF SQ!MainResumes, SeqInv, Counts, FrameT, SQ!Children, SQ!LastLayer
<1>8. CASE SQ!Return /\ n = 1
  <2>1. at' = "done" /\ chain' = <<>> /\ shape' = shape /\ total' = total
    BY <1>8 DEF SQ!Return
  <2>2. chain' \in Seq(FrameT) /\ Len(chain') = 0
    BY <2>1
  <2> QED
    BY <2>1, <2>2 DEF SeqInv, FrameT, SQ!Children
<1>9. CASE SQ!Return /\ n # 1
  <2> DEFINE o == SQ!Others
             p == o[Len(o)]
             next == [p EXCEPT !.i = (@ + 1) % shape.branching,
                               !.finished = @ + 1,
                               !.ended = @ \cup {p.i}]
  <2>1. /\ at = "return" /\ shape' = shape /\ total' = total
        /\ chain' = [o EXCEPT ![Len(o)] = next]
        /\ at' = IF next.i = 0 /\ next.finished >= shape.branching THEN "return" ELSE "loop"
    BY <1>9 DEF SQ!Return
  <2>2. n >= 2 /\ n - 1 \in 1..n /\ n - 1 \in Nat
    <3>1. n \in Nat /\ n >= 1 /\ n # 1
      BY <1>2, <1>3, <1>9, <2>1
    <3> HIDE DEF n
    <3> QED
      BY <3>1
  <2>3. o \in Seq(FrameT) /\ Len(o) = n - 1 /\ \A c \in 1..(n - 1) : o[c] = chain[c]
    <3>1. /\ SubSeq(chain, 1, n - 1) \in Seq(FrameT)
          /\ Len(SubSeq(chain, 1, n - 1)) = n - 1
          /\ \A c \in 1..(n - 1) : SubSeq(chain, 1, n - 1)[c] = chain[1 + c - 1]
      <4>1. \A c \in 1..(n - 1) : chain[c] \in FrameT
        BY <1>2
      <4> QED
        BY <1>2, <2>2, <4>1, SubSeqProperties
    <3> QED
      BY <1>2, <3>1 DEF SQ!Others
  <2>4. p = chain[n - 1] /\ p \in FrameT /\ Counts(p)
    BY <1>2, <2>2, <2>3 DEF SeqInv
  <2>5. p.i + 1 <= shape.branching /\ p.i \in 0..(shape.branching - 1) /\ p.i = p.finished
    BY <1>1, <2>4 DEF FrameT, Counts, SQ!Children
  <2>6. /\ next \in FrameT
        /\ next.finished = p.finished + 1
        /\ next.i = IF p.i + 1 = shape.branching THEN 0 ELSE p.i + 1
    <3>1. (p.i + 1) % shape.branching = IF p.i + 1 = shape.branching THEN 0 ELSE p.i + 1
      BY <1>1, <2>5, NextChild
    <3> HIDE DEF p
    <3> DEFINE I == 0..(shape.branching - 1)
               R == [num : Nat \ {0}, i : I, finished : 0..shape.branching, ended : SUBSET I]
    <3>2. p \in R
      BY <2>4 DEF FrameT, SQ!Children
    <3>4. p.finished + 1 \in 0..shape.branching /\ (p.i + 1) % shape.branching \in 0..(shape.branching - 1)
      BY <1>1, <2>5, <3>1
    <3>5. p.ended \cup {p.i} \subseteq I /\ p.finished + 1 \in 0..shape.branching
          /\ (p.i + 1) % shape.branching \in I
      BY <2>5, <3>2, <3>4
    <3> DEFINE m == (p.i + 1) % shape.branching
               g == p.finished + 1
               e == p.ended \cup {p.i}
    <3>6. next = [[[p EXCEPT !.i = m] EXCEPT !.finished = g] EXCEPT !.ended = e]
      BY <3>2
    <3>7. next \in R /\ next.finished = g /\ next.i = m
      <4> HIDE DEF m, g, e, next, I
      <4> QED
        BY <3>2, <3>5, <3>6 DEF m, g, e
    <3> QED
      BY <3>1, <3>7 DEF FrameT, SQ!Children
  <2>7. at' = "loop" => Counts(next)
    BY <1>1, <2>1, <2>5, <2>6, SMTT(30) DEF Counts
  <2> HIDE DEF o, p, next
  <2>8. /\ chain' \in Seq(FrameT) /\ Len(chain') = n - 1 /\ chain'[n - 1] = next
        /\ \A c \in 1..(n - 1) : c # n - 1 => chain'[c] = chain[c]
    BY <2>1, <2>2, <2>3, <2>6, ExceptSeq
  <2>9. FrameT' = FrameT /\ chain' # <<>> /\ at' \in {"loop", "return"}
    BY <2>1, <2>2, <2>8 DEF FrameT, SQ!Children
  <2>10. \A c \in 1..Len(chain') : c < Len(chain') \/ at' = "loop" => Counts(chain[c])'
    <3> SUFFICES ASSUME NEW c \in 1..(n - 1), c < n - 1 \/ at' = "loop" PROVE Counts(chain'[c])
      BY <2>1, <2>8 DEF Counts
    <3>1. CASE c = n - 1
      BY <2>7, <2>8, <3>1
    <3>2. CASE c # n - 1
      BY <1>2, <2>8, <3>2 DEF SeqInv
    <3> QED
      BY <3>1, <3>2
  <2> QED
    BY <2>1, <2>8, <2>9, <2>10 DEF SeqInv
<1> QED
  BY <1>4, <1>5, <1>6, <1>7, <1>8, <1>9 DEF SQ!Next

LEMMA SeqTypes == ASSUME SQ!SkynetSeqAssumption, SeqInv PROVE SQ!TypeOK
<1>1. ASSUME NEW c \in 1..Len(chain) PROVE chain[c] \in FrameT
  BY <1>1, ElementOfSeq DEF SeqInv
<1> QED
  BY <1>1 DEF SeqInv, SQ!TypeOK, FrameT

----------------------------------------------------------------------------
(* The programs together.                                                  *)

\* Each keeps its invariants while it runs, and nothing moves in the others.
SkynetInv ==
    /\ program \in {"async", "promises", "seq"}
    /\ program = "async" =>
          AsyncInv /\ Started /\ Tally /\ (LocksApply => LocksInv)
    /\ program = "promises" => Inv /\ ClientInv
    /\ program = "seq" => SeqInv

LEMMA SkynetInvInit == SkynetInit => SkynetInv
<1>1. CASE program = "async" /\ A!Init
  BY <1>1, SkynetAssumption, AsyncInit, TallyInit, LocksInit DEF SkynetInv
<1>2. CASE program = "promises" /\ PromisesInit
  BY <1>2, InitInv, ClientInit DEF SkynetInv, PromisesInit
<1>3. CASE program = "seq" /\ SQ!Init
  BY <1>3, SkynetAssumption, SeqInit DEF SkynetInv
<1> QED
  BY <1>1, <1>2, <1>3 DEF SkynetInit

LEMMA SkynetInvStep == SkynetInv /\ [SkynetNext]_skynetVars => SkynetInv'
<1> SUFFICES ASSUME SkynetInv, [SkynetNext]_skynetVars PROVE SkynetInv'
  OBVIOUS
<1>1. /\ program' = program /\ [A!Next]_A!vars
      /\ [PromisesNext]_allVars /\ [SQ!Next]_SQ!vars
  <2>1. UNCHANGED asyncVars => UNCHANGED A!vars
    BY DEF asyncVars, A!vars
  <2>2. UNCHANGED seqVars => UNCHANGED SQ!vars
    BY DEF seqVars, SQ!vars
  <2> QED
    BY <2>1, <2>2 DEF SkynetNext, skynetVars, AsyncStep, PromisesStep, SeqStep
<1>2. CASE program = "async"
  BY <1>1, <1>2, SkynetAssumption, AsyncStepInv, TallyStep, BuildStays DEF SkynetInv
<1>3. CASE program = "promises"
  <2>1. [Next]_vars
    BY <1>1, SchedulerStep
  <2>2. Inv'
    BY <1>3, <2>1, NextInv DEF SkynetInv
  <2>3. ClientInv'
    BY <1>1, <1>3, SkynetAssumption, ClientStep DEF SkynetInv, Inv, Counted
  <2> QED
    BY <1>1, <1>3, <2>2, <2>3 DEF SkynetInv
<1>4. CASE program = "seq"
  BY <1>1, <1>4, SkynetAssumption, SeqStepInv DEF SkynetInv
<1> QED
  BY <1>2, <1>3, <1>4 DEF SkynetInv

LEMMA SkynetInvariance == SkynetSpec => []SkynetInv
BY SkynetInvInit, SkynetInvStep, PTL DEF SkynetSpec

\* In each of the programs the counters do not wrap and every pointer is
\* to something of its type; in libseff.c no loop counts more children than
\* there are.  Of libseff_async_tk.c, until a ticket queue has to grow.
THEOREM SkynetTypeCorrectness == SkynetSpec => []ProgramTypeOK
<1>1. SkynetInv => ProgramTypeOK
  <2>1. Inv => TypeOK
    BY RemainingCounts DEF Inv, TasksInv, Types, TypeOK
  <2> QED
    BY <2>1, SkynetAssumption, AsyncTypesHold, SeqTypes DEF SkynetInv, ProgramTypeOK
<1> QED
  BY <1>1, SkynetInvariance, PTL

\* AwaitedFuturesAreReady, of the program that runs: in libseff_async.c, and
\* in libseff_async_tk.c until a ticket queue has to grow, no task goes on
\* before its future is fulfilled.
THEOREM SkynetAwaitsReady == SkynetSpec => []AwaitedIsReady
<1>1. SkynetInv => AwaitedIsReady
  BY ResumedAreReady DEF SkynetInv, AwaitedIsReady
<1> QED
  BY <1>1, SkynetInvariance, PTL

\* FutureLocksExclude, of the program that runs: with ticket queues until one
\* has to grow, with Chase-Lev queues when only the root starts tasks.
THEOREM SkynetLocksExclude == SkynetSpec => [](LocksApply => FutureLocks)
<1>1. SkynetInv => (LocksApply => FutureLocks)
  BY DEF SkynetInv, LocksInv, FutureLocks
<1> QED
  BY <1>1, SkynetInvariance, PTL
----------------------------------------------------------------------------
(* Part 5: every program of the skynet benchmark ends with the right sum.  *)
(* The sequential versions.                                                *)

\* How far main's total has got: the leaf it would be counted next, in the
\* numbering of the last layer's continuation.
Reached ==
    LET b == shape.branching
        d == shape.depth
        n == chain[Len(chain)].num
        i == chain[Len(chain)].i
    IN  CASE at = "loop" -> (n * b + i) * Leaves(b, d, n * b)
          [] at = "yield" -> n * Leaves(b, d, n)
          [] at \in {"main", "return"} -> (n + 1) * Leaves(b, d, n)
          [] at = "done" -> 2 * LastLayerOf(b, d)

\* The chain leads from the root to its last node, and main has summed up the
\* leaves before the one it has reached.
SeqSums ==
    LET b == shape.branching
        d == shape.depth
        n == Len(chain)
    IN  /\ \A c \in 1..n : IsNode(b, d, chain[c].num)
        /\ n > 0 => chain[1].num = 1
        /\ \A c \in 1..n : c < n =>
              /\ chain[c].num < LastLayerOf(b, d)
              /\ chain[c + 1].num = chain[c].num * b + chain[c].i
        /\ at = "loop" => chain[n].num < LastLayerOf(b, d)
        /\ 2 * total = Before2(b, d, Reached)

\* A node that has just started.
LEMMA StartsThere ==
    ASSUME NEW b \in Nat \ {0}, NEW d \in Nat \ {0}, NEW n, IsNode(b, d, n),
           n < LastLayerOf(b, d)
    PROVE  (n * b + 0) * Leaves(b, d, n * b) = n * Leaves(b, d, n)
<1>1. 0 \in 0..(b - 1) /\ n \in Nat
  BY DEF IsNode
<1>2. PICK w \in Nat \ {0} : w = Leaves(b, d, n * b) /\ Leaves(b, d, n) = b * w
  BY <1>1, LeavesOfInner
<1>3. (n * b + 0) * w = n * (b * w)
  BY <1>1
<1> QED
  BY <1>2, <1>3

LEMMA EndsThere ==
    ASSUME NEW b \in Nat \ {0}, NEW d \in Nat \ {0}, NEW n, IsNode(b, d, n),
           n < LastLayerOf(b, d), NEW i \in 0..(b - 1)
    PROVE  /\ (n * b + i + 1) * Leaves(b, d, n * b + i) = (n * b + (i + 1)) * Leaves(b, d, n * b)
           /\ i + 1 = b => (n * b + i + 1) * Leaves(b, d, n * b + i) = (n + 1) * Leaves(b, d, n)
<1>1. n \in Nat
  BY DEF IsNode
<1>2. PICK w \in Nat \ {0} : /\ w = Leaves(b, d, n * b) /\ Leaves(b, d, n) = b * w
                             /\ Leaves(b, d, n * b + i) = w
  BY LeavesOfInner
<1>3. n * b + i + 1 = n * b + (i + 1)
  BY <1>1
<1>4. i + 1 = b => (n * b + (i + 1)) * w = (n + 1) * (b * w)
  BY <1>1
<1> QED
  BY <1>2, <1>3, <1>4

LEMMA SeqTypesOf ==
    ASSUME SQ!SkynetSeqAssumption, SeqInv
    PROVE  /\ shape.branching \in Nat \ {0} /\ shape.depth \in Nat \ {0}
           /\ SQ!LastLayer = LastLayerOf(shape.branching, shape.depth)
           /\ SQ!LastLayer \in Nat \ {0}
           /\ Len(chain) \in Nat
           /\ \A c \in 1..Len(chain) : /\ chain[c] \in FrameT
                                       /\ chain[c].num \in Nat \ {0}
                                       /\ chain[c].i \in 0..(shape.branching - 1)
           /\ total \in Nat
<1>1. shape.branching \in Nat \ {0} /\ shape.depth \in Nat \ {0} /\ total \in Nat
  BY DEF SeqInv, SQ!SkynetSeqAssumption
<1>2. SQ!LastLayer = LastLayerOf(shape.branching, shape.depth) /\ SQ!LastLayer \in Nat \ {0}
  BY <1>1, SameTree, RootIsNode
<1>3. chain \in Seq(FrameT)
  BY DEF SeqInv
<1>4. Len(chain) \in Nat /\ \A c \in 1..Len(chain) : chain[c] \in FrameT
  BY <1>3
<1>5. \A f \in FrameT : f.num \in Nat \ {0} /\ f.i \in 0..(shape.branching - 1)
  BY DEF FrameT, SQ!Children
<1> QED
  BY <1>1, <1>2, <1>4, <1>5

\* Where a chain stands whose last node n has just started.
LEMMA StartedReach ==
    ASSUME SQ!SkynetSeqAssumption, SeqInv, NEW n, IsNode(shape.branching, shape.depth, n),
           at = SQ!StartOf(n), Len(chain) # 0, chain[Len(chain)] = SQ!Frame(n)
    PROVE  /\ Reached = n * Leaves(shape.branching, shape.depth, n)
           /\ at = "loop" => n < LastLayerOf(shape.branching, shape.depth)
<1> DEFINE b == shape.branching  d == shape.depth
<1>1. /\ b \in Nat \ {0} /\ d \in Nat \ {0} /\ n \in Nat
      /\ SQ!LastLayer = LastLayerOf(b, d) /\ SQ!LastLayer \in Nat
  BY SeqTypesOf DEF IsNode
<1>2. chain[Len(chain)].num = n /\ chain[Len(chain)].i = 0
  BY DEF SQ!Frame
<1>3. CASE n >= SQ!LastLayer
  <2>1. at = "yield"
    BY <1>3 DEF SQ!StartOf
  <2> QED
    BY <1>2, <2>1 DEF Reached
<1>4. CASE ~(n >= SQ!LastLayer)
  <2>1. at = "loop" /\ n < LastLayerOf(b, d)
    BY <1>1, <1>4 DEF SQ!StartOf
  <2>2. Reached = (n * b + 0) * Leaves(b, d, n * b)
    BY <1>2, <2>1 DEF Reached
  <2> QED
    BY <1>1, <2>1, <2>2, StartsThere
<1> QED
  BY <1>3, <1>4

LEMMA SeqSumsInit == ASSUME SQ!SkynetSeqAssumption, SQ!Init PROVE SeqSums
<1> DEFINE b == shape.branching  d == shape.depth
<1>1. SeqInv
  BY SeqInit
<1>2. chain = <<SQ!Frame(1)>> /\ at = SQ!StartOf(1) /\ total = 0
  BY DEF SQ!Init
<1>3. b \in Nat \ {0} /\ d \in Nat \ {0}
  BY <1>1, SeqTypesOf
<1>4. IsNode(b, d, 1) /\ LastLayerOf(b, d) \in Nat /\ Leaves(b, d, 1) = LastLayerOf(b, d)
  BY <1>3, RootIsNode
<1>5. Len(chain) = 1 /\ chain[1] = SQ!Frame(1) /\ chain[1].num = 1
  BY <1>2 DEF SQ!Frame
<1>6. Reached = 1 * Leaves(b, d, 1) /\ (at = "loop" => 1 < LastLayerOf(b, d))
  BY <1>1, <1>2, <1>4, <1>5, StartedReach
<1>7. Before2(b, d, Reached) = 0
  <2>1. PICK l \in Nat : l = LastLayerOf(b, d)
    BY <1>4
  <2>2. 1 * l - l = 0 /\ 0 * (1 * l - l - 1) = 0
    OBVIOUS
  <2> QED
    BY <1>4, <1>6, <2>1, <2>2 DEF Before2
<1> QED
  BY <1>2, <1>4, <1>5, <1>6, <1>7 DEF SeqSums

LEMMA SeqSumsStep ==
    ASSUME SQ!SkynetSeqAssumption, SeqInv, SeqSums, [SQ!Next]_SQ!vars
    PROVE  SeqSums'
<1> DEFINE b == shape.branching
           d == shape.depth
           n == Len(chain)
           ll == LastLayerOf(b, d)
<1>1. /\ b \in Nat \ {0} /\ d \in Nat \ {0} /\ SQ!LastLayer = ll /\ ll \in Nat \ {0}
      /\ n \in Nat /\ total \in Nat
      /\ \A c \in 1..n : /\ chain[c] \in FrameT
                         /\ chain[c].num \in Nat \ {0}
                         /\ chain[c].i \in 0..(b - 1)
  BY SeqTypesOf
<1>2. SeqInv' /\ shape' = shape
  <2>1. SeqInv'
    BY SeqStepInv
  <2>2. shape' = shape
    BY DEF SQ!Next, SQ!ResumeChild, SQ!Yield, SQ!MainResumes, SQ!Return, SQ!Done, SQ!vars
  <2> QED
    BY <2>1, <2>2
<1>3. at # "done" => n >= 1
  <2>1. at # "done" => chain # <<>>
    BY DEF SeqInv
  <2>2. chain \in Seq(FrameT)
    BY DEF SeqInv
  <2> QED
    BY <1>1, <2>1, <2>2, EmptySeq
<1>4. /\ \A c \in 1..n : IsNode(b, d, chain[c].num)
      /\ n > 0 => chain[1].num = 1
      /\ \A c \in 1..n : c < n => chain[c].num < ll /\ chain[c + 1].num = chain[c].num * b + chain[c].i
      /\ at = "loop" => chain[n].num < ll
      /\ 2 * total = Before2(b, d, Reached)
  BY DEF SeqSums
<1> HIDE DEF ll
<1>5. CASE SQ!Done \/ UNCHANGED SQ!vars
  <2>1. UNCHANGED <<shape, at, chain, total>>
    BY <1>5 DEF SQ!Done, SQ!vars
  <2> QED
    BY <2>1 DEF SeqSums, Reached
<1>6. CASE SQ!ResumeChild
  <2>k. PICK k : k = chain[n].num * b + chain[n].i
    OBVIOUS
  <2>1. /\ at = "loop" /\ total' = total
        /\ chain' = Append(chain, SQ!Frame(k)) /\ at' = SQ!StartOf(k)
    BY <1>6, <2>k DEF SQ!ResumeChild, SQ!me
  <2>2. n \in 1..n /\ IsNode(b, d, chain[n].num) /\ chain[n].num < ll /\ chain[n].i \in 0..(b - 1)
    BY <1>1, <1>3, <1>4, <2>1
  <2>3. IsNode(b, d, k) /\ Leaves(b, d, k) = Leaves(b, d, chain[n].num * b)
    <3>1. PICK e \in Nat \ {0}, g \in Nat \ {0}, m \in Nat \ {0}, i \in Nat :
             e = b /\ g = d /\ m = chain[n].num /\ i = chain[n].i
      BY <1>1, <2>2
    <3>2. IsNode(e, g, m) /\ m < LastLayerOf(e, g) /\ i \in 0..(e - 1)
      BY <2>2, <3>1 DEF ll
    <3>3. IsNode(e, g, m * e + i) /\ Leaves(e, g, m * e + i) = Leaves(e, g, m * e)
      BY ONLY <3>1, <3>2, LeavesOfInner
    <3> QED
      BY <2>k, <3>1, <3>3
  <2>4. Reached = k * Leaves(b, d, k)
    BY <2>1, <2>3, <2>k DEF Reached
  <2>5. SQ!Frame(k).num = k
    BY DEF SQ!Frame
  <2>6. /\ Len(chain') = n + 1
        /\ chain'[n + 1] = SQ!Frame(k) /\ \A c \in 1..n : chain'[c] = chain[c]
    <3>1. chain \in Seq(FrameT) /\ SQ!Frame(k) \in FrameT
      <4>1. k \in Nat \ {0} /\ 0 \in 0..(b - 1)
        <5>1. PICK x \in Nat \ {0}, y \in 0..(b - 1) : x = chain[n].num /\ y = chain[n].i
          BY <1>1, <2>2
        <5>2. x * b >= 1 /\ x * b \in Nat
          BY <1>1
        <5>3. x * b + y \in Nat \ {0}
          BY <5>2
        <5> QED
          BY <1>1, <5>1, <5>3, <2>k
      <4>2. SQ!Frame(k) \in FrameT
        BY <1>1, <4>1 DEF FrameT, SQ!Frame, SQ!Children
      <4> QED
        BY <4>2 DEF SeqInv
    <3> QED
      BY <2>1, <3>1
  <2>7. Reached' = k * Leaves(b, d, k) /\ (at' = "loop" => k < ll)
    <3>1. SQ!StartOf(k)' = SQ!StartOf(k)
      BY <1>2 DEF SQ!StartOf, SQ!LastLayer
    <3>2. at' = (IF k >= ll THEN "yield" ELSE "loop")
      BY <1>1, <2>1 DEF SQ!StartOf
    <3>3. chain'[Len(chain')].num = k /\ chain'[Len(chain')].i = 0
      BY <1>1, <2>6 DEF SQ!Frame
    <3>4. CASE k >= ll
      BY <1>1, <1>2, <3>2, <3>3, <3>4 DEF Reached
    <3>5. CASE ~(k >= ll)
      <4>1. k < ll
        BY <1>1, <2>3, <3>5 DEF IsNode
      <4>2. Reached' = (k * b + 0) * Leaves(b, d, k * b)
        BY <1>2, <3>2, <3>3, <3>5 DEF Reached
      <4> QED
        BY <1>1, <2>3, <4>1, <4>2, StartsThere DEF ll
    <3> QED
      BY <3>4, <3>5
  <2>8. \A c \in 1..(n + 1) : IsNode(b, d, chain'[c].num)
    <3> SUFFICES ASSUME NEW c \in 1..(n + 1) PROVE IsNode(b, d, chain'[c].num)
      OBVIOUS
    <3>1. CASE c = n + 1
      BY <2>3, <2>5, <2>6, <3>1
    <3>2. CASE c \in 1..n
      BY <1>4, <2>6, <3>2
    <3> QED
      BY <1>1, <3>1, <3>2
  <2>9. \A c \in 1..(n + 1) : c < n + 1 =>
           chain'[c].num < ll /\ chain'[c + 1].num = chain'[c].num * b + chain'[c].i
    <3> SUFFICES ASSUME NEW c \in 1..n
                 PROVE  chain'[c].num < ll /\ chain'[c + 1].num = chain'[c].num * b + chain'[c].i
      BY <1>1
    <3>1. CASE c = n
      BY <2>2, <2>5, <2>6, <2>k, <3>1
    <3>2. CASE c # n
      <4>1. c < n /\ c + 1 \in 1..n
        BY <1>1, <3>2
      <4> QED
        BY <1>4, <2>6, <4>1
    <3> QED
      BY <3>1, <3>2
  <2>10. chain'[1].num = 1
    BY <1>1, <1>3, <1>4, <2>1, <2>6
  <2> QED
    BY <1>2, <1>4, <2>1, <2>4, <2>5, <2>6, <2>7, <2>8, <2>9, <2>10 DEF SeqSums, ll
<1>7. CASE SQ!Yield \/ SQ!MainResumes
  <2>1. /\ chain' = chain /\ n \in 1..n /\ IsNode(b, d, chain[n].num)
        /\ at \in {"yield", "main"} /\ at' \in {"main", "return"}
        /\ at = "main" => total' = total
        /\ at = "yield" => total' = total + (chain[n].num - ll)
    BY <1>1, <1>3, <1>4, <1>7 DEF SQ!Yield, SQ!MainResumes, SQ!me
  <2>2. Reached' = (chain[n].num + 1) * Leaves(b, d, chain[n].num)
    BY <1>2, <2>1 DEF Reached
  <2>3. 2 * total' = Before2(b, d, Reached')
    <3>1. CASE at = "main"
      BY <1>4, <2>1, <2>2, <3>1 DEF Reached
    <3>2. CASE at = "yield"
      <4>1. chain[n].num >= ll
        BY <1>1, <3>2 DEF SeqInv
      <4>2. Value2(b, d, chain[n].num) = 2 * (chain[n].num - ll)
        BY <1>1, <2>1, <4>1, LeafValue DEF ll
      <4>3. Reached = chain[n].num * Leaves(b, d, chain[n].num)
        BY <3>2 DEF Reached
      <4>4. PICK x \in Int : x = chain[n].num - ll
        BY <1>1, <2>1
      <4>5. PICK y \in Int : y = Before2(b, d, Reached')
        <5>1. Leaves(b, d, chain[n].num) = 1
          BY <1>1, <2>1, <4>1, LeavesOfLeaf DEF ll
        <5>2. (chain[n].num + 1) * 1 \in Int
          BY <1>1, <2>1
        <5> QED
          BY <1>1, <2>2, <5>1, <5>2, Before2Int
      <4>6. 2 * x = y - 2 * total
        BY <1>4, <2>2, <4>2, <4>3, <4>4, <4>5 DEF Value2
      <4>7. total' = total + x
        BY <2>1, <3>2, <4>4
      <4> QED
        BY <1>1, <4>5, <4>6, <4>7
    <3> QED
      BY <2>1, <3>1, <3>2
  <2> QED
    BY <1>2, <1>4, <2>1, <2>3 DEF SeqSums, ll
<1>8. CASE SQ!Return /\ n = 1
  <2>1. at = "return" /\ at' = "done" /\ chain' = <<>> /\ total' = total
    BY <1>8 DEF SQ!Return
  <2>2. chain[1].num = 1 /\ Leaves(b, d, 1) = ll /\ Len(chain') = 0
    BY <1>1, <1>4, <1>8, <2>1, RootIsNode DEF ll
  <2>3. Reached = (1 + 1) * ll
    BY <1>8, <2>1, <2>2 DEF Reached
  <2>4. Reached' = 2 * ll
    BY <1>2, <2>1 DEF Reached, ll
  <2> QED
    BY <1>2, <1>4, <2>1, <2>2, <2>3, <2>4 DEF SeqSums
<1>9. CASE SQ!Return /\ n # 1
  <2> DEFINE o == SQ!Others
             p == o[Len(o)]
             next == [p EXCEPT !.i = (@ + 1) % b,
                               !.finished = @ + 1,
                               !.ended = @ \cup {p.i}]
  <2>1. /\ at = "return" /\ total' = total
        /\ chain' = [o EXCEPT ![Len(o)] = next]
        /\ at' = IF next.i = 0 /\ next.finished >= b THEN "return" ELSE "loop"
    BY <1>9 DEF SQ!Return
  <2>2. n >= 2 /\ n - 1 \in 1..n /\ n - 1 \in Nat /\ n \in 1..n /\ n - 1 < n /\ (n - 1) + 1 = n
    <3>1. n \in Nat /\ n >= 1 /\ n # 1
      BY <1>1, <1>3, <1>9, <2>1
    <3> HIDE DEF n
    <3> QED
      BY <3>1
  <2>3. o \in Seq(FrameT) /\ Len(o) = n - 1 /\ \A c \in 1..(n - 1) : o[c] = chain[c]
    <3>1. chain \in Seq(FrameT)
      BY DEF SeqInv
    <3>2. /\ SubSeq(chain, 1, n - 1) \in Seq(FrameT)
          /\ Len(SubSeq(chain, 1, n - 1)) = n - 1
          /\ \A c \in 1..(n - 1) : SubSeq(chain, 1, n - 1)[c] = chain[1 + c - 1]
      <4>1. \A c \in 1..(n - 1) : chain[c] \in FrameT
        BY <1>1, <2>2
      <4> QED
        BY <2>2, <3>1, <4>1, SubSeqProperties
    <3> QED
      BY <2>2, <3>2 DEF SQ!Others
  <2>4. p = chain[n - 1] /\ p \in FrameT /\ Counts(p) /\ IsNode(b, d, p.num) /\ p.num < ll
        /\ p.i \in 0..(b - 1) /\ chain[n].num = p.num * b + p.i
    <3>1. p = chain[n - 1]
      BY <2>2, <2>3
    <3> QED
      BY <1>1, <1>4, <2>2, <3>1 DEF SeqInv
  <2>5. /\ next.num = p.num /\ next.finished = p.finished + 1
        /\ next.i = IF p.i + 1 = b THEN 0 ELSE p.i + 1
    <3>1. (p.i + 1) % b = IF p.i + 1 = b THEN 0 ELSE p.i + 1
      BY <1>1, <2>4, NextChild
    <3>2. next.num = p.num /\ next.finished = p.finished + 1 /\ next.i = (p.i + 1) % b
      <4> HIDE DEF p
      <4> QED
        BY <2>4 DEF FrameT
    <3> QED
      BY <3>1, <3>2
  <2>6. p.i = p.finished /\ at' = IF p.i + 1 = b THEN "return" ELSE "loop"
    <3>1. p.i = p.finished /\ p.i + 1 <= b /\ p.i + 1 # 0
      BY <1>1, <2>4 DEF Counts
    <3> HIDE DEF p, next
    <3> QED
      BY <1>1, <2>1, <2>4, <2>5, <3>1
  <2>e. chain' = [o EXCEPT ![n - 1] = next]
    BY <2>1, <2>3
  <2> HIDE DEF o, p, next
  <2>7. /\ Len(chain') = n - 1 /\ chain'[n - 1] = next
        /\ \A c \in 1..(n - 1) : c # n - 1 => chain'[c] = chain[c]
    <3> HIDE DEF n
    <3>1. PICK m \in Nat \ {0} : m = n - 1
      <4>1. n - 1 \in Nat \ {0}
        BY <2>2
      <4> QED
        BY <4>1
    <3>2. Len(chain') = m /\ DOMAIN o = 1..m
      BY ONLY <2>e, <2>3, <3>1
    <3>3. m \in 1..m
      OBVIOUS
    <3> QED
      BY ONLY <2>e, <2>3, <3>1, <3>2, <3>3
  <2>8. Reached = (p.num * b + p.i + 1) * Leaves(b, d, p.num * b + p.i)
    BY <2>1, <2>4 DEF Reached
  <2>9. Reached' = Reached
    <3>1. CASE p.i + 1 = b
      <4>1. Reached' = (p.num + 1) * Leaves(b, d, p.num)
        BY <1>2, <2>5, <2>6, <2>7, <3>1 DEF Reached
      <4> QED
        BY <1>1, <2>4, <2>8, <3>1, <4>1, EndsThere, SMTT(30) DEF ll
    <3>2. CASE p.i + 1 # b
      <4>1. Reached' = (p.num * b + (p.i + 1)) * Leaves(b, d, p.num * b)
        BY <1>2, <2>5, <2>6, <2>7, <3>2 DEF Reached
      <4>2. (p.num * b + p.i + 1) * Leaves(b, d, p.num * b + p.i)
               = (p.num * b + (p.i + 1)) * Leaves(b, d, p.num * b)
        <5>1. b \in Nat \ {0} /\ d \in Nat \ {0}
          BY <1>1
        <5>2. IsNode(b, d, p.num) /\ p.num < LastLayerOf(b, d) /\ p.i \in 0..(b - 1)
          BY <2>4 DEF ll
        <5> QED
          BY ONLY <5>1, <5>2, EndsThere, ZenonT(30)
      <4> QED
        BY ONLY <2>8, <4>1, <4>2
    <3> QED
      BY <3>1, <3>2
  <2>10. \A c \in 1..(n - 1) : chain'[c].num = chain[c].num /\ c \in 1..n
    <3>1. chain'[n - 1].num = chain[n - 1].num
      BY ONLY <2>4, <2>5, <2>7
    <3>2. \A c \in 1..(n - 1) : chain'[c].num = chain[c].num
      BY ONLY <2>7, <3>1
    <3>3. \A c \in 1..(n - 1) : c \in 1..n
      <4> HIDE DEF n
      <4> QED
        BY ONLY <1>1
    <3> QED
      BY <3>2, <3>3
  <2>11. \A c \in 1..(n - 1) : c < n - 1 =>
            chain'[c].num < ll /\ chain'[c + 1].num = chain'[c].num * b + chain'[c].i
    <3> SUFFICES ASSUME NEW c \in 1..(n - 1), c < n - 1
                 PROVE  chain'[c].num < ll /\ chain'[c + 1].num = chain'[c].num * b + chain'[c].i
      OBVIOUS
    <3>1. c \in 1..n /\ c < n /\ c + 1 \in 1..(n - 1) /\ c # n - 1
      <4> HIDE DEF n
      <4> QED
        BY <1>1, <2>2
    <3>2. chain[c].num < ll /\ chain[c + 1].num = chain[c].num * b + chain[c].i
      BY <1>4, <3>1
    <3>3. chain'[c] = chain[c] /\ chain'[c + 1].num = chain[c + 1].num
      BY ONLY <2>7, <2>10, <3>1
    <3> QED
      BY ONLY <3>2, <3>3
  <2>12. chain'[n - 1].num < ll /\ 1 \in 1..(n - 1)
    <3>1. chain'[n - 1].num < ll
      BY ONLY <2>4, <2>5, <2>7
    <3>2. 1 \in 1..(n - 1)
      <4> HIDE DEF n
      <4> QED
        BY ONLY <2>2
    <3> QED
      BY <3>1, <3>2
  <2>13. /\ \A c \in 1..(n - 1) : IsNode(b, d, chain'[c].num)
         /\ chain'[1].num = 1
         /\ 2 * total' = Before2(b, d, Reached')
    <3>1. \A c \in 1..(n - 1) : IsNode(b, d, chain'[c].num)
      BY <1>4, <2>10
    <3>2. chain'[1].num = 1
      BY <1>4, <2>2, <2>10, <2>12
    <3>3. 2 * total' = Before2(b, d, Reached')
      BY <1>4, <2>1, <2>9
    <3> QED
      BY <3>1, <3>2, <3>3
  <2> QED
    BY <1>2, <2>7, <2>11, <2>12, <2>13 DEF SeqSums, ll
<1> QED
  BY <1>5, <1>6, <1>7, <1>8, <1>9 DEF SQ!Next

LEMMA SeqTotals == ASSUME SQ!SkynetSeqAssumption, SeqInv, SeqSums PROVE SQ!SeqTotal
<1> SUFFICES ASSUME at = "done"
             PROVE  2 * total = SQ!LastLayer * (SQ!LastLayer - 1)
  BY DEF SQ!SeqTotal
<1>1. PICK l \in Nat : l = SQ!LastLayer /\ l = LastLayerOf(shape.branching, shape.depth)
  BY SeqTypesOf
<1>2. Reached = 2 * l
  BY <1>1 DEF Reached
<1>3. 2 * l - l = l
  OBVIOUS
<1>4. 2 * total = (2 * l - l) * (2 * l - l - 1)
  BY <1>1, <1>2 DEF SeqSums, Before2
<1> QED
  BY <1>1, <1>3, <1>4

----------------------------------------------------------------------------
(* Module Async.                                                           *)

\* A task stands for a node of the tree, and has summed up the children whose
\* futures it has read.
Summed(t) ==
    /\ IsNode(Branching, Depth, t.num)
    /\ ~A!IsLeaf(t) => 2 * t.sum = Partial2(Branching, Depth, t.num, t.awaited)

TasksSummed == \A k \in Tasks : Alive(k) => Summed(task[k])

\* What a future holds once it is ready.
ResultsRight ==
    /\ \A k \in Tasks, i \in 0..(Branching - 1) :
          Alive(k) /\ i < task[k].started /\ future[<<k, i>>].ready =>
             2 * future[<<k, i>>].result = Value2(Branching, Depth, task[k].num * Branching + i)
    /\ future[A!Final].ready => 2 * future[A!Final].result = Value2(Branching, Depth, 1)

\* The future a task is to fulfil is the one of its node.
NodesOwed ==
    \A k \in Tasks : Owes(k) =>
       /\ task[k].promise = A!Final => task[k].num = 1
       /\ \A p \in Tasks, i \in 0..(Branching - 1) :
             task[k].promise = <<p, i>> => task[k].num = task[p].num * Branching + i

AsyncSums == TasksSummed /\ ResultsRight /\ NodesOwed

LEMMA AsyncTree ==
    ASSUME A!AsyncAssumption
    PROVE  /\ Branching \in Nat \ {0} /\ Depth \in Nat \ {0}
           /\ A!LastLayer = LastLayerOf(Branching, Depth)
           /\ A!LastLayer \in Nat \ {0}
           /\ A!Final \in A!Futures
           /\ \A k \in Tasks, i \in 0..(Branching - 1) :
                 <<k, i>> \in A!Futures /\ <<k, i>> # A!Final
<1>1. Branching \in Nat \ {0} /\ Depth \in Nat \ {0} /\ NULL \notin Tasks
  BY DEF A!AsyncAssumption
<1>2. A!LastLayer = LastLayerOf(Branching, Depth) /\ A!LastLayer \in Nat \ {0}
  BY <1>1, SameTree, RootIsNode DEF LastLayer
<1> QED
  BY <1>1, <1>2 DEF A!Final, A!Futures

\* Steps that change no sum, result or debt.
LEMMA SumsQuiet ==
    ASSUME A!AsyncAssumption, AsyncInv', AsyncSums,
           \A k \in Tasks : Alive(k)' =>
              /\ Alive(k)
              /\ task'[k].num = task[k].num /\ task'[k].sum = task[k].sum
              /\ task'[k].awaited = task[k].awaited /\ task'[k].started = task[k].started
              /\ task'[k].promise = task[k].promise,
           \A f \in A!Futures : /\ future'[f].ready = future[f].ready
                                /\ future'[f].result = future[f].result,
           \A v \in A!Workers : apc[v] \in {"unlock_return", "delete"} =>
              \/ apc'[v] \in {"unlock_return", "delete"} /\ acur'[v] = acur[v]
              \/ task'[acur[v]] = NULL
    PROVE  AsyncSums'
<1>1. \A k \in Tasks : Owes(k)' => Owes(k) /\ Alive(k)'
  BY DEF Owes, Released, Alive
<1>2. TasksSummed'
  BY DEF AsyncSums, TasksSummed, Summed, A!IsLeaf
<1>3. ResultsRight'
  BY AsyncTree DEF AsyncSums, ResultsRight
<1>4. NodesOwed'
  <2> SUFFICES ASSUME NEW k \in Tasks, Owes(k)'
               PROVE  /\ task'[k].promise = A!Final => task'[k].num = 1
                      /\ \A p \in Tasks, i \in 0..(Branching - 1) :
                            task'[k].promise = <<p, i>> => task'[k].num = task'[p].num * Branching + i
    BY DEF NodesOwed
  <2>1. /\ task[k].promise = A!Final => task[k].num = 1
        /\ \A p \in Tasks, i \in 0..(Branching - 1) :
              task[k].promise = <<p, i>> => task[k].num = task[p].num * Branching + i
    BY <1>1 DEF AsyncSums, NodesOwed
  <2>2. task'[k].num = task[k].num /\ task'[k].promise = task[k].promise
    BY <1>1
  <2>3. \A p \in Tasks, i \in 0..(Branching - 1) :
           task'[k].promise = <<p, i>> => task'[p].num = task[p].num
    BY DEF AsyncInv, Awaits, Promised
  <2> QED
    BY <2>1, <2>2, <2>3
<1> QED
  BY <1>2, <1>3, <1>4 DEF AsyncSums

LEMMA QuietSums ==
    ASSUME A!AsyncAssumption, AsyncInv, AsyncInv', AsyncSums, NEW w \in A!Workers,
           \/ A!Pop(w) \/ A!Steal(w) \/ A!Idle(w) \/ A!Acquire(w) \/ A!Unlock(w)
           \/ A!Delete(w) \/ A!Register(w) \/ A!Requeue(w)
    PROVE  AsyncSums'
<1>1. \A v \in A!Workers \ {w} : apc'[v] = apc[v] /\ acur'[v] = acur[v]
  BY DEF AsyncInv, AsyncTypes, A!Pop, A!Steal, A!Idle, A!Acquire, A!Unlock, A!Delete, A!Register,
         A!Requeue, A!Goto, A!Got, A!TryVictim
<1>2. apc[w] \in {"unlock_return", "delete"} =>
         \/ apc'[w] \in {"unlock_return", "delete"} /\ acur'[w] = acur[w]
         \/ task'[acur[w]] = NULL
  <2>1. CASE A!Unlock(w)
    BY <2>1 DEF AsyncInv, AsyncTypes, A!Unlock, A!Goto
  <2>2. CASE A!Delete(w)
    <3>1. acur[w] \in Tasks
      BY <2>2, HandFacts DEF A!Delete, Carrying
    <3> QED
      BY <2>2, <3>1 DEF AsyncInv, AsyncTypes, A!Delete, Alive
  <2>3. CASE ~A!Unlock(w) /\ ~A!Delete(w)
    BY <2>3 DEF A!Pop, A!Steal, A!Idle, A!Acquire, A!Register, A!Requeue
  <2> QED
    BY <2>1, <2>2, <2>3
<1>3. \A k \in Tasks : Alive(k)' =>
         /\ Alive(k)
         /\ task'[k].num = task[k].num /\ task'[k].sum = task[k].sum
         /\ task'[k].awaited = task[k].awaited /\ task'[k].started = task[k].started
         /\ task'[k].promise = task[k].promise
  <2>1. CASE A!Register(w)
    <3>1. acur[w] \in Tasks /\ Alive(acur[w]) /\ task[acur[w]] \in A!TaskT
      BY <2>1, HandFacts DEF A!Register, Carrying
    <3>2. task' = [task EXCEPT ![acur[w]].waiting = held[w]]
      BY <2>1 DEF A!Register
    <3>3. \A k \in Tasks : task'[k] = IF k = acur[w] THEN [task[k] EXCEPT !.waiting = held[w]]
                                                     ELSE task[k]
      BY <3>1, <3>2 DEF AsyncInv, AsyncTypes
    <3> QED
      BY <3>1, <3>3 DEF Alive, A!TaskT
  <2>2. CASE A!Delete(w)
    <3>1. \A k \in Tasks : task'[k] = IF k = acur[w] THEN NULL ELSE task[k]
      BY <2>2 DEF A!Delete, AsyncInv, AsyncTypes
    <3> QED
      BY <3>1 DEF Alive
  <2>3. CASE ~A!Register(w) /\ ~A!Delete(w)
    <3>1. task' = task
      BY <2>3 DEF A!Pop, A!Steal, A!Idle, A!Acquire, A!Unlock, A!Requeue
    <3> QED
      BY <3>1 DEF Alive
  <2> QED
    BY <2>1, <2>2, <2>3
<1>4. \A f \in A!Futures : future'[f].ready = future[f].ready /\ future'[f].result = future[f].result
  <2>1. \/ future' = future
        \/ \E b \in BOOLEAN : future' = [future EXCEPT ![held[w]].blocked = b]
        \/ future' = [future EXCEPT ![held[w]].waiter = acur[w]]
    BY DEF A!Pop, A!Steal, A!Idle, A!Acquire, A!Unlock, A!Delete, A!Register, A!Requeue
  <2>2. \A f \in A!Futures : future[f] \in FutureT
    BY DEF AsyncInv, AsyncTypes
  <2>3. CASE \E b \in BOOLEAN : future' = [future EXCEPT ![held[w]].blocked = b]
    <3>1. PICK b \in BOOLEAN : future' = [future EXCEPT ![held[w]].blocked = b]
      BY <2>3
    <3>2. \A f \in A!Futures : future'[f] = IF f = held[w] THEN [future[f] EXCEPT !.blocked = b]
                                                          ELSE future[f]
      BY <3>1 DEF AsyncInv, AsyncTypes
    <3> QED
      BY <2>2, <3>2, ZenonT(60) DEF FutureT
  <2>4. CASE future' = [future EXCEPT ![held[w]].waiter = acur[w]]
    <3>1. \A f \in A!Futures : future'[f] = IF f = held[w] THEN [future[f] EXCEPT !.waiter = acur[w]]
                                                          ELSE future[f]
      BY <2>4 DEF AsyncInv, AsyncTypes
    <3> QED
      BY <2>2, <3>1 DEF FutureT
  <2> QED
    BY <2>1, <2>3, <2>4
<1> QED
  BY <1>1, <1>2, <1>3, <1>4, SumsQuiet

LEMMA MainSums ==
    ASSUME A!AsyncAssumption, AsyncInv, AsyncInv', Started, AsyncSums,
           A!Run \/ A!Join \/ UNCHANGED A!vars
    PROVE  AsyncSums'
<1>1. UNCHANGED <<task, future, acur>>
  BY DEF A!Run, A!Join, A!vars, A!queueVars
<1>2. \A v \in A!Workers : apc[v] \in {"unlock_return", "delete"} => apc'[v] = apc[v]
  <2>1. CASE A!Run
    BY <2>1 DEF A!Run, Started
  <2>2. CASE A!Join
    BY <2>2 DEF A!Join
  <2>3. CASE UNCHANGED A!vars
    BY <2>3 DEF A!vars
  <2> QED
    BY <2>1, <2>2, <2>3
<1> QED
  BY <1>1, <1>2, SumsQuiet DEF Alive

LEMMA ResumeSums ==
    ASSUME A!AsyncAssumption, AsyncInv, AsyncInv', AsyncSums, NEW w \in A!Workers, A!Resume(w)
    PROVE  AsyncSums'
<1> DEFINE k == acur[w]
           r == task[k]
           t == A!Answered(r)
           f == r.waiting
<1>1. /\ apc[w] = "check" /\ task' = [task EXCEPT ![k] = t]
      /\ f # NULL => future[f].ready
      /\ future' = IF f = NULL THEN future ELSE [future EXCEPT ![f].waiter = NULL]
      /\ A!Goto(w, A!Request(t))
      /\ acur' = acur
  BY DEF A!Resume
<1>2. k \in Tasks /\ Alive(k) /\ r \in A!TaskT /\ Frame(k)
  BY <1>1, HandFacts DEF Carrying
<1>3. f # NULL => f \in A!Futures /\ f = <<k, r.awaited>> /\ future[f] \in FutureT
                  /\ r.started = Branching /\ r.awaited < Branching /\ ~A!IsLeaf(r)
  BY <1>2, Requests DEF Frame, A!TaskT, AsyncInv, AsyncTypes
<1>4. /\ t.num = r.num /\ t.promise = r.promise /\ t.started = r.started
      /\ f = NULL => t.awaited = r.awaited /\ t.sum = r.sum
      /\ f # NULL => t.awaited = r.awaited + 1 /\ t.sum = r.sum + future[f].result
  <2>1. CASE f = NULL
    BY <1>2, <2>1 DEF A!Answered
  <2>2. CASE f # NULL
    <3>2. t = [r EXCEPT !.waiting = NULL, !.awaited = r.awaited + 1,
                        !.sum = r.sum + future[f].result]
      BY <2>2 DEF A!Answered
    <3> QED
      BY <1>2, <2>2, <3>2 DEF A!TaskT
  <2> QED
    BY <2>1, <2>2
<1> HIDE DEF t, r, f, k
<1>5. \A x \in Tasks : task'[x] = IF x = k THEN t ELSE task[x]
  BY <1>1 DEF AsyncInv, AsyncTypes
<1>6. \A x \in Tasks : Alive(x)' => Alive(x)
  BY <1>2, <1>5 DEF Alive
<1>7. \A g \in A!Futures : future'[g].ready = future[g].ready /\ future'[g].result = future[g].result
  <2>1. CASE f = NULL
    BY <1>1, <2>1
  <2>2. CASE f # NULL
    <3>1. \A g \in A!Futures : future'[g] = IF g = f THEN [future[g] EXCEPT !.waiter = NULL]
                                                     ELSE future[g]
      BY <1>1, <2>2 DEF AsyncInv, AsyncTypes
    <3> QED
      BY <1>3, <2>2, <3>1 DEF FutureT
  <2> QED
    BY <2>1, <2>2
<1>8. \A x \in Tasks : Owes(x)' => Owes(x)
  <2>1. \A v \in A!Workers \ {w} : apc'[v] = apc[v] /\ acur'[v] = acur[v]
    BY <1>1 DEF A!Goto, AsyncInv, AsyncTypes
  <2> QED
    BY <1>1, <1>6, <2>1 DEF Owes, Released
<1>9. \A x \in Tasks : /\ task'[x].num = task[x].num /\ task'[x].started = task[x].started
                       /\ task'[x].promise = task[x].promise
  BY <1>4, <1>5 DEF r
<1>10. NodesOwed'
  BY <1>8, <1>9 DEF AsyncSums, NodesOwed
<1>11. ResultsRight'
  BY <1>6, <1>7, <1>9, AsyncTree DEF AsyncSums, ResultsRight
<1>12. TasksSummed'
  <2> SUFFICES ASSUME NEW x \in Tasks, Alive(x)' PROVE Summed(task'[x])
    BY DEF TasksSummed, Summed, A!IsLeaf
  <2>1. Summed(task[x])
    BY <1>6 DEF AsyncSums, TasksSummed
  <2>2. CASE x # k
    BY <1>5, <2>1, <2>2
  <2>3. CASE x = k /\ f = NULL
    BY <1>4, <1>5, <2>1, <2>3 DEF Summed, A!IsLeaf, r
  <2>4. CASE x = k /\ f # NULL
    <3>1. task'[x] = t /\ Summed(r)
      BY <1>5, <2>1, <2>4 DEF r
    <3>2. /\ ~A!IsLeaf(t) /\ r.num < LastLayerOf(Branching, Depth)
          /\ r.awaited \in 0..(Branching - 1)
      <4>1. r.num \in Nat /\ r.awaited \in 0..Branching
        BY <1>2 DEF A!TaskT
      <4>2. ~A!IsLeaf(t) /\ r.num < LastLayerOf(Branching, Depth)
        BY <1>3, <1>4, <2>4, <4>1, AsyncTree DEF A!IsLeaf
      <4> QED
        BY <1>3, <2>4, <4>1, <4>2, AsyncTree
    <3>3. /\ Partial2(Branching, Depth, r.num, r.awaited) \in Int
          /\ Value2(Branching, Depth, r.num * Branching + r.awaited) \in Int
          /\ Partial2(Branching, Depth, r.num, r.awaited + 1)
                = Partial2(Branching, Depth, r.num, r.awaited)
                  + Value2(Branching, Depth, r.num * Branching + r.awaited)
      BY <3>1, <3>2, AsyncTree, OneChildMore DEF Summed
    <3>4. 2 * future[f].result = Value2(Branching, Depth, r.num * Branching + r.awaited)
      <4>1. f = <<k, r.awaited>> /\ future[f].ready /\ r.awaited < r.started /\ Alive(k)
        BY <1>1, <1>2, <1>3, <2>4, <3>2
      <4> QED
        BY <1>2, <3>2, <4>1 DEF AsyncSums, ResultsRight, r
    <3>5. 2 * r.sum = Partial2(Branching, Depth, r.num, r.awaited)
      BY <1>3, <2>4, <3>1 DEF Summed
    <3>6. r.sum \in Nat /\ future[f].result \in Nat
      BY <1>2, <1>3, <2>4 DEF A!TaskT, FutureT
    <3>7. 2 * (r.sum + future[f].result) = 2 * r.sum + 2 * future[f].result
      BY <3>6
    <3>8. 2 * t.sum = Partial2(Branching, Depth, t.num, t.awaited)
      BY <1>4, <2>4, <3>3, <3>4, <3>5, <3>7
    <3> QED
      BY <1>4, <3>1, <3>8 DEF Summed
  <2> QED
    BY <2>2, <2>3, <2>4
<1> QED
  BY <1>10, <1>11, <1>12 DEF AsyncSums

LEMMA FulfilSums ==
    ASSUME A!AsyncAssumption, AsyncInv, AsyncInv', AsyncSums, NEW w \in A!Workers, A!Fulfil(w)
    PROVE  AsyncSums'
<1> DEFINE k == acur[w]
           h == held[w]
           t == task[k]
           e == A!Result(t)
<1>1. /\ apc[w] = "fulfil" /\ A!Goto(w, "unlock_return")
      /\ future' = [future EXCEPT ![h].result = e, ![h].ready = TRUE]
      /\ acur' = acur /\ task' = task
  BY DEF A!Fulfil
<1>2. /\ k \in Tasks /\ Alive(k) /\ t \in A!TaskT /\ AtHand(w) /\ Carried(w, k)
      /\ \A v \in A!Workers : (Carried(v, k) => v = w)
  BY <1>1, HandFacts DEF Carrying
<1>3. /\ A!Request(t) = "return" /\ h = t.promise /\ h \in A!Futures
  BY <1>1, <1>2 DEF AtHand, A!TaskT
<1>4. Owes(k)
  <2>1. \A v \in A!Workers : apc[v] \in {"unlock_return", "delete"} => acur[v] # k
    BY <1>1, <1>2 DEF Carried, Carrying
  <2> QED
    BY <1>2, <2>1 DEF Owes, Released
<1>5. 2 * e = Value2(Branching, Depth, t.num)
  <2>1. Summed(t) /\ t.num \in Nat /\ t.sum \in Nat
    BY <1>2 DEF AsyncSums, TasksSummed, A!TaskT
  <2>2. CASE A!IsLeaf(t)
    <3>1. e = t.num - LastLayerOf(Branching, Depth) /\ t.num >= LastLayerOf(Branching, Depth)
      BY <2>2, AsyncTree DEF A!Result, A!IsLeaf
    <3> HIDE DEF e, t
    <3> QED
      BY <2>1, <3>1, LeafValue, AsyncTree DEF Summed
  <2>3. CASE ~A!IsLeaf(t)
    <3>1. e = t.sum /\ t.num < LastLayerOf(Branching, Depth)
      BY <2>1, <2>3, AsyncTree DEF A!Result, A!IsLeaf
    <3>2. t.awaited = Branching
      BY <1>2, <1>3, <2>3, Requests
    <3> HIDE DEF e, t
    <3> QED
      BY <2>1, <2>3, <3>1, <3>2, AllChildren, AsyncTree DEF Summed
  <2> QED
    BY <2>2, <2>3
<1>6. /\ t.promise = A!Final => t.num = 1
      /\ \A p \in Tasks, i \in 0..(Branching - 1) :
            t.promise = <<p, i>> => t.num = task[p].num * Branching + i
  BY <1>2, <1>4 DEF AsyncSums, NodesOwed
<1> HIDE DEF k, h, t, e
<1>7. \A f \in A!Futures : /\ f # h => future'[f] = future[f]
                           /\ f = h => future'[f].result = e
  <2>1. future[h] \in FutureT
    BY <1>3 DEF AsyncInv, AsyncTypes
  <2>2. future' = [future EXCEPT ![h] = [future[h] EXCEPT !.result = e, !.ready = TRUE]]
    BY <1>1, <1>3 DEF AsyncInv, AsyncTypes
  <2>3. [future[h] EXCEPT !.result = e, !.ready = TRUE].result = e
    BY <2>1 DEF FutureT
  <2> QED
    BY <1>3, <2>2, <2>3 DEF AsyncInv, AsyncTypes
<1>8. \A x \in Tasks : Owes(x)' => Owes(x)
  <2>1. \A v \in A!Workers \ {w} : apc'[v] = apc[v]
    BY <1>1 DEF A!Goto, AsyncInv, AsyncTypes
  <2> QED
    BY <1>1, <2>1 DEF Owes, Released, Alive
<1>9. TasksSummed' /\ NodesOwed'
  BY <1>1, <1>8 DEF AsyncSums, TasksSummed, Summed, NodesOwed, Alive, A!IsLeaf
<1>10. ResultsRight'
  <2>1. ASSUME NEW x \in Tasks, NEW i \in 0..(Branching - 1),
               Alive(x), i < task[x].started, future'[<<x, i>>].ready
        PROVE  2 * future'[<<x, i>>].result = Value2(Branching, Depth, task[x].num * Branching + i)
    <3>1. <<x, i>> \in A!Futures
      BY AsyncTree
    <3>2. CASE h = <<x, i>>
      BY <1>3, <1>5, <1>6, <1>7, <3>1, <3>2
    <3>3. CASE h # <<x, i>>
      BY <1>7, <2>1, <3>1, <3>3 DEF AsyncSums, ResultsRight
    <3> QED
      BY <3>2, <3>3
  <2>2. ASSUME future'[A!Final].ready
        PROVE  2 * future'[A!Final].result = Value2(Branching, Depth, 1)
    <3>1. CASE h = A!Final
      BY <1>3, <1>5, <1>6, <1>7, <3>1, AsyncTree
    <3>2. CASE h # A!Final
      BY <1>7, <2>2, <3>2, AsyncTree DEF AsyncSums, ResultsRight
    <3> QED
      BY <3>1, <3>2
  <2> QED
    BY <1>1, <2>1, <2>2 DEF ResultsRight, Alive
<1> QED
  BY <1>9, <1>10 DEF AsyncSums

LEMMA StartChildSums ==
    ASSUME A!AsyncAssumption, AsyncInv, AsyncInv', AsyncSums, NEW w \in A!Workers, A!StartChild(w)
    PROVE  AsyncSums'
<1> DEFINE p == acur[w]
           h == held[w]
           n == task[p].num * Branching + task[p].started
           t == A!NewTask(n, h)
           u == [task[p] EXCEPT !.started = @ + 1]
<1>1. /\ apc[w] = "async" /\ A!Goto(w, "requeue") /\ acur' = acur
      /\ future' = [future EXCEPT ![h].ready = FALSE, ![h].waiter = NULL, ![h].blocked = FALSE]
  BY DEF A!StartChild
<1>2. PICK k \in Tasks : /\ task[k] = NULL
                         /\ task' = [task EXCEPT ![k] = t, ![p].started = @ + 1]
  BY DEF A!StartChild
<1>3. /\ p \in Tasks /\ Alive(p) /\ task[p] \in A!TaskT /\ AtHand(w) /\ Frame(p)
  BY <1>1, HandFacts DEF Carrying
<1>4. /\ h = <<p, task[p].started>>
      /\ ~A!IsLeaf(task[p]) /\ task[p].started \in 0..(Branching - 1)
  <2>1. /\ A!Request(task[p]) = "async" /\ h = <<p, task[p].started>>
    BY <1>1, <1>3 DEF AtHand
  <2>2. /\ ~A!IsLeaf(task[p]) /\ task[p].started \in 0..(Branching - 1)
    BY <1>3, <2>1, Requests DEF A!TaskT, A!AsyncAssumption
  <2> QED
    BY <2>1, <2>2
<1>5. k # p /\ ~Alive(k)
  BY <1>2, <1>3 DEF Alive
<1>6. /\ t.promise = h /\ t.started = 0 /\ t.awaited = 0 /\ t.sum = 0 /\ t.num = n
  BY DEF A!NewTask
<1>7. /\ u.num = task[p].num /\ u.awaited = task[p].awaited /\ u.sum = task[p].sum
      /\ u.promise = task[p].promise /\ u.started = task[p].started + 1
  BY <1>3 DEF A!TaskT
<1>8. \A x \in Tasks : task'[x] = IF x = k THEN t ELSE IF x = p THEN u ELSE task[x]
  <2>1. task' = [task EXCEPT ![k] = t, ![p] = u]
    BY <1>2, <1>3, <1>5 DEF AsyncInv, AsyncTypes
  <2> HIDE DEF t, u
  <2> QED
    BY <2>1, <1>3, <1>5 DEF AsyncInv, AsyncTypes
<1>9. Summed(task[p]) /\ task[p].num \in Nat /\ task[p].num < LastLayerOf(Branching, Depth)
  <2>1. Summed(task[p]) /\ task[p].num \in Nat
    BY <1>3 DEF AsyncSums, TasksSummed, A!TaskT
  <2> QED
    BY <1>4, <2>1, AsyncTree DEF A!IsLeaf
<1>10. IsNode(Branching, Depth, n)
  BY <1>4, <1>9, AsyncTree, LeavesOfInner DEF Summed
<1> HIDE DEF t, u, n, p, h
<1>11. Summed(t)
  <2>1. ASSUME ~A!IsLeaf(t) PROVE 2 * t.sum = Partial2(Branching, Depth, n, 0)
    <3>1. n \in Nat /\ n < LastLayerOf(Branching, Depth)
      BY <1>6, <1>10, <2>1, AsyncTree DEF A!IsLeaf, IsNode
    <3>2. 0 \in 0..(Branching - 1)
      BY AsyncTree
    <3>3. Leaves(Branching, Depth, n * Branching) \in Nat
      BY <1>10, <3>1, <3>2, AsyncTree, LeavesOfInner
    <3>4. Partial2(Branching, Depth, n, 0) = 0
      BY <3>1, <3>3, AsyncTree, NoChildYet
    <3> QED
      BY <1>6, <3>4
  <2> QED
    BY <1>6, <1>10, <2>1 DEF Summed
<1>12. Summed(u)
  BY <1>7, <1>9 DEF Summed, A!IsLeaf
<1>13. \A x \in Tasks : Alive(x)' => x = k \/ Alive(x)
  BY <1>3, <1>8 DEF Alive
<1>14. TasksSummed'
  <2> SUFFICES ASSUME NEW x \in Tasks, Alive(x)' PROVE Summed(task'[x])
    BY DEF TasksSummed, Summed, A!IsLeaf
  <2>1. x # k /\ x # p => Summed(task[x])
    BY <1>13 DEF AsyncSums, TasksSummed
  <2> QED
    BY <1>8, <1>11, <1>12, <2>1
<1>15. \A f \in A!Futures : /\ f # h => future'[f] = future[f]
                            /\ f = h => ~future'[f].ready
  <2>1. h \in A!Futures
    BY <1>3, <1>4, AsyncTree
  <2>2. future[h] \in FutureT
    BY <2>1 DEF AsyncInv, AsyncTypes
  <2> DEFINE r == [future[h] EXCEPT !.ready = FALSE, !.waiter = NULL, !.blocked = FALSE]
  <2>3. future' = [future EXCEPT ![h] = r]
    BY <1>1, <2>1 DEF AsyncInv, AsyncTypes
  <2>4. r.ready = FALSE
    BY <2>2 DEF FutureT
  <2> HIDE DEF r
  <2> QED
    BY <2>1, <2>3, <2>4 DEF AsyncInv, AsyncTypes
<1>16. ResultsRight'
  <2>1. ASSUME NEW x \in Tasks, NEW i \in 0..(Branching - 1),
               Alive(x)', i < task'[x].started, future'[<<x, i>>].ready
        PROVE  2 * future'[<<x, i>>].result = Value2(Branching, Depth, task'[x].num * Branching + i)
    <3>1. <<x, i>> \in A!Futures /\ x # k
      BY <1>6, <1>8, <2>1, AsyncTree
    <3>2. <<x, i>> # h /\ future'[<<x, i>>] = future[<<x, i>>]
      BY <1>15, <2>1, <3>1
    <3>3. i < task[x].started /\ task'[x].num = task[x].num /\ Alive(x)
      <4>1. CASE x # p
        BY <1>8, <1>13, <2>1, <3>1, <4>1
      <4>2. CASE x = p
        <5>1. i < task[p].started + 1 /\ i # task[p].started /\ task'[x].num = task[p].num
          BY <1>4, <1>7, <1>8, <2>1, <3>1, <3>2, <4>2
        <5> QED
          BY <1>3, <1>4, <4>2, <5>1
      <4> QED
        BY <4>1, <4>2
    <3> QED
      BY <2>1, <3>2, <3>3 DEF AsyncSums, ResultsRight
  <2>2. future'[A!Final] = future[A!Final]
    BY <1>3, <1>4, <1>15, AsyncTree
  <2> QED
    BY <2>1, <2>2 DEF AsyncSums, ResultsRight
<1>17. \A x \in Tasks : Owes(x)' => x = k \/ Owes(x)
  <2>1. \A v \in A!Workers \ {w} : apc'[v] = apc[v]
    BY <1>1 DEF A!Goto, AsyncInv, AsyncTypes
  <2> QED
    BY <1>1, <1>13, <2>1 DEF Owes, Released
<1>18. NodesOwed'
  <2> SUFFICES ASSUME NEW x \in Tasks, Owes(x)'
               PROVE  /\ task'[x].promise = A!Final => task'[x].num = 1
                      /\ \A q \in Tasks, i \in 0..(Branching - 1) :
                            task'[x].promise = <<q, i>> =>
                               task'[x].num = task'[q].num * Branching + i
    BY DEF NodesOwed
  <2>1. \A q \in Tasks \ {k} : task'[q].num = task[q].num
    BY <1>7, <1>8
  <2>2. CASE x = k
    <3>1. task'[x].promise = <<p, task[p].started>> /\ task'[x].num = n
      BY <1>4, <1>6, <1>8, <2>2
    <3>2. task'[x].promise # A!Final
      BY <1>3, <1>4, <3>1, AsyncTree
    <3> QED
      BY <1>3, <1>5, <2>1, <3>1, <3>2 DEF n
  <2>3. CASE x # k
    <3>1. Owes(x) /\ task'[x].num = task[x].num /\ task'[x].promise = task[x].promise
      BY <1>7, <1>8, <1>17, <2>3
    <3>2. \A q \in Tasks, i \in 0..(Branching - 1) : task[x].promise = <<q, i>> => q # k
      BY <1>5, <3>1 DEF AsyncInv, Awaits, Promised
    <3> QED
      BY <2>1, <3>1, <3>2 DEF AsyncSums, NodesOwed
  <2> QED
    BY <2>2, <2>3
<1> QED
  BY <1>14, <1>16, <1>18 DEF AsyncSums

LEMMA AsyncSumsInit == ASSUME A!AsyncAssumption, A!Init PROVE AsyncSums
<1>1. PICK k \in Tasks : task = [b \in Tasks |-> IF b = k THEN A!NewTask(1, A!Final) ELSE NULL]
  BY DEF A!Init
<1>2. \A f \in A!Futures : ~future[f].ready
  BY DEF A!Init
<1>3. /\ A!NewTask(1, A!Final).num = 1 /\ A!NewTask(1, A!Final).sum = 0
      /\ A!NewTask(1, A!Final).awaited = 0 /\ A!NewTask(1, A!Final).promise = A!Final
  BY DEF A!NewTask
<1>4. IsNode(Branching, Depth, 1)
  BY AsyncTree, RootIsNode
<1>5. \A x \in Tasks : Alive(x) => x = k /\ task[x] = A!NewTask(1, A!Final)
  BY <1>1 DEF Alive
<1>6. TasksSummed
  <2> SUFFICES ASSUME NEW x \in Tasks, Alive(x), ~A!IsLeaf(task[x])
               PROVE  2 * task[x].sum = Partial2(Branching, Depth, task[x].num, task[x].awaited)
    BY <1>3, <1>4, <1>5 DEF TasksSummed, Summed
  <2>1. 1 < LastLayerOf(Branching, Depth) /\ 0 \in 0..(Branching - 1)
    BY <1>3, <1>5, AsyncTree DEF A!IsLeaf
  <2>2. Leaves(Branching, Depth, 1 * Branching) \in Nat
    BY <1>4, <2>1, AsyncTree, LeavesOfInner
  <2>3. Partial2(Branching, Depth, 1, 0) = 0
    BY <2>2, AsyncTree, NoChildYet
  <2> QED
    BY <1>3, <1>5, <2>3
<1>7. ResultsRight
  BY <1>2, AsyncTree DEF ResultsRight
<1>8. NodesOwed
  BY <1>3, <1>5, AsyncTree DEF NodesOwed, Owes
<1> QED
  BY <1>6, <1>7, <1>8 DEF AsyncSums

LEMMA AsyncSumsStep ==
    ASSUME A!AsyncAssumption, AsyncInv, Started, AsyncSums, [A!Next]_A!vars
    PROVE  AsyncSums'
<1>1. AsyncInv'
  BY AsyncStepInv
<1>2. \/ A!Run \/ A!Join \/ UNCHANGED A!vars
      \/ \E w \in A!Workers : A!Worker(w)
  BY DEF A!Next, A!Done
<1>3. ASSUME NEW w \in A!Workers, A!Worker(w) PROVE AsyncSums'
  <2>1. CASE A!Resume(w)
    BY <1>1, <2>1, ResumeSums
  <2>2. CASE A!Fulfil(w)
    BY <1>1, <2>2, FulfilSums
  <2>3. CASE A!StartChild(w)
    BY <1>1, <2>3, StartChildSums
  <2> QED
    BY <1>1, <1>3, <2>1, <2>2, <2>3, QuietSums DEF A!Worker
<1> QED
  BY <1>1, <1>2, <1>3, MainSums

LEMMA AsyncTotals ==
    ASSUME A!AsyncAssumption, AsyncSums, Tally PROVE A!TotalIsRight
<1> SUFFICES ASSUME apc[0] = "done"
             PROVE  2 * future[A!Final].result = A!LastLayer * (A!LastLayer - 1)
  BY DEF A!TotalIsRight
<1>1. 0 \in A!Workers
  BY DEF A!AsyncAssumption, A!Workers
<1>2. future[A!Final].ready
  BY <1>1 DEF Tally, Living, Owes
<1>3. 2 * future[A!Final].result = Value2(Branching, Depth, 1)
  BY <1>2 DEF AsyncSums, ResultsRight
<1> QED
  BY <1>3, AsyncTree, RootValue

----------------------------------------------------------------------------
(* Module Promises: what its tasks know of themselves, their children, their *)
(* promises and their wakers.                                              *)

\* What skynet knows of itself at each place.
Computing(t) ==
    /\ IsNode(Branching, Depth, t.num)
    /\ t.started \in 0..Branching /\ t.awaited \in 0..Branching /\ t.sum \in Nat
    /\ t.awaited > 0 => t.started = Branching
    /\ IsLeaf(t) => t.started = 0
    /\ ~IsLeaf(t) => 2 * t.sum = Partial2(Branching, Depth, t.num, t.awaited)
    /\ t.at \in {"sleep", "waiting"} => Awaiting(t)
    /\ t.at \in {"wake", "return"} => ~Forking(t) /\ ~Awaiting(t)

Bodies == \A k \in allocated : Computing(prog[k])

\* The promise of a child: it holds the child's value once it is fulfilled,
\* before that the waker of the parent if that sleeps; what was awaited is
\* fulfilled.
Slot(k, i) ==
    LET c == promise[<<k, i>>]
    IN  /\ c.state \in {EMPTY, FULFILLED, k}
        /\ c.state = FULFILLED =>
              2 * c.result = Value2(Branching, Depth, prog[k].num * Branching + i)
              /\ c.result \in Nat
        /\ c.state = k => k \in asleep /\ i = prog[k].awaited
        /\ i < prog[k].awaited => c.state = FULFILLED

Slots ==
    /\ \A k \in allocated, i \in 0..(Branching - 1) : i < prog[k].started => Slot(k, i)
    /\ promise[Root].state \in {EMPTY, FULFILLED}
    /\ promise[Root].state = FULFILLED =>
          2 * promise[Root].result = Value2(Branching, Depth, 1)

\* Task k has still to fulfil its promise, which is that of its node.
Indebted(k) == k \in allocated /\ prog[k].at \notin {"wake", "return"}

NodeOwed(k) ==
    \/ prog[k].promise = Root /\ prog[k].num = 1
    \/ \E p \in allocated, i \in 0..(Branching - 1) :
          /\ prog[k].promise = <<p, i>> /\ i < prog[p].started
          /\ prog[k].num = prog[p].num * Branching + i

Debts ==
    /\ \A k \in Tasks : Indebted(k) =>
          NodeOwed(k) /\ promise[prog[k].promise].state # FULFILLED
    /\ scheduled = 1 =>
          \A j, k \in Tasks :
             Indebted(j) /\ Indebted(k) /\ prog[j].promise = prog[k].promise => j = k
    /\ scheduled = 1 =>
          \/ promise[Root].state = FULFILLED
          \/ \E k \in Tasks : Indebted(k) /\ prog[k].promise = Root

\* A child is forked with its promise empty.
Forks ==
    \A w \in Workers : pc[w] = "fork" =>
       /\ Forking(Me(w)) /\ Me(w).at = "body"
       /\ promise[<<cur[w], Me(w).started>>].state = EMPTY

\* Who has fulfilled its promise is in the hands of its last worker.
Ending(w) == pc[w] \in {"running", "wake", "release"}

Ends ==
    /\ \A k \in allocated : prog[k].at \in {"wake", "return"} =>
          \E w \in Workers : Ending(w) /\ cur[w] = k
    /\ \A w \in Workers : /\ pc[w] \in {"wake", "release"} => Me(w).at \in {"wake", "return"}
                          /\ pc[w] = "wake" => ~resume[w]

\* The waker in its hands sleeps on the promise it has fulfilled.
Wakes ==
    /\ \A w \in Workers : At(w, "wake") =>
          /\ Me(w).waker \in asleep
          /\ Me(w).promise = <<Me(w).waker, prog[Me(w).waker].awaited>>
          /\ promise[Me(w).promise].state = FULFILLED
    /\ \A v, w \in Workers :
          At(v, "wake") /\ At(w, "wake") /\ Me(v).waker = Me(w).waker => v = w

\* Who waits is asked, asleep, about to be, or its promise is fulfilled.
Waited(k) ==
    \/ style = "poll" /\ k \in polling
    \/ style = "sleep" /\ \/ k \in asleep
                          \/ \E w \in Workers : pc[w] = "sleep" /\ cur[w] = k
                          \/ promise[<<k, prog[k].awaited>>].state = FULFILLED

Waits ==
    \A k \in allocated : /\ prog[k].at = "sleep" => style = "sleep"
                         /\ prog[k].at = "waiting" => Waited(k)

\* bench schedules one task, then runs the scheduler.
Before == pc[0] = "setup" /\ \A w \in Workers \ {0} : pc[w] = "new"

Phases ==
    /\ scheduled = 1 \/ Before
    /\ Before => promise[Root].state # FULFILLED
    /\ scheduled = 0 => allocated = {}
    /\ pc[0] = "done" => promise[Root].state = FULFILLED

Data == Bodies /\ Slots /\ Debts
Control == Forks /\ Ends /\ Wakes /\ Waits /\ Phases
ProgInv == Data /\ Control

\* The tree of this instance, and what the words of a promise may be.
LEMMA PromisesTree ==
    ASSUME PromisesAssumption
    PROVE  /\ Branching \in Nat \ {0} /\ Depth \in Nat \ {0}
           /\ LastLayer = LastLayerOf(Branching, Depth)
           /\ LastLayer \in Nat \ {0}
           /\ Root \in PromiseIds
           /\ \A k \in Tasks, i \in 0..(Branching - 1) :
                 <<k, i>> \in PromiseIds /\ <<k, i>> # Root
           /\ EMPTY # FULFILLED /\ EMPTY \notin Tasks /\ FULFILLED \notin Tasks
<1>1. Branching \in Nat \ {0} /\ Depth \in Nat \ {0} /\ NULL \notin Tasks
  BY ScheffAssumption DEF PromisesAssumption
<1>2. LastLayer = LastLayerOf(Branching, Depth) /\ LastLayer \in Nat \ {0}
  BY <1>1, RootIsNode DEF LastLayer
<1>3. EMPTY # FULFILLED /\ EMPTY \notin Tasks /\ FULFILLED \notin Tasks
  BY DEF EMPTY, FULFILLED, PromisesAssumption
<1> QED
  BY <1>1, <1>2, <1>3 DEF Root, PromiseIds

\* Computing depends on its argument only.
LEMMA ComputingNext ==
    /\ (\A k \in allocated' : Computing(prog'[k])) => Bodies'
    /\ \A k \in Tasks : IsLeaf(prog[k])' = IsLeaf(prog'[k])
<1>1. (\A k \in allocated' : Computing(prog'[k])) => Bodies'
  BY DEF Bodies, Computing, IsLeaf, Awaiting, Forking, LastLayer
<1>2. \A k \in Tasks : IsLeaf(prog[k])' = IsLeaf(prog'[k])
  BY DEF IsLeaf, LastLayer
<1> QED
  BY <1>1, <1>2

\* What is still awaited.
LEMMA ComputingFacts ==
    ASSUME PromisesAssumption, NEW t, Computing(t)
    PROVE  /\ IsNode(Branching, Depth, t.num) /\ t.num \in Nat
           /\ Forking(t) => /\ t.started \in 0..(Branching - 1) /\ t.started + 1 \in 0..Branching
                            /\ t.awaited = 0 /\ ~IsLeaf(t)
           /\ Awaiting(t) => /\ t.started = Branching /\ t.awaited \in 0..(Branching - 1)
                             /\ t.awaited + 1 \in 0..Branching /\ ~IsLeaf(t)
           /\ ~IsLeaf(t) => t.num < LastLayerOf(Branching, Depth)
           /\ IsLeaf(t) => t.num >= LastLayerOf(Branching, Depth) /\ t.started = 0
           /\ ~Forking(t) /\ ~Awaiting(t) /\ ~IsLeaf(t) => t.awaited = Branching
<1>1. Branching \in Nat \ {0} /\ LastLayer = LastLayerOf(Branching, Depth) /\ LastLayer \in Nat
  BY PromisesTree
<1>2. /\ IsNode(Branching, Depth, t.num) /\ t.started \in 0..Branching
      /\ t.awaited \in 0..Branching
      /\ t.awaited > 0 => t.started = Branching
      /\ IsLeaf(t) => t.started = 0
  BY DEF Computing
<1>3. t.num \in Nat
  BY <1>2 DEF IsNode
<1>4. IsLeaf(t) <=> t.num >= LastLayer
  BY DEF IsLeaf
<1>5. /\ Forking(t) <=> ~IsLeaf(t) /\ t.started < Branching
      /\ Awaiting(t) <=> ~Forking(t) /\ ~IsLeaf(t) /\ t.awaited < Branching
  BY DEF Forking, Awaiting
<1> QED
  BY <1>1, <1>2, <1>3, <1>4, <1>5

LEMMA DataSame ==
    ASSUME Data, UNCHANGED <<prog, promise, allocated, asleep, scheduled>>
    PROVE  Data'
<1>1. Bodies'
  BY ComputingNext DEF Data, Bodies
<1>2. Slots'
  BY DEF Data, Slots, Slot
<1>3. Debts'
  BY DEF Data, Debts, Indebted, NodeOwed
<1> QED
  BY <1>1, <1>2, <1>3 DEF Data

\* Workers run after the root was scheduled.
LEMMA PhasesKept ==
    ASSUME TasksInv, Phases, NEW w \in Workers,
           pc[w] \notin {"setup", "new"}, pc'[w] \notin {"setup", "new", "done"},
           \A v \in Workers \ {w} : pc'[v] = pc[v], scheduled' = scheduled,
           promise[Root].state = FULFILLED => promise'[Root].state = FULFILLED
    PROVE  scheduled = 1 /\ Phases'
<1>1. ~Before /\ ~Before'
  BY DEF Before
<1>2. 0 \in Workers
  BY ScheffAssumption DEF Workers
<1>3. pc'[0] = "done" => pc[0] = "done"
  BY <1>2
<1> QED
  BY <1>1, <1>3 DEF Phases

\* Worker w does something that is no task's.
LEMMA ControlQuiet ==
    ASSUME TasksInv, Control, NEW w \in Workers,
           UNCHANGED <<clientProgram, polling, scheduled>>, asleep' = asleep,
           allocated' \subseteq allocated,
           \A v \in Workers \ {w} : /\ pc'[v] = pc[v] /\ cur'[v] = cur[v]
                                    /\ resume'[v] = resume[v],
           pc[w] \notin {"setup", "new", "running", "sleep", "fork"},
           pc'[w] \notin {"setup", "new", "running", "sleep", "fork", "done"},
           \/ pc'[w] \in {"wake", "release"} /\ pc[w] = "wake" /\ cur'[w] = cur[w]
           \/ pc[w] = "release" /\ cur[w] \notin allocated' /\ pc'[w] \notin {"wake", "release"}
           \/ pc[w] \notin {"wake", "release"} /\ pc'[w] \notin {"wake", "release"},
           pc'[w] = "wake" => resume'[w] = resume[w]
    PROVE  Control'
<1>1. prog' = prog /\ promise' = promise /\ style' = style /\ polling' = polling
      /\ scheduled' = scheduled
  BY DEF clientProgram
<1>2. Phases'
  <2>1. pc[w] \notin {"setup", "new"} /\ pc'[w] \notin {"setup", "new", "done"}
        /\ \A v \in Workers \ {w} : pc'[v] = pc[v]
    OBVIOUS
  <2> QED
    BY <1>1, <2>1, PhasesKept DEF Control
<1>3. Forks'
  BY <1>1 DEF Control, Forks, Me, Forking, IsLeaf, LastLayer
<1>4. Ends'
  <2>1. ASSUME NEW k \in allocated', prog'[k].at \in {"wake", "return"}
        PROVE  \E v \in Workers : Ending(v)' /\ cur'[v] = k
    <3>1. PICK v \in Workers : Ending(v) /\ cur[v] = k
      BY <1>1, <2>1 DEF Control, Ends
    <3>2. CASE v # w
      BY <3>1, <3>2 DEF Ending
    <3>3. CASE v = w
      BY <3>1, <3>3 DEF Ending
    <3> QED
      BY <3>2, <3>3
  <2>2. ASSUME NEW v \in Workers
        PROVE  /\ pc'[v] \in {"wake", "release"} => prog'[cur'[v]].at \in {"wake", "return"}
               /\ pc'[v] = "wake" => ~resume'[v]
    BY <1>1 DEF Control, Ends, Me
  <2> QED
    BY <2>1, <2>2 DEF Ends, Me
<1>5. Wakes'
  <2>1. \A v \in Workers : At(v, "wake")' => At(v, "wake") /\ cur'[v] = cur[v]
    BY <1>1 DEF At, Me
  <2> QED
    BY <1>1, <2>1, SMTT(30) DEF Control, Wakes, Me
<1>6. Waits'
  BY <1>1 DEF Control, Waits, Waited
<1> QED
  BY <1>2, <1>3, <1>4, <1>5, <1>6 DEF Control

\* The task in the hands of w moves on by itself.
LEMMA OwnData ==
    ASSUME TasksInv, ClientInv, Data, NEW w \in Workers, pc[w] \in HandLabels,
           UNCHANGED <<promise, allocated, asleep, scheduled>>,
           NEW t, prog' = [prog EXCEPT ![cur[w]] = t], Computing(t),
           t.num = prog[cur[w]].num, t.promise = prog[cur[w]].promise,
           t.started = prog[cur[w]].started,
           t.at \notin {"wake", "return"}, prog[cur[w]].at \notin {"wake", "return"},
           \A i \in 0..(Branching - 1) : i < t.awaited => promise[<<cur[w], i>>].state = FULFILLED
    PROVE  Data'
<1> DEFINE c == cur[w]
<1>1. c \in Tasks /\ c \in allocated /\ c \notin asleep
  BY Hands
<1>2. prog'[c] = t /\ \A k \in Tasks \ {c} : prog'[k] = prog[k]
  BY <1>1 DEF ClientInv, Shapes
<1>3. allocated \subseteq Tasks
  BY DEF TasksInv, Types
<1> HIDE DEF c
<1>4. \A k \in Tasks : /\ prog'[k].num = prog[k].num /\ prog'[k].promise = prog[k].promise
                       /\ prog'[k].started = prog[k].started
  BY <1>2 DEF c
<1>5. Bodies'
  BY <1>1, <1>2, <1>3, ComputingNext DEF Data, Bodies
<1>6. Slots'
  <2>1. ASSUME NEW k \in allocated, NEW i \in 0..(Branching - 1), i < prog'[k].started
        PROVE  Slot(k, i)'
    <3>1. Slot(k, i)
      BY <1>3, <1>4, <2>1 DEF Data, Slots
    <3>2. CASE k # c
      BY <1>2, <1>3, <3>1, <3>2 DEF Slot
    <3>3. CASE k = c
      BY <1>1, <1>2, <1>4, <3>1, <3>3 DEF Slot, c
    <3> QED
      BY <3>2, <3>3
  <2> QED
    BY <2>1 DEF Data, Slots
<1>7. \A k \in Tasks : Indebted(k)' <=> Indebted(k)
  BY <1>1, <1>2 DEF Indebted, c
<1>8. \A k \in Tasks : NodeOwed(k) => NodeOwed(k)'
  BY <1>3, <1>4 DEF NodeOwed
<1>9. Debts'
  BY <1>4, <1>7, <1>8 DEF Data, Debts
<1> QED
  BY <1>5, <1>6, <1>9 DEF Data

LEMMA OwnControl ==
    ASSUME TasksInv, ClientInv, Control, NEW w \in Workers, pc[w] \in {"running", "check"},
           pc'[w] \in {"running", "sleep", "pop"}, cur' = cur,
           \A v \in Workers \ {w} : pc'[v] = pc[v],
           UNCHANGED <<style, promise, allocated, asleep, scheduled, resume>>,
           \A k \in Tasks \ {cur[w]} : k \in polling => k \in polling',
           NEW t, prog' = [prog EXCEPT ![cur[w]] = t],
           t.at \notin {"wake", "return"}, prog[cur[w]].at \notin {"wake", "return"},
           t.at = "sleep" => style = "sleep",
           t.at = "waiting" =>
              \/ style = "poll" /\ cur[w] \in polling'
              \/ style = "sleep" /\ pc'[w] = "sleep"
    PROVE  Control'
<1> DEFINE c == cur[w]
<1>1. /\ c \in Tasks /\ c \in allocated /\ c \notin asleep
      /\ \A v \in Workers \ {w} : pc[v] \in HandLabels => cur[v] # c /\ cur[v] \in Tasks
      /\ \A k \in asleep : k \in Tasks
  BY Hands DEF HandLabels
<1>2. prog'[c] = t /\ \A k \in Tasks \ {c} : prog'[k] = prog[k]
  BY <1>1 DEF ClientInv, Shapes
<1>3. allocated \subseteq Tasks
  BY DEF TasksInv, Types
<1> HIDE DEF c
<1>4. \A v \in Workers \ {w} : pc[v] \in HandLabels => prog'[cur[v]] = prog[cur[v]]
  BY <1>1, <1>2
<1>5. Phases'
  BY PhasesKept DEF Control
<1>6. Forks'
  <2> SUFFICES ASSUME NEW v \in Workers, pc'[v] = "fork"
               PROVE  /\ Forking(prog'[cur[v]]) /\ prog'[cur[v]].at = "body"
                      /\ promise[<<cur[v], prog'[cur[v]].started>>].state = EMPTY
    BY DEF Forks, Me, Forking, IsLeaf, LastLayer
  <2>1. v # w /\ pc[v] = "fork" /\ prog'[cur[v]] = prog[cur[v]]
    BY <1>4 DEF HandLabels
  <2> QED
    BY <2>1 DEF Control, Forks, Me
<1>7. Ends'
  <2>1. ASSUME NEW k \in allocated, prog'[k].at \in {"wake", "return"}
        PROVE  \E v \in Workers : Ending(v)' /\ cur[v] = k
    <3>1. k # c /\ prog'[k] = prog[k]
      BY <1>2, <1>3, <2>1
    <3>2. PICK v \in Workers : Ending(v) /\ cur[v] = k
      BY <2>1, <3>1 DEF Control, Ends
    <3>3. v # w
      BY <3>1, <3>2 DEF c
    <3> QED
      BY <3>2, <3>3 DEF Ending
  <2>2. ASSUME NEW v \in Workers, pc'[v] \in {"wake", "release"}
        PROVE  prog'[cur[v]].at \in {"wake", "return"} /\ (pc'[v] = "wake" => ~resume[v])
    <3>1. v # w /\ pc[v] = pc'[v] /\ prog'[cur[v]] = prog[cur[v]]
      BY <1>4, <2>2 DEF HandLabels
    <3> QED
      BY <2>2, <3>1 DEF Control, Ends, Me
  <2> QED
    BY <2>1, <2>2 DEF Ends, Me
<1>8. Wakes'
  <2>1. ASSUME NEW v \in Workers, At(v, "wake")'
        PROVE  At(v, "wake") /\ prog'[cur[v]] = prog[cur[v]]
    <3>1. v # w
      BY <1>2, <2>1 DEF At, Me, c
    <3> QED
      BY <1>4, <2>1, <3>1 DEF At, Me, HandLabels
  <2>2. \A k \in asleep : prog'[k] = prog[k]
    BY <1>1, <1>2
  <2>3. ASSUME NEW v \in Workers, At(v, "wake")'
        PROVE  LET m == prog'[cur[v]]
               IN  /\ m.waker \in asleep
                   /\ m.promise = <<m.waker, prog'[m.waker].awaited>>
                   /\ promise[m.promise].state = FULFILLED
    <3>1. PICK m : m = prog[cur[v]]
      OBVIOUS
    <3>2. m.waker \in asleep /\ m.promise = <<m.waker, prog[m.waker].awaited>>
          /\ promise[m.promise].state = FULFILLED
      BY <2>1, <2>3, <3>1 DEF Control, Wakes, Me
    <3> QED
      BY ONLY <2>1, <2>2, <2>3, <3>1, <3>2
  <2>4. ASSUME NEW u \in Workers, NEW v \in Workers, At(u, "wake")', At(v, "wake")',
               prog'[cur[u]].waker = prog'[cur[v]].waker
        PROVE  u = v
    BY <2>1, <2>4 DEF Control, Wakes, Me
  <2> QED
    BY <2>3, <2>4 DEF Wakes, Me
<1>9. Waits'
  <2> SUFFICES ASSUME NEW k \in allocated
               PROVE  /\ prog'[k].at = "sleep" => style = "sleep"
                      /\ prog'[k].at = "waiting" => Waited(k)'
    BY DEF Waits
  <2>1. CASE k = c
    BY <1>2, <2>1 DEF Waited, c
  <2>2. CASE k # c
    <3>1. prog'[k] = prog[k] /\ k \in Tasks
      BY <1>2, <1>3, <2>2
    <3>2. Waited(k) => Waited(k)'
      BY <2>2, <3>1 DEF Waited, c
    <3> QED
      BY <3>1, <3>2 DEF Control, Waits
  <2> QED
    BY <2>1, <2>2
<1> QED
  BY <1>5, <1>6, <1>7, <1>8, <1>9 DEF Control

LEMMA RunItProg ==
    ASSUME PromisesAssumption, Inv, ProgInv, RunIt PROVE ProgInv'
<1>1. /\ scheduled = 1
      /\ UNCHANGED <<style, prog, promise, cur, polling, allocated, asleep, scheduled, resume>>
  BY DEF RunIt, Spawn, BecomeWorker0, Join, clientProgram, taskVars, clientVars, wakeVars
<1>2. 0 \in Workers
  BY ScheffAssumption DEF Workers
<1>3. \A v \in Workers : \/ pc'[v] = pc[v]
                         \/ pc[v] \in {"setup", "new", "exited"} /\ pc'[v] \in {"pop", "done"}
  BY DEF RunIt, Spawn, BecomeWorker0, Join, Goto, Inv, TasksInv, Types
<1>4. Data'
  BY <1>1, DataSame DEF ProgInv
<1>5. ~Before'
  BY <1>2 DEF RunIt, Spawn, BecomeWorker0, Join, Goto, Inv, TasksInv, Types, Before
<1>6. pc'[0] = "done" => promise[Root].state = FULFILLED
  <2>1. CASE pc[0] = "done"
    BY <2>1 DEF ProgInv, Control, Phases
  <2>2. CASE pc[0] # "done" /\ pc'[0] = "done"
    <3>1. pc[0] = "exited"
      BY <1>2, <2>2 DEF RunIt, Spawn, BecomeWorker0, Join, Goto, Inv, TasksInv, Types
    <3>2. remaining = 0
      BY <1>2, <3>1 DEF Inv, LeftWhenZero, WorkersAt
    <3>3. allocated = {}
      BY <3>2, RemainingCounts
    <3> QED
      BY <1>1, <3>3 DEF ProgInv, Data, Debts, Indebted
  <2> QED
    BY <2>1, <2>2
<1>7. Phases'
  BY <1>1, <1>5, <1>6 DEF Phases
<1>8. Forks'
  BY <1>1, <1>3 DEF ProgInv, Control, Forks, Me, Forking, IsLeaf, LastLayer
<1>9. Ends'
  BY <1>1, <1>3 DEF ProgInv, Control, Ends, Me, Ending
<1>10. Wakes'
  BY <1>1, <1>3, ZenonT(60) DEF ProgInv, Control, Wakes, Me, At
<1>11. Waits'
  <2>1. \A k \in allocated : Waited(k) => Waited(k)'
    BY <1>1, <1>3 DEF Waited
  <2> QED
    BY <1>1, <2>1 DEF ProgInv, Control, Waits
<1> QED
  BY <1>4, <1>7, <1>8, <1>9, <1>10, <1>11 DEF ProgInv, Control

LEMMA ScheduleRootProg ==
    ASSUME PromisesAssumption, TasksInv, ClientInv, ProgInv, ScheduleRoot PROVE ProgInv'
<1>1. PICK k \in Tasks : /\ k \notin allocated /\ allocated' = allocated \cup {k}
                         /\ Before /\ scheduled' = scheduled + 1
                         /\ polling' = polling \ {k}
                         /\ prog' = [prog EXCEPT ![k] = Prog(1, Root)]
                         /\ UNCHANGED <<style, promise, pc, cur, asleep, resume>>
  BY DEF ScheduleRoot, Schedule, NewTask, wakeVars, Before
<1>2. /\ prog'[k] = Prog(1, Root) /\ \A j \in Tasks \ {k} : prog'[j] = prog[j]
      /\ allocated \subseteq Tasks /\ scheduled \in Nat
  BY <1>1 DEF ClientInv, Shapes, TasksInv, Types
<1> DEFINE t == Prog(1, Root)
<1>3. /\ t.num = 1 /\ t.started = 0 /\ t.awaited = 0 /\ t.sum = 0 /\ t.at = "body"
      /\ t.promise = Root
  BY DEF Prog
<1> HIDE DEF t
<1>4. Computing(t)
  <2>1. IsNode(Branching, Depth, 1)
    BY PromisesTree, RootIsNode
  <2>2. ~IsLeaf(t) => Partial2(Branching, Depth, 1, 0) = 0
    <3> SUFFICES ASSUME ~IsLeaf(t) PROVE Partial2(Branching, Depth, 1, 0) = 0
      OBVIOUS
    <3>1. 1 < LastLayerOf(Branching, Depth) /\ 0 \in 0..(Branching - 1)
      BY <1>3, PromisesTree DEF IsLeaf
    <3>2. Leaves(Branching, Depth, 1 * Branching) \in Nat
      BY <2>1, <3>1, PromisesTree, LeavesOfInner
    <3> QED
      BY <3>2, PromisesTree, NoChildYet
  <2> QED
    BY <1>3, <2>1, <2>2, PromisesTree DEF Computing
<1>5. Bodies'
  BY <1>1, <1>2, <1>4, ComputingNext DEF ProgInv, Data, Bodies, t
<1>6. Slots'
  <2>1. ASSUME NEW j \in allocated, NEW i \in 0..(Branching - 1), i < prog'[j].started
        PROVE  Slot(j, i)'
    BY <1>1, <1>2, <2>1 DEF ProgInv, Data, Slots, Slot
  <2>2. ASSUME NEW i \in 0..(Branching - 1) PROVE ~(i < prog'[k].started)
    BY <1>2, <1>3, <2>2 DEF t
  <2> QED
    BY <1>1, <2>1, <2>2 DEF ProgInv, Data, Slots
<1>7. \A w \in Workers : pc[w] \in {"setup", "new"}
  BY <1>1 DEF Before
<1>8. Debts'
  <2>1. ASSUME NEW j \in Tasks, Indebted(j)'
        PROVE  NodeOwed(j)' /\ promise'[prog'[j].promise].state # FULFILLED
    <3>1. CASE j = k
      BY <1>1, <1>2, <1>3, <3>1 DEF NodeOwed, ProgInv, Control, Phases, t
    <3>2. CASE j # k
      <4>1. Indebted(j) /\ prog'[j] = prog[j]
        BY <1>1, <1>2, <2>1, <3>2 DEF Indebted
      <4>2. NodeOwed(j) /\ promise[prog[j].promise].state # FULFILLED
        BY <4>1 DEF ProgInv, Data, Debts
      <4>3. NodeOwed(j)'
        BY <1>1, <1>2, <4>1, <4>2 DEF NodeOwed
      <4> QED
        BY <1>1, <4>1, <4>2, <4>3
    <3> QED
      BY <3>1, <3>2
  <2>2. scheduled' = 1 => allocated' = {k}
    BY <1>1, <1>2 DEF ProgInv, Control, Phases
  <2>3. Indebted(k)' /\ prog'[k].promise = Root
    BY <1>1, <1>2, <1>3 DEF Indebted, t
  <2>4. scheduled' = 1 => \A j \in Tasks : Indebted(j)' => j = k
    BY <2>2 DEF Indebted
  <2> QED
    BY <2>1, <2>3, <2>4 DEF Debts
<1>9. Forks' /\ Wakes'
  BY <1>1, <1>7 DEF Forks, Wakes, At
<1>10. Ends'
  <2>1. \A j \in allocated' : prog'[j].at \notin {"wake", "return"}
    <3>1. \A j \in allocated : prog[j].at \notin {"wake", "return"}
      BY <1>7 DEF ProgInv, Control, Ends, Ending
    <3> QED
      BY <1>1, <1>2, <1>3, <3>1 DEF t
  <2> QED
    BY <1>1, <1>7, <2>1 DEF Ends
<1>11. Waits'
  <2> SUFFICES ASSUME NEW j \in allocated'
               PROVE  /\ prog'[j].at = "sleep" => style = "sleep"
                      /\ prog'[j].at = "waiting" => Waited(j)'
    BY <1>1 DEF Waits
  <2>1. CASE j = k
    BY <1>2, <1>3, <2>1 DEF t
  <2>2. CASE j # k
    <3>1. j \in allocated /\ prog'[j] = prog[j]
      BY <1>1, <1>2, <2>2
    <3>2. Waited(j) => Waited(j)'
      BY <1>1, <2>2, <3>1 DEF Waited
    <3> QED
      BY <3>1, <3>2 DEF ProgInv, Control, Waits
  <2> QED
    BY <2>1, <2>2
<1>12. Phases'
  <2>1. Before' /\ promise'[Root].state # FULFILLED
    BY <1>1 DEF Before, ProgInv, Control, Phases
  <2>2. scheduled' # 0
    BY <1>1, <1>2
  <2> QED
    BY <2>1, <2>2 DEF Phases, Before
<1> QED
  BY <1>5, <1>6, <1>8, <1>9, <1>10, <1>11, <1>12 DEF ProgInv, Data, Control

\* The scheduler's own steps but FINALIZE, and a poll condition that is false.
LEMMA SchedulerProg ==
    ASSUME TasksInv, ProgInv, NEW w \in Workers,
           (Scheduler(w) /\ ~Release(w)) \/ NotReady(w)
    PROVE  ProgInv'
<1>1. UNCHANGED <<clientProgram, polling, scheduled>> /\ asleep' = asleep
      /\ allocated' = allocated
  BY DEF Scheduler, NotReady, Pop, Steal, Idle, Decrement, ForkNew, Requeue, WakeNext,
         WakeEnd, PollFails, taskVars, clientVars
<1>2. \A v \in Workers \ {w} : pc'[v] = pc[v] /\ cur'[v] = cur[v]
  BY OthersStay DEF Scheduler, Worker, NotReady
<1>3. /\ \A v \in Workers \ {w} : resume'[v] = resume[v]
      /\ pc'[w] = "wake" => resume'[w] = resume[w]
  BY DEF Scheduler, NotReady, Pop, Steal, Idle, Decrement, ForkNew, Requeue, WakeNext, WakeEnd,
         PollFails, wakeVars, Goto, TasksInv, Types
<1>4. ~WakeEnd(w) /\ ~WakeNext(w) =>
         /\ pc[w] \in {"pop", "steal", "idle", "decrement", "fork_new", "requeue", "check"}
         /\ pc'[w] \in {"check", "steal", "idle", "exited", "pop"}
  BY DEF Scheduler, NotReady, Pop, Steal, Idle, Decrement, ForkNew, Requeue, PollFails, CanResume,
         Goto, Got, TryVictim, TasksInv, Types
<1>5. WakeNext(w) => pc[w] = "wake" /\ pc'[w] = "wake" /\ cur'[w] = cur[w]
  BY DEF WakeNext
<1>6. WakeEnd(w) => pc[w] = "wake" /\ pc'[w] = "release" /\ cur'[w] = cur[w]
  <2>1. pc[w] = "wake" => ~resume[w]
    BY DEF ProgInv, Control, Ends
  <2> QED
    BY <2>1 DEF WakeEnd, Goto, TasksInv, Types
<1>7. Data'
  BY <1>1, DataSame DEF ProgInv, clientProgram
<1>8. Control'
  <2>1. CASE ~WakeEnd(w) /\ ~WakeNext(w)
    BY <1>1, <1>2, <1>3, <1>4, <2>1, ControlQuiet DEF ProgInv
  <2>2. CASE WakeEnd(w) \/ WakeNext(w)
    BY <1>1, <1>2, <1>3, <1>5, <1>6, <2>2, ControlQuiet DEF ProgInv
  <2> QED
    BY <2>1, <2>2
<1> QED
  BY <1>7, <1>8 DEF ProgInv

\* FINALIZE: a task that is freed has no child whose promise is open.
LEMMA ReleaseProg ==
    ASSUME PromisesAssumption, TasksInv, ClientInv, ProgInv, NEW w \in Workers,
           Release(w), UNCHANGED clientProgram
    PROVE  ProgInv'
<1> DEFINE e == cur[w]
<1>1. /\ pc[w] = "release" /\ pc' = [pc EXCEPT ![w] = "decrement"] /\ cur' = cur
      /\ allocated' = allocated \ {e} /\ asleep' = asleep
      /\ UNCHANGED <<clientProgram, polling, scheduled, resume>>
  BY DEF Release, Goto, clientVars, wakeVars
<1>2. pc'[w] = "decrement" /\ \A v \in Workers \ {w} : pc'[v] = pc[v]
  BY <1>1 DEF TasksInv, Types
<1>3. /\ prog' = prog /\ promise' = promise /\ e \in Tasks /\ e \in allocated
      /\ allocated \subseteq Tasks /\ prog[e].at \in {"wake", "return"}
  <2>1. e \in Tasks /\ e \in allocated
    BY <1>1, Hands DEF HandLabels
  <2>2. prog[e].at \in {"wake", "return"}
    BY <1>1 DEF ProgInv, Control, Ends, Me
  <2> QED
    BY <1>1, <2>1, <2>2 DEF clientProgram, TasksInv, Types
<1>4. Control'
  BY <1>1, <1>2, ControlQuiet DEF ProgInv
<1> HIDE DEF e
<1>5. Bodies' /\ Slots'
  <2>1. Bodies'
    BY <1>1, <1>3, ComputingNext DEF ProgInv, Data, Bodies
  <2>2. Slots'
    BY <1>1, <1>3 DEF ProgInv, Data, Slots, Slot
  <2> QED
    BY <2>1, <2>2
<1>6. ASSUME NEW k \in Tasks, Indebted(k) PROVE NodeOwed(k)'
  <2>1. NodeOwed(k) /\ promise[prog[k].promise].state # FULFILLED
    BY <1>6 DEF ProgInv, Data, Debts
  <2>2. CASE prog[k].promise = Root /\ prog[k].num = 1
    BY <1>3, <2>2 DEF NodeOwed
  <2>3. ASSUME NEW p \in allocated, NEW i \in 0..(Branching - 1), prog[k].promise = <<p, i>>,
               i < prog[p].started, prog[k].num = prog[p].num * Branching + i
        PROVE  NodeOwed(k)'
    <3>1. p # e
      <4> SUFFICES ASSUME p = e PROVE FALSE
        OBVIOUS
      <4>1. Computing(prog[e]) /\ Slot(e, i)
        BY <1>3, <2>3 DEF ProgInv, Data, Bodies, Slots
      <4>2. ~Forking(prog[e]) /\ ~Awaiting(prog[e])
        BY <1>3, <4>1 DEF Computing
      <4>3. IsLeaf(prog[e]) => prog[e].started = 0
        BY <4>1 DEF Computing
      <4>4. ~IsLeaf(prog[e])
        BY <2>3, <4>3
      <4>5. prog[e].awaited = Branching
        BY <4>1, <4>2, <4>4, ComputingFacts
      <4>6. i < prog[e].awaited
        BY <4>5, PromisesTree
      <4> QED
        BY <2>1, <2>3, <4>1, <4>6 DEF Slot
    <3> QED
      BY <1>1, <1>3, <2>3, <3>1 DEF NodeOwed
  <2> QED
    BY <2>1, <2>2, <2>3 DEF NodeOwed
<1>7. \A k \in Tasks : Indebted(k)' <=> Indebted(k)
  BY <1>1, <1>3 DEF Indebted
<1>8. Debts'
  BY <1>1, <1>3, <1>6, <1>7 DEF ProgInv, Data, Debts
<1> QED
  BY <1>4, <1>5, <1>8 DEF ProgInv, Data

LEMMA ReturnNullProg ==
    ASSUME TasksInv, ProgInv, NEW w \in Workers, ReturnNull(w) PROVE ProgInv'
<1>1. /\ pc[w] = "running" /\ prog[cur[w]].at = "return" /\ pc' = [pc EXCEPT ![w] = "release"]
      /\ UNCHANGED <<style, prog, promise, cur, polling, allocated, asleep, scheduled, resume>>
  BY DEF ReturnNull, Return, At, Me, Goto, clientProgram, clientVars, wakeVars
<1>2. pc'[w] = "release" /\ \A v \in Workers \ {w} : pc'[v] = pc[v]
  BY <1>1 DEF TasksInv, Types
<1>3. Data'
  BY <1>1, DataSame DEF ProgInv
<1>4. Forks'
  BY <1>1, <1>2 DEF ProgInv, Control, Forks, Me, Forking, IsLeaf, LastLayer
<1>5. Ends'
  BY <1>1, <1>2 DEF ProgInv, Control, Ends, Ending, Me
<1>6. Wakes'
  <2>1. \A v \in Workers : At(v, "wake")' => At(v, "wake")
    BY <1>1, <1>2 DEF At, Me
  <2> QED
    BY <1>1, <2>1 DEF ProgInv, Control, Wakes, Me
<1>7. Waits'
  BY <1>1, <1>2 DEF ProgInv, Control, Waits, Waited
<1>8. Phases'
  BY <1>1, <1>2, PhasesKept DEF ProgInv, Control
<1> QED
  BY <1>3, <1>4, <1>5, <1>6, <1>7, <1>8 DEF ProgInv, Control

LEMMA ForkChildProg ==
    ASSUME PromisesAssumption, TasksInv, ClientInv, ProgInv, NEW w \in Workers, ForkChild(w)
    PROVE  ProgInv'
<1> DEFINE c == cur[w]  p == <<c, prog[c].started>>
<1>1. /\ pc[w] = "running" /\ pc' = [pc EXCEPT ![w] = "fork"]
      /\ prog[c].at = "body" /\ Forking(prog[c])
      /\ promise' = [promise EXCEPT ![p].state = EMPTY]
      /\ UNCHANGED <<style, prog, cur, polling, allocated, asleep, scheduled, resume>>
  BY DEF ForkChild, Fork, Request, Goto, At, Me, taskVars, wakeVars
<1>2. pc'[w] = "fork" /\ \A v \in Workers \ {w} : pc'[v] = pc[v]
  BY <1>1 DEF TasksInv, Types
<1>3. /\ c \in Tasks /\ c \in allocated /\ c \notin asleep
      /\ \A v \in Workers \ {w} : pc[v] \in HandLabels => cur[v] # c
      /\ allocated \subseteq Tasks /\ \A k \in asleep : k \in Tasks
  BY <1>1, Hands DEF HandLabels, TasksInv, Types
<1>4. prog[c].started \in 0..(Branching - 1)
  BY <1>1, <1>3, ComputingFacts DEF ProgInv, Data, Bodies
<1>5. p \in PromiseIds /\ p # Root
  BY <1>3, <1>4, PromisesTree
<1> HIDE DEF c, p
<1>6. /\ promise'[p].state = EMPTY
      /\ \A q \in PromiseIds \ {p} : promise'[q] = promise[q]
  BY <1>1, <1>5 DEF ClientInv, Shapes
<1>7. \A k \in Tasks, i \in 0..(Branching - 1) :
         <<k, i>> \in PromiseIds /\ (k # c \/ i # prog[c].started => <<k, i>> # p)
  BY PromisesTree DEF p
<1>8. Root \in PromiseIds /\ promise'[Root] = promise[Root]
  BY <1>5, <1>6, PromisesTree
<1>9. Bodies'
  BY <1>1, ComputingNext DEF ProgInv, Data, Bodies
<1>10. Slots'
  <2>1. ASSUME NEW k \in allocated, NEW i \in 0..(Branching - 1), i < prog[k].started
        PROVE  Slot(k, i)'
    <3>1. k # c \/ i # prog[c].started
      BY <1>4, <2>1
    <3>2. promise'[<<k, i>>] = promise[<<k, i>>]
      BY <1>3, <1>6, <1>7, <3>1
    <3> QED
      <4>1. Slot(k, i)
        BY <2>1 DEF ProgInv, Data, Slots
      <4>2. prog' = prog /\ asleep' = asleep
        BY <1>1
      <4> QED
        BY ONLY <3>2, <4>1, <4>2 DEF Slot
  <2> QED
    BY <1>1, <1>8, <2>1 DEF ProgInv, Data, Slots
<1>11. Debts'
  <2>1. \A q \in PromiseIds : promise'[q].state = FULFILLED => promise[q].state = FULFILLED
    BY <1>6, PromisesTree
  <2>2. \A k \in Tasks : prog[k].promise \in PromiseIds
    BY DEF ClientInv, Shapes
  <2>3. \A k \in Tasks : (Indebted(k)' <=> Indebted(k)) /\ (NodeOwed(k)' <=> NodeOwed(k))
    BY <1>1 DEF Indebted, NodeOwed
  <2>4. \A k \in Tasks : Indebted(k) =>
           NodeOwed(k) /\ promise'[prog[k].promise].state # FULFILLED
    BY <2>1, <2>2 DEF ProgInv, Data, Debts
  <2> QED
    BY <1>1, <1>8, <2>3, <2>4 DEF ProgInv, Data, Debts
<1>12. Forks'
  <2> SUFFICES ASSUME NEW v \in Workers, pc'[v] = "fork"
               PROVE  /\ Forking(prog[cur[v]]) /\ prog[cur[v]].at = "body"
                      /\ promise'[<<cur[v], prog[cur[v]].started>>].state = EMPTY
    BY <1>1 DEF Forks, Me, Forking, IsLeaf, LastLayer
  <2>1. CASE v = w
    BY <1>1, <1>6, <2>1 DEF p, c
  <2>2. CASE v # w
    <3>1. pc[v] = "fork" /\ cur[v] \in Tasks /\ cur[v] \in allocated
      BY <1>2, <2>2, Hands DEF HandLabels
    <3>2. Forking(prog[cur[v]]) /\ prog[cur[v]].at = "body"
          /\ promise[<<cur[v], prog[cur[v]].started>>].state = EMPTY
      BY <3>1 DEF ProgInv, Control, Forks, Me
    <3>3. prog[cur[v]].started \in 0..(Branching - 1)
      BY <3>1, <3>2, ComputingFacts DEF ProgInv, Data, Bodies
    <3>4. <<cur[v], prog[cur[v]].started>> \in PromiseIds
      BY <1>7, <3>1, <3>3
    <3> QED
      BY <1>6, <3>2, <3>4
  <2> QED
    BY <2>1, <2>2
<1>13. Ends'
  <2>1. ASSUME NEW k \in allocated, prog[k].at \in {"wake", "return"}
        PROVE  \E v \in Workers : Ending(v)' /\ cur[v] = k
    <3>1. PICK v \in Workers : Ending(v) /\ cur[v] = k
      BY <2>1 DEF ProgInv, Control, Ends
    <3>2. v # w
      BY <1>1, <2>1, <3>1 DEF c
    <3> QED
      BY <1>2, <3>1, <3>2 DEF Ending
  <2> QED
    BY <1>1, <1>2, <2>1 DEF ProgInv, Control, Ends, Me
<1>14. \A k \in allocated : prog[k].at = "waiting" /\ k # c =>
          promise'[<<k, prog[k].awaited>>] = promise[<<k, prog[k].awaited>>]
  <2> SUFFICES ASSUME NEW k \in allocated, prog[k].at = "waiting", k # c
               PROVE  promise'[<<k, prog[k].awaited>>] = promise[<<k, prog[k].awaited>>]
    OBVIOUS
  <2>1. Computing(prog[k])
    BY DEF ProgInv, Data, Bodies
  <2>2. prog[k].awaited \in 0..(Branching - 1)
    BY <2>1, ComputingFacts DEF Computing
  <2> QED
    BY <1>3, <1>6, <1>7, <2>2
<1>15. Wakes'
  <2>1. \A v \in Workers : At(v, "wake")' => At(v, "wake") /\ v # w
    BY <1>1, <1>2 DEF At, Me
  <2>2. ASSUME NEW v \in Workers, At(v, "wake")
        PROVE  promise'[prog[cur[v]].promise].state = FULFILLED
    <3>1. /\ prog[cur[v]].waker \in asleep
          /\ prog[cur[v]].promise = <<prog[cur[v]].waker, prog[prog[cur[v]].waker].awaited>>
          /\ promise[prog[cur[v]].promise].state = FULFILLED
      BY <2>2 DEF ProgInv, Control, Wakes, Me
    <3>2. prog[cur[v]].promise # p
      BY <1>3, <3>1 DEF p
    <3>3. cur[v] \in Tasks
      BY <2>2, Hands DEF At, HandLabels
    <3>4. prog[cur[v]].promise \in PromiseIds
      BY <3>3 DEF ClientInv, Shapes
    <3> QED
      BY <1>6, <3>1, <3>2, <3>4
  <2>3. \A v \in Workers : At(v, "wake")' =>
          /\ prog[cur[v]].waker \in asleep
          /\ prog[cur[v]].promise = <<prog[cur[v]].waker, prog[prog[cur[v]].waker].awaited>>
          /\ promise'[prog[cur[v]].promise].state = FULFILLED
    BY <2>1, <2>2 DEF ProgInv, Control, Wakes, Me
  <2>4. \A u, v \in Workers :
          At(u, "wake")' /\ At(v, "wake")' /\ prog[cur[u]].waker = prog[cur[v]].waker => u = v
    BY <2>1 DEF ProgInv, Control, Wakes, Me
  <2> QED
    BY <1>1, <2>3, <2>4 DEF Wakes, Me
<1>16. Waits'
  <2> SUFFICES ASSUME NEW k \in allocated, prog[k].at = "waiting" PROVE Waited(k)'
    BY <1>1 DEF ProgInv, Control, Waits
  <2>1. k # c /\ Waited(k)
    BY <1>1 DEF ProgInv, Control, Waits
  <2>2. promise'[<<k, prog[k].awaited>>] = promise[<<k, prog[k].awaited>>]
    BY <1>14, <2>1
  <2>3. \A v \in Workers : pc[v] = "sleep" => pc'[v] = "sleep"
    BY <1>1, <1>2
  <2> QED
    BY <1>1, <2>1, <2>2, <2>3 DEF Waited
<1>17. Phases'
  BY <1>1, <1>2, <1>8, PhasesKept DEF ProgInv, Control
<1> QED
  BY <1>9, <1>10, <1>11, <1>12, <1>13, <1>15, <1>16, <1>17 DEF ProgInv, Data, Control

LEMMA WaitProg ==
    ASSUME PromisesAssumption, TasksInv, ClientInv, ProgInv, NEW w \in Workers,
           SleepOnPromise(w) \/ PollPromise(w)
    PROVE  ProgInv'
<1> DEFINE c == cur[w]  t == [prog[c] EXCEPT !.at = "waiting"]
<1>1. /\ pc[w] = "running" /\ prog[c].at \in {"body", "sleep"}
      /\ prog' = [prog EXCEPT ![c] = t] /\ cur' = cur
      /\ UNCHANGED <<style, promise, allocated, asleep, scheduled, resume>>
      /\ polling \subseteq polling'
  BY DEF SleepOnPromise, PollPromise, Sleep, Poll, Request, At, Me, Step, taskVars, wakeVars
<1>2. /\ c \in Tasks /\ c \in allocated /\ IsProg(prog[c])
  BY <1>1, Hands DEF HandLabels, ClientInv, Shapes
<1>3. Computing(prog[c]) /\ Awaiting(prog[c])
  <2>1. Computing(prog[c])
    BY <1>2 DEF ProgInv, Data, Bodies
  <2>2. CASE SleepOnPromise(w)
    BY <2>1, <2>2 DEF SleepOnPromise, At, Me, Computing
  <2>3. CASE PollPromise(w)
    BY <2>1, <2>3 DEF PollPromise, Me
  <2> QED
    BY <2>1, <2>2, <2>3
<1>4. /\ pc'[w] \in {"sleep", "pop"} /\ \A v \in Workers \ {w} : pc'[v] = pc[v]
      /\ \/ style = "sleep" /\ pc'[w] = "sleep"
         \/ style = "poll" /\ c \in polling'
  <2>1. CASE SleepOnPromise(w)
    <3>1. style = "sleep"
      BY <1>2, <2>1 DEF SleepOnPromise, At, Me, ProgInv, Control, Waits
    <3> QED
      BY <2>1, <3>1 DEF SleepOnPromise, Sleep, Request, Goto, TasksInv, Types
  <2>2. CASE PollPromise(w)
    BY <2>2 DEF PollPromise, Poll, Request, Goto, TasksInv, Types
  <2> QED
    BY <2>1, <2>2
<1>5. /\ t.num = prog[c].num /\ t.promise = prog[c].promise /\ t.started = prog[c].started
      /\ t.awaited = prog[c].awaited /\ t.sum = prog[c].sum /\ t.at = "waiting"
  BY <1>2 DEF IsProg, Fields
<1> HIDE DEF t
<1>6. Computing(t)
  BY <1>3, <1>5 DEF Computing, IsLeaf, Forking, Awaiting
<1>7. \A i \in 0..(Branching - 1) : i < t.awaited => promise[<<c, i>>].state = FULFILLED
  <2> SUFFICES ASSUME NEW i \in 0..(Branching - 1), i < t.awaited
               PROVE  promise[<<c, i>>].state = FULFILLED
    OBVIOUS
  <2>1. prog[c].started = Branching
    BY <1>3, ComputingFacts
  <2>2. Slot(c, i)
    BY <1>2, <2>1, PromisesTree DEF ProgInv, Data, Slots
  <2> QED
    BY <1>5, <2>2 DEF Slot
<1>8. Data'
  BY <1>1, <1>5, <1>6, <1>7, OwnData DEF ProgInv, HandLabels
<1>9. Control'
  BY <1>1, <1>4, <1>5, OwnControl DEF ProgInv
<1> QED
  BY <1>8, <1>9 DEF ProgInv

\* sum += promise->result, of the next promise.
LEMMA Collected ==
    ASSUME PromisesAssumption, TasksInv, ClientInv, ProgInv, NEW c \in allocated, c \notin asleep,
           Awaiting(prog[c]), promise[<<c, prog[c].awaited>>].state = FULFILLED,
           NEW t, t = Collect(prog[c], <<c, prog[c].awaited>>)
    PROVE  /\ Computing(t) /\ t.at = "body"
           /\ t.num = prog[c].num /\ t.promise = prog[c].promise /\ t.started = prog[c].started
           /\ \A i \in 0..(Branching - 1) : i < t.awaited => promise[<<c, i>>].state = FULFILLED
<1> DEFINE r == prog[c]  a == r.awaited
<1>1. IsProg(r) /\ Computing(r)
  BY DEF TasksInv, Types, ClientInv, Shapes, ProgInv, Data, Bodies
<1>2. /\ r.started = Branching /\ a \in 0..(Branching - 1) /\ a + 1 \in 0..Branching
      /\ ~IsLeaf(r) /\ IsNode(Branching, Depth, r.num)
      /\ r.num < LastLayerOf(Branching, Depth) /\ r.num \in Nat
  BY <1>1, ComputingFacts
<1> DEFINE e == promise[<<c, a>>].result
<1>3. /\ t.num = r.num /\ t.promise = r.promise /\ t.started = r.started
      /\ t.awaited = a + 1 /\ t.at = "body" /\ t.sum = r.sum + e
  <2>1. t = [r EXCEPT !.at = "body", !.awaited = a + 1, !.sum = r.sum + e]
    BY DEF Collect
  <2> HIDE DEF r, a, e
  <2> QED
    BY <1>1, <2>1 DEF IsProg, Fields
<1>4. \A i \in 0..(Branching - 1) : Slot(c, i)
  BY <1>2, PromisesTree DEF ProgInv, Data, Slots
<1>5. 2 * e = Value2(Branching, Depth, r.num * Branching + a) /\ e \in Nat
  BY <1>2, <1>4 DEF Slot
<1>6. 2 * r.sum = Partial2(Branching, Depth, r.num, a) /\ r.sum \in Nat
  BY <1>1, <1>2 DEF Computing
<1>7. /\ Partial2(Branching, Depth, r.num, a) \in Int
      /\ Value2(Branching, Depth, r.num * Branching + a) \in Int
      /\ Partial2(Branching, Depth, r.num, a + 1)
            = Partial2(Branching, Depth, r.num, a) + Value2(Branching, Depth, r.num * Branching + a)
  <2> HIDE DEF r, a
  <2> QED
    BY <1>2, PromisesTree, OneChildMore
<1>8. \A i \in 0..(Branching - 1) : i < a + 1 => promise[<<c, i>>].state = FULFILLED
  <2>1. ASSUME NEW i \in 0..(Branching - 1), i < a + 1 PROVE i < a \/ i = a
    BY <1>2, <2>1
  <2> QED
    BY <1>4, <2>1 DEF Slot
<1> HIDE DEF r, a, e
<1>9. 2 * (r.sum + e) = Partial2(Branching, Depth, r.num, a + 1)
  <2>1. 2 * (r.sum + e) = 2 * r.sum + 2 * e
    BY <1>5, <1>6
  <2> QED
    BY <1>5, <1>6, <1>7, <2>1
<1>10. /\ IsLeaf(t) <=> IsLeaf(r)
       /\ t.sum \in Nat
  BY <1>3, <1>5, <1>6 DEF IsLeaf
<1>11. Computing(t)
  BY <1>2, <1>3, <1>9, <1>10, PromisesTree DEF Computing
<1> QED
  BY <1>3, <1>8, <1>11 DEF r

LEMMA AwaitProg ==
    ASSUME PromisesAssumption, TasksInv, ClientInv, ProgInv, NEW w \in Workers, Await(w)
    PROVE  ProgInv'
<1> DEFINE c == cur[w]
<1>1. /\ pc[w] = "running" /\ prog[c].at = "body" /\ Awaiting(prog[c]) /\ style = "sleep"
      /\ prog' = [prog EXCEPT ![c] = IF promise[<<c, prog[c].awaited>>].state = FULFILLED
                                     THEN Collect(prog[c], <<c, prog[c].awaited>>)
                                     ELSE [prog[c] EXCEPT !.at = "sleep"]]
      /\ UNCHANGED <<pc, cur, polling, style, promise, allocated, asleep, scheduled, resume>>
  BY DEF Await, At, Me, Awaited, vars
<1>2. /\ c \in Tasks /\ c \in allocated /\ c \notin asleep /\ IsProg(prog[c])
  BY <1>1, Hands DEF HandLabels, ClientInv, Shapes
<1>3. PICK t : /\ prog' = [prog EXCEPT ![c] = t]
               /\ \/ /\ promise[<<c, prog[c].awaited>>].state = FULFILLED
                     /\ t = Collect(prog[c], <<c, prog[c].awaited>>)
                  \/ t = [prog[c] EXCEPT !.at = "sleep"]
  BY <1>1
<1>4. /\ Computing(t) /\ t.at \in {"body", "sleep"}
      /\ t.num = prog[c].num /\ t.promise = prog[c].promise /\ t.started = prog[c].started
      /\ \A i \in 0..(Branching - 1) : i < t.awaited => promise[<<c, i>>].state = FULFILLED
  <2>1. CASE /\ promise[<<c, prog[c].awaited>>].state = FULFILLED
             /\ t = Collect(prog[c], <<c, prog[c].awaited>>)
    BY <1>1, <1>2, <2>1, Collected
  <2>2. CASE t = [prog[c] EXCEPT !.at = "sleep"]
    <3>1. /\ t.num = prog[c].num /\ t.promise = prog[c].promise /\ t.started = prog[c].started
          /\ t.awaited = prog[c].awaited /\ t.sum = prog[c].sum /\ t.at = "sleep"
      BY <1>2, <2>2 DEF IsProg, Fields
    <3>2. Computing(prog[c])
      BY <1>2 DEF ProgInv, Data, Bodies
    <3>3. Computing(t)
      BY <1>1, <3>1, <3>2 DEF Computing, IsLeaf, Forking, Awaiting
    <3>4. prog[c].started = Branching
      BY <1>1, <3>2, ComputingFacts
    <3>5. \A i \in 0..(Branching - 1) : Slot(c, i)
      BY <1>2, <3>4, PromisesTree DEF ProgInv, Data, Slots
    <3> QED
      BY <3>1, <3>3, <3>5 DEF Slot
  <2> QED
    BY <1>3, <2>1, <2>2
<1>5. Data'
  BY <1>1, <1>3, <1>4, OwnData DEF ProgInv, HandLabels
<1>6. Control'
  BY <1>1, <1>3, <1>4, OwnControl, ZenonT(60) DEF ProgInv
<1> QED
  BY <1>5, <1>6 DEF ProgInv

LEMMA ContinueProg ==
    ASSUME PromisesAssumption, TasksInv, ClientInv, ProgInv, NEW w \in Workers, Continue(w)
    PROVE  ProgInv'
<1> DEFINE c == cur[w]
<1>1. /\ pc[w] = "check" /\ pc' = [pc EXCEPT ![w] = "running"]
      /\ c \in polling => promise[<<c, prog[c].awaited>>].state = FULFILLED
      /\ prog' = [prog EXCEPT ![c] = IF prog[c].at = "waiting"
                                     THEN Collect(prog[c], <<c, prog[c].awaited>>) ELSE prog[c]]
      /\ polling' = polling \ {c}
      /\ UNCHANGED <<cur, style, promise, allocated, asleep, scheduled, resume>>
  BY DEF Continue, ResumeTask, CanResume, Ready, Awaited, Me, Goto, clientVars, wakeVars
<1>2. /\ c \in Tasks /\ c \in allocated /\ c \notin asleep
      /\ \A v \in Workers : pc[v] \in HandLabels /\ cur[v] = c => v = w
      /\ pc'[w] = "running" /\ \A v \in Workers \ {w} : pc'[v] = pc[v]
  <2>1. /\ c \in Tasks /\ c \in allocated /\ c \notin asleep
        /\ \A v \in Workers : pc[v] \in HandLabels /\ cur[v] = c => v = w
    BY <1>1, Hands DEF HandLabels
  <2> QED
    BY <1>1, <2>1 DEF TasksInv, Types
<1>3. Computing(prog[c])
  BY <1>2 DEF ProgInv, Data, Bodies
<1>4. prog[c].at \notin {"wake", "return"}
  BY <1>1, <1>2 DEF ProgInv, Control, Ends, Ending, HandLabels
<1>5. prog[c].at = "waiting" =>
         Awaiting(prog[c]) /\ promise[<<c, prog[c].awaited>>].state = FULFILLED
  <2> SUFFICES ASSUME prog[c].at = "waiting"
               PROVE  Awaiting(prog[c]) /\ promise[<<c, prog[c].awaited>>].state = FULFILLED
    OBVIOUS
  <2>1. Awaiting(prog[c])
    BY <1>3 DEF Computing
  <2>2. Waited(c)
    BY <1>2 DEF ProgInv, Control, Waits
  <2>3. ~ \E v \in Workers : pc[v] = "sleep" /\ cur[v] = c
    BY <1>1, <1>2 DEF HandLabels
  <2> QED
    BY <1>1, <1>2, <2>1, <2>2, <2>3 DEF Waited
<1>6. PICK t : /\ prog' = [prog EXCEPT ![c] = t]
               /\ \/ prog[c].at = "waiting" /\ t = Collect(prog[c], <<c, prog[c].awaited>>)
                  \/ prog[c].at # "waiting" /\ t = prog[c]
  BY <1>1
<1>7. /\ Computing(t) /\ t.at \notin {"wake", "return", "waiting"}
      /\ t.num = prog[c].num /\ t.promise = prog[c].promise /\ t.started = prog[c].started
      /\ \A i \in 0..(Branching - 1) : i < t.awaited => promise[<<c, i>>].state = FULFILLED
      /\ t.at = "sleep" => style = "sleep"
  <2>1. CASE prog[c].at = "waiting" /\ t = Collect(prog[c], <<c, prog[c].awaited>>)
    BY <1>2, <1>5, <2>1, Collected
  <2>2. CASE prog[c].at # "waiting" /\ t = prog[c]
    <3>1. \A i \in 0..(Branching - 1) : i < t.awaited => promise[<<c, i>>].state = FULFILLED
      <4> SUFFICES ASSUME NEW i \in 0..(Branching - 1), i < t.awaited
                   PROVE  promise[<<c, i>>].state = FULFILLED
        OBVIOUS
      <4>1. t.awaited > 0 /\ t.awaited \in 0..Branching
        BY <1>3, <2>2 DEF Computing
      <4>2. prog[c].started = Branching
        BY <1>3, <2>2, <4>1 DEF Computing
      <4>3. Slot(c, i)
        BY <1>2, <4>2, PromisesTree DEF ProgInv, Data, Slots
      <4> QED
        BY <2>2, <4>3 DEF Slot
    <3>2. t.at = "sleep" => style = "sleep"
      BY <1>2, <2>2 DEF ProgInv, Control, Waits
    <3> QED
      BY <1>3, <1>4, <2>2, <3>1, <3>2
  <2> QED
    BY <1>6, <2>1, <2>2
<1>8. Data'
  BY <1>1, <1>4, <1>6, <1>7, OwnData DEF ProgInv, HandLabels
<1>9. Control'
  BY <1>1, <1>2, <1>4, <1>6, <1>7, OwnControl DEF ProgInv
<1> QED
  BY <1>8, <1>9 DEF ProgInv

LEMMA MakeChildProg ==
    ASSUME PromisesAssumption, TasksInv, ClientInv, ProgInv, NEW w \in Workers, MakeChild(w)
    PROVE  ProgInv'
<1> DEFINE p == cur[w]  i == prog[p].started
           n == prog[p].num * Branching + i
           child == Prog(n, <<p, i>>)
           parent == [prog[p] EXCEPT !.started = @ + 1]
<1>1. PICK k \in Tasks :
         /\ k \notin allocated /\ allocated' = allocated \cup {k} /\ polling' = polling \ {k}
         /\ cur' = [cur EXCEPT ![w] = k] /\ pc[w] = "fork" /\ pc' = [pc EXCEPT ![w] = "fork_new"]
         /\ UNCHANGED <<style, promise, asleep, scheduled, resume>>
  BY DEF MakeChild, ForkPush, Goto, NewTask, clientVars, wakeVars
<1>2. /\ cur'[w] = k /\ pc'[w] = "fork_new"
      /\ \A v \in Workers \ {w} : pc'[v] = pc[v] /\ cur'[v] = cur[v]
  BY <1>1 DEF TasksInv, Types
<1>3. /\ p \in Tasks /\ p \in allocated /\ p \notin asleep /\ IsProg(prog[p]) /\ k # p
      /\ \A v \in Workers \ {w} : pc[v] \in HandLabels => cur[v] \notin {p, k} /\ cur[v] \in Tasks
      /\ \A j \in asleep : j \in Tasks \ {p, k}
      /\ allocated \subseteq Tasks
  BY <1>1, Hands DEF HandLabels, ClientInv, Shapes, TasksInv, Types
<1>4. prog' = [prog EXCEPT ![p].started = @ + 1, ![k] = child]
  BY <1>2 DEF MakeChild
<1>5. prog'[p] = parent /\ prog'[k] = child /\ \A j \in Tasks \ {p, k} : prog'[j] = prog[j]
  <2>1. DOMAIN prog = Tasks
    BY DEF ClientInv, Shapes
  <2> HIDE DEF p, child
  <2> QED
    BY <1>3, <1>4, <2>1 DEF p
<1>6. /\ Forking(prog[p]) /\ prog[p].at = "body" /\ promise[<<p, i>>].state = EMPTY
      /\ Computing(prog[p])
  BY <1>1, <1>3 DEF ProgInv, Control, Forks, Me, Data, Bodies
<1>7. /\ parent.num = prog[p].num /\ parent.promise = prog[p].promise
      /\ parent.started = i + 1 /\ parent.awaited = prog[p].awaited
      /\ parent.sum = prog[p].sum /\ parent.at = "body"
      /\ child.num = n /\ child.promise = <<p, i>> /\ child.started = 0 /\ child.awaited = 0
      /\ child.sum = 0 /\ child.at = "body"
  BY <1>3, <1>6 DEF IsProg, Fields, Prog
<1>8. /\ i \in 0..(Branching - 1) /\ i + 1 \in 0..Branching /\ prog[p].awaited = 0
      /\ ~IsLeaf(prog[p]) /\ IsNode(Branching, Depth, prog[p].num)
      /\ prog[p].num < LastLayerOf(Branching, Depth)
  BY <1>6, ComputingFacts
<1>9. <<p, i>> # Root /\ <<p, i>> \in PromiseIds
  BY <1>3, <1>8, PromisesTree
<1> HIDE DEF child, parent
<1>10. Computing(parent)
  BY <1>6, <1>7, <1>8 DEF Computing, IsLeaf
<1>11. Computing(child)
  <2>1. IsNode(Branching, Depth, n)
    BY <1>8, PromisesTree, LeavesOfInner
  <2> HIDE DEF n
  <2>2. ASSUME ~IsLeaf(child) PROVE Partial2(Branching, Depth, n, 0) = 0
    <3>1. n \in Nat /\ n < LastLayerOf(Branching, Depth) /\ 0 \in 0..(Branching - 1)
      BY <1>7, <2>1, <2>2, PromisesTree DEF IsNode, IsLeaf
    <3>2. Leaves(Branching, Depth, n * Branching) \in Nat
      BY <2>1, <3>1, PromisesTree, LeavesOfInner
    <3> QED
      BY <3>1, <3>2, PromisesTree, NoChildYet
  <2> QED
    BY <1>7, <2>1, <2>2, PromisesTree DEF Computing
<1>12. Bodies'
  BY <1>1, <1>3, <1>5, <1>10, <1>11, ComputingNext DEF ProgInv, Data, Bodies
<1> HIDE DEF p, i, n
<1>13. \A j \in Tasks \ {k} :
          /\ prog'[j].num = prog[j].num /\ prog'[j].promise = prog[j].promise
          /\ prog'[j].awaited = prog[j].awaited /\ prog'[j].at = prog[j].at
          /\ j # p => prog'[j].started = prog[j].started
  BY <1>5, <1>6, <1>7
<1>14. Slots'
  <2>1. ASSUME NEW j \in allocated, NEW m \in 0..(Branching - 1), m < prog'[j].started
        PROVE  Slot(j, m)'
    <3>1. j \in Tasks \ {k}
      BY <1>1, <1>3
    <3>2. CASE j = p /\ m = i
      <4>1. promise'[<<j, m>>].state = EMPTY /\ prog'[j].awaited = 0
        BY <1>1, <1>5, <1>6, <1>7, <1>8, <3>2
      <4>2. EMPTY # j /\ EMPTY # FULFILLED /\ ~(m < 0)
        BY <3>1, PromisesTree
      <4> QED
        BY <4>1, <4>2 DEF Slot
    <3>3. CASE ~(j = p /\ m = i)
      <4>1. m < prog[j].started
        <5>1. CASE j = p
          <6>1. m < i + 1 /\ m # i
            BY <1>5, <1>7, <2>1, <3>3, <5>1
          <6>2. m < i
            BY <1>8, <6>1
          <6> QED
            BY <5>1, <6>2 DEF i
        <5>2. CASE j # p
          BY <1>13, <2>1, <3>1, <5>2
        <5> QED
          BY <5>1, <5>2
      <4>2. Slot(j, m)
        BY <4>1 DEF ProgInv, Data, Slots
      <4> QED
        BY <1>1, <1>13, <3>1, <4>2 DEF Slot
    <3> QED
      BY <3>2, <3>3
  <2>2. \A m \in 0..(Branching - 1) : ~(m < prog'[k].started)
    BY <1>5, <1>7
  <2> QED
    BY <1>1, <2>1, <2>2 DEF ProgInv, Data, Slots
<1>15. \A j \in Tasks \ {k} : Indebted(j)' <=> Indebted(j)
  BY <1>1, <1>13 DEF Indebted
<1>16. \A j \in Tasks : Indebted(j) => j # k /\ NodeOwed(j)
                                       /\ promise[prog[j].promise].state # FULFILLED
  BY <1>1 DEF ProgInv, Data, Debts, Indebted
<1>17. ASSUME NEW j \in Tasks, Indebted(j) PROVE prog[j].promise # <<p, i>>
  <2> SUFFICES ASSUME prog[j].promise = <<p, i>> PROVE FALSE
    OBVIOUS
  <2>1. PICK q \in allocated, m \in 0..(Branching - 1) :
           <<p, i>> = <<q, m>> /\ m < prog[q].started
    BY <1>9, <1>16, <1>17 DEF NodeOwed
  <2>2. i < prog[p].started
    BY <2>1
  <2> QED
    BY <1>8, <2>2 DEF i
<1>18. Debts'
  <2>1. ASSUME NEW j \in Tasks, Indebted(j)'
        PROVE  NodeOwed(j)' /\ promise'[prog'[j].promise].state # FULFILLED
    <3>1. CASE j = k
      <4>1. prog'[k].promise = <<p, i>> /\ prog'[k].num = n /\ i < prog'[p].started
            /\ prog'[p].num = prog[p].num
        BY <1>5, <1>7, <1>8
      <4>2. p \in allocated' /\ n = prog[p].num * Branching + i
        BY <1>1, <1>3 DEF n
      <4>3. NodeOwed(k)'
        BY <1>8, <4>1, <4>2 DEF NodeOwed
      <4> QED
        BY <1>1, <1>6, <3>1, <4>1, <4>3, PromisesTree
    <3>2. CASE j # k
      <4>1. NodeOwed(j) /\ promise[prog[j].promise].state # FULFILLED
        BY <1>15, <1>16, <2>1, <3>2
      <4>2. CASE prog[j].promise = Root /\ prog[j].num = 1
        BY <1>1, <1>13, <3>2, <4>1, <4>2 DEF NodeOwed
      <4>3. ASSUME NEW q \in allocated, NEW m \in 0..(Branching - 1),
                   prog[j].promise = <<q, m>>, m < prog[q].started,
                   prog[j].num = prog[q].num * Branching + m
            PROVE  NodeOwed(j)'
        <5>1. q \in Tasks \ {k} /\ q \in allocated'
          BY <1>1, <1>3
        <5>2. m < prog'[q].started
          <6>1. CASE q = p
            <7>1. m < i
              BY <4>3, <6>1 DEF i
            <7> QED
              BY <1>5, <1>7, <1>8, <6>1, <7>1
          <6>2. CASE q # p
            BY <1>13, <4>3, <5>1, <6>2
          <6> QED
            BY <6>1, <6>2
        <5>3. /\ prog'[j].promise = <<q, m>>
              /\ prog'[j].num = prog'[q].num * Branching + m
          BY <1>13, <3>2, <4>3, <5>1
        <5> QED
          BY <5>1, <5>2, <5>3 DEF NodeOwed
      <4>4. NodeOwed(j)'
        BY <4>1, <4>2, <4>3 DEF NodeOwed
      <4> QED
        BY <1>1, <1>13, <3>2, <4>1, <4>4
    <3> QED
      BY <3>1, <3>2
  <2>2. ASSUME scheduled = 1, NEW j \in Tasks, NEW m \in Tasks, Indebted(j)', Indebted(m)',
               prog'[j].promise = prog'[m].promise
        PROVE  j = m
    <3>1. CASE j # k /\ m # k
      BY <1>13, <1>15, <2>2, <3>1 DEF ProgInv, Data, Debts
    <3>2. CASE j = k /\ m # k
      BY <1>5, <1>7, <1>13, <1>15, <1>17, <2>2, <3>2
    <3>3. CASE j # k /\ m = k
      BY <1>5, <1>7, <1>13, <1>15, <1>17, <2>2, <3>3
    <3> QED
      BY <3>1, <3>2, <3>3
  <2>3. ASSUME scheduled = 1
        PROVE  \/ promise[Root].state = FULFILLED
               \/ \E j \in Tasks : Indebted(j)' /\ prog'[j].promise = Root
    BY <1>13, <1>15, <1>16, <2>3 DEF ProgInv, Data, Debts
  <2> QED
    BY <1>1, <2>1, <2>2, <2>3 DEF Debts
<1>19. \A v \in Workers \ {w} : pc[v] \in HandLabels => prog'[cur[v]] = prog[cur[v]]
  BY <1>3, <1>5
<1>20. Forks'
  <2> SUFFICES ASSUME NEW v \in Workers, pc'[v] = "fork"
               PROVE  /\ Forking(prog'[cur'[v]]) /\ prog'[cur'[v]].at = "body"
                      /\ promise'[<<cur'[v], prog'[cur'[v]].started>>].state = EMPTY
    BY DEF Forks, Me, Forking, IsLeaf, LastLayer
  <2>1. v # w /\ pc[v] = "fork" /\ cur'[v] = cur[v] /\ prog'[cur[v]] = prog[cur[v]]
    BY <1>2, <1>19 DEF HandLabels
  <2> QED
    BY <1>1, <2>1 DEF ProgInv, Control, Forks, Me
<1>21. Ends'
  <2>1. ASSUME NEW j \in allocated', prog'[j].at \in {"wake", "return"}
        PROVE  \E v \in Workers : Ending(v)' /\ cur'[v] = j
    <3>1. j \in allocated /\ j # k /\ prog[j].at \in {"wake", "return"}
      BY <1>1, <1>3, <1>5, <1>7, <1>13, <2>1
    <3>2. PICK v \in Workers : Ending(v) /\ cur[v] = j
      BY <3>1 DEF ProgInv, Control, Ends
    <3>3. v # w
      BY <1>1, <3>2 DEF Ending
    <3> QED
      BY <1>2, <3>2, <3>3 DEF Ending
  <2>2. ASSUME NEW v \in Workers, pc'[v] \in {"wake", "release"}
        PROVE  prog'[cur'[v]].at \in {"wake", "return"} /\ (pc'[v] = "wake" => ~resume'[v])
    <3>1. v # w /\ pc[v] = pc'[v] /\ cur'[v] = cur[v] /\ prog'[cur[v]] = prog[cur[v]]
      BY <1>2, <1>19, <2>2 DEF HandLabels
    <3> QED
      BY <1>1, <2>2, <3>1 DEF ProgInv, Control, Ends, Me
  <2> QED
    BY <2>1, <2>2 DEF Ends, Me
<1>22. Wakes'
  <2>1. ASSUME NEW v \in Workers, At(v, "wake")'
        PROVE  At(v, "wake") /\ cur'[v] = cur[v] /\ prog'[cur[v]] = prog[cur[v]]
    <3>1. v # w
      BY <1>2, <2>1 DEF At
    <3> QED
      BY <1>2, <1>19, <2>1, <3>1 DEF At, Me, HandLabels
  <2>2. \A j \in asleep : prog'[j] = prog[j]
    BY <1>3, <1>5
  <2>3. ASSUME NEW v \in Workers, At(v, "wake")'
        PROVE  LET m == prog'[cur'[v]]
               IN  /\ m.waker \in asleep
                   /\ m.promise = <<m.waker, prog'[m.waker].awaited>>
                   /\ promise[m.promise].state = FULFILLED
    <3>1. PICK m : m = prog[cur[v]]
      OBVIOUS
    <3>2. m.waker \in asleep /\ m.promise = <<m.waker, prog[m.waker].awaited>>
          /\ promise[m.promise].state = FULFILLED
      BY <2>1, <2>3, <3>1 DEF ProgInv, Control, Wakes, Me
    <3> QED
      BY ONLY <2>1, <2>2, <2>3, <3>1, <3>2
  <2>4. ASSUME NEW u \in Workers, NEW v \in Workers, At(u, "wake")', At(v, "wake")',
               prog'[cur'[u]].waker = prog'[cur'[v]].waker
        PROVE  u = v
    BY <2>1, <2>4 DEF ProgInv, Control, Wakes, Me
  <2> QED
    BY <1>1, <2>3, <2>4 DEF Wakes, Me
<1>23. Waits'
  <2> SUFFICES ASSUME NEW j \in allocated'
               PROVE  /\ prog'[j].at = "sleep" => style' = "sleep"
                      /\ prog'[j].at = "waiting" => Waited(j)'
    BY DEF Waits
  <2>1. CASE j = k
    BY <1>5, <1>7, <2>1
  <2>2. CASE j # k
    <3>1. j \in allocated /\ prog'[j].at = prog[j].at /\ prog'[j].awaited = prog[j].awaited
      BY <1>1, <1>3, <1>13, <2>2
    <3>2. Waited(j) => Waited(j)'
      BY <1>1, <1>2, <2>2, <3>1 DEF Waited
    <3> QED
      BY <1>1, <3>1, <3>2 DEF ProgInv, Control, Waits
  <2> QED
    BY <2>1, <2>2
<1>24. Phases'
  BY <1>1, <1>2, PhasesKept DEF ProgInv, Control
<1> QED
  BY <1>12, <1>14, <1>18, <1>20, <1>21, <1>22, <1>23, <1>24 DEF ProgInv, Data, Control

LEMMA PublishProg ==
    ASSUME PromisesAssumption, TasksInv, ClientInv, ProgInv, NEW w \in Workers, Publish(w)
    PROVE  ProgInv'
<1> DEFINE c == cur[w]  a == prog[c].awaited  s == <<c, a>>
<1>1. /\ pc[w] = "sleep"
      /\ UNCHANGED <<style, prog, cur, polling, allocated, scheduled, resume>>
      /\ pc' = [pc EXCEPT ![w] = "pop"] \/ pc' = [pc EXCEPT ![w] = "requeue"]
  BY DEF Publish, MustSleep, Goto, taskVars, wakeVars
<1>2. /\ c \in Tasks /\ c \in allocated /\ c \notin asleep /\ prog[c].at = "waiting"
      /\ \A v \in Workers \ {w} : pc[v] \in HandLabels => cur[v] # c
      /\ allocated \subseteq Tasks /\ asleep \subseteq Tasks
  BY <1>1, Hands DEF HandLabels, ClientInv, InHandlers, TasksInv, Types
<1>3. /\ pc'[w] \in {"pop", "requeue"} /\ \A v \in Workers \ {w} : pc'[v] = pc[v]
  BY <1>1 DEF TasksInv, Types
<1>4. /\ a \in 0..(Branching - 1) /\ a < prog[c].started /\ Slot(c, a)
  <2>1. Computing(prog[c]) /\ Awaiting(prog[c])
    BY <1>2 DEF ProgInv, Data, Bodies, Computing
  <2>2. a \in 0..(Branching - 1) /\ prog[c].started = Branching
    BY <2>1, ComputingFacts
  <2>3. a < prog[c].started
    BY <2>2, PromisesTree
  <2> QED
    BY <1>2, <2>2, <2>3 DEF ProgInv, Data, Slots
<1>5. promise[s].state \in {EMPTY, FULFILLED}
  BY <1>2, <1>4 DEF Slot
<1>6. \/ /\ promise[s].state = EMPTY /\ asleep' = asleep \cup {c}
         /\ promise' = [promise EXCEPT ![s].state = c]
      \/ promise[s].state = FULFILLED /\ asleep' = asleep /\ promise' = promise
  BY <1>2, <1>5 DEF Publish, MustSleep, Awaited, Me
<1>7. s \in PromiseIds /\ s # Root
  BY <1>2, <1>4, PromisesTree
<1>8. \A k \in Tasks, i \in 0..(Branching - 1) :
         <<k, i>> \in PromiseIds /\ (k # c \/ i # a => <<k, i>> # s)
  BY PromisesTree
<1> HIDE DEF c, a, s
<1>9. /\ \A q \in PromiseIds : q # s \/ promise[s].state = FULFILLED => promise'[q] = promise[q]
      /\ promise[s].state = EMPTY => promise'[s].state = c
  BY <1>6, <1>7, PromisesTree DEF ClientInv, Shapes
<1>10. asleep \subseteq asleep' /\ (promise[s].state = EMPTY => c \in asleep')
  BY <1>6, PromisesTree
<1>11. Bodies'
  BY <1>1, ComputingNext DEF ProgInv, Data, Bodies
<1>12. promise'[Root] = promise[Root]
  BY <1>7, <1>9, PromisesTree
<1>13. Slots'
  <2>1. ASSUME NEW k \in allocated, NEW i \in 0..(Branching - 1), i < prog[k].started
        PROVE  Slot(k, i)'
    <3>1. Slot(k, i) /\ k \in Tasks
      BY <1>2, <2>1 DEF ProgInv, Data, Slots
    <3>2. CASE promise'[<<k, i>>] = promise[<<k, i>>]
      BY <1>1, <1>10, <3>1, <3>2 DEF Slot
    <3>3. CASE promise'[<<k, i>>] # promise[<<k, i>>]
      <4>1. <<k, i>> = s /\ promise[s].state # FULFILLED /\ k = c /\ i = a
        BY <1>8, <1>9, <3>1, <3>3
      <4>2. promise'[<<k, i>>].state = k /\ k \in asleep'
        BY <1>5, <1>9, <1>10, <4>1
      <4>3. k # FULFILLED /\ prog[k].awaited = i /\ ~(i < i)
        BY <3>1, <4>1, PromisesTree DEF a
      <4> QED
        BY <1>1, <4>2, <4>3 DEF Slot
    <3> QED
      BY <3>2, <3>3
  <2> QED
    BY <1>1, <1>12, <2>1 DEF ProgInv, Data, Slots
<1>14. Debts'
  <2>1. \A q \in PromiseIds : promise'[q].state = FULFILLED => promise[q].state = FULFILLED
    BY <1>2, <1>5, <1>9, PromisesTree
  <2>2. \A k \in Tasks : prog[k].promise \in PromiseIds
    BY DEF ClientInv, Shapes
  <2>3. \A k \in Tasks : (Indebted(k)' <=> Indebted(k)) /\ (NodeOwed(k)' <=> NodeOwed(k))
    BY <1>1 DEF Indebted, NodeOwed
  <2>4. \A k \in Tasks : Indebted(k) =>
           NodeOwed(k) /\ promise'[prog[k].promise].state # FULFILLED
    BY <2>1, <2>2 DEF ProgInv, Data, Debts
  <2> QED
    BY <1>1, <1>12, <2>3, <2>4 DEF ProgInv, Data, Debts
<1>15. Forks'
  <2> SUFFICES ASSUME NEW v \in Workers, pc'[v] = "fork"
               PROVE  /\ Forking(prog[cur[v]]) /\ prog[cur[v]].at = "body"
                      /\ promise'[<<cur[v], prog[cur[v]].started>>].state = EMPTY
    BY <1>1 DEF Forks, Me, Forking, IsLeaf, LastLayer
  <2>1. v # w /\ pc[v] = "fork" /\ cur[v] \in Tasks /\ cur[v] \in allocated /\ cur[v] # c
    BY <1>2, <1>3, Hands DEF HandLabels
  <2>2. /\ Forking(prog[cur[v]]) /\ prog[cur[v]].at = "body"
        /\ promise[<<cur[v], prog[cur[v]].started>>].state = EMPTY
    BY <2>1 DEF ProgInv, Control, Forks, Me
  <2>3. prog[cur[v]].started \in 0..(Branching - 1)
    BY <2>1, <2>2, ComputingFacts DEF ProgInv, Data, Bodies
  <2>4. promise'[<<cur[v], prog[cur[v]].started>>] = promise[<<cur[v], prog[cur[v]].started>>]
    BY <1>8, <1>9, <2>1, <2>3
  <2> QED
    BY <2>2, <2>4
<1>16. Ends'
  <2>1. ASSUME NEW k \in allocated, prog[k].at \in {"wake", "return"}
        PROVE  \E v \in Workers : Ending(v)' /\ cur[v] = k
    <3>1. PICK v \in Workers : Ending(v) /\ cur[v] = k
      BY <2>1 DEF ProgInv, Control, Ends
    <3>2. v # w
      BY <1>1, <3>1 DEF Ending
    <3> QED
      BY <1>3, <3>1, <3>2 DEF Ending
  <2> QED
    BY <1>1, <1>3, <2>1 DEF ProgInv, Control, Ends, Me
<1>17. \A k \in allocated : prog[k].at = "waiting" /\ k # c =>
          promise'[<<k, prog[k].awaited>>] = promise[<<k, prog[k].awaited>>]
  <2> SUFFICES ASSUME NEW k \in allocated, prog[k].at = "waiting", k # c
               PROVE  promise'[<<k, prog[k].awaited>>] = promise[<<k, prog[k].awaited>>]
    OBVIOUS
  <2>1. Computing(prog[k])
    BY DEF ProgInv, Data, Bodies
  <2>2. prog[k].awaited \in 0..(Branching - 1)
    BY <2>1, ComputingFacts DEF Computing
  <2> QED
    BY <1>2, <1>8, <1>9, <2>2
<1>18. Wakes'
  <2>1. \A v \in Workers : At(v, "wake")' => At(v, "wake") /\ v # w
    BY <1>1, <1>3 DEF At, Me
  <2>2. ASSUME NEW v \in Workers, At(v, "wake")
        PROVE  /\ prog[cur[v]].waker \in asleep
               /\ prog[cur[v]].promise = <<prog[cur[v]].waker, prog[prog[cur[v]].waker].awaited>>
               /\ promise'[prog[cur[v]].promise].state = FULFILLED
    <3>1. /\ prog[cur[v]].waker \in asleep
          /\ prog[cur[v]].promise = <<prog[cur[v]].waker, prog[prog[cur[v]].waker].awaited>>
          /\ promise[prog[cur[v]].promise].state = FULFILLED
      BY <2>2 DEF ProgInv, Control, Wakes, Me
    <3>2. prog[cur[v]].promise # s
      <4>1. prog[cur[v]].waker # c
        BY <1>2, <3>1
      <4> QED
        BY <3>1, <4>1 DEF s
    <3>3. prog[cur[v]].promise \in PromiseIds
      BY <2>2, Hands DEF At, HandLabels, ClientInv, Shapes
    <3> QED
      BY <1>9, <3>1, <3>2, <3>3
  <2>3. ASSUME NEW u \in Workers, NEW v \in Workers, At(u, "wake"), At(v, "wake"),
               prog[cur[u]].waker = prog[cur[v]].waker
        PROVE  u = v
    BY <2>3 DEF ProgInv, Control, Wakes, Me
  <2> QED
    BY <1>1, <1>10, <2>1, <2>2, <2>3 DEF Wakes, Me
<1>19. Waits'
  <2> SUFFICES ASSUME NEW k \in allocated, prog[k].at = "waiting" PROVE Waited(k)'
    BY <1>1 DEF ProgInv, Control, Waits
  <2>1. Waited(k)
    BY DEF ProgInv, Control, Waits
  <2>2. CASE k = c
    <3>1. c \in asleep' \/ promise'[<<c, prog[c].awaited>>].state = FULFILLED
      BY <1>5, <1>7, <1>9, <1>10 DEF s, a
    <3> QED
      BY <1>1, <2>1, <2>2, <3>1 DEF Waited
  <2>3. CASE k # c
    <3>1. promise'[<<k, prog[k].awaited>>] = promise[<<k, prog[k].awaited>>]
      BY <1>17, <2>3
    <3>2. \A v \in Workers : pc[v] = "sleep" /\ cur[v] = k => pc'[v] = "sleep"
      BY <1>3, <2>3 DEF c
    <3> QED
      BY <1>1, <1>10, <2>1, <3>1, <3>2 DEF Waited
  <2> QED
    BY <2>2, <2>3
<1>20. Phases'
  BY <1>1, <1>3, <1>12, PhasesKept DEF ProgInv, Control
<1> QED
  BY <1>11, <1>13, <1>14, <1>15, <1>16, <1>18, <1>19, <1>20 DEF ProgInv, Data, Control

\* fulfill: the result is the value of the node, and of whoever owes that
\* promise there is one.
LEMMA FulfilProg ==
    ASSUME PromisesAssumption, TasksInv, ClientInv, ProgInv, NEW w \in Workers, Fulfil(w)
    PROVE  ProgInv'
<1> DEFINE c == cur[w]  t == prog[c]  s == t.promise  previous == promise[s].state
           place == IF previous \in Tasks THEN "wake" ELSE "return"
           u == [t EXCEPT !.at = place, !.waker = previous]
           e == Fulfilment(t).result
<1>1. /\ pc[w] = "running" /\ t.at = "body" /\ ~Forking(t) /\ ~Awaiting(t)
      /\ promise' = [promise EXCEPT ![s] = Fulfilment(t)]
      /\ prog' = [prog EXCEPT ![c].at = place, ![c].waker = previous]
      /\ UNCHANGED <<pc, cur, style, polling, allocated, asleep, scheduled, resume>>
  BY DEF Fulfil, At, Me, vars
<1>2. /\ c \in Tasks /\ c \in allocated /\ c \notin asleep /\ IsProg(t) /\ s \in PromiseIds
      /\ \A v \in Workers \ {w} : pc[v] \in HandLabels => cur[v] \in Tasks \ {c}
      /\ allocated \subseteq Tasks /\ asleep \subseteq Tasks \ {c}
  BY <1>1, Hands DEF HandLabels, ClientInv, Shapes, TasksInv, Types
<1>3. /\ u.num = t.num /\ u.promise = s /\ u.started = t.started /\ u.awaited = t.awaited
      /\ u.sum = t.sum /\ u.at = place /\ u.waker = previous
  BY <1>2 DEF IsProg, Fields
<1>4. prog'[c] = u /\ \A k \in Tasks \ {c} : prog'[k] = prog[k]
  BY <1>1, <1>2 DEF ClientInv, Shapes
<1>5. /\ promise'[s].state = FULFILLED /\ promise'[s].result = e
      /\ \A q \in PromiseIds \ {s} : promise'[q] = promise[q]
  BY <1>1, <1>2 DEF ClientInv, Shapes, Fulfilment
<1>6. Computing(t)
  BY <1>2 DEF ProgInv, Data, Bodies
<1>7. scheduled = 1 /\ Phases'
  <2>1. promise[Root].state = FULFILLED => promise'[Root].state = FULFILLED
    BY <1>5, PromisesTree
  <2> QED
    BY <1>1, <2>1, PhasesKept DEF ProgInv, Control
<1>8. 2 * e = Value2(Branching, Depth, t.num) /\ e \in Nat
  <2>1. IsNode(Branching, Depth, t.num) /\ t.num \in Nat /\ t.sum \in Nat
        /\ LastLayer = LastLayerOf(Branching, Depth) /\ LastLayer \in Nat
    BY <1>6, ComputingFacts, PromisesTree DEF Computing
  <2>2. CASE IsLeaf(t)
    <3>1. e = t.num - LastLayerOf(Branching, Depth) /\ t.num >= LastLayerOf(Branching, Depth)
      BY <1>6, <2>1, <2>2, ComputingFacts DEF Fulfilment
    <3> HIDE DEF e, t
    <3> QED
      BY <2>1, <3>1, LeafValue, PromisesTree
  <2>3. CASE ~IsLeaf(t)
    <3>1. e = t.sum /\ t.num < LastLayerOf(Branching, Depth) /\ t.awaited = Branching
      BY <1>1, <1>6, <2>3, ComputingFacts DEF Fulfilment
    <3>2. 2 * t.sum = Partial2(Branching, Depth, t.num, t.awaited)
      BY <1>6, <2>3 DEF Computing
    <3> HIDE DEF e, t
    <3> QED
      BY <2>1, <3>1, <3>2, AllChildren, PromisesTree
  <2> QED
    BY <2>2, <2>3
<1>9. Indebted(c) /\ NodeOwed(c) /\ previous # FULFILLED
  BY <1>1, <1>2 DEF Indebted, ProgInv, Data, Debts
<1>10. /\ s = Root => t.num = 1
       /\ \A k \in Tasks, i \in 0..(Branching - 1) : s = <<k, i>> =>
             k \in allocated /\ i < prog[k].started /\ t.num = prog[k].num * Branching + i
  <2>1. s = Root => t.num = 1
    BY <1>2, <1>9, PromisesTree DEF NodeOwed
  <2>2. ASSUME NEW k \in Tasks, NEW i \in 0..(Branching - 1), s = <<k, i>>
        PROVE  k \in allocated /\ i < prog[k].started /\ t.num = prog[k].num * Branching + i
    <3>1. s # Root
      BY <2>2, PromisesTree
    <3>2. PICK p \in allocated, m \in 0..(Branching - 1) :
             s = <<p, m>> /\ m < prog[p].started /\ t.num = prog[p].num * Branching + m
      BY <1>9, <3>1 DEF NodeOwed
    <3> QED
      BY <2>2, <3>2
  <2> QED
    BY <2>1, <2>2
<1> HIDE DEF c, t, s, previous, place, u, e
<1>11. \A k \in Tasks : /\ prog'[k].num = prog[k].num /\ prog'[k].promise = prog[k].promise
                        /\ prog'[k].started = prog[k].started /\ prog'[k].awaited = prog[k].awaited
  BY <1>3, <1>4 DEF t, s
<1>12. Bodies'
  <2>1. Computing(u)
    BY <1>1, <1>3, <1>6 DEF Computing, IsLeaf, Forking, Awaiting, place
  <2> QED
    BY <1>1, <1>2, <1>4, <2>1, ComputingNext DEF ProgInv, Data, Bodies
<1>13. Slots'
  <2>1. ASSUME NEW k \in allocated, NEW i \in 0..(Branching - 1), i < prog[k].started
        PROVE  Slot(k, i)'
    <3>1. k \in Tasks /\ <<k, i>> \in PromiseIds /\ Slot(k, i)
      BY <1>2, <2>1, PromisesTree DEF ProgInv, Data, Slots
    <3>2. CASE <<k, i>> = s
      <4>1. t.num = prog[k].num * Branching + i
        BY <1>10, <3>1, <3>2
      <4>2. promise'[<<k, i>>].state = FULFILLED /\ promise'[<<k, i>>].result = e
        BY <1>5, <3>2
      <4>3. 2 * e = Value2(Branching, Depth, prog'[k].num * Branching + i) /\ FULFILLED # k
        BY <1>8, <1>11, <3>1, <4>1, PromisesTree
      <4> QED
        BY <1>8, <4>2, <4>3 DEF Slot
    <3>3. CASE <<k, i>> # s
      BY <1>1, <1>5, <1>11, <3>1, <3>3 DEF Slot
    <3> QED
      BY <3>2, <3>3
  <2>2. /\ promise'[Root].state \in {EMPTY, FULFILLED}
        /\ promise'[Root].state = FULFILLED => 2 * promise'[Root].result = Value2(Branching, Depth, 1)
    <3>1. CASE s = Root
      BY <1>5, <1>8, <1>10, <3>1
    <3>2. CASE s # Root
      BY <1>5, <3>2, PromisesTree DEF ProgInv, Data, Slots
    <3> QED
      BY <3>1, <3>2
  <2> QED
    BY <1>1, <1>2, <1>11, <2>1, <2>2 DEF Slots
<1>14. \A k \in Tasks : Indebted(k)' => Indebted(k) /\ k # c
  BY <1>1, <1>2, <1>3, <1>4 DEF Indebted, place
<1>15. \A k \in Tasks : Indebted(k) /\ k # c => Indebted(k)' /\ prog[k].promise # s
  <2>1. \A k \in Tasks : Indebted(k) /\ k # c => Indebted(k)'
    BY <1>1, <1>4 DEF Indebted
  <2>2. \A k \in Tasks : Indebted(k) /\ k # c => prog[k].promise # prog[c].promise
    BY <1>2, <1>7, <1>9 DEF ProgInv, Data, Debts
  <2> QED
    BY <2>1, <2>2 DEF s, t
<1>16. Debts'
  <2>1. ASSUME NEW k \in Tasks, Indebted(k)'
        PROVE  NodeOwed(k)' /\ promise'[prog'[k].promise].state # FULFILLED
    <3>1. Indebted(k) /\ prog[k].promise # s
      BY <1>14, <1>15, <2>1
    <3>2. NodeOwed(k) /\ promise[prog[k].promise].state # FULFILLED
      BY <3>1 DEF ProgInv, Data, Debts
    <3>3. NodeOwed(k)'
      <4>1. prog'[k].num = prog[k].num /\ prog'[k].promise = prog[k].promise
        BY <1>11
      <4>2. CASE prog[k].promise = Root /\ prog[k].num = 1
        BY <4>1, <4>2 DEF NodeOwed
      <4>3. CASE \E p \in allocated, i \in 0..(Branching - 1) :
                    /\ prog[k].promise = <<p, i>> /\ i < prog[p].started
                    /\ prog[k].num = prog[p].num * Branching + i
        <5>1. PICK p \in allocated, i \in 0..(Branching - 1) :
                 /\ prog[k].promise = <<p, i>> /\ i < prog[p].started
                 /\ prog[k].num = prog[p].num * Branching + i
          BY <4>3
        <5>2. prog'[p].num = prog[p].num /\ prog'[p].started = prog[p].started /\ p \in allocated'
          BY <1>1, <1>2, <1>11
        <5>3. /\ prog'[k].promise = <<p, i>> /\ i < prog'[p].started
              /\ prog'[k].num = prog'[p].num * Branching + i
          BY <4>1, <5>1, <5>2
        <5> QED
          BY ONLY <5>2, <5>3 DEF NodeOwed
      <4> QED
        BY <3>2, <4>2, <4>3 DEF NodeOwed
    <3>4. prog[k].promise \in PromiseIds
      BY DEF ClientInv, Shapes
    <3> QED
      BY <1>5, <1>11, <3>1, <3>2, <3>3, <3>4
  <2>2. \A j, k \in Tasks :
           Indebted(j)' /\ Indebted(k)' /\ prog'[j].promise = prog'[k].promise => j = k
    BY <1>7, <1>11, <1>14 DEF ProgInv, Data, Debts
  <2>3. \/ promise'[Root].state = FULFILLED
        \/ \E k \in Tasks : Indebted(k)' /\ prog'[k].promise = Root
    <3>1. CASE s = Root
      BY <1>5, <3>1
    <3>2. CASE s # Root
      <4>1. \/ promise[Root].state = FULFILLED
            \/ \E k \in Tasks : Indebted(k) /\ prog[k].promise = Root
        BY <1>7 DEF ProgInv, Data, Debts
      <4>2. promise'[Root] = promise[Root]
        BY <1>5, <3>2, PromisesTree
      <4>3. \A k \in Tasks : prog[k].promise = Root => k # c
        BY <3>2 DEF s, t
      <4> QED
        BY <1>11, <1>15, <4>1, <4>2, <4>3
    <3> QED
      BY <3>1, <3>2
  <2> QED
    BY <2>1, <2>2, <2>3 DEF Debts
<1>17. \A v \in Workers \ {w} : pc[v] \in HandLabels => prog'[cur[v]] = prog[cur[v]]
  BY <1>2, <1>4
<1>18. \A q \in PromiseIds : promise[q].state = FULFILLED => promise'[q].state = FULFILLED
  BY <1>5
<1>19. Forks'
  <2> SUFFICES ASSUME NEW v \in Workers, pc[v] = "fork"
               PROVE  /\ Forking(prog'[cur[v]]) /\ prog'[cur[v]].at = "body"
                      /\ promise'[<<cur[v], prog'[cur[v]].started>>].state = EMPTY
    BY <1>1 DEF Forks, Me, Forking, IsLeaf, LastLayer
  <2>1. v # w /\ prog'[cur[v]] = prog[cur[v]] /\ cur[v] \in Tasks /\ cur[v] \in allocated
    BY <1>1, <1>17, Hands DEF HandLabels
  <2>2. /\ Forking(prog[cur[v]]) /\ prog[cur[v]].at = "body"
        /\ promise[<<cur[v], prog[cur[v]].started>>].state = EMPTY
    BY DEF ProgInv, Control, Forks, Me
  <2>3. prog[cur[v]].started \in 0..(Branching - 1)
    BY <2>1, <2>2, ComputingFacts DEF ProgInv, Data, Bodies
  <2>4. s # <<cur[v], prog[cur[v]].started>>
    BY <1>10, <2>1, <2>3
  <2>5. promise'[<<cur[v], prog[cur[v]].started>>] = promise[<<cur[v], prog[cur[v]].started>>]
    BY <1>5, <2>1, <2>3, <2>4, PromisesTree
  <2> QED
    BY <2>1, <2>2, <2>5
<1>20. Ends'
  <2>1. ASSUME NEW k \in allocated, prog'[k].at \in {"wake", "return"}
        PROVE  \E v \in Workers : Ending(v)' /\ cur[v] = k
    <3>1. CASE k = c
      BY <1>1, <3>1 DEF Ending, c
    <3>2. CASE k # c
      BY <1>1, <1>2, <1>4, <2>1, <3>2 DEF ProgInv, Control, Ends, Ending
    <3> QED
      BY <3>1, <3>2
  <2>2. ASSUME NEW v \in Workers, pc[v] \in {"wake", "release"}
        PROVE  prog'[cur[v]].at \in {"wake", "return"} /\ (pc[v] = "wake" => ~resume[v])
    <3>1. v # w /\ prog'[cur[v]] = prog[cur[v]]
      BY <1>1, <1>17, <2>2 DEF HandLabels
    <3> QED
      BY <2>2, <3>1 DEF ProgInv, Control, Ends, Me
  <2> QED
    BY <1>1, <2>1, <2>2 DEF Ends, Me
<1>21. \A v \in Workers : At(v, "wake")' =>
          \/ v = w /\ place = "wake"
          \/ At(v, "wake") /\ v # w /\ prog'[cur[v]] = prog[cur[v]]
  <2>1. ASSUME NEW v \in Workers, At(v, "wake")'
        PROVE  \/ v = w /\ place = "wake"
               \/ At(v, "wake") /\ v # w /\ prog'[cur[v]] = prog[cur[v]]
    <3>1. pc[v] = "running" /\ prog'[cur[v]].at = "wake"
      BY <1>1, <2>1 DEF At, Me
    <3>2. CASE v = w
      BY <1>3, <1>4, <3>1, <3>2 DEF c
    <3>3. CASE v # w
      BY <1>17, <3>1, <3>3 DEF At, Me, HandLabels
    <3> QED
      BY <3>2, <3>3
  <2> QED
    BY ONLY <2>1
<1>22. place = "wake" => /\ previous \in asleep
                         /\ s = <<previous, prog[previous].awaited>>
  <2> SUFFICES ASSUME place = "wake"
               PROVE  previous \in asleep /\ s = <<previous, prog[previous].awaited>>
    OBVIOUS
  <2>1. previous \in Tasks
    BY DEF place
  <2>2. s # Root
    BY <2>1, PromisesTree DEF previous, ProgInv, Data, Slots
  <2>3. PICK k \in Tasks, i \in 0..(Branching - 1) : s = <<k, i>>
    BY <1>2, <2>2 DEF PromiseIds
  <2>4. k \in allocated /\ i < prog[k].started
    BY <1>10, <2>3
  <2>5. Slot(k, i)
    BY <2>4 DEF ProgInv, Data, Slots
  <2>6. previous = promise[<<k, i>>].state
    BY <2>3 DEF previous
  <2> QED
    BY <2>1, <2>3, <2>5, <2>6, PromisesTree DEF Slot
<1>23. Wakes'
  <2>1. prog'[cur[w]].waker = previous /\ prog'[cur[w]].promise = s
    BY <1>3, <1>4 DEF c
  <2>2. ASSUME NEW v \in Workers, At(v, "wake"), v # w
        PROVE  /\ prog[cur[v]].waker \in asleep
               /\ prog[cur[v]].promise = <<prog[cur[v]].waker, prog[prog[cur[v]].waker].awaited>>
               /\ promise[prog[cur[v]].promise].state = FULFILLED
               /\ prog[cur[v]].promise \in PromiseIds
               /\ promise'[prog[cur[v]].promise].state = FULFILLED
    <3>1. /\ prog[cur[v]].waker \in asleep
          /\ prog[cur[v]].promise = <<prog[cur[v]].waker, prog[prog[cur[v]].waker].awaited>>
          /\ promise[prog[cur[v]].promise].state = FULFILLED
      BY <2>2 DEF ProgInv, Control, Wakes, Me
    <3>2. prog[cur[v]].promise \in PromiseIds
      BY <2>2, Hands DEF At, HandLabels, ClientInv, Shapes
    <3> QED
      BY <1>18, <3>1, <3>2
  <2>3. ASSUME NEW v \in Workers, At(v, "wake")'
        PROVE  /\ prog'[cur[v]].waker \in asleep
               /\ prog'[cur[v]].promise
                     = <<prog'[cur[v]].waker, prog'[prog'[cur[v]].waker].awaited>>
               /\ promise'[prog'[cur[v]].promise].state = FULFILLED
    <3>1. CASE v = w /\ place = "wake"
      BY <1>2, <1>5, <1>11, <1>22, <2>1, <3>1
    <3>2. CASE At(v, "wake") /\ v # w /\ prog'[cur[v]] = prog[cur[v]]
      <4>1. prog[cur[v]].waker \in Tasks
        BY <1>2, <2>2, <3>2
      <4> QED
        BY <1>11, <2>2, <3>2, <4>1
    <3> QED
      BY <1>21, <2>3, <3>1, <3>2
  <2>4. ASSUME NEW v \in Workers, At(v, "wake"), v # w, place = "wake" PROVE prog[cur[v]].waker # previous
    BY <1>9, <1>22, <2>2, <2>4 DEF previous
  <2>5. ASSUME NEW x \in Workers, NEW v \in Workers, At(x, "wake")', At(v, "wake")',
               prog'[cur[x]].waker = prog'[cur[v]].waker
        PROVE  x = v
    <3>1. CASE x = w /\ v # w
      BY <1>21, <2>1, <2>4, <2>5, <3>1
    <3>2. CASE x # w /\ v = w
      BY <1>21, <2>1, <2>4, <2>5, <3>2
    <3>3. CASE x # w /\ v # w
      <4>1. prog[cur[x]].waker = prog[cur[v]].waker /\ At(x, "wake") /\ At(v, "wake")
        BY <1>21, <2>5, <3>3
      <4> QED
        BY <4>1 DEF ProgInv, Control, Wakes, Me
    <3> QED
      BY <3>1, <3>2, <3>3
  <2>6. asleep' = asleep /\ cur' = cur
    BY <1>1
  <2>7. (\A v \in Workers : At(v, "wake") =>
          /\ Me(v).waker \in asleep
          /\ Me(v).promise = <<Me(v).waker, prog[Me(v).waker].awaited>>
          /\ promise[Me(v).promise].state = FULFILLED)'
    BY ONLY <2>3, <2>6 DEF Me
  <2>8. (\A x, v \in Workers :
          At(x, "wake") /\ At(v, "wake") /\ Me(x).waker = Me(v).waker => x = v)'
    BY ONLY <2>5, <2>6 DEF Me
  <2> QED
    BY ONLY <2>7, <2>8 DEF Wakes
<1>24. Waits'
  <2> SUFFICES ASSUME NEW k \in allocated
               PROVE  /\ prog'[k].at = "sleep" => style = "sleep"
                      /\ prog'[k].at = "waiting" => Waited(k)'
    BY <1>1 DEF Waits
  <2>1. CASE k = c
    BY <1>3, <1>4, <2>1 DEF place
  <2>2. CASE k # c
    <3>1. prog'[k] = prog[k] /\ k \in Tasks
      BY <1>2, <1>4, <2>2
    <3>2. ASSUME prog[k].at = "waiting" PROVE Waited(k)'
      <4>1. Waited(k) /\ Awaiting(prog[k]) /\ Computing(prog[k])
        BY <3>2 DEF ProgInv, Control, Waits, Data, Bodies, Computing
      <4>2. <<k, prog[k].awaited>> \in PromiseIds
        BY <3>1, <4>1, ComputingFacts, PromisesTree
      <4>3. promise[<<k, prog[k].awaited>>].state = FULFILLED =>
               promise'[<<k, prog[k].awaited>>].state = FULFILLED
        BY <1>18, <4>2
      <4> QED
        BY <1>1, <3>1, <4>1, <4>3 DEF Waited
    <3> QED
      BY <3>1, <3>2 DEF ProgInv, Control, Waits
  <2> QED
    BY <2>1, <2>2
<1> QED
  BY <1>7, <1>12, <1>13, <1>16, <1>19, <1>20, <1>23, <1>24 DEF ProgInv, Data, Control

LEMMA WakeWaiterProg ==
    ASSUME PromisesAssumption, TasksInv, IsFiniteSet(allocated), ClientInv, ProgInv,
           NEW w \in Workers, WakeWaiter(w)
    PROVE  ProgInv'
<1> DEFINE k == prog[cur[w]].waker
<1>1. /\ At(w, "wake") /\ pc[w] = "running" /\ pc' = [pc EXCEPT ![w] = "wake"]
      /\ UNCHANGED <<style, prog, promise, cur, polling, allocated, scheduled>>
      /\ wakers'[w] = <<k>> /\ ~resume'[w]
      /\ \A v \in Workers \ {w} : resume'[v] = resume[v]
  <2>1. Wake(w) /\ At(w, "wake") /\ UNCHANGED clientProgram
    BY DEF WakeWaiter
  <2>2. wakers'[w] = <<k>> /\ ~resume'[w]
    BY DEF WakeWaiter, Me
  <2>3. \A v \in Workers \ {w} : resume'[v] = resume[v]
    BY <2>1 DEF Wake, TasksInv, Types
  <2> QED
    BY <2>1, <2>2, <2>3 DEF Wake, Request, Goto, clientProgram, taskVars
<1>2. PICK S \in SUBSET asleep :
            /\ asleep' = asleep \ S
            /\ \E o \in Orders(S) : wakers' = [wakers EXCEPT ![w] = o]
  BY DEF WakeWaiter, Wake
<1>3. PICK o \in Orders(S) : wakers' = [wakers EXCEPT ![w] = o]
  BY <1>2
<1>4. S \in SUBSET Tasks /\ IsFiniteSet(S) /\ o = <<k>>
  <2>1. S \in SUBSET Tasks
    BY <1>2 DEF TasksInv, Types
  <2>2. o = <<k>>
    <3>1. wakers'[w] = o
      BY <1>3 DEF TasksInv, Types
    <3> HIDE DEF k
    <3> QED
      BY <1>1, <3>1
  <2>3. S \subseteq allocated
    BY <1>2, Hands
  <2> QED
    BY <2>1, <2>2, <2>3, FS_Subset
<1>5. \A x : Has(<<k>>, x) <=> x = k
  <2> HIDE DEF k
  <2> QED
    BY DEF Has
<1>6. S = {k}
  <2>1. \A x : x \in S <=> x = k
    BY <1>4, <1>5, OrderHas
  <2> QED
    BY <2>1
<1>7. asleep' = asleep \ {k}
  BY <1>2, <1>6
<1>8. /\ pc'[w] = "wake" /\ \A v \in Workers \ {w} : pc'[v] = pc[v]
  BY <1>1 DEF TasksInv, Types
<1>9. /\ k \in asleep /\ prog[cur[w]].promise = <<k, prog[k].awaited>>
      /\ promise[<<k, prog[k].awaited>>].state = FULFILLED
      /\ prog[cur[w]].at = "wake"
  BY <1>1 DEF ProgInv, Control, Wakes, At, Me
<1> HIDE DEF k
<1>10. allocated \subseteq Tasks
  BY DEF TasksInv, Types
<1>11. Bodies'
  BY <1>1, ComputingNext DEF ProgInv, Data, Bodies
<1>12. Slots'
  <2>1. ASSUME NEW j \in allocated, NEW i \in 0..(Branching - 1), i < prog[j].started
        PROVE  Slot(j, i)'
    <3>1. Slot(j, i) /\ j # FULFILLED
      BY <1>10, <2>1, PromisesTree DEF ProgInv, Data, Slots
    <3>2. promise[<<j, i>>].state = j => j # k
      BY <1>9, <3>1 DEF Slot
    <3> QED
      BY <1>1, <1>7, <3>1, <3>2 DEF Slot
  <2> QED
    BY <1>1, <2>1 DEF ProgInv, Data, Slots
<1>13. Debts'
  <2>1. \A j \in Tasks : (Indebted(j)' <=> Indebted(j)) /\ (NodeOwed(j)' <=> NodeOwed(j))
    BY <1>1 DEF Indebted, NodeOwed
  <2> QED
    BY <1>1, <2>1 DEF ProgInv, Data, Debts
<1>14. Forks'
  BY <1>1, <1>8 DEF ProgInv, Control, Forks, Me, Forking, IsLeaf, LastLayer
<1>15. Ends'
  <2>1. \A v \in Workers : Ending(v) => Ending(v)'
    BY <1>1, <1>8 DEF Ending
  <2>2. ASSUME NEW v \in Workers, pc'[v] \in {"wake", "release"}
        PROVE  prog[cur[v]].at \in {"wake", "return"} /\ (pc'[v] = "wake" => ~resume'[v])
    <3>1. CASE v = w
      BY <1>1, <1>9, <3>1
    <3>2. CASE v # w
      BY <1>1, <1>8, <2>2, <3>2 DEF ProgInv, Control, Ends, Me
    <3> QED
      BY <3>1, <3>2
  <2> QED
    BY <1>1, <2>1, <2>2 DEF ProgInv, Control, Ends, Me
<1>16. Wakes'
  <2>1. ASSUME NEW v \in Workers, At(v, "wake")'
        PROVE  v # w /\ At(v, "wake") /\ prog[cur[v]].waker # k
    <3>1. v # w /\ At(v, "wake")
      BY <1>1, <1>8, <2>1 DEF At, Me
    <3>2. prog[cur[v]].waker # prog[cur[w]].waker
      BY <1>1, <3>1 DEF ProgInv, Control, Wakes, Me
    <3> QED
      BY <3>1, <3>2 DEF k
  <2>2. ASSUME NEW v \in Workers, At(v, "wake")'
        PROVE  /\ prog[cur[v]].waker \in asleep'
               /\ prog[cur[v]].promise = <<prog[cur[v]].waker, prog[prog[cur[v]].waker].awaited>>
               /\ promise[prog[cur[v]].promise].state = FULFILLED
    BY <1>7, <2>1, <2>2 DEF ProgInv, Control, Wakes, Me
  <2>3. ASSUME NEW u \in Workers, NEW v \in Workers, At(u, "wake")', At(v, "wake")',
               prog[cur[u]].waker = prog[cur[v]].waker
        PROVE  u = v
    BY <2>1, <2>3 DEF ProgInv, Control, Wakes, Me
  <2> QED
    BY <1>1, <2>2, <2>3 DEF Wakes, Me
<1>17. Waits'
  <2> SUFFICES ASSUME NEW j \in allocated, prog[j].at = "waiting" PROVE Waited(j)'
    BY <1>1 DEF ProgInv, Control, Waits
  <2>1. Waited(j)
    BY DEF ProgInv, Control, Waits
  <2>2. \A v \in Workers : pc[v] = "sleep" => pc'[v] = "sleep"
    BY <1>1, <1>8
  <2> QED
    BY <1>1, <1>7, <1>9, <2>1, <2>2 DEF Waited
<1>18. Phases'
  BY <1>1, <1>8, PhasesKept DEF ProgInv, Control
<1> QED
  BY <1>11, <1>12, <1>13, <1>14, <1>15, <1>16, <1>17, <1>18 DEF ProgInv, Data, Control

LEMMA ProgInit == ASSUME PromisesAssumption, PromisesInit PROVE ProgInv
<1>1. /\ allocated = {} /\ scheduled = 0 /\ Before
      /\ \A w \in Workers : pc[w] \in {"setup", "new"}
      /\ promise[Root].state = EMPTY
  <2>1. 0 \in Workers
    BY ScheffAssumption DEF Workers
  <2> QED
    BY <2>1, PromisesTree DEF PromisesInit, Init, Before
<1>2. Data
  BY <1>1, PromisesTree DEF Data, Bodies, Slots, Debts, Indebted
<1>3. Control
  BY <1>1, PromisesTree DEF Control, Forks, Ends, Wakes, At, Waits, Phases, Before
<1> QED
  BY <1>2, <1>3 DEF ProgInv

LEMMA ProgStutter == ASSUME ProgInv, UNCHANGED allVars PROVE ProgInv'
<1>1. UNCHANGED <<style, prog, promise, pc, cur, polling, allocated, asleep, scheduled, resume>>
  BY DEF allVars, vars, clientVars, clientProgram
<1>2. Data'
  BY <1>1, DataSame DEF ProgInv
<1>3. Control'
  <2>1. Forks'
    BY <1>1 DEF ProgInv, Control, Forks, Me, Forking, IsLeaf, LastLayer
  <2>2. Ends'
    BY <1>1 DEF ProgInv, Control, Ends, Me, Ending
  <2>3. Wakes'
    BY <1>1 DEF ProgInv, Control, Wakes, Me, At
  <2>4. Waits'
    BY <1>1 DEF ProgInv, Control, Waits, Waited
  <2>5. Phases'
    BY <1>1 DEF ProgInv, Control, Phases, Before
  <2> QED
    BY <2>1, <2>2, <2>3, <2>4, <2>5 DEF Control
<1> QED
  BY <1>2, <1>3 DEF ProgInv

LEMMA ProgStep ==
    ASSUME PromisesAssumption, Inv, ClientInv, ProgInv, [PromisesNext]_allVars
    PROVE  ProgInv'
<1>1. TasksInv /\ IsFiniteSet(allocated)
  BY DEF Inv, Counted
<1>2. CASE PromisesDone \/ UNCHANGED allVars
  BY <1>2, ProgStutter DEF PromisesDone, Done, allVars
<1>3. ASSUME NEW w \in Workers, Scheduler(w) PROVE ProgInv'
  <2>1. CASE Release(w)
    BY <1>1, <1>3, <2>1, ReleaseProg DEF Scheduler
  <2>2. CASE ~Release(w)
    BY <1>1, <1>3, <2>2, SchedulerProg
  <2> QED
    BY <2>1, <2>2
<1>4. ASSUME NEW w \in Workers, Task(w) PROVE ProgInv'
  BY <1>1, <1>4, ForkChildProg, MakeChildProg, AwaitProg, WaitProg, PublishProg, SchedulerProg,
     ContinueProg, FulfilProg, WakeWaiterProg, ReturnNullProg DEF Task
<1> QED
  BY <1>1, <1>2, <1>3, <1>4, ScheduleRootProg, RunItProg DEF PromisesNext

LEMMA ProgTotals == ASSUME PromisesAssumption, ProgInv PROVE PromisesTotal
<1> SUFFICES ASSUME pc[0] = "done"
             PROVE  /\ promise[Root].state = FULFILLED
                    /\ 2 * promise[Root].result = LastLayer * (LastLayer - 1)
  BY DEF PromisesTotal
<1>1. promise[Root].state = FULFILLED
  BY DEF ProgInv, Control, Phases
<1>2. 2 * promise[Root].result = Value2(Branching, Depth, 1)
  BY <1>1 DEF ProgInv, Data, Slots
<1> QED
  BY <1>1, <1>2, PromisesTree, RootValue

----------------------------------------------------------------------------
(* The programs together, again.                                           *)

\* What each has summed so far, while it runs.
SkynetSums ==
    /\ program = "async" => AsyncSums
    /\ program = "promises" => ProgInv
    /\ program = "seq" => SeqSums

LEMMA SkynetSumsInit == SkynetInit => SkynetSums
<1>1. CASE program = "async" /\ A!Init
  BY <1>1, SkynetAssumption, AsyncSumsInit DEF SkynetSums
<1>2. CASE program = "promises" /\ PromisesInit
  BY <1>2, SkynetAssumption, ProgInit DEF SkynetSums
<1>3. CASE program = "seq" /\ SQ!Init
  BY <1>3, SkynetAssumption, SeqSumsInit DEF SkynetSums
<1> QED
  BY <1>1, <1>2, <1>3 DEF SkynetInit

LEMMA SkynetSumsStep == SkynetInv /\ SkynetSums /\ [SkynetNext]_skynetVars => SkynetSums'
<1> SUFFICES ASSUME SkynetInv, SkynetSums, [SkynetNext]_skynetVars PROVE SkynetSums'
  OBVIOUS
<1>1. /\ program' = program /\ [A!Next]_A!vars
      /\ [PromisesNext]_allVars /\ [SQ!Next]_SQ!vars
  <2>1. UNCHANGED asyncVars => UNCHANGED A!vars
    BY DEF asyncVars, A!vars
  <2>2. UNCHANGED seqVars => UNCHANGED SQ!vars
    BY DEF seqVars, SQ!vars
  <2> QED
    BY <2>1, <2>2 DEF SkynetNext, skynetVars, AsyncStep, PromisesStep, SeqStep
<1>2. CASE program = "async"
  BY <1>1, <1>2, SkynetAssumption, AsyncSumsStep DEF SkynetInv, SkynetSums
<1>3. CASE program = "promises"
  BY <1>1, <1>3, SkynetAssumption, ProgStep DEF SkynetInv, SkynetSums
<1>4. CASE program = "seq"
  BY <1>1, <1>4, SkynetAssumption, SeqSumsStep DEF SkynetInv, SkynetSums
<1> QED
  BY <1>2, <1>3, <1>4 DEF SkynetInv, SkynetSums

LEMMA SkynetSumsInvariance == SkynetSpec => []SkynetSums
BY SkynetSumsInit, SkynetSumsStep, SkynetInvariance, PTL DEF SkynetSpec

\* Whichever program runs, when main prints its total that is the sum
\* of the numbers of the leaves, 0 to LastLayer - 1, for every branching factor
\* and depth: no child is added twice or left out, and no result is read
\* before it is there.  Of libseff_async_tk.c it says so of the runs in which
\* no ticket queue has to grow.
THEOREM SkynetTotalIsRight == SkynetSpec => []TotalIsRight
<1>1. SkynetInv /\ SkynetSums => TotalIsRight
  BY SkynetAssumption, AsyncTotals, ProgTotals, SeqTotals
     DEF SkynetInv, SkynetSums, TotalIsRight
<1> QED
  BY <1>1, SkynetInvariance, SkynetSumsInvariance, PTL
=============================================================================
