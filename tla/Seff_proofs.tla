---------------------------- MODULE Seff_proofs -----------------------------
(***************************************************************************)
(* Safety of module Seff, for any numbers of coroutines, threads and       *)
(* effects.                                                                *)
(***************************************************************************)
EXTENDS MCSeff, FiniteSetTheorems, SequenceTheorems,
        WellFoundedInduction, TLAPS

USE SeffAssumption

----------------------------------------------------------------------------
(* Type correctness of a step.                                             *)

LEMMA InitTypeOK == Init => TypeOK
BY DEF Init, TypeOK, Stacks, Idle

\* A chain leads from a coroutine to values of the right types.
LEMMA LinkTypes ==
    ASSUME TypeOK,
           NEW owner \in [Coroutines -> Owners],
           NEW depth \in [Coroutines -> Nat],
           Chains(owner, depth),
           NEW t \in Threads, NEW k \in Coroutines, owner[k] = t
    PROVE  /\ parent[k] \in Coroutines \cup {NULL}
           /\ rp[k].cont \in Stacks
BY DEF TypeOK, Chains, Linked, OnThread, OnParent, Owners, Stacks

LEMMA NewType ==
    ASSUME TypeOK, NEW t \in Threads, NEW k \in Coroutines, New(t, k)
    PROVE  TypeOK'
BY DEF TypeOK, New, NewResumePoint, threadVars, Stacks

LEMMA DeleteType ==
    ASSUME TypeOK, NEW t \in Threads, NEW k \in Coroutines, Delete(t, k)
    PROVE  TypeOK'
BY DEF TypeOK, Delete, threadVars

LEMMA ResumeType ==
    ASSUME TypeOK, NEW t \in Threads, NEW k \in Coroutines,
           NEW H \in SUBSET Effects, Resume(t, k, H),
           rp[k].cont \in Stacks
    PROVE  TypeOK'
BY DEF TypeOK, Resume, ResumedPoint, StoredSystemStack

LEMMA YieldToType ==
    ASSUME TypeOK, NEW t \in Threads, NEW k \in Coroutines, YieldTo(t, k),
           parent[k] \in Coroutines \cup {NULL}, rp[k].cont \in Stacks
    PROVE  TypeOK'
<1>1. YieldedPoint(t, k) \in [cont : Stacks \cup {NULL},
                              co   : Coroutines \cup {NULL},
                              top  : Coroutines \cup {NULL}]
  BY DEF YieldedPoint, TypeOK
<1>2. Idle \in [op  : {"none", "perform", "throw"},
               eff : Effects \cup {ReturnEffect},
               co  : Coroutines \cup {NULL}]
  BY DEF Idle
<1>3. rp[k].top \in Coroutines \cup {NULL}
  BY DEF TypeOK
<1> QED
  BY <1>1, <1>2, <1>3 DEF TypeOK, YieldTo, SwitchTo

LEMMA ExitToType ==
    ASSUME TypeOK, NEW t \in Threads, NEW k \in Coroutines, ExitTo(t, k),
           parent[k] \in Coroutines \cup {NULL}, rp[k].cont \in Stacks
    PROVE  TypeOK'
<1>1. ExitedPoint(k) \in [cont : Stacks \cup {NULL},
                          co   : Coroutines \cup {NULL},
                          top  : Coroutines \cup {NULL}]
  <2>1. CASE NDEBUG
    BY <2>1 DEF ExitedPoint, TypeOK
  <2>2. CASE ~NDEBUG
    <3>1. ExitedPoint(k) = [rp[k] EXCEPT !.cont = NULL]
      BY <2>2, Zenon DEF ExitedPoint
    <3>2. rp[k] \in [cont : Stacks \cup {NULL},
                     co   : Coroutines \cup {NULL},
                     top  : Coroutines \cup {NULL}]
      BY DEF TypeOK
    <3> QED
      BY <3>1, <3>2
  <2> QED
    BY <2>1, <2>2
<1>2. Idle \in [op  : {"none", "perform", "throw"},
               eff : Effects \cup {ReturnEffect},
               co  : Coroutines \cup {NULL}]
  BY DEF Idle
<1>3. rp[k].top \in Coroutines \cup {NULL}
  BY DEF TypeOK
<1> QED
  BY <1>1, <1>2, <1>3 DEF TypeOK, ExitTo, SwitchTo

LEMMA RunDefaultType ==
    ASSUME TypeOK, NEW t \in Threads, NEW op \in {"perform", "throw"},
           RunDefault(t, op), walk[t].eff # ReturnEffect
    PROVE  TypeOK'
<1>1. walk[t].eff \in Effects
  BY DEF TypeOK
<1>2. defaults[walk[t].eff] \in {"null", "exit", "user"}
  BY <1>1 DEF TypeOK
<1>3. outcome' \in {"running", "exit", "crash"}
  BY <1>2 DEF RunDefault, AfterDefault
<1> QED
  BY <1>3 DEF TypeOK, RunDefault, Idle, blockVars, threadVars

----------------------------------------------------------------------------
(* The chains after a switch.                                              *)

\* A thread with a coroutine on its chain executes one.
LEMMA ThreadHasTop ==
    ASSUME NEW owner \in [Coroutines -> Owners],
           NEW depth \in [Coroutines -> Nat],
           Chains(owner, depth),
           NEW t \in Threads, NEW k \in Coroutines, owner[k] = t
    PROVE  /\ current[t] \in Coroutines
           /\ stackTop[t] = current[t]
           /\ running[t] = current[t]
           /\ owner[current[t]] = t
           /\ depth[k] <= depth[current[t]]
           /\ k \in live /\ state[k] = "PAUSED" /\ k \notin resumable
BY DEF Chains, ThreadTops, Innermost, Attached

\* seff_yield to k: k and what is above it becomes the chain of k.
LEMMA YieldToChains ==
    ASSUME TypeOK,
           NEW owner \in [Coroutines -> Owners],
           NEW depth \in [Coroutines -> Nat],
           Chains(owner, depth),
           NEW t \in Threads, NEW k \in Coroutines, owner[k] = t,
           YieldTo(t, k)
    PROVE  \E o \in [Coroutines -> Owners], d \in [Coroutines -> Nat] :
               Chains(o, d)'
<1> DEFINE Up(j) == owner[j] = t /\ depth[j] >= depth[k]
           o == [j \in Coroutines |-> IF Up(j) THEN k ELSE owner[j]]
           d == [j \in Coroutines |->
                    IF Up(j) THEN depth[j] - depth[k] ELSE depth[j]]
<1>1. o \in [Coroutines -> Owners] /\ d \in [Coroutines -> Nat]
  BY DEF Owners
<1>2. /\ current[t] \in Coroutines
      /\ stackTop[t] = current[t]
      /\ running[t] = current[t]
      /\ owner[current[t]] = t
      /\ depth[k] <= depth[current[t]]
      /\ k \in live /\ state[k] = "PAUSED" /\ k \notin resumable
  BY ThreadHasTop
<1>3. \A j \in Coroutines : owner[j] # k
  BY <1>2 DEF Chains, Attached
<1>4. /\ live' = live /\ state' = state /\ parent' = parent
      /\ resumable' = resumable \cup {k}
      /\ \A j \in Coroutines \ {k} : rp'[j] = rp[j]
      /\ rp'[k].cont = current[t] /\ rp'[k].co = current[t]
      /\ rp'[k].top = current[t]
  BY <1>2 DEF TypeOK, YieldTo, YieldedPoint
<1>5. /\ \A u \in Threads \ {t} : /\ current'[u] = current[u]
                                  /\ stackTop'[u] = stackTop[u]
                                  /\ running'[u] = running[u]
                                  /\ walk'[u] = walk[u]
      /\ current'[t] = parent[k]
      /\ stackTop'[t] = rp[k].top
      /\ running'[t] = rp[k].cont
      /\ walk'[t] = Idle
  BY DEF TypeOK, YieldTo, SwitchTo
<1>6. \A j \in Coroutines : o[j] = k <=> Up(j)
  BY <1>3
<1>7. \A j \in Coroutines : \A x : x # k => (o[j] = x <=> owner[j] = x /\ ~Up(j))
  OBVIOUS
<1>8. Attached(o)'
  BY <1>2, <1>4, <1>6 DEF Chains, Attached, Owners
<1>9. Linear(o, d)'
  BY <1>3 DEF Chains, Linear
<1>10. Linked(o, d)'
  <2> SUFFICES ASSUME NEW j \in Coroutines
               PROVE  /\ o[j] \in Threads =>
                            IF d[j] = 0 THEN OnThread(o, j)'
                                        ELSE OnParent(o, d, j)'
                      /\ o[j] \in Coroutines =>
                            IF d[j] = 0 THEN o[j] = j ELSE OnParent(o, d, j)'
    BY DEF Linked
  <2>1. CASE Up(j) /\ depth[j] = depth[k]
    BY <2>1 DEF Chains, Linear
  <2>2. CASE Up(j) /\ depth[j] > depth[k]
    <3>1. j # k /\ OnParent(owner, depth, j)
      BY <2>2 DEF Chains, Linked
    <3>2. Up(parent[j])
      BY <2>2, <3>1 DEF OnParent
    <3> QED
      BY <2>2, <3>1, <3>2, <1>4 DEF OnParent
  <2>3. CASE ~Up(j)
    <3>1. j # k /\ o[j] = owner[j] /\ d[j] = depth[j]
      BY <2>3
    <3>2. ASSUME OnParent(owner, depth, j), owner[j] # NULL
          PROVE  OnParent(o, d, j)'
      <4>1. ~Up(parent[j])
        BY <2>3, <3>2 DEF OnParent
      <4> QED
        BY <3>1, <3>2, <4>1, <1>4 DEF OnParent
    <3>3. OnThread(owner, j) => OnThread(o, j)'
      BY <3>1, <1>4 DEF OnThread
    <3> QED
      BY <3>1, <3>2, <3>3 DEF Chains, Linked
  <2> QED
    BY <2>1, <2>2, <2>3
<1>11. ThreadTops(o, d)'
  <2> SUFFICES ASSUME NEW u \in Threads
               PROVE  \/ /\ current'[u] = NULL
                         /\ stackTop'[u] = NULL
                         /\ running'[u] = u
                         /\ \A j \in Coroutines : o[j] # u
                      \/ /\ current'[u] \in Coroutines
                         /\ stackTop'[u] = current'[u]
                         /\ running'[u] = current'[u]
                         /\ Innermost(o, d, u, current'[u])
    BY DEF ThreadTops, Innermost
  <2>1. CASE u # t
    BY <2>1, <1>5, <1>7 DEF Chains, ThreadTops, Innermost
  <2>2. CASE u = t /\ depth[k] = 0
    BY <2>2, <1>5 DEF Chains, Linked, OnThread
  <2>3. CASE u = t /\ depth[k] # 0
    <3>1. OnParent(owner, depth, k)
      BY <2>3 DEF Chains, Linked
    <3>2. Innermost(o, d, t, parent[k])
      BY <3>1 DEF OnParent, Innermost
    <3> QED
      BY <2>3, <3>1, <3>2, <1>5 DEF OnParent
  <2> QED
    BY <2>1, <2>2, <2>3
<1>12. SuspendedTops(o, d)'
  <2>1. d[k] = 0 /\ Innermost(o, d, k, current[t])
    <3>1. Up(k) /\ Up(current[t])
      BY <1>2
    <3>2. \A j \in Coroutines : Up(j) => depth[j] <= depth[current[t]]
      BY <1>2 DEF Chains, ThreadTops, Innermost
    <3>3. \A j \in Coroutines : Up(j) => d[j] = depth[j] - depth[k]
      OBVIOUS
    <3>4. d[k] = 0
      BY <3>1, <3>3
    <3> HIDE DEF o, d
    <3> QED
      BY <3>1, <3>2, <3>3, <3>4, <1>2, <1>6 DEF Innermost
  <2>2. ASSUME NEW j \in resumable
        PROVE  /\ j # k
               /\ Innermost(o, d, j, rp[j].co)
               /\ d[j] = 0
    <3>1. j # k /\ j \in Coroutines /\ owner[j] = j
      BY <1>2 DEF TypeOK, Chains, Attached
    <3> QED
      BY <3>1, <1>7 DEF Chains, SuspendedTops, Innermost
  <2> QED
    BY <2>1, <2>2, <1>2, <1>4
       DEF TypeOK, Chains, SuspendedTops, Innermost
<1>13. Walking(o)'
  BY <1>5, <1>7 DEF TypeOK, Chains, Walking, Idle
<1> QED
  BY <1>1, <1>8, <1>9, <1>10, <1>11, <1>12, <1>13 DEF Chains

\* seff_exit of k: k and what is above it is on no chain any more.
LEMMA ExitToChains ==
    ASSUME TypeOK,
           NEW owner \in [Coroutines -> Owners],
           NEW depth \in [Coroutines -> Nat],
           Chains(owner, depth),
           NEW t \in Threads, NEW k \in Coroutines, owner[k] = t,
           ExitTo(t, k)
    PROVE  \E o \in [Coroutines -> Owners], d \in [Coroutines -> Nat] :
               Chains(o, d)'
<1> DEFINE Up(j) == owner[j] = t /\ depth[j] >= depth[k]
           o == [j \in Coroutines |-> IF Up(j) THEN NULL ELSE owner[j]]
<1>1. o \in [Coroutines -> Owners]
  BY DEF Owners
<1>2. k \in live /\ k \notin resumable
  BY ThreadHasTop
<1>3. \A j \in Coroutines : owner[j] # k
  BY <1>2 DEF Chains, Attached
<1>4. /\ live' = live /\ parent' = parent /\ resumable' = resumable
      /\ \A j \in Coroutines \ {k} : rp'[j] = rp[j] /\ state'[j] = state[j]
  BY DEF TypeOK, ExitTo
<1>5. /\ \A u \in Threads \ {t} : /\ current'[u] = current[u]
                                  /\ stackTop'[u] = stackTop[u]
                                  /\ running'[u] = running[u]
                                  /\ walk'[u] = walk[u]
      /\ current'[t] = parent[k]
      /\ stackTop'[t] = rp[k].top
      /\ running'[t] = rp[k].cont
      /\ walk'[t] = Idle
  BY DEF TypeOK, ExitTo, SwitchTo
<1>6. o[k] = NULL
  OBVIOUS
<1>7. \A j \in Coroutines :
         \A x : x # NULL => (o[j] = x <=> owner[j] = x /\ ~Up(j))
  OBVIOUS
<1>8. Attached(o)'
  <2>1. \A j \in Coroutines : owner[j] # NULL /\ ~Up(j) =>
                               j \in live /\ state'[j] = "PAUSED"
    BY <1>4 DEF Chains, Attached
  <2> QED
    BY <2>1, <1>4, <1>7 DEF Chains, Attached
<1>9. Linear(o, depth)'
  BY DEF Chains, Linear
<1>10. Linked(o, depth)'
  <2> SUFFICES ASSUME NEW j \in Coroutines, o[j] # NULL
               PROVE  /\ o[j] \in Threads =>
                            IF depth[j] = 0 THEN OnThread(o, j)'
                                            ELSE OnParent(o, depth, j)'
                      /\ o[j] \in Coroutines =>
                            IF depth[j] = 0 THEN o[j] = j
                                            ELSE OnParent(o, depth, j)'
    BY DEF Linked
  <2>1. ~Up(j) /\ j # k /\ o[j] = owner[j]
    OBVIOUS
  <2>2. ASSUME OnParent(owner, depth, j)
        PROVE  OnParent(o, depth, j)'
    <3>1. ~Up(parent[j])
      BY <2>1, <2>2 DEF OnParent
    <3> QED
      BY <2>1, <2>2, <3>1, <1>4 DEF OnParent
  <2>3. OnThread(owner, j) => OnThread(o, j)'
    BY <2>1, <1>4 DEF OnThread
  <2> QED
    BY <2>1, <2>2, <2>3 DEF Chains, Linked
<1>11. ThreadTops(o, depth)'
  <2> SUFFICES ASSUME NEW u \in Threads
               PROVE  \/ /\ current'[u] = NULL
                         /\ stackTop'[u] = NULL
                         /\ running'[u] = u
                         /\ \A j \in Coroutines : o[j] # u
                      \/ /\ current'[u] \in Coroutines
                         /\ stackTop'[u] = current'[u]
                         /\ running'[u] = current'[u]
                         /\ Innermost(o, depth, u, current'[u])
    BY DEF ThreadTops, Innermost
  <2>1. CASE u # t
    BY <2>1, <1>5, <1>7 DEF Chains, ThreadTops, Innermost
  <2>2. CASE u = t /\ depth[k] = 0
    BY <2>2, <1>5 DEF Chains, Linked, OnThread
  <2>3. CASE u = t /\ depth[k] # 0
    <3>1. OnParent(owner, depth, k)
      BY <2>3 DEF Chains, Linked
    <3>2. Innermost(o, depth, t, parent[k])
      BY <3>1 DEF OnParent, Innermost
    <3> QED
      BY <2>3, <3>1, <3>2, <1>5 DEF OnParent
  <2> QED
    BY <2>1, <2>2, <2>3
<1>12. SuspendedTops(o, depth)'
  <2>1. ASSUME NEW j \in resumable
        PROVE  j # k /\ Innermost(o, depth, j, rp[j].co)
    BY <1>2, <1>7 DEF TypeOK, Chains, SuspendedTops, Innermost
  <2> QED
    BY <2>1, <1>4 DEF TypeOK, Chains, SuspendedTops, Innermost
<1>13. Walking(o)'
  BY <1>5, <1>7 DEF TypeOK, Chains, Walking, Idle
<1> QED
  BY <1>1, <1>8, <1>9, <1>10, <1>11, <1>12, <1>13 DEF Chains

\* seff_resume of k: its chain is put on top of the chain of t.
LEMMA ResumeChains ==
    ASSUME TypeOK,
           NEW owner \in [Coroutines -> Owners],
           NEW depth \in [Coroutines -> Nat],
           Chains(owner, depth),
           NEW t \in Threads, NEW k \in Coroutines,
           NEW H \in SUBSET Effects,
           Resume(t, k, H)
    PROVE  \E o \in [Coroutines -> Owners], d \in [Coroutines -> Nat] :
               Chains(o, d)'
<1>1. PICK base \in Nat :
        base = IF current[t] = NULL THEN 0 ELSE depth[current[t]] + 1
  BY DEF TypeOK
<1> DEFINE o == [j \in Coroutines |-> IF owner[j] = k THEN t ELSE owner[j]]
           d == [j \in Coroutines |->
                    IF owner[j] = k THEN depth[j] + base ELSE depth[j]]
<1>2. o \in [Coroutines -> Owners] /\ d \in [Coroutines -> Nat]
  BY DEF Owners
<1>3. /\ k \in resumable /\ owner[k] = k /\ depth[k] = 0
      /\ rp[k].co \in Coroutines
      /\ rp[k].top = rp[k].co /\ rp[k].cont = rp[k].co
      /\ Innermost(owner, depth, k, rp[k].co)
  BY DEF Resume, Chains, Attached, SuspendedTops
<1>4. /\ live' = live /\ state' = state /\ resumable' = resumable \ {k}
      /\ \A j \in Coroutines \ {k} : rp'[j] = rp[j] /\ parent'[j] = parent[j]
      /\ rp'[k].cont = running[t] /\ rp'[k].top = stackTop[t]
      /\ parent'[k] = current[t]
  BY DEF TypeOK, Resume, ResumedPoint
<1>5. /\ \A u \in Threads \ {t} : /\ current'[u] = current[u]
                                  /\ stackTop'[u] = stackTop[u]
                                  /\ running'[u] = running[u]
      /\ current'[t] = rp[k].co
      /\ stackTop'[t] = rp[k].co
      /\ running'[t] = rp[k].co
      /\ walk' = walk
  BY <1>3 DEF TypeOK, Resume
<1>6. \A j \in Coroutines : \A x :
         x # t /\ x # k => (o[j] = x <=> owner[j] = x) /\ o[j] # k
  OBVIOUS
<1>7. \A j \in Coroutines : owner[j] = t => depth[j] < base
  BY <1>1 DEF TypeOK, Chains, ThreadTops, Innermost
<1>8. Attached(o)'
  BY <1>3, <1>4, <1>6 DEF Chains, Attached
<1>9. Linear(o, d)'
  <2>1. ASSUME NEW i \in Coroutines, NEW j \in Coroutines,
               owner[i] = k, owner[j] = t
        PROVE  d[i] # d[j]
    BY <2>1, <1>7
  <2> QED
    BY <2>1, <1>3 DEF Chains, Linear
<1>10. Linked(o, d)'
  <2> SUFFICES ASSUME NEW j \in Coroutines
               PROVE  /\ o[j] \in Threads =>
                            IF d[j] = 0 THEN OnThread(o, j)'
                                        ELSE OnParent(o, d, j)'
                      /\ o[j] \in Coroutines =>
                            IF d[j] = 0 THEN o[j] = j ELSE OnParent(o, d, j)'
    BY DEF Linked
  <2>1. CASE j = k /\ current[t] = NULL
    <3>1. d[k] = 0 /\ o[k] = t
      BY <2>1, <1>1, <1>3
    <3>2. running[t] = t /\ stackTop[t] = NULL
      BY <2>1 DEF Chains, ThreadTops
    <3> QED
      BY <2>1, <3>1, <3>2, <1>4 DEF OnThread
  <2>2. CASE j = k /\ current[t] # NULL
    <3>1. /\ current[t] \in Coroutines
          /\ owner[current[t]] = t
          /\ running[t] = current[t] /\ stackTop[t] = current[t]
      BY <2>2 DEF TypeOK, Chains, ThreadTops, Innermost
    <3>2. /\ d[k] = base /\ base = depth[current[t]] + 1
          /\ d[current[t]] = depth[current[t]]
          /\ o[k] = t /\ o[current[t]] = t
      BY <2>2, <3>1, <1>1, <1>3
    <3> QED
      BY <2>2, <3>1, <3>2, <1>4 DEF OnParent
  <2>3. CASE j # k
    <3>1. owner[j] = k => depth[j] # 0
      BY <2>3, <1>3 DEF Chains, Linear
    <3>2. ASSUME OnParent(owner, depth, j), owner[j] # NULL
          PROVE  OnParent(o, d, j)'
      BY <2>3, <3>2, <1>4 DEF OnParent
    <3>3. OnThread(owner, j) /\ owner[j] # k => OnThread(o, j)'
      BY <2>3, <1>4 DEF OnThread
    <3>4. d[j] = 0 <=> depth[j] = 0
      BY <3>1
    <3> QED
      BY <2>3, <3>1, <3>2, <3>3, <3>4 DEF Chains, Linked
  <2> QED
    BY <2>1, <2>2, <2>3
<1>11. ThreadTops(o, d)'
  <2>1. Innermost(o, d, t, rp[k].co)
    <3>1. o[rp[k].co] = t /\ d[rp[k].co] = depth[rp[k].co] + base
      BY <1>3 DEF Innermost
    <3>2. ASSUME NEW j \in Coroutines, o[j] = t
          PROVE  d[j] <= d[rp[k].co]
      <4>1. CASE owner[j] = k
        BY <3>1, <4>1, <1>3 DEF Innermost
      <4>2. CASE owner[j] = t
        BY <3>1, <4>2, <1>3, <1>7
      <4> QED
        BY <3>2, <4>1, <4>2
    <3> QED
      BY <3>1, <3>2 DEF Innermost
  <2>2. ASSUME NEW u \in Threads, u # t
        PROVE  \/ /\ current'[u] = NULL
                  /\ stackTop'[u] = NULL
                  /\ running'[u] = u
                  /\ \A j \in Coroutines : o[j] # u
               \/ /\ current'[u] \in Coroutines
                  /\ stackTop'[u] = current'[u]
                  /\ running'[u] = current'[u]
                  /\ Innermost(o, d, u, current'[u])
    BY <2>2, <1>5, <1>6 DEF Chains, ThreadTops, Innermost
  <2> QED
    BY <2>1, <2>2, <1>3, <1>5 DEF ThreadTops, Innermost
<1>12. SuspendedTops(o, d)'
  <2>1. ASSUME NEW j \in resumable, j # k
        PROVE  /\ j \in Coroutines
               /\ rp[j].co \in Coroutines
               /\ rp[j].top = rp[j].co /\ rp[j].cont = rp[j].co
               /\ Innermost(o, d, j, rp[j].co)
               /\ d[j] = 0
    <3>1. j \in Coroutines /\ owner[j] = j
      BY DEF TypeOK, Chains, Attached
    <3> QED
      BY <2>1, <3>1, <1>6 DEF Chains, SuspendedTops, Innermost
  <2> HIDE DEF o, d
  <2> QED
    BY <2>1, <1>4 DEF SuspendedTops, Innermost
<1>13. Walking(o)'
  BY <1>5, <1>6 DEF TypeOK, Chains, Walking
<1> QED
  BY <1>2, <1>8, <1>9, <1>10, <1>11, <1>12, <1>13 DEF Chains

\* seff_coroutine_new: a chain of one.
LEMMA NewChains ==
    ASSUME TypeOK,
           NEW owner \in [Coroutines -> Owners],
           NEW depth \in [Coroutines -> Nat],
           Chains(owner, depth),
           NEW t \in Threads, NEW k \in Coroutines,
           New(t, k)
    PROVE  \E o \in [Coroutines -> Owners], d \in [Coroutines -> Nat] :
               Chains(o, d)'
<1> DEFINE o == [owner EXCEPT ![k] = k]
           d == [depth EXCEPT ![k] = 0]
<1>1. o \in [Coroutines -> Owners] /\ d \in [Coroutines -> Nat]
  BY DEF Owners
<1>2. k \notin live /\ owner[k] = NULL /\ k \notin resumable
  BY DEF New, Chains, Attached
<1>3. \A j \in Coroutines : owner[j] # k
  BY <1>2 DEF Chains, Attached
<1>4. /\ live' = live \cup {k} /\ resumable' = resumable \cup {k}
      /\ \A j \in Coroutines \ {k} : /\ rp'[j] = rp[j]
                                     /\ parent'[j] = parent[j]
                                     /\ state'[j] = state[j]
      /\ rp'[k] = [cont |-> k, co |-> k, top |-> k] /\ state'[k] = "PAUSED"
      /\ current' = current /\ stackTop' = stackTop /\ running' = running
      /\ walk' = walk
  BY DEF TypeOK, New, NewResumePoint, threadVars
<1>5. o[k] = k /\ d[k] = 0
  OBVIOUS
<1>6. \A j \in Coroutines : j # k => o[j] = owner[j] /\ d[j] = depth[j]
  OBVIOUS
<1> HIDE DEF o, d
<1>7. Attached(o)'
  BY <1>2, <1>3, <1>4, <1>5, <1>6 DEF Chains, Attached
<1>8. Linear(o, d)'
  BY <1>2, <1>3, <1>5, <1>6 DEF Chains, Linear
<1>9. Linked(o, d)'
  <2>1. ASSUME NEW j \in Coroutines, j # k, OnParent(owner, depth, j),
               owner[j] # NULL
        PROVE  OnParent(o, d, j)'
    BY <2>1, <1>2, <1>4, <1>6 DEF OnParent
  <2>2. ASSUME NEW j \in Coroutines, j # k, OnThread(owner, j)
        PROVE  OnThread(o, j)'
    BY <2>2, <1>4, <1>6 DEF OnThread
  <2> QED
    BY <2>1, <2>2, <1>5, <1>6 DEF Chains, Linked
<1>10. ThreadTops(o, d)'
  BY <1>2, <1>4, <1>5, <1>6 DEF Chains, ThreadTops, Innermost
<1>11. SuspendedTops(o, d)'
  BY <1>2, <1>3, <1>4, <1>5, <1>6 DEF TypeOK, Chains, SuspendedTops, Innermost
<1>12. Walking(o)'
  BY <1>2, <1>4, <1>6 DEF TypeOK, Chains, Walking
<1> QED
  BY <1>1, <1>7, <1>8, <1>9, <1>10, <1>11, <1>12 DEF Chains

\* seff_coroutine_delete: the chain of k, if it has one, is forgotten.
LEMMA DeleteChains ==
    ASSUME TypeOK,
           NEW owner \in [Coroutines -> Owners],
           NEW depth \in [Coroutines -> Nat],
           Chains(owner, depth),
           NEW t \in Threads, NEW k \in Coroutines,
           Delete(t, k)
    PROVE  \E o \in [Coroutines -> Owners] : Chains(o, depth)'
<1> DEFINE o == [j \in Coroutines |-> IF owner[j] = k THEN NULL ELSE owner[j]]
<1>1. o \in [Coroutines -> Owners]
  BY DEF Owners
<1>2. /\ live' = live \ {k} /\ resumable' = resumable \ {k}
      /\ state' = state /\ parent' = parent /\ rp' = rp
      /\ current' = current /\ stackTop' = stackTop /\ running' = running
      /\ walk' = walk
  BY DEF Delete, threadVars
<1>3. o[k] = NULL
  BY DEF Delete, Chains, Attached
<1>4. \A j \in Coroutines :
         \A x : x # NULL => (o[j] = x <=> owner[j] = x /\ x # k)
  OBVIOUS
<1>5. Attached(o)'
  BY <1>2, <1>3, <1>4 DEF Chains, Attached
<1>6. Linear(o, depth)'
  BY DEF Chains, Linear
<1>7. Linked(o, depth)'
  <2>1. ASSUME NEW j \in Coroutines, o[j] # NULL, OnParent(owner, depth, j)
        PROVE  OnParent(o, depth, j)'
    BY <2>1, <1>2 DEF OnParent
  <2>2. ASSUME NEW j \in Coroutines, o[j] # NULL, OnThread(owner, j)
        PROVE  OnThread(o, j)'
    BY <2>2, <1>2 DEF OnThread
  <2> QED
    BY <2>1, <2>2 DEF Chains, Linked
<1>8. ThreadTops(o, depth)'
  BY <1>2, <1>4 DEF Chains, ThreadTops, Innermost
<1>9. SuspendedTops(o, depth)'
  BY <1>2, <1>4 DEF TypeOK, Chains, SuspendedTops, Innermost
<1>10. Walking(o)'
  BY <1>2, <1>4 DEF TypeOK, Chains, Walking
<1> QED
  BY <1>1, <1>5, <1>6, <1>7, <1>8, <1>9, <1>10 DEF Chains

\* Inside seff_locate_handler only the place of the walk changes.
LEMMA WalkChains ==
    ASSUME TypeOK,
           NEW owner \in [Coroutines -> Owners],
           NEW depth \in [Coroutines -> Nat],
           Chains(owner, depth),
           UNCHANGED <<live, state, parent, rp, threadVars, resumable>>,
           Walking(owner)'
    PROVE  Chains(owner, depth)'
BY DEF Chains, Attached, Linear, Linked, OnThread, OnParent, ThreadTops,
       SuspendedTops, Innermost, threadVars

----------------------------------------------------------------------------
(* The inductive invariant.                                                *)

LEMMA InitInv == Init => Inv
<1> SUFFICES ASSUME Init PROVE Inv
  OBVIOUS
<1>1. TypeOK
  BY InitTypeOK
<1> DEFINE o == [k \in Coroutines |-> NULL]
           d == [k \in Coroutines |-> 0]
<1>2. o \in [Coroutines -> Owners] /\ d \in [Coroutines -> Nat]
  BY DEF Owners
<1>3. Chains(o, d)
  BY DEF Init, Chains, Attached, Linear, Linked, ThreadTops, SuspendedTops,
         Walking, Idle
<1> QED
  BY <1>1, <1>2, <1>3 DEF Inv

\* A switch away from the coroutine k of t's own chain preserves Inv.
LEMMA SwitchInv ==
    ASSUME TypeOK,
           NEW owner \in [Coroutines -> Owners],
           NEW depth \in [Coroutines -> Nat],
           Chains(owner, depth),
           NEW t \in Threads, NEW k \in Coroutines, owner[k] = t,
           YieldTo(t, k) \/ ExitTo(t, k)
    PROVE  Inv'
<1>1. parent[k] \in Coroutines \cup {NULL} /\ rp[k].cont \in Stacks
  BY LinkTypes
<1>2. CASE YieldTo(t, k)
  BY <1>1, <1>2, YieldToType, YieldToChains DEF Inv
<1>3. CASE ExitTo(t, k)
  BY <1>1, <1>3, ExitToType, ExitToChains DEF Inv
<1> QED
  BY <1>2, <1>3

LEMMA StepInv == Inv /\ [Next]_vars => Inv'
<1> SUFFICES ASSUME Inv, [Next]_vars PROVE Inv'
  OBVIOUS
<1>1. PICK owner \in [Coroutines -> Owners], depth \in [Coroutines -> Nat] :
        Chains(owner, depth)
  BY DEF Inv
<1> USE <1>1
<1>2. TypeOK
  BY DEF Inv
<1> USE <1>2
\* The coroutine whose code t executes is on t's chain.
<1>3. ASSUME NEW t \in Threads, running[t] \in Coroutines
      PROVE  owner[running[t]] = t
  BY <1>3 DEF Chains, ThreadTops, Innermost
<1>4. CASE UNCHANGED vars
  <2>1. TypeOK'
    BY <1>4 DEF vars, blockVars, threadVars, TypeOK
  <2>2. Walking(owner)'
    BY <1>4 DEF vars, Chains, Walking
  <2> QED
    BY <1>4, <2>1, <2>2, WalkChains DEF Inv, vars, blockVars
<1>5. ASSUME NEW t \in Threads, NEW k \in Coroutines, New(t, k)
      PROVE  Inv'
  BY <1>5, NewType, NewChains DEF Inv
<1>6. ASSUME NEW t \in Threads, NEW k \in Coroutines, Delete(t, k)
      PROVE  Inv'
  BY <1>6, DeleteType, DeleteChains DEF Inv
<1>7. ASSUME NEW t \in Threads, NEW k \in Coroutines,
             NEW H \in SUBSET Effects, Resume(t, k, H)
      PROVE  Inv'
  <2>1. rp[k].cont \in Stacks
    BY <1>7 DEF Resume, Chains, SuspendedTops, Stacks
  <2> QED
    BY <1>7, <2>1, ResumeType, ResumeChains DEF Inv
<1>8. ASSUME NEW t \in Threads, Yield(t) \/ Return(t)
      PROVE  Inv'
  BY <1>3, <1>8, SwitchInv DEF Yield, Return
<1>9. ASSUME NEW t \in Threads, PerformHandled(t) \/ ThrowHandled(t)
      PROVE  Inv'
  <2>1. walk[t].co \in Coroutines /\ owner[walk[t].co] = t
    BY <1>9 DEF PerformHandled, ThrowHandled, TypeOK, Chains, Walking
  <2> QED
    BY <1>9, <2>1, SwitchInv DEF PerformHandled, ThrowHandled
<1>10. ASSUME NEW t \in Threads, NEW op \in {"perform", "throw"},
              RunDefault(t, op)
       PROVE  Inv'
  <2>1. walk[t].eff # ReturnEffect
    BY <1>10 DEF RunDefault, Located, Locating, Chains, Walking
  <2>2. TypeOK'
    BY <1>10, <2>1, RunDefaultType
  <2>3. Walking(owner)'
    BY <1>10 DEF RunDefault, TypeOK, Idle, Chains, Walking
  <2> QED
    BY <1>10, <2>2, <2>3, WalkChains DEF Inv, RunDefault, blockVars
<1>11. ASSUME NEW t \in Threads, NEW e \in Effects \cup {ReturnEffect},
              NEW op \in {"perform", "throw"}, BeginLocate(t, e, op)
       PROVE  Inv'
  <2>1. TypeOK'
    BY <1>11 DEF BeginLocate, TypeOK, blockVars, threadVars
  <2>2. current[t] # NULL => owner[current[t]] = t
    BY DEF Chains, ThreadTops, Innermost
  <2>3. Walking(owner)'
    BY <1>11, <2>2 DEF BeginLocate, TypeOK, Chains, Walking
  <2> QED
    BY <1>11, <2>1, <2>3, WalkChains DEF Inv, BeginLocate, blockVars
<1>12. ASSUME NEW t \in Threads, LocateNext(t)
       PROVE  Inv'
  <2>1. /\ walk[t].co \in Coroutines
        /\ owner[walk[t].co] = t
        /\ walk[t].eff # ReturnEffect
    BY <1>12 DEF LocateNext, StopsAt, TypeOK, Chains, Walking
  <2>2. parent[walk[t].co] \in Coroutines \cup {NULL}
    BY <2>1, LinkTypes
  <2>3. parent[walk[t].co] # NULL => owner[parent[walk[t].co]] = t
    BY <2>1 DEF Chains, Linked, OnThread, OnParent
  <2>4. TypeOK'
    <3> DEFINE walked == [walk[t] EXCEPT !.co = parent[walk[t].co]]
    <3>1. /\ walked = [op  |-> walk[t].op, eff |-> walk[t].eff,
                       co  |-> parent[walk[t].co]]
          /\ walk' = [walk EXCEPT ![t] = walked]
      BY <1>12 DEF LocateNext, TypeOK
    <3> HIDE DEF walked
    <3>2. walk' \in [Threads -> [op  : {"none", "perform", "throw"},
                                eff : Effects \cup {ReturnEffect},
                                co  : Coroutines \cup {NULL}]]
      BY <2>2, <3>1 DEF TypeOK
    <3> QED
      BY <1>12, <3>2 DEF LocateNext, TypeOK, blockVars, threadVars
  <2>5. Walking(owner)'
    BY <1>12, <2>1, <2>3 DEF LocateNext, TypeOK, Chains, Walking
  <2> QED
    BY <1>12, <2>4, <2>5, WalkChains DEF Inv, LocateNext, blockVars
<1>13. ASSUME NEW t \in Threads,
              MainMoves(t) \/ \E e \in Effects : SetDefault(t, e)
       PROVE  Inv'
  <2>1. ASSUME MainMoves(t) PROVE TypeOK'
    <3>1. mainSp' \in [Threads -> 0..MaxMainSp]
      BY <2>1 DEF MainMoves, TypeOK
    <3> QED
      BY <2>1, <3>1 DEF MainMoves, TypeOK, blockVars, threadVars
  <2>2. ASSUME \E e \in Effects : SetDefault(t, e) PROVE TypeOK'
    <3>1. defaults' \in [Effects -> {"null", "exit", "user"}]
      BY <2>2 DEF SetDefault, TypeOK
    <3> QED
      BY <2>2, <3>1 DEF SetDefault, TypeOK, blockVars, threadVars
  <2>3. TypeOK'
    BY <1>13, <2>1, <2>2
  <2>4. Walking(owner)'
    BY <1>13 DEF MainMoves, SetDefault, Chains, Walking
  <2> QED
    BY <1>13, <2>3, <2>4, WalkChains DEF Inv, MainMoves, SetDefault, blockVars
<1> QED
  BY <1>4, <1>5, <1>6, <1>7, <1>8, <1>9, <1>10, <1>11, <1>12, <1>13
     DEF Next, Client, Locate, PerformDefault, ThrowDefault, Stopped

LEMMA SpecInv == Spec => []Inv
<1> QED
  BY InitInv, StepInv, PTL DEF Spec

----------------------------------------------------------------------------
(* Theorems.                                                               *)

\* seff_locate_handler never follows an uninitialised parent_coroutine, and
\* no switch loads a context that is not one: the fields have their types.
THEOREM TypeCorrectness == Spec => []TypeOK
<1>1. Inv => TypeOK
  BY DEF Inv
<1> QED
  BY <1>1, SpecInv, PTL

\* On every thread _seff_current_coroutine and %fs:0x70 belong to the stack
\* that is executed, after any history of captures and migrations.
THEOREM CurrentCorrect == Spec => []CurrentIsRunning
<1>1. ASSUME Inv PROVE CurrentIsRunning
  BY <1>1 DEF Inv, Chains, ThreadTops, CurrentIsRunning, CoroutineOf
<1> QED
  BY <1>1, SpecInv, PTL

\* No context is executed twice, resumable twice, or resumable while it runs.
THEOREM ContextsAreOneShot == Spec => []OneShot
<1>1. ASSUME Inv PROVE OneShot
  <2>1. PICK owner \in [Coroutines -> Owners], depth \in [Coroutines -> Nat] :
          Chains(owner, depth)
    BY <1>1 DEF Inv
  <2>2. \A t \in Threads :
          \/ running[t] = t
          \/ running[t] \in Coroutines /\ owner[running[t]] = t
    BY <2>1 DEF Chains, ThreadTops, Innermost
  <2>3. \A k \in resumable :
          rp[k].cont \in Coroutines /\ owner[rp[k].cont] = k /\ k \in Coroutines
    BY <1>1, <2>1 DEF Inv, TypeOK, Chains, SuspendedTops, Innermost
  <2> QED
    BY <2>2, <2>3 DEF OneShot
<1> QED
  BY <1>1, SpecInv, PTL

\* Nothing executes, or can be resumed on, a stack that has been freed or
\* that belongs to a finished coroutine.
THEOREM ContextsAreLive == Spec => []ContextsLive
<1>1. ASSUME Inv PROVE ContextsLive
  <2>1. PICK owner \in [Coroutines -> Owners], depth \in [Coroutines -> Nat] :
          Chains(owner, depth)
    BY <1>1 DEF Inv
  <2>2. \A k \in Coroutines :
          owner[k] # NULL => k \in live /\ state[k] = "PAUSED"
    BY <2>1 DEF Chains, Attached
  <2>3. \A t \in Threads :
          running[t] \in Coroutines => owner[running[t]] = t
    BY <2>1 DEF Chains, ThreadTops, Innermost
  <2>4. \A k \in resumable :
          rp[k].cont \in Coroutines /\ owner[rp[k].cont] = k /\ k \in Coroutines
    BY <1>1, <2>1 DEF Inv, TypeOK, Chains, SuspendedTops, Innermost
  <2> QED
    BY <1>1, <2>2, <2>3, <2>4 DEF Inv, TypeOK, ContextsLive, Stacks
<1> QED
  BY <1>1, SpecInv, PTL

\* The handler lookup stays inside allocated, unfinished blocks of the chain
\* of its own thread.
THEOREM LocateIsSafe == Spec => []LocateReadsValidBlocks
<1>1. ASSUME Inv PROVE LocateReadsValidBlocks
  <2>1. PICK owner \in [Coroutines -> Owners], depth \in [Coroutines -> Nat] :
          Chains(owner, depth)
    BY <1>1 DEF Inv
  <2> SUFFICES ASSUME NEW t \in Threads, walk[t].co # NULL
               PROVE  /\ walk[t].co \in live
                      /\ state[walk[t].co] = "PAUSED"
                      /\ parent[walk[t].co] # Junk
    BY DEF LocateReadsValidBlocks
  <2>2. walk[t].co \in Coroutines /\ owner[walk[t].co] = t
    BY <1>1, <2>1 DEF Inv, TypeOK, Chains, Walking
  <2>3. parent[walk[t].co] \in Coroutines \cup {NULL}
    BY <1>1, <2>1, <2>2, LinkTypes DEF Inv
  <2> QED
    BY <2>1, <2>2, <2>3 DEF Chains, Attached
<1> QED
  BY <1>1, SpecInv, PTL

\* A thread that runs a coroutine has not touched its own stack since the
\* outermost seff_resume, whose rsp is in _seff_system_stack.
LEMMA SystemStackStep ==
    ASSUME Inv, SystemStackIsFree, [Next]_vars
    PROVE  SystemStackIsFree'
<1>1. PICK owner \in [Coroutines -> Owners], depth \in [Coroutines -> Nat] :
        Chains(owner, depth)
  BY DEF Inv
<1>2. \A t \in Threads :
        \/ current[t] = NULL /\ running[t] = t
        \/ current[t] # NULL /\ running[t] = current[t]
  BY <1>1 DEF Chains, ThreadTops
\* What a step has to show.
<1> DEFINE Keeps ==
        \A t \in Threads :
            current'[t] # NULL /\ current[t] # NULL =>
                sysStack'[t] = sysStack[t] /\ mainSp'[t] = mainSp[t]
<1>3. ASSUME Keeps, \A t \in Threads : current'[t] # NULL => current[t] # NULL
      PROVE  SystemStackIsFree'
  BY <1>3 DEF SystemStackIsFree
<1>4. ASSUME NEW t \in Threads, NEW k \in Coroutines, SwitchTo(t, k),
             current[t] # NULL, sysStack' = sysStack, mainSp' = mainSp
      PROVE  SystemStackIsFree'
  <2>1. \A u \in Threads : u # t => current'[u] = current[u]
    BY <1>4 DEF Inv, TypeOK, SwitchTo
  <2> QED
    BY <1>3, <1>4, <2>1
<1>5. ASSUME NEW t \in Threads, Yield(t) \/ Return(t)
      PROVE  SystemStackIsFree'
  BY <1>2, <1>4, <1>5 DEF Yield, Return, YieldTo, ExitTo
<1>6. ASSUME NEW t \in Threads, PerformHandled(t) \/ ThrowHandled(t)
      PROVE  SystemStackIsFree'
  <2>1. walk[t].co \in Coroutines /\ owner[walk[t].co] = t
    BY <1>1, <1>6
       DEF PerformHandled, ThrowHandled, Inv, TypeOK, Chains, Walking
  <2>2. current[t] # NULL
    BY <1>1, <2>1, ThreadHasTop
  <2> QED
    BY <1>4, <1>6, <2>1, <2>2 DEF PerformHandled, ThrowHandled, YieldTo, ExitTo
<1>7. ASSUME NEW t \in Threads, NEW k \in Coroutines,
             NEW H \in SUBSET Effects, Resume(t, k, H)
      PROVE  SystemStackIsFree'
  <2>1. \A u \in Threads \ {t} : /\ current'[u] = current[u]
                                /\ sysStack'[u] = sysStack[u]
    BY <1>7 DEF Inv, TypeOK, Resume
  <2>2. mainSp' = mainSp /\ sysStack'[t] = StoredSystemStack(t)
    BY <1>7 DEF Inv, TypeOK, Resume
  <2> QED
    BY <1>2, <2>1, <2>2 DEF SystemStackIsFree, StoredSystemStack
<1>8. ASSUME NEW t \in Threads, MainMoves(t)
      PROVE  SystemStackIsFree'
  <2>1. current[t] = NULL
    BY <1>2, <1>8 DEF MainMoves, Inv, TypeOK
  <2>2. \A u \in Threads \ {t} : mainSp'[u] = mainSp[u]
    BY <1>8 DEF Inv, TypeOK, MainMoves
  <2> QED
    BY <1>3, <1>8, <2>1, <2>2 DEF MainMoves, threadVars
<1>9. ASSUME UNCHANGED <<current, sysStack, mainSp>>
      PROVE  SystemStackIsFree'
  BY <1>3, <1>9
<1> QED
  BY <1>5, <1>6, <1>7, <1>8, <1>9
     DEF Next, Client, Locate, PerformDefault, ThrowDefault, Stopped, vars,
         threadVars, New, Delete, BeginLocate, LocateNext, RunDefault,
         SetDefault

\* A syscall wrapper that runs its function on _seff_system_stack overwrites
\* no frame of the thread.
THEOREM SystemStackCorrect == Spec => []SystemStackIsFree
<1>1. Init => SystemStackIsFree
  BY DEF Init, SystemStackIsFree
<1> QED
  BY <1>1, SpecInv, SystemStackStep, PTL DEF Spec

----------------------------------------------------------------------------
(* The refinement.  The chain of a thread, and that of a coroutine that    *)
(* may be resumed, is a list: what Chain chooses.                          *)

LEMMA Least ==
    ASSUME NEW S \in SUBSET Nat, S # {}
    PROVE  \E m \in S : \A n \in S : m <= n
<1>1. PICK m \in S : \A n \in S : ~ (<<n, m>> \in OpToRel(<, Nat))
  BY NatLessThanWellFounded, WFMin
<1>2. \A n \in S : ~(n < m)
  BY <1>1 DEF OpToRel
<1> QED
  BY <1>2

\* No depth is left out below a coroutine.
LEMMA Filled ==
    ASSUME NEW owner \in [Coroutines -> Owners],
           NEW depth \in [Coroutines -> Nat],
           Chains(owner, depth),
           NEW c \in Coroutines, owner[c] # NULL,
           NEW n \in 0..depth[c]
    PROVE  \E k \in Coroutines : owner[k] = owner[c] /\ depth[k] = n
<1> SUFFICES ASSUME ~ \E k \in Coroutines : owner[k] = owner[c] /\ depth[k] = n
             PROVE  FALSE
  OBVIOUS
<1> DEFINE M == {m \in Nat : m > n /\ \E k \in Coroutines : owner[k] = owner[c] /\ depth[k] = m}
<1>1. depth[c] \in M
  OBVIOUS
<1>2. PICK m \in M : \A x \in M : m <= x
  BY <1>1, Least
<1>3. PICK k \in Coroutines : owner[k] = owner[c] /\ depth[k] = m
  OBVIOUS
<1>4. owner[k] \in Threads \cup Coroutines /\ depth[k] # 0
  BY <1>3 DEF Owners
<1>5. OnParent(owner, depth, k)
  BY <1>3, <1>4 DEF Chains, Linked
<1>6. /\ parent[k] \in Coroutines /\ owner[parent[k]] = owner[c]
      /\ depth[parent[k]] \in Nat /\ m = depth[parent[k]] + 1
  BY <1>3, <1>5 DEF OnParent
<1>7. depth[parent[k]] # n
  BY <1>6
<1>8. depth[parent[k]] \in M
  BY <1>6, <1>7
<1> QED
  BY <1>2, <1>6, <1>8

\* A list of coroutines of the chain of o, each once
Listed(owner, o, chain) ==
    /\ chain \in Seq(Coroutines)
    /\ \A i \in DOMAIN chain : owner[chain[i]] = o
    /\ \A i, j \in DOMAIN chain : chain[i] = chain[j] => i = j

\* The whole chain of o, each coroutine at the place its depth gives it
Whole(owner, depth, o, chain) ==
    \A k \in Coroutines : owner[k] = o =>
        depth[k] + 1 \in DOMAIN chain /\ chain[depth[k] + 1] = k

\* The list of what is met from c along parent_coroutine.
LEMMA ChainExists ==
    ASSUME NEW owner \in [Coroutines -> Owners],
           NEW depth \in [Coroutines -> Nat],
           Chains(owner, depth),
           NEW o \in Threads \cup Coroutines,
           NEW c \in Coroutines, Innermost(owner, depth, o, c)
    PROVE  \E chain : IsChain(chain, c, IF o \in Threads THEN NULL ELSE o)
                      /\ Listed(owner, o, chain) /\ Whole(owner, depth, o, chain)
<1> DEFINE chain == [i \in 1..(depth[c] + 1) |->
                        CHOOSE k \in Coroutines : owner[k] = o /\ depth[k] = i - 1]
           last == IF o \in Threads THEN NULL ELSE o
<1>1. o # NULL /\ owner[c] = o /\ depth[c] \in Nat /\ NULL \notin Coroutines
  BY DEF Innermost
<1>2. ASSUME NEW i \in 1..(depth[c] + 1)
      PROVE  chain[i] \in Coroutines /\ owner[chain[i]] = o /\ depth[chain[i]] = i - 1
  <2>1. i - 1 \in 0..depth[c]
    BY <1>1
  <2>2. \E k \in Coroutines : owner[k] = o /\ depth[k] = i - 1
    BY <1>1, <2>1, Filled
  <2> QED
    BY <2>2
<1>3. chain \in Seq(Coroutines) /\ Len(chain) = depth[c] + 1 /\ DOMAIN chain = 1..(depth[c] + 1)
  BY <1>1, <1>2, SMTT(30)
<1> HIDE DEF chain
<1>4. Linear(owner, depth) /\ Linked(owner, depth)
  BY DEF Chains
<1>5. \A i \in 1..(depth[c] + 1) : \A k \in Coroutines :
         owner[k] = o /\ depth[k] = i - 1 => k = chain[i]
  BY <1>1, <1>2, <1>4 DEF Linear
<1>6. chain[Len(chain)] = c /\ chain # <<>>
  BY <1>1, <1>3, <1>5
<1>7. chain[1] = last \/ parent[chain[1]] = NULL
  <2>1. chain[1] \in Coroutines /\ owner[chain[1]] = o /\ depth[chain[1]] = 0
    BY <1>1, <1>2
  <2> QED
    BY <2>1, <1>4 DEF Linked, OnThread
<1>8. ASSUME NEW i \in 2..Len(chain)
      PROVE  chain[i] # last /\ parent[chain[i]] = chain[i - 1]
  <2>1. /\ i \in 1..(depth[c] + 1) /\ i - 1 \in 1..(depth[c] + 1) /\ i - 1 # 0
    BY <1>1, <1>3
  <2>2. chain[i] \in Coroutines /\ owner[chain[i]] = o /\ depth[chain[i]] = i - 1
    BY <1>2, <2>1
  <2>3. OnParent(owner, depth, chain[i])
    BY <1>4, <2>1, <2>2 DEF Linked
  <2>4. /\ parent[chain[i]] \in Coroutines /\ owner[parent[chain[i]]] = o
        /\ depth[parent[chain[i]]] = (i - 1) - 1
    BY <2>2, <2>3 DEF OnParent
  <2>5. parent[chain[i]] = chain[i - 1]
    BY <1>5, <2>1, <2>4
  <2>6. chain[i] # last
    <3>1. CASE o \in Threads
      BY <1>1, <2>2, <3>1
    <3>2. CASE o \notin Threads
      <4>1. o \in resumable
        BY <1>1, <3>2 DEF Chains, Attached
      <4>2. depth[o] = 0
        BY <4>1 DEF Chains, SuspendedTops
      <4> QED
        BY <2>1, <2>2, <3>2, <4>2
    <3> QED
      BY <3>1, <3>2
  <2> QED
    BY <2>5, <2>6
<1>9. IsChain(chain, c, last)
  BY <1>1, <1>6, <1>7, <1>8 DEF IsChain
<1>10. Listed(owner, o, chain)
  <2>1. \A i, j \in 1..(depth[c] + 1) : chain[i] = chain[j] => i = j
    <3> SUFFICES ASSUME NEW i \in 1..(depth[c] + 1), NEW j \in 1..(depth[c] + 1), chain[i] = chain[j]
                 PROVE  i = j
      OBVIOUS
    <3>1. i - 1 = j - 1
      BY <1>2
    <3> QED
      BY <1>1, <3>1
  <2> QED
    BY <1>2, <1>3, <2>1 DEF Listed
<1>11. Whole(owner, depth, o, chain)
  <2> SUFFICES ASSUME NEW k \in Coroutines, owner[k] = o
               PROVE  depth[k] + 1 \in DOMAIN chain /\ chain[depth[k] + 1] = k
    BY DEF Whole
  <2>1. depth[k] \in Nat /\ depth[k] <= depth[c]
    BY DEF Innermost
  <2>2. PICK i \in 1..(depth[c] + 1) : i = depth[k] + 1 /\ depth[k] = i - 1
    BY <1>1, <2>1
  <2> QED
    BY <1>3, <1>5, <2>2
<1> QED
  BY <1>9, <1>10, <1>11

\* Two lists from the same coroutine agree from the top down as far as both go.
LEMMA ChainsAgree ==
    ASSUME NEW chain \in Seq(Coroutines), NEW other \in Seq(Coroutines), NEW c \in Coroutines,
           NEW last, IsChain(chain, c, last), IsChain(other, c, last),
           NEW d \in Nat, d < Len(chain), d < Len(other)
    PROVE  chain[Len(chain) - d] = other[Len(other) - d]
<1> DEFINE n == Len(chain)
           m == Len(other)
           D == {x \in Nat : x < n /\ x < m /\ chain[n - x] # other[m - x]}
<1> SUFFICES ASSUME D # {} PROVE FALSE
  OBVIOUS
<1>1. PICK x \in D : \A y \in D : x <= y
  BY Least
<1>2. /\ n \in Nat /\ m \in Nat /\ x \in Nat /\ x < n /\ x < m
      /\ chain[n] = c /\ other[m] = c /\ chain[n - x] # other[m - x]
  BY DEF IsChain
<1>3. CASE x = 0
  BY <1>2, <1>3
<1>4. CASE x # 0
  <2>1. PICK y \in Nat : x = y + 1
    BY <1>2, <1>4
  <2>2. y \notin D
    BY <1>1, <2>1
  <2>3. /\ n - y \in 2..n /\ (n - y) - 1 = n - x
        /\ m - y \in 2..m /\ (m - y) - 1 = m - x
    BY <1>2, <2>1
  <2>4. chain[n - y] = other[m - y]
    BY <1>2, <2>1, <2>2
  <2>5. parent[chain[n - y]] = chain[n - x] /\ parent[other[m - y]] = other[m - x]
    <3>1. /\ \A i \in 2..n : parent[chain[i]] = chain[i - 1]
          /\ \A i \in 2..m : parent[other[i]] = other[i - 1]
      BY DEF IsChain
    <3> HIDE DEF n, m
    <3> QED
      BY <2>3, <3>1
  <2> QED
    BY <1>2, <2>4, <2>5
<1> QED
  BY <1>3, <1>4

\* Neither ends above the other.
LEMMA ChainsEnd ==
    ASSUME NEW chain \in Seq(Coroutines), NEW other \in Seq(Coroutines), NEW c \in Coroutines,
           NEW last, IsChain(chain, c, last), IsChain(other, c, last)
    PROVE  Len(other) <= Len(chain)
<1> DEFINE n == Len(chain)
           m == Len(other)
<1> SUFFICES ASSUME n < m PROVE FALSE
  OBVIOUS
<1>1. n \in Nat \ {0} /\ m \in Nat
  BY DEF IsChain
<1>2. PICK d \in Nat : n = d + 1
  BY <1>1
<1>3. chain[n - d] = other[m - d]
  BY <1>1, <1>2, ChainsAgree
<1>4. n - d = 1 /\ m - d \in 2..m /\ (m - d) - 1 \in 1..m
  BY <1>1, <1>2
<1>5. PICK i \in 2..m : i = m - d
  BY <1>4
<1>6. other[i] # last /\ parent[other[i]] = other[i - 1] /\ other[i - 1] \in Coroutines
  <2>1. \A j \in 2..m : other[j] # last /\ parent[other[j]] = other[j - 1]
    BY DEF IsChain
  <2>2. i - 1 \in 1..m
    BY <1>4, <1>5
  <2> QED
    BY <2>1, <2>2
<1>7. chain[1] = last \/ parent[chain[1]] = NULL
  BY DEF IsChain
<1> QED
  BY <1>3, <1>4, <1>5, <1>6, <1>7

LEMMA ChainUnique ==
    ASSUME NEW chain \in Seq(Coroutines), NEW other \in Seq(Coroutines),
           NEW c \in Coroutines \cup {NULL},
           NEW last, IsChain(chain, c, last), IsChain(other, c, last)
    PROVE  chain = other
<1>1. CASE c = NULL
  BY <1>1 DEF IsChain
<1>2. CASE c # NULL
  <2>1. Len(chain) = Len(other) /\ Len(chain) \in Nat
    BY <1>2, ChainsEnd
  <2>2. ASSUME NEW i \in 1..Len(chain) PROVE chain[i] = other[i]
    <3>1. PICK d \in Nat : d < Len(chain) /\ i = Len(chain) - d
      <4>1. Len(chain) - i \in Nat /\ Len(chain) - i < Len(chain) /\ i = Len(chain) - (Len(chain) - i)
        BY <2>1
      <4> QED
        BY <4>1
    <3> QED
      BY <1>2, <2>1, <3>1, ChainsAgree
  <2> QED
    BY <2>1, <2>2
<1> QED
  BY <1>1, <1>2

\* A list of allocated coroutines, each once
Distinct(chain) ==
    /\ chain \in Seq(Coroutines)
    /\ \A i \in DOMAIN chain : chain[i] \in live
    /\ \A i, j \in DOMAIN chain : chain[i] = chain[j] => i = j

ChainIsChosen ==
    live \subseteq Coroutines /\ IsFiniteSet(live) =>
        \A c \in Coroutines \cup {NULL} : \A last, chain :
            IsChain(chain, c, last) /\ Distinct(chain) => Chain(c, last) = chain

LEMMA ChainIs == ChainIsChosen
<1> SUFFICES ASSUME live \subseteq Coroutines, IsFiniteSet(live),
                    NEW c \in Coroutines \cup {NULL}, NEW last, NEW chain,
                    IsChain(chain, c, last), Distinct(chain)
             PROVE  Chain(c, last) = chain
  BY DEF ChainIsChosen
<1>1. PICK n \in Nat : n = Len(chain) /\ DOMAIN chain = 1..n
  BY DEF Distinct
<1>2. chain \in [1..n -> live]
  BY <1>1 DEF Distinct
<1>3. n \in 0..Cardinality(live)
  <2>1. IsFiniteSet(1..n) /\ Cardinality(1..n) = n
    BY FS_Interval
  <2>2. chain \in Injection(1..n, live)
    BY <1>1, <1>2 DEF Distinct, Injection, IsInjective
  <2>3. Cardinality(1..n) <= Cardinality(live) /\ Cardinality(live) \in Nat
    BY <2>2, FS_Injection, FS_CardinalityType
  <2> QED
    BY <2>1, <2>3
<1>4. chain \in Lists
  BY <1>2, <1>3 DEF Lists
<1>5. ASSUME NEW other \in Lists, IsChain(other, c, last) PROVE other = chain
  <2>1. PICK m \in 0..Cardinality(live) : other \in [1..m -> live]
    BY DEF Lists
  <2>2. m \in Nat
    BY FS_CardinalityType
  <2>3. other \in Seq(Coroutines)
    BY <2>1, <2>2
  <2> QED
    BY <1>5, <2>3, ChainUnique DEF Distinct
<1> QED
  BY <1>4, <1>5 DEF Chain

LEMMA ChainIsAfter == ChainIsChosen'
  BY ChainIs, PTL

\* The lists of the threads and of the resumable coroutines
Carry(s, c) ==
    /\ \A t \in Threads : Distinct(s[t]) /\ IsChain(s[t], current[t], NULL)
    /\ \A k \in resumable : Distinct(c[k]) /\ IsChain(c[k], rp[k].co, k)

FramesOf(s, c) ==
    /\ HandlerStack = [t \in Threads |-> Frames(s[t])]
    /\ Captured = [k \in Coroutines |->
                      IF k \in resumable THEN [Frames(c[k]) EXCEPT ![1].h = {}] ELSE <<>>]

ListsGiveFrames == TypeOK /\ IsFiniteSet(live) => \A s, c : Carry(s, c) => FramesOf(s, c)

LEMMA CarriedFrames == ListsGiveFrames
<1> SUFFICES ASSUME TypeOK, IsFiniteSet(live), NEW s, NEW c, Carry(s, c) PROVE FramesOf(s, c)
  BY DEF ListsGiveFrames
<1>1. live \subseteq Coroutines
  BY DEF TypeOK
<1>2. ASSUME NEW t \in Threads PROVE Chain(current[t], NULL) = s[t]
  <2>1. current[t] \in Coroutines \cup {NULL}
    BY DEF TypeOK
  <2> QED
    BY <1>1, <2>1, ChainIs DEF Carry, ChainIsChosen
<1>3. ASSUME NEW k \in Coroutines, k \in resumable PROVE Chain(rp[k].co, k) = c[k]
  <2>1. rp[k].co \in Coroutines \cup {NULL}
    BY DEF TypeOK
  <2> QED
    BY <1>1, <1>3, <2>1, ChainIs DEF Carry, ChainIsChosen
<1> QED
  BY <1>2, <1>3 DEF FramesOf, HandlerStack, Captured

LEMMA CarriedFramesAfter == ListsGiveFrames'
  BY CarriedFrames, PTL

\* The lists of different owners have nothing in common.
Owned(owner, s, c) ==
    /\ \A t \in Threads : \A i \in DOMAIN s[t] : owner[s[t][i]] = t
    /\ \A k \in resumable : /\ c[k] # <<>> /\ c[k][1] = k
                            /\ \A i \in DOMAIN c[k] : owner[c[k][i]] = k

LEMMA ListsExist ==
    ASSUME TypeOK, NEW owner \in [Coroutines -> Owners], NEW depth \in [Coroutines -> Nat],
           Chains(owner, depth)
    PROVE  \E s, c : Carry(s, c) /\ Owned(owner, s, c)
<1>1. ASSUME NEW chain, NEW o \in Threads \cup Coroutines, Listed(owner, o, chain)
      PROVE  Distinct(chain)
  <2>1. ASSUME NEW i \in DOMAIN chain PROVE chain[i] \in live
    <3>1. chain[i] \in Coroutines /\ owner[chain[i]] = o /\ o # NULL
      BY <1>1 DEF Listed
    <3> QED
      BY <3>1 DEF Chains, Attached
  <2> QED
    BY <1>1, <2>1 DEF Distinct, Listed
<1>2. ASSUME NEW t \in Threads
      PROVE  \E chain : Listed(owner, t, chain) /\ IsChain(chain, current[t], NULL)
  <2>1. CASE current[t] = NULL
    <3>1. Listed(owner, t, <<>>) /\ IsChain(<<>>, current[t], NULL)
      BY <2>1 DEF Listed, IsChain
    <3> QED
      BY <3>1
  <2>2. CASE current[t] # NULL
    <3>1. current[t] \in Coroutines /\ Innermost(owner, depth, t, current[t])
      BY <2>2 DEF Chains, ThreadTops
    <3>2. \E chain : IsChain(chain, current[t], IF t \in Threads THEN NULL ELSE t)
                     /\ Listed(owner, t, chain)
      BY <3>1, ChainExists
    <3> QED
      BY <3>2
  <2> QED
    BY <2>1, <2>2
<1>3. ASSUME NEW k \in resumable
      PROVE  \E chain : Listed(owner, k, chain) /\ IsChain(chain, rp[k].co, k)
  <2>1. /\ k \in Coroutines /\ k \notin Threads /\ rp[k].co \in Coroutines
        /\ Innermost(owner, depth, k, rp[k].co)
    BY DEF TypeOK, Chains, SuspendedTops
  <2>2. \E chain : IsChain(chain, rp[k].co, IF k \in Threads THEN NULL ELSE k)
                   /\ Listed(owner, k, chain)
    BY <2>1, ChainExists
  <2> QED
    BY <2>1, <2>2
<1>4. PICK s : s = [t \in Threads |->
                     CHOOSE chain : Listed(owner, t, chain) /\ IsChain(chain, current[t], NULL)]
  OBVIOUS
<1>5. PICK c : c = [k \in resumable |->
                     CHOOSE chain : Listed(owner, k, chain) /\ IsChain(chain, rp[k].co, k)]
  OBVIOUS
<1>6. \A t \in Threads : Listed(owner, t, s[t]) /\ IsChain(s[t], current[t], NULL)
  BY <1>2, <1>4
<1>7. \A k \in resumable : Listed(owner, k, c[k]) /\ IsChain(c[k], rp[k].co, k)
  BY <1>3, <1>5
<1>8. Carry(s, c)
  <2>1. resumable \subseteq Coroutines
    BY DEF TypeOK
  <2> QED
    BY <1>1, <1>6, <1>7, <2>1 DEF Carry
<1>9. ASSUME NEW k \in resumable PROVE c[k] # <<>> /\ c[k][1] = k
  <2>1. /\ k \in Coroutines /\ rp[k].co \in Coroutines /\ c[k] \in Seq(Coroutines)
        /\ IsChain(c[k], rp[k].co, k) /\ \A i \in DOMAIN c[k] : owner[c[k][i]] = k
    BY <1>7 DEF TypeOK, Chains, SuspendedTops, Listed
  <2>2. c[k] # <<>> /\ (c[k][1] = k \/ parent[c[k][1]] = NULL)
    BY <2>1 DEF IsChain
  <2>3. 1 \in DOMAIN c[k]
    BY <2>1, <2>2
  <2>4. c[k][1] \in Coroutines /\ owner[c[k][1]] = k
    BY <2>1, <2>3
  <2>5. ASSUME parent[c[k][1]] = NULL PROVE c[k][1] = k
    <3>1. ~OnParent(owner, depth, c[k][1])
      BY <2>5 DEF OnParent
    <3> QED
      BY <2>1, <2>4, <3>1 DEF Chains, Linked
  <2> QED
    BY <2>2, <2>5
<1>10. Owned(owner, s, c)
  BY <1>6, <1>7, <1>9 DEF Owned, Listed
<1> QED
  BY <1>8, <1>10

----------------------------------------------------------------------------
(* Parts of lists.                                                         *)

FramesT == [co : Coroutines, h : SUBSET Effects]

LEMMA FramesAre ==
    ASSUME NEW chain \in Seq(Coroutines), TypeOK
    PROVE  /\ Frames(chain) \in Seq(FramesT)
           /\ Len(Frames(chain)) = Len(chain) /\ DOMAIN Frames(chain) = DOMAIN chain
           /\ \A i \in DOMAIN chain : Frames(chain)[i] = [co |-> chain[i], h |-> handled[chain[i]]]
<1>1. PICK n \in Nat : n = Len(chain) /\ DOMAIN chain = 1..n
  OBVIOUS
<1>2. /\ Frames(chain) \in [1..n -> FramesT] /\ DOMAIN Frames(chain) = 1..n
      /\ \A i \in DOMAIN chain : Frames(chain)[i] = [co |-> chain[i], h |-> handled[chain[i]]]
  BY <1>1 DEF Frames, FramesT, TypeOK
<1>3. Frames(chain) \in Seq(FramesT) /\ Len(Frames(chain)) = n
  <2>1. PICK f : f = Frames(chain)
    OBVIOUS
  <2>2. f \in [1..n -> FramesT]
    BY <1>2, <2>1
  <2>3. f \in Seq(FramesT) /\ Len(f) = n
    BY <2>2
  <2> QED
    BY <2>1, <2>3
<1> QED
  BY <1>1, <1>2, <1>3

\* The lists below and from place i
LowOf(s, i)  == SubSeq(s, 1, i - 1)
HighOf(s, i) == SubSeq(s, i, Len(s))

LEMMA LowPart ==
    ASSUME NEW S, NEW s \in Seq(S), NEW i \in DOMAIN s, NEW m, m = i - 1
    PROVE  /\ i \in Nat \ {0} /\ i <= Len(s) /\ Len(s) \in Nat /\ m \in Nat
           /\ LowOf(s, i) \in Seq(S) /\ Len(LowOf(s, i)) = m /\ DOMAIN LowOf(s, i) = 1..m
           /\ \A j \in 1..m : j \in DOMAIN s /\ LowOf(s, i)[j] = s[j]
  BY DEF LowOf

Shift(i, j) == i + j - 1

HighParts(S, s, i, n) ==
    /\ i \in Nat \ {0} /\ i <= Len(s) /\ Len(s) \in Nat /\ n = Len(s) - i + 1
    /\ HighOf(s, i) \in Seq(S) /\ Len(HighOf(s, i)) = n /\ DOMAIN HighOf(s, i) = 1..n
    /\ \A j \in 1..n : Shift(i, j) \in DOMAIN s /\ HighOf(s, i)[j] = s[Shift(i, j)]

LEMMA HighPart ==
    ASSUME NEW S, NEW s \in Seq(S), NEW i \in DOMAIN s
    PROVE  \E n \in Nat : HighParts(S, s, i, n)
<1>1. PICK n : n = Len(s) - i + 1
  OBVIOUS
<1> QED
  BY <1>1 DEF HighOf, Shift, HighParts

LEMMA FramesOfParts ==
    ASSUME NEW chain \in Seq(Coroutines), NEW i \in DOMAIN chain, TypeOK
    PROVE  /\ Frames(LowOf(chain, i)) = LowOf(Frames(chain), i)
           /\ Frames(HighOf(chain, i)) = HighOf(Frames(chain), i)
<1>1. PICK f, F : f = Frames(chain) /\ F = FramesT
  OBVIOUS
<1>2. /\ f \in Seq(F) /\ Len(f) = Len(chain) /\ DOMAIN f = DOMAIN chain
      /\ \A j \in DOMAIN chain : f[j] = [co |-> chain[j], h |-> handled[chain[j]]]
  BY <1>1, FramesAre
<1>3. PICK m : m = i - 1
  OBVIOUS
<1>4. i \in DOMAIN f
  BY <1>2
<1>5. Frames(LowOf(chain, i)) = LowOf(f, i)
  <2>1. /\ LowOf(chain, i) \in Seq(Coroutines) /\ DOMAIN LowOf(chain, i) = 1..m
        /\ \A j \in 1..m : j \in DOMAIN chain /\ LowOf(chain, i)[j] = chain[j]
    BY <1>3, LowPart
  <2>2. /\ LowOf(f, i) \in Seq(F) /\ DOMAIN LowOf(f, i) = 1..m
        /\ \A j \in 1..m : LowOf(f, i)[j] = f[j]
    BY <1>2, <1>3, <1>4, LowPart
  <2>3. PICK g : g = LowOf(f, i)
    OBVIOUS
  <2>4. g = [j \in DOMAIN g |-> g[j]]
    <3>1. g \in Seq(F)
      BY <2>2, <2>3
    <3> QED
      BY <3>1
  <2>5. \A j \in 1..m : g[j] = [co |-> LowOf(chain, i)[j], h |-> handled[LowOf(chain, i)[j]]]
    BY <1>2, <2>1, <2>2, <2>3
  <2>6. DOMAIN g = 1..m
    BY <2>2, <2>3
  <2>7. Frames(LowOf(chain, i)) = g
    BY <2>1, <2>4, <2>5, <2>6 DEF Frames
  <2> QED
    BY <2>3, <2>7
<1>6. Frames(HighOf(chain, i)) = HighOf(f, i)
  <2>a. PICK n \in Nat : HighParts(Coroutines, chain, i, n)
    BY HighPart
  <2>b. PICK l \in Nat : HighParts(F, f, i, l)
    BY <1>2, <1>4, HighPart
  <2>1. /\ n = Len(chain) - i + 1 /\ DOMAIN HighOf(chain, i) = 1..n
        /\ HighOf(chain, i) \in Seq(Coroutines)
        /\ \A j \in 1..n : /\ Shift(i, j) \in DOMAIN chain
                           /\ HighOf(chain, i)[j] = chain[Shift(i, j)]
    BY <2>a DEF HighParts
  <2>0. /\ l = Len(f) - i + 1 /\ DOMAIN HighOf(f, i) = 1..l
        /\ HighOf(f, i) \in Seq(F)
        /\ \A j \in 1..l : HighOf(f, i)[j] = f[Shift(i, j)]
    BY <2>b DEF HighParts
  <2>2. /\ DOMAIN HighOf(f, i) = 1..n /\ HighOf(f, i) \in Seq(F)
        /\ \A j \in 1..n : HighOf(f, i)[j] = f[Shift(i, j)]
    <3>1. l = n
      BY <1>2, <2>0, <2>1
    <3> QED
      BY <2>0, <3>1
  <2>3. PICK g : g = HighOf(f, i)
    OBVIOUS
  <2>4. g = [j \in DOMAIN g |-> g[j]]
    <3>1. g \in Seq(F)
      BY <2>2, <2>3
    <3> QED
      BY <3>1
  <2>5. \A j \in 1..n : g[j] = [co |-> HighOf(chain, i)[j], h |-> handled[HighOf(chain, i)[j]]]
    BY <1>2, <2>1, <2>2, <2>3
  <2>6. DOMAIN g = 1..n
    BY <2>2, <2>3
  <2>7. Frames(HighOf(chain, i)) = g
    BY <2>1, <2>4, <2>5, <2>6 DEF Frames
  <2> QED
    BY <2>3, <2>7
<1> QED
  BY <1>1, <1>5, <1>6


LEMMA LowChain ==
    ASSUME NEW chain, Distinct(chain), NEW from, IsChain(chain, from, NULL),
           NEW i \in DOMAIN chain
    PROVE  Distinct(LowOf(chain, i)) /\ IsChain(LowOf(chain, i), parent[chain[i]], NULL)
<1>1. chain \in Seq(Coroutines) /\ NULL \notin Coroutines /\ chain # <<>> /\ from # NULL
  BY DEF Distinct, IsChain
<1>2. PICK m, low : m = i - 1 /\ low = LowOf(chain, i)
  OBVIOUS
<1>3. /\ i \in Nat \ {0} /\ i <= Len(chain) /\ Len(chain) \in Nat /\ m \in Nat /\ m = i - 1
      /\ low \in Seq(Coroutines) /\ Len(low) = m /\ DOMAIN low = 1..m
      /\ \A j \in 1..m : j \in DOMAIN chain /\ low[j] = chain[j]
  BY <1>1, <1>2, LowPart
<1>4. Distinct(low)
  BY <1>3 DEF Distinct
<1>5. parent[chain[1]] = NULL
  <2>1. chain[1] # NULL
    BY <1>1
  <2> QED
    BY <1>1, <2>1 DEF IsChain
<1>6. \A j \in 2..Len(chain) : chain[j] # NULL /\ parent[chain[j]] = chain[j - 1]
  BY <1>1 DEF IsChain
<1>7. CASE i = 1
  <2>1. low = <<>> /\ parent[chain[i]] = NULL
    BY <1>3, <1>5, <1>7
  <2> QED
    BY <1>2, <1>4, <2>1 DEF IsChain
<1>8. CASE i # 1
  <2>1. m \in 1..m /\ 1 \in 1..m /\ i \in 2..Len(chain) /\ i - 1 = m
    BY <1>3, <1>8
  <2>2. parent[chain[i]] = low[m] /\ low[m] \in Coroutines /\ low # <<>>
    <3>1. parent[chain[i]] = chain[m]
      BY <1>6, <2>1
    <3>2. low[m] = chain[m] /\ low[m] \in Coroutines
      BY <1>3, <2>1
    <3>3. low # <<>>
      BY <1>3, <2>1
    <3> QED
      BY <3>1, <3>2, <3>3
  <2>3. parent[low[1]] = NULL
    BY <1>3, <1>5, <2>1
  <2>4. ASSUME NEW j \in 2..m PROVE low[j] # NULL /\ parent[low[j]] = low[j - 1]
    <3>1. j \in 1..m /\ j - 1 \in 1..m /\ j \in 2..Len(chain)
      BY <1>3
    <3> QED
      BY <1>3, <1>6, <3>1
  <2> QED
    BY <1>1, <1>2, <1>3, <1>4, <2>2, <2>3, <2>4 DEF IsChain
<1> QED
  BY <1>7, <1>8

LEMMA HighChain ==
    ASSUME NEW chain, Distinct(chain), NEW from, IsChain(chain, from, NULL),
           NEW i \in DOMAIN chain
    PROVE  Distinct(HighOf(chain, i)) /\ IsChain(HighOf(chain, i), from, chain[i])
<1>1. chain \in Seq(Coroutines) /\ chain # <<>> /\ from # NULL /\ chain[Len(chain)] = from
  BY DEF Distinct, IsChain
<1>a. PICK n \in Nat : HighParts(Coroutines, chain, i, n)
  BY <1>1, HighPart
<1>2. /\ i \in Nat \ {0} /\ i <= Len(chain) /\ Len(chain) \in Nat /\ n = Len(chain) - i + 1
      /\ HighOf(chain, i) \in Seq(Coroutines) /\ Len(HighOf(chain, i)) = n
      /\ DOMAIN HighOf(chain, i) = 1..n
      /\ \A j \in 1..n : /\ Shift(i, j) \in DOMAIN chain
                         /\ HighOf(chain, i)[j] = chain[Shift(i, j)]
  BY <1>a DEF HighParts
<1>3. PICK high :
        /\ high = HighOf(chain, i)
        /\ high \in Seq(Coroutines) /\ Len(high) = n /\ DOMAIN high = 1..n
        /\ \A j \in 1..n : i + j - 1 \in DOMAIN chain /\ high[j] = chain[i + j - 1]
  BY <1>2 DEF Shift
<1>b. PICK all : all = Len(chain)
  OBVIOUS
<1>c. i \in Nat /\ all \in Nat /\ i <= all /\ n = all - i + 1
  BY <1>2, <1>b
<1>d. i + n - 1 = all /\ n >= 1
  BY <1>c
<1>0. i + n - 1 = Len(chain) /\ n >= 1
  BY <1>b, <1>d
<1>4. Distinct(high)
  <2>1. \A j \in 1..n : high[j] \in live
    BY <1>2, <1>3 DEF Distinct
  <2>2. ASSUME NEW j \in 1..n, NEW l \in 1..n, high[j] = high[l] PROVE j = l
    <3>1. i + j - 1 = i + l - 1
      BY <1>2, <1>3, <2>2 DEF Distinct
    <3> QED
      BY <1>2, <1>3, <3>1
  <2> QED
    BY <1>2, <1>3, <2>1, <2>2 DEF Distinct
<1>5. high # <<>> /\ high[Len(high)] = from
  BY <1>0, <1>1, <1>2, <1>3
<1>6. high[1] = chain[i]
  BY <1>0, <1>2, <1>3
<1>7. ASSUME NEW j \in 2..n PROVE high[j] # chain[i] /\ parent[high[j]] = high[j - 1]
  <2>1. PICK l \in Nat : l = i + j - 1
    BY <1>2, <1>3
  <2>2. /\ j \in 1..n /\ j - 1 \in 1..n /\ l \in 2..Len(chain) /\ l # i
        /\ l - 1 = i + (j - 1) - 1 /\ l \in DOMAIN chain
    BY <1>2, <1>3, <2>1, SMTT(30)
  <2>3. high[j] = chain[l] /\ high[j - 1] = chain[l - 1]
    BY <1>2, <1>3, <2>1, <2>2
  <2>4. parent[chain[l]] = chain[l - 1]
    BY <1>1, <2>2 DEF IsChain
  <2>5. chain[l] # chain[i]
    BY <2>2 DEF Distinct
  <2> QED
    BY <2>3, <2>4, <2>5
<1> QED
  BY <1>1, <1>2, <1>3, <1>4, <1>5, <1>6, <1>7 DEF IsChain

LEMMA ChainKept ==
    ASSUME NEW chain, Distinct(chain), NEW from, NEW last, IsChain(chain, from, last),
           \A i \in DOMAIN chain : chain[i] \in live' /\ parent'[chain[i]] = parent[chain[i]]
    PROVE  Distinct(chain)' /\ IsChain(chain, from, last)'
<1>1. Distinct(chain)'
  BY DEF Distinct
<1>2. CASE from = NULL
  BY <1>1, <1>2 DEF IsChain
<1>3. CASE from # NULL
  <2>1. chain \in Seq(Coroutines) /\ chain # <<>>
    BY <1>3 DEF IsChain, Distinct
  <2>2. 1 \in DOMAIN chain /\ \A i \in 2..Len(chain) : i \in DOMAIN chain
    BY <2>1
  <2> QED
    BY <1>1, <1>3, <2>2 DEF IsChain
<1> QED
  BY <1>2, <1>3

----------------------------------------------------------------------------
(* What each action does to the lists.                                     *)

\* Control leaves the coroutines from place i up of thread t: they are its
\* no more, and what is below them is.
Leaves(s, t, i) ==
    /\ live' = live /\ parent' = parent /\ handled' = handled
    /\ \A u \in Threads : current'[u] = IF u = t THEN parent[s[t][i]] ELSE current[u]

LEMMA LeavingLists ==
    ASSUME NEW s, NEW c, Carry(s, c), NEW t \in Threads, NEW i \in DOMAIN s[t], Leaves(s, t, i),
           NEW u \in Threads
    PROVE  /\ Distinct(IF u = t THEN LowOf(s[t], i) ELSE s[u])'
           /\ IsChain(IF u = t THEN LowOf(s[t], i) ELSE s[u], current[u], NULL)'
<1>1. /\ \A v \in Threads : Distinct(s[v]) /\ IsChain(s[v], current[v], NULL)
      /\ live' = live /\ parent' = parent
  BY DEF Carry, Leaves
<1>2. PICK chain, from : chain = (IF u = t THEN LowOf(s[t], i) ELSE s[u]) /\ from = current'[u]
  OBVIOUS
<1>3. Distinct(chain) /\ IsChain(chain, from, NULL)
  <2>1. Distinct(LowOf(s[t], i)) /\ IsChain(LowOf(s[t], i), parent[s[t][i]], NULL)
    BY <1>1, LowChain
  <2> QED
    BY <1>1, <1>2, <2>1 DEF Leaves
<1>4. Distinct(chain)' /\ IsChain(chain, from, NULL)'
  <2>1. \A j \in DOMAIN chain : chain[j] \in live
    BY <1>2, <1>3 DEF Distinct
  <2> QED
    BY <1>1, <1>3, <2>1, ChainKept
<1> QED
  BY <1>2, <1>4 DEF IsChain

LEMMA FramesSame ==
    ASSUME NEW chain, \A i \in DOMAIN chain : handled'[chain[i]] = handled[chain[i]]
    PROVE  Frames(chain)' = Frames(chain)
  BY DEF Frames

\* What is on a list is alive and on no other.
LEMMA OnList ==
    ASSUME NEW owner \in [Coroutines -> Owners], NEW depth \in [Coroutines -> Nat],
           Chains(owner, depth), TypeOK,
           NEW s, NEW c, Carry(s, c), Owned(owner, s, c),
           NEW t \in Threads, NEW i \in DOMAIN s[t]
    PROVE  /\ s[t][i] \in Coroutines /\ owner[s[t][i]] = t
           /\ s[t][i] \in live /\ state[s[t][i]] = "PAUSED" /\ s[t][i] \notin resumable
           /\ current[t] # NULL
<1>1. /\ Distinct(s[t]) /\ IsChain(s[t], current[t], NULL) /\ owner[s[t][i]] = t
  BY DEF Carry, Owned
<1>2. s[t][i] \in Coroutines
  BY <1>1 DEF Distinct
<1>3. current[t] # NULL
  <2>1. s[t] # <<>>
    BY <1>1 DEF Distinct
  <2> QED
    BY <1>1, <2>1 DEF IsChain
<1> QED
  BY <1>1, <1>2, <1>3, ThreadHasTop

LEMMA SuspendedKept ==
    ASSUME TypeOK, NEW s, NEW c, Carry(s, c), NEW j \in resumable,
           live' = live, parent' = parent
    PROVE  Distinct(c[j])' /\ \A from : IsChain(c[j], from, j) => IsChain(c[j], from, j)'
<1>1. Distinct(c[j]) /\ IsChain(c[j], rp[j].co, j)
  BY DEF Carry
<1>2. \A i \in DOMAIN c[j] : c[j][i] \in live' /\ parent'[c[j][i]] = parent[c[j][i]]
  BY <1>1 DEF Distinct
<1> QED
  BY <1>1, <1>2, ChainKept

\* seff_yield to the coroutine at place i of t
Moved(s, c, t, i, k, s2, c2) ==
    /\ k = s[t][i]
    /\ s2 = [u \in Threads |-> IF u = t THEN LowOf(s[t], i) ELSE s[u]]
    /\ c2 = [j \in Coroutines |-> IF j = k THEN HighOf(s[t], i) ELSE c[j]]

LEMMA YieldLists ==
    ASSUME NEW owner \in [Coroutines -> Owners], NEW depth \in [Coroutines -> Nat],
           Chains(owner, depth), TypeOK,
           NEW s, NEW c, Carry(s, c), Owned(owner, s, c),
           NEW t \in Threads, NEW i \in DOMAIN s[t], NEW k, YieldTo(t, k),
           NEW s2, NEW c2, Moved(s, c, t, i, k, s2, c2)
    PROVE  Carry(s2, c2)' /\ k \notin resumable /\ k \in Coroutines
<1>0. /\ k = s[t][i]
      /\ \A u \in Threads : s2[u] = IF u = t THEN LowOf(s[t], i) ELSE s[u]
      /\ \A j \in Coroutines : c2[j] = IF j = k THEN HighOf(s[t], i) ELSE c[j]
  BY DEF Moved
<1>1. k \in Coroutines /\ k \in live /\ k \notin resumable /\ current[t] # NULL
  BY <1>0, OnList
<1>2. /\ live' = live /\ parent' = parent /\ handled' = handled
      /\ resumable' = resumable \cup {k}
      /\ \A j \in Coroutines \ {k} : rp'[j] = rp[j]
      /\ rp'[k].co = current[t]
      /\ \A u \in Threads : current'[u] = IF u = t THEN parent[k] ELSE current[u]
  BY <1>1 DEF TypeOK, YieldTo, YieldedPoint, SwitchTo
<1>3. Leaves(s, t, i)
  BY <1>0, <1>2 DEF Leaves
<1>4. ASSUME NEW u \in Threads PROVE Distinct(s2[u])' /\ IsChain(s2[u], current[u], NULL)'
  <2>1. PICK chain : chain = IF u = t THEN LowOf(s[t], i) ELSE s[u]
    OBVIOUS
  <2>2. Distinct(chain)' /\ IsChain(chain, current[u], NULL)'
    BY <1>3, <2>1, LeavingLists
  <2>3. s2[u] = chain
    BY <1>0, <2>1
  <2> QED
    BY <2>2, <2>3
<1>5. ASSUME NEW j \in resumable PROVE Distinct(c2[j])' /\ IsChain(c2[j], rp[j].co, j)'
  <2>1. j \in Coroutines /\ j # k /\ rp'[j] = rp[j] /\ c2[j] = c[j]
    BY <1>0, <1>1, <1>2 DEF TypeOK
  <2>2. IsChain(c[j], rp[j].co, j)
    BY DEF Carry
  <2>3. PICK from : from = rp[j].co
    OBVIOUS
  <2>4. Distinct(c[j])' /\ IsChain(c[j], from, j)'
    BY <1>2, <2>2, <2>3, SuspendedKept
  <2> QED
    BY <2>1, <2>3, <2>4 DEF IsChain, Distinct
<1>6. Distinct(c2[k])' /\ IsChain(c2[k], rp[k].co, k)'
  <2>1. PICK high, from : high = HighOf(s[t], i) /\ from = current[t]
    OBVIOUS
  <2>2. Distinct(high) /\ IsChain(high, from, k)
    <3>1. Distinct(s[t]) /\ IsChain(s[t], from, NULL)
      BY <2>1 DEF Carry
    <3> QED
      BY <1>0, <2>1, <3>1, HighChain
  <2>3. \A j \in DOMAIN high : high[j] \in live' /\ parent'[high[j]] = parent[high[j]]
    BY <1>2, <2>2 DEF Distinct
  <2>4. Distinct(high)' /\ IsChain(high, from, k)'
    BY <2>2, <2>3, ChainKept
  <2>5. PICK mine : mine = c2[k]
    OBVIOUS
  <2>9. mine = high
    BY <1>0, <1>1, <2>1, <2>5
  <2>6. rp'[k].co = from
    BY <1>2, <2>1
  <2>7. Distinct(c2[k])'
    BY <2>4, <2>5, <2>9 DEF Distinct
  <2>8. IsChain(c2[k], rp[k].co, k)'
    BY <2>4, <2>5, <2>6, <2>9 DEF IsChain
  <2> QED
    BY <2>7, <2>8
<1> QED
  BY <1>1, <1>2, <1>4, <1>5, <1>6 DEF Carry

\* seff_exit to the coroutine at place i of t
LEMMA ExitLists ==
    ASSUME NEW owner \in [Coroutines -> Owners], NEW depth \in [Coroutines -> Nat],
           Chains(owner, depth), TypeOK,
           NEW s, NEW c, Carry(s, c), Owned(owner, s, c),
           NEW t \in Threads, NEW i \in DOMAIN s[t], NEW k, k = s[t][i], ExitTo(t, k),
           NEW s2, s2 = [u \in Threads |-> IF u = t THEN LowOf(s[t], i) ELSE s[u]]
    PROVE  Carry(s2, c)' /\ k \in live /\ k \in Coroutines
<1>1. k \in Coroutines /\ k \in live /\ k \notin resumable /\ current[t] # NULL
  BY OnList
<1>2. /\ live' = live /\ parent' = parent /\ handled' = handled
      /\ resumable' = resumable
      /\ \A j \in Coroutines \ {k} : rp'[j] = rp[j]
      /\ \A u \in Threads : current'[u] = IF u = t THEN parent[k] ELSE current[u]
  BY <1>1 DEF TypeOK, ExitTo, SwitchTo
<1>3. Leaves(s, t, i)
  BY <1>2 DEF Leaves
<1>4. ASSUME NEW u \in Threads PROVE Distinct(s2[u])' /\ IsChain(s2[u], current[u], NULL)'
  <2>1. PICK chain : chain = IF u = t THEN LowOf(s[t], i) ELSE s[u]
    OBVIOUS
  <2>2. Distinct(chain)' /\ IsChain(chain, current[u], NULL)'
    BY <1>3, <2>1, LeavingLists
  <2>3. s2[u] = chain
    BY <2>1
  <2> QED
    BY <2>2, <2>3
<1>5. ASSUME NEW j \in resumable PROVE Distinct(c[j])' /\ IsChain(c[j], rp[j].co, j)'
  <2>1. j \in Coroutines /\ j # k /\ rp'[j] = rp[j]
    BY <1>1, <1>2 DEF TypeOK
  <2>2. IsChain(c[j], rp[j].co, j)
    BY DEF Carry
  <2>3. PICK from : from = rp[j].co
    OBVIOUS
  <2>4. Distinct(c[j])' /\ IsChain(c[j], from, j)'
    BY <1>2, <2>2, <2>3, SuspendedKept
  <2> QED
    BY <2>1, <2>3, <2>4 DEF IsChain
<1> QED
  BY <1>1, <1>2, <1>4, <1>5 DEF Carry

\* The chain of k on top of that of t
LEMMA ResumedList ==
    ASSUME NEW low, NEW high, Distinct(low), Distinct(high),
           NEW from \in Coroutines \cup {NULL}, IsChain(low, from, NULL),
           NEW top \in Coroutines, NEW k \in Coroutines, IsChain(high, top, k),
           high[1] = k,
           \A i \in DOMAIN low, j \in DOMAIN high : low[i] # high[j],
           live' = live, \A j \in Coroutines \ {k} : parent'[j] = parent[j], parent'[k] = from
    PROVE  Distinct(low \o high)' /\ IsChain(low \o high, top, NULL)'
<1>1. /\ low \in Seq(Coroutines) /\ high \in Seq(Coroutines)
      /\ high # <<>> /\ high[Len(high)] = top /\ NULL \notin Coroutines
      /\ \A i \in 2..Len(high) : high[i] # k /\ parent[high[i]] = high[i - 1]
  BY DEF Distinct, IsChain
<1>2. PICK m \in Nat, n \in Nat : m = Len(low) /\ n = Len(high)
  BY <1>1
<1>3. PICK both : both = low \o high
  OBVIOUS
<1>4. /\ n >= 1 /\ DOMAIN low = 1..m /\ DOMAIN high = 1..n
  BY <1>1, <1>2
<1>5. both \in Seq(Coroutines) /\ Len(both) = m + n /\ DOMAIN both = 1..(m + n)
  BY <1>1, <1>2, <1>3
<1>6. \A i \in 1..m : both[i] = low[i]
  BY <1>1, <1>2, <1>3
<1>7. \A i \in 1..(m + n) : i > m => i - m \in 1..n /\ both[i] = high[i - m]
  BY <1>1, <1>2, <1>3
<1>8. Distinct(both)'
  <2>1. ASSUME NEW i \in 1..(m + n) PROVE both[i] \in live'
    <3>1. CASE i <= m
      BY <1>4, <1>6, <3>1 DEF Distinct
    <3>2. CASE i > m
      BY <1>4, <1>7, <3>2 DEF Distinct
    <3> QED
      BY <3>1, <3>2
  <2>2. ASSUME NEW i \in 1..(m + n), NEW j \in 1..(m + n), both[i] = both[j] PROVE i = j
    <3>1. CASE i <= m /\ j <= m
      <4>1. i \in DOMAIN low /\ j \in DOMAIN low /\ low[i] = low[j]
        BY <1>4, <1>6, <2>2, <3>1
      <4> QED
        BY <4>1 DEF Distinct
    <3>2. CASE i > m /\ j > m
      <4>1. i - m \in DOMAIN high /\ j - m \in DOMAIN high /\ high[i - m] = high[j - m]
        BY <1>4, <1>7, <2>2, <3>2
      <4>2. i - m = j - m
        BY <4>1 DEF Distinct
      <4> QED
        BY <4>2
    <3>3. CASE i <= m /\ j > m
      <4>1. i \in DOMAIN low /\ j - m \in DOMAIN high /\ low[i] = high[j - m]
        BY <1>4, <1>6, <1>7, <2>2, <3>3
      <4> QED
        BY <4>1
    <3>4. CASE i > m /\ j <= m
      <4>1. j \in DOMAIN low /\ i - m \in DOMAIN high /\ low[j] = high[i - m]
        BY <1>4, <1>6, <1>7, <2>2, <3>4
      <4> QED
        BY <4>1
    <3> QED
      BY <3>1, <3>2, <3>3, <3>4
  <2> QED
    BY <1>5, <2>1, <2>2 DEF Distinct
<1>9. both[Len(both)] = top /\ both # <<>>
  <2>1. m + n \in 1..(m + n) /\ m + n > m /\ (m + n) - m = n
    BY <1>4
  <2>2. both[m + n] = high[n]
    BY <1>7, <2>1
  <2> QED
    BY <1>1, <1>2, <1>5, <2>1, <2>2
<1>10. both[m + 1] = k /\ m + 1 \in 1..(m + n)
  <2>1. m + 1 \in 1..(m + n) /\ m + 1 > m /\ (m + 1) - m = 1
    BY <1>4
  <2> QED
    BY <1>7, <2>1
<1>11. \A i \in 1..m : low[i] # k
  <2>1. 1 \in DOMAIN high
    BY <1>4
  <2> QED
    BY <1>4, <2>1
<1>12. parent'[both[1]] = NULL
  <2>1. CASE m = 0
    <3>a. Len(low) = 0 /\ m + 1 = 1
      BY <1>2, <2>1
    <3>b. low = <<>>
      BY <1>1, <3>a
    <3>1. low = <<>> /\ both[1] = k
      BY <1>10, <3>a, <3>b
    <3>2. from = NULL
      BY <3>1 DEF IsChain
    <3> QED
      BY <3>1, <3>2
  <2>2. CASE m # 0
    <3>1. 1 \in 1..m /\ low # <<>> /\ low[1] \in Coroutines
      BY <1>1, <1>2, <1>4, <2>2
    <3>2. parent[low[1]] = NULL
      BY <1>1, <3>1 DEF IsChain
    <3> QED
      BY <1>6, <1>11, <3>1, <3>2
  <2> QED
    BY <2>1, <2>2
<1>13. ASSUME NEW i \in 2..(m + n) PROVE parent'[both[i]] = both[i - 1]
  <2>1. CASE i <= m
    <3>1. i \in 1..m /\ i - 1 \in 1..m /\ low # <<>> /\ i \in 2..Len(low) /\ low[i] \in Coroutines
      BY <1>1, <1>2, <2>1
    <3>2. parent[low[i]] = low[i - 1]
      BY <3>1 DEF IsChain
    <3> QED
      BY <1>6, <1>11, <3>1, <3>2
  <2>2. CASE i = m + 1
    <3>1. m \in 1..m /\ low # <<>> /\ i - 1 = m
      BY <1>1, <1>2, <2>2
    <3>2. low[m] = from
      BY <1>2, <3>1 DEF IsChain
    <3> QED
      BY <1>6, <1>10, <2>2, <3>1, <3>2
  <2>3. CASE i > m + 1
    <3>1. PICK j : j = i - m
      OBVIOUS
    <3>2. /\ j \in 2..n /\ i \in 1..(m + n) /\ i > m
          /\ i - 1 \in 1..(m + n) /\ i - 1 > m /\ (i - 1) - m = j - 1
      BY <1>4, <2>3, <3>1
    <3>3. both[i] = high[j] /\ both[i - 1] = high[j - 1]
      BY <1>7, <3>1, <3>2
    <3>4. high[j] # k /\ parent[high[j]] = high[j - 1] /\ high[j] \in Coroutines
      BY <1>1, <1>2, <3>2
    <3> QED
      BY <3>3, <3>4
  <2> QED
    BY <2>1, <2>2, <2>3
<1>14. \A i \in 2..(m + n) : both[i] # NULL
  BY <1>1, <1>5
<1>15. IsChain(both, top, NULL)'
  BY <1>1, <1>5, <1>9, <1>12, <1>13, <1>14 DEF IsChain
<1> QED
  BY <1>3, <1>8, <1>15 DEF Distinct, IsChain

\* The lists of the threads once t has resumed k
StacksWith(s, c, t, k) == [u \in Threads |-> IF u = t THEN s[t] \o c[k] ELSE s[u]]

\* seff_resume of k
LEMMA ResumeLists ==
    ASSUME NEW owner \in [Coroutines -> Owners], NEW depth \in [Coroutines -> Nat],
           Chains(owner, depth), TypeOK,
           NEW s, NEW c, Carry(s, c), Owned(owner, s, c),
           NEW t \in Threads, NEW k \in Coroutines, NEW H \in SUBSET Effects, Resume(t, k, H),
           NEW s2, s2 = StacksWith(s, c, t, k)
    PROVE  Carry(s2, c)'
<1>1. /\ k \in resumable /\ owner[k] = k
      /\ live' = live /\ resumable' = resumable \ {k}
      /\ \A j \in Coroutines \ {k} : rp'[j] = rp[j] /\ parent'[j] = parent[j]
      /\ parent'[k] = current[t]
      /\ \A u \in Threads : current'[u] = IF u = t THEN rp[k].co ELSE current[u]
  BY DEF TypeOK, Resume, Chains, Attached
<1>2. /\ current[t] \in Coroutines \cup {NULL} /\ rp[k].co \in Coroutines
      /\ k \notin Threads
  BY <1>1 DEF TypeOK, Chains, SuspendedTops
<1>3. ASSUME NEW u \in Threads, u # t PROVE Distinct(s2[u])' /\ IsChain(s2[u], current[u], NULL)'
  <2>1. PICK chain, from : chain = s[u] /\ from = current[u]
    OBVIOUS
  <2>2. Distinct(chain) /\ IsChain(chain, from, NULL) /\ \A i \in DOMAIN chain : owner[chain[i]] = u
    BY <2>1 DEF Carry, Owned
  <2>3. \A i \in DOMAIN chain : chain[i] \in live' /\ parent'[chain[i]] = parent[chain[i]]
    BY <1>1, <1>2, <2>2 DEF Distinct
  <2>4. Distinct(chain)' /\ IsChain(chain, from, NULL)'
    BY <2>2, <2>3, ChainKept
  <2>5. s2[u] = chain /\ current'[u] = from
    BY <1>1, <1>3, <2>1 DEF StacksWith
  <2> QED
    BY <2>4, <2>5 DEF Distinct, IsChain
<1>4. Distinct(s2[t])' /\ IsChain(s2[t], current[t], NULL)'
  <2>1. PICK low, high, from, top :
          low = s[t] /\ high = c[k] /\ from = current[t] /\ top = rp[k].co
    OBVIOUS
  <2>2. /\ Distinct(low) /\ IsChain(low, from, NULL) /\ \A i \in DOMAIN low : owner[low[i]] = t
        /\ Distinct(high) /\ IsChain(high, top, k) /\ high[1] = k
        /\ \A i \in DOMAIN high : owner[high[i]] = k
    BY <1>1, <2>1 DEF Carry, Owned
  <2>3. \A i \in DOMAIN low, j \in DOMAIN high : low[i] # high[j]
    BY <1>2, <2>2
  <2>4. Distinct(low \o high)' /\ IsChain(low \o high, top, NULL)'
    BY <1>1, <1>2, <2>1, <2>2, <2>3, ResumedList
  <2>5. PICK both : both = low \o high
    OBVIOUS
  <2>6. s2[t] = both /\ current'[t] = top
    BY <1>1, <2>1, <2>5 DEF StacksWith
  <2>7. Distinct(both)' /\ IsChain(both, top, NULL)'
    BY <2>4, <2>5 DEF Distinct, IsChain
  <2> QED
    BY <2>6, <2>7 DEF Distinct, IsChain
<1>5. ASSUME NEW j \in resumable, j # k PROVE Distinct(c[j])' /\ IsChain(c[j], rp[j].co, j)'
  <2>1. PICK chain, from : chain = c[j] /\ from = rp[j].co
    OBVIOUS
  <2>2. /\ Distinct(chain) /\ IsChain(chain, from, j)
        /\ \A i \in DOMAIN chain : owner[chain[i]] = j
    BY <2>1 DEF Carry, Owned
  <2>3. \A i \in DOMAIN chain : chain[i] \in live' /\ parent'[chain[i]] = parent[chain[i]]
    BY <1>1, <1>5, <2>2 DEF Distinct
  <2>4. Distinct(chain)' /\ IsChain(chain, from, j)'
    BY <2>2, <2>3, ChainKept
  <2>5. rp'[j].co = from
    BY <1>1, <1>5, <2>1 DEF TypeOK
  <2> QED
    BY <2>1, <2>4, <2>5 DEF Distinct, IsChain
<1> QED
  BY <1>1, <1>3, <1>4, <1>5 DEF Carry

\* seff_coroutine_new of k
LEMMA NewLists ==
    ASSUME TypeOK, NEW s, NEW c, Carry(s, c),
           NEW t \in Threads, NEW k \in Coroutines, New(t, k),
           NEW c2, \A j \in Coroutines : c2[j] = IF j = k THEN <<k>> ELSE c[j]
    PROVE  Carry(s, c2)'
<1>1. /\ k \notin live /\ live' = live \cup {k} /\ resumable' = resumable \cup {k}
      /\ \A j \in Coroutines \ {k} : rp'[j] = rp[j] /\ parent'[j] = parent[j]
      /\ rp'[k].co = k /\ current' = current
  BY DEF TypeOK, New, NewResumePoint, threadVars
<1>2. ASSUME NEW chain, Distinct(chain), NEW from, NEW last, IsChain(chain, from, last)
      PROVE  Distinct(chain)' /\ IsChain(chain, from, last)'
  <2>1. \A i \in DOMAIN chain : chain[i] \in Coroutines /\ chain[i] \in live
    BY <1>2 DEF Distinct
  <2>2. \A i \in DOMAIN chain : chain[i] \in live' /\ parent'[chain[i]] = parent[chain[i]]
    BY <1>1, <2>1
  <2> QED
    BY <1>2, <2>2, ChainKept
<1>3. ASSUME NEW u \in Threads PROVE Distinct(s[u])' /\ IsChain(s[u], current[u], NULL)'
  <2>1. PICK chain, from : chain = s[u] /\ from = current[u]
    OBVIOUS
  <2>2. Distinct(chain) /\ IsChain(chain, from, NULL)
    BY <2>1 DEF Carry
  <2>3. Distinct(chain)' /\ IsChain(chain, from, NULL)'
    BY <1>2, <2>2
  <2> QED
    BY <1>1, <2>1, <2>3 DEF Distinct, IsChain
<1>4. ASSUME NEW j \in resumable, j # k PROVE Distinct(c2[j])' /\ IsChain(c2[j], rp[j].co, j)'
  <2>1. PICK chain, from : chain = c[j] /\ from = rp[j].co
    OBVIOUS
  <2>2. Distinct(chain) /\ IsChain(chain, from, j)
    BY <2>1 DEF Carry
  <2>3. Distinct(chain)' /\ IsChain(chain, from, j)'
    BY <1>2, <2>2
  <2>4. c2[j] = chain /\ rp'[j].co = from
    BY <1>1, <1>4, <2>1 DEF TypeOK
  <2> QED
    BY <2>3, <2>4 DEF Distinct, IsChain
<1>5. Distinct(c2[k])' /\ IsChain(c2[k], rp[k].co, k)'
  <2>1. c2[k] = <<k>> /\ rp'[k].co = k
    BY <1>1
  <2> QED
    BY <1>1, <2>1 DEF Distinct, IsChain
<1> QED
  BY <1>1, <1>3, <1>4, <1>5 DEF Carry

\* seff_coroutine_delete of k
LEMMA DeleteLists ==
    ASSUME NEW owner \in [Coroutines -> Owners], NEW depth \in [Coroutines -> Nat],
           Chains(owner, depth), TypeOK,
           NEW s, NEW c, Carry(s, c), Owned(owner, s, c),
           NEW t \in Threads, NEW k \in Coroutines, Delete(t, k)
    PROVE  Carry(s, c)'
<1>1. /\ live' = live \ {k} /\ resumable' = resumable \ {k}
      /\ rp' = rp /\ parent' = parent /\ current' = current
      /\ owner[k] = k \/ owner[k] = NULL
  BY DEF Delete, threadVars, Chains, Attached
<1>2. ASSUME NEW o \in Coroutines \cup Threads, o # k, NEW chain, Distinct(chain),
             \A i \in DOMAIN chain : owner[chain[i]] = o,
             NEW from, NEW last, IsChain(chain, from, last)
      PROVE  Distinct(chain)' /\ IsChain(chain, from, last)'
  <2>1. \A i \in DOMAIN chain : chain[i] # k /\ chain[i] \in live
    BY <1>1, <1>2 DEF Distinct
  <2>2. \A i \in DOMAIN chain : chain[i] \in live' /\ parent'[chain[i]] = parent[chain[i]]
    BY <1>1, <2>1
  <2> QED
    BY <1>2, <2>2, ChainKept
<1>3. ASSUME NEW u \in Threads PROVE Distinct(s[u])' /\ IsChain(s[u], current[u], NULL)'
  <2>1. PICK chain, from : chain = s[u] /\ from = current[u]
    OBVIOUS
  <2>2. Distinct(chain) /\ IsChain(chain, from, NULL) /\ \A i \in DOMAIN chain : owner[chain[i]] = u
    BY <2>1 DEF Carry, Owned
  <2>3. Distinct(chain)' /\ IsChain(chain, from, NULL)'
    <3>1. u # k
      OBVIOUS
    <3> QED
      BY <1>2, <2>2, <3>1
  <2> QED
    BY <1>1, <2>1, <2>3 DEF Distinct, IsChain
<1>4. ASSUME NEW j \in resumable, j # k PROVE Distinct(c[j])' /\ IsChain(c[j], rp[j].co, j)'
  <2>1. PICK chain, from : chain = c[j] /\ from = rp[j].co
    OBVIOUS
  <2>2. /\ Distinct(chain) /\ IsChain(chain, from, j) /\ \A i \in DOMAIN chain : owner[chain[i]] = j
        /\ j \in Coroutines
    BY <2>1 DEF Carry, Owned, TypeOK
  <2>3. Distinct(chain)' /\ IsChain(chain, from, j)'
    BY <1>2, <1>4, <2>2
  <2> QED
    BY <1>1, <2>1, <2>3 DEF Distinct, IsChain
<1> QED
  BY <1>1, <1>3, <1>4 DEF Carry

\* The other steps leave the lists alone.
LEMMA SameLists ==
    ASSUME NEW s, NEW c, Carry(s, c), UNCHANGED <<live, parent, rp, current, resumable>>
    PROVE  Carry(s, c)'
  BY DEF Carry, Distinct, IsChain

----------------------------------------------------------------------------
(* The steps, as the frames see them.                                      *)

\* What the invariant says of the blocks, with the lists it gives
Known(owner, s, c) ==
    /\ owner \in [Coroutines -> Owners]
    /\ \E depth \in [Coroutines -> Nat] : Chains(owner, depth)
    /\ Carry(s, c) /\ Owned(owner, s, c) /\ FramesOf(s, c)

LEMMA KnownExists ==
    ASSUME Inv, IsFiniteSet(live)
    PROVE  \E owner, s, c : Known(owner, s, c)
<1>1. PICK owner \in [Coroutines -> Owners], depth \in [Coroutines -> Nat] : Chains(owner, depth)
  BY DEF Inv
<1>2. TypeOK
  BY DEF Inv
<1>3. PICK s, c : Carry(s, c) /\ Owned(owner, s, c)
  BY <1>1, <1>2, ListsExist
<1>4. FramesOf(s, c)
  BY <1>2, <1>3, CarriedFrames DEF ListsGiveFrames
<1> QED
  BY <1>1, <1>3, <1>4 DEF Known

\* A handler stack, read off a list
LEMMA StackIs ==
    ASSUME NEW owner, NEW s, NEW c, Known(owner, s, c), TypeOK, NEW t \in Threads
    PROVE  /\ s[t] \in Seq(Coroutines) /\ HandlerStack[t] = Frames(s[t])
           /\ DOMAIN HandlerStack[t] = DOMAIN s[t] /\ Len(HandlerStack[t]) = Len(s[t])
           /\ \A i \in DOMAIN s[t] : HandlerStack[t][i] = [co |-> s[t][i], h |-> handled[s[t][i]]]
<1>1. s[t] \in Seq(Coroutines) /\ HandlerStack[t] = Frames(s[t])
  BY DEF Known, Carry, Distinct, FramesOf
<1> QED
  BY <1>1, FramesAre

LEMMA YieldFrames ==
    ASSUME NEW owner, NEW s, NEW c, Known(owner, s, c), TypeOK, TypeOK', IsFiniteSet(live),
           NEW t \in Threads, NEW i \in DOMAIN s[t], YieldTo(t, s[t][i])
    PROVE  /\ HandlerStack' = [HandlerStack EXCEPT ![t] = LowOf(@, i)]
           /\ Captured' = [Captured EXCEPT ![s[t][i]] =
                              [HighOf(HandlerStack[t], i) EXCEPT ![1].h = {}]]
<1>1. PICK k, s2, c2 : Moved(s, c, t, i, k, s2, c2)
  BY DEF Moved
<1>2. k = s[t][i] /\ YieldTo(t, k)
  BY <1>1 DEF Moved
<1>3. Carry(s2, c2)' /\ k \notin resumable /\ k \in Coroutines
  BY <1>1, <1>2, YieldLists DEF Known
<1>4. live' = live /\ handled' = handled /\ resumable' = resumable \cup {k}
  BY <1>2 DEF YieldTo
<1>5. FramesOf(s2, c2)'
  BY <1>3, <1>4, CarriedFramesAfter DEF ListsGiveFrames
<1>6. \A chain : Frames(chain)' = Frames(chain)
  BY <1>4, FramesSame
<1>7. /\ HandlerStack[t] = Frames(s[t])
      /\ Frames(LowOf(s[t], i)) = LowOf(HandlerStack[t], i)
      /\ Frames(HighOf(s[t], i)) = HighOf(HandlerStack[t], i)
  <2>1. s[t] \in Seq(Coroutines) /\ HandlerStack[t] = Frames(s[t])
    BY StackIs
  <2> QED
    BY <2>1, FramesOfParts
<1>8. HandlerStack' = [HandlerStack EXCEPT ![t] = LowOf(@, i)]
  <2>1. HandlerStack' = [u \in Threads |-> Frames(s2[u])]
    BY <1>5, <1>6 DEF FramesOf
  <2>2. HandlerStack = [u \in Threads |-> Frames(s[u])]
    BY DEF Known, FramesOf
  <2>3. \A u \in Threads : s2[u] = IF u = t THEN LowOf(s[t], i) ELSE s[u]
    BY <1>1 DEF Moved
  <2>4. \A u \in Threads : Frames(s2[u]) = IF u = t THEN LowOf(HandlerStack[t], i)
                                                    ELSE HandlerStack[u]
    BY <1>7, <2>2, <2>3
  <2> QED
    BY <2>1, <2>2, <2>4
<1>9. Captured' = [Captured EXCEPT ![k] = [HighOf(HandlerStack[t], i) EXCEPT ![1].h = {}]]
  <2>1. Captured' = [j \in Coroutines |->
                       IF j \in resumable' THEN [Frames(c2[j]) EXCEPT ![1].h = {}] ELSE <<>>]
    BY <1>5, <1>6 DEF FramesOf
  <2>2. Captured = [j \in Coroutines |->
                       IF j \in resumable THEN [Frames(c[j]) EXCEPT ![1].h = {}] ELSE <<>>]
    BY DEF Known, FramesOf
  <2>3. \A j \in Coroutines : c2[j] = IF j = k THEN HighOf(s[t], i) ELSE c[j]
    BY <1>1 DEF Moved
  <2>4. \A j \in Coroutines : Frames(c2[j]) = IF j = k THEN HighOf(HandlerStack[t], i)
                                                       ELSE Frames(c[j])
    BY <1>7, <2>3
  <2> QED
    BY <1>3, <1>4, <2>1, <2>2, <2>4
<1> QED
  BY <1>2, <1>8, <1>9

LEMMA ExitFrames ==
    ASSUME NEW owner, NEW s, NEW c, Known(owner, s, c), TypeOK, TypeOK', IsFiniteSet(live),
           NEW t \in Threads, NEW i \in DOMAIN s[t], ExitTo(t, s[t][i])
    PROVE  /\ HandlerStack' = [HandlerStack EXCEPT ![t] = LowOf(@, i)]
           /\ Captured' = Captured
           /\ Status' = [Status EXCEPT ![s[t][i]] = "finished"]
<1>1. PICK k, s2 : /\ k = s[t][i]
                   /\ s2 = [u \in Threads |-> IF u = t THEN LowOf(s[t], i) ELSE s[u]]
  OBVIOUS
<1>2. ExitTo(t, k)
  BY <1>1
<1>3. Carry(s2, c)' /\ k \in live /\ k \in Coroutines
  BY <1>1, <1>2, ExitLists DEF Known
<1>4. live' = live /\ handled' = handled /\ resumable' = resumable
      /\ state' = [state EXCEPT ![k] = "FINISHED"]
  BY <1>2 DEF ExitTo
<1>5. FramesOf(s2, c)'
  BY <1>3, <1>4, CarriedFramesAfter DEF ListsGiveFrames
<1>6. \A chain : Frames(chain)' = Frames(chain)
  BY <1>4, FramesSame
<1>7. HandlerStack[t] = Frames(s[t]) /\ Frames(LowOf(s[t], i)) = LowOf(HandlerStack[t], i)
  <2>1. s[t] \in Seq(Coroutines) /\ HandlerStack[t] = Frames(s[t])
    BY StackIs
  <2> QED
    BY <2>1, FramesOfParts
<1>8. HandlerStack' = [HandlerStack EXCEPT ![t] = LowOf(@, i)]
  <2>1. HandlerStack' = [u \in Threads |-> Frames(s2[u])]
    BY <1>5, <1>6 DEF FramesOf
  <2>2. HandlerStack = [u \in Threads |-> Frames(s[u])]
    BY DEF Known, FramesOf
  <2>3. \A u \in Threads : s2[u] = IF u = t THEN LowOf(s[t], i) ELSE s[u]
    BY <1>1
  <2>4. \A u \in Threads : Frames(s2[u]) = IF u = t THEN LowOf(HandlerStack[t], i)
                                                    ELSE HandlerStack[u]
    BY <1>7, <2>2, <2>3
  <2> QED
    BY <2>1, <2>2, <2>4
<1>9. Captured' = Captured
  <2>1. Captured' = [j \in Coroutines |->
                       IF j \in resumable' THEN [Frames(c[j]) EXCEPT ![1].h = {}] ELSE <<>>]
    BY <1>5, <1>6 DEF FramesOf
  <2>2. Captured = [j \in Coroutines |->
                       IF j \in resumable THEN [Frames(c[j]) EXCEPT ![1].h = {}] ELSE <<>>]
    BY DEF Known, FramesOf
  <2> QED
    BY <1>4, <2>1, <2>2
<1>10. Status' = [Status EXCEPT ![k] = "finished"]
  <2>1. /\ live' = live /\ k \in live /\ state'[k] = "FINISHED"
        /\ \A j \in Coroutines \ {k} : state'[j] = state[j]
    BY <1>3, <1>4 DEF TypeOK
  <2>2. Status' = [j \in Coroutines |-> IF j = k THEN "finished" ELSE Status[j]]
    BY <2>1 DEF Status
  <2> QED
    BY <2>2 DEF Status
<1> QED
  BY <1>1, <1>8, <1>9, <1>10

WithHandlers(f, H) == [f EXCEPT ![1].h = H]

StartsWith(f, k, h) == f[1] = [co |-> k, h |-> h]

ReplacedBy(S, f, n, k, H, g) ==
    /\ g \in Seq(S) /\ Len(g) = n /\ DOMAIN g = 1..n /\ StartsWith(g, k, H)
    /\ \A i \in 2..n : g[i] = f[i]

LEMMA HandlersReplaced ==
    ASSUME NEW S, NEW f \in Seq(S), NEW k, NEW h, StartsWith(f, k, h), Len(f) # 0,
           NEW H, [co |-> k, h |-> H] \in S
    PROVE  ReplacedBy(S, f, Len(f), k, H, WithHandlers(f, H))
<1>1. [f[1] EXCEPT !.h = H] = [co |-> k, h |-> H]
  BY DEF StartsWith
<1>2. [f EXCEPT ![1].h = H] = [f EXCEPT ![1] = [f[1] EXCEPT !.h = H]]
  OBVIOUS
<1>3. WithHandlers(f, H) = [f EXCEPT ![1] = [co |-> k, h |-> H]]
  BY <1>1, <1>2 DEF WithHandlers
<1>4. Len(f) \in Nat /\ DOMAIN f = 1..Len(f) /\ 1 \in DOMAIN f
  OBVIOUS
<1> QED
  BY <1>3, <1>4 DEF ReplacedBy, StartsWith

JoinOf(f, g) == f \o g

JoinedFrom(S, f, g, m, n, both) ==
    /\ m \in Nat /\ n \in Nat /\ both \in Seq(S) /\ Len(both) = m + n
    /\ DOMAIN both = 1..(m + n)
    /\ \A i \in 1..(m + n) : both[i] = IF i <= m THEN f[i] ELSE g[i - m]

LEMMA Joined ==
    ASSUME NEW S, NEW f \in Seq(S), NEW g \in Seq(S)
    PROVE  JoinedFrom(S, f, g, Len(f), Len(g), JoinOf(f, g))
  BY DEF JoinOf, JoinedFrom

\* seff_resume installs new handlers at the bottom of what it puts back.
PutBack(low, high, k, H) ==
    /\ low \in Seq(Coroutines) /\ \A i \in DOMAIN low : low[i] # k
    /\ Distinct(high) /\ high # <<>> /\ high[1] = k
    /\ handled' = [handled EXCEPT ![k] = H]

LEMMA ResumedFrames ==
    ASSUME TypeOK, TypeOK', NEW low, NEW high, NEW k \in Coroutines, NEW H \in SUBSET Effects,
           PutBack(low, high, k, H)
    PROVE  Frames(JoinOf(low, high))' =
               JoinOf(Frames(low), WithHandlers(WithHandlers(Frames(high), {}), H))
<1>0. /\ low \in Seq(Coroutines) /\ \A i \in DOMAIN low : low[i] # k
      /\ Distinct(high) /\ high # <<>> /\ high[1] = k
      /\ handled' = [handled EXCEPT ![k] = H]
  BY DEF PutBack
<1> USE <1>0
<1>1. high \in Seq(Coroutines) /\ \A i \in DOMAIN high : i # 1 => high[i] # k
  <2>1. high \in Seq(Coroutines) /\ 1 \in DOMAIN high
    BY DEF Distinct
  <2> QED
    BY <2>1 DEF Distinct
<1>2. PICK m \in Nat, n \in Nat : m = Len(low) /\ n = Len(high)
  BY <1>1
<1>3. PICK F : F = FramesT
  OBVIOUS
<1>4. PICK a, b : a = Frames(low) /\ b = Frames(high)
  OBVIOUS
<1>5. /\ a \in Seq(F) /\ Len(a) = m /\ DOMAIN a = 1..m
      /\ \A i \in 1..m : a[i] = [co |-> low[i], h |-> handled[low[i]]]
  BY <1>2, <1>3, <1>4, FramesAre
<1>6. /\ b \in Seq(F) /\ Len(b) = n /\ DOMAIN b = 1..n
      /\ \A i \in 1..n : b[i] = [co |-> high[i], h |-> handled[high[i]]]
  BY <1>1, <1>2, <1>3, <1>4, FramesAre
<1>7. PICK q, r : q = WithHandlers(b, {}) /\ r = WithHandlers(q, H)
  OBVIOUS
<1>8. n # 0 /\ n >= 1 /\ 1 \in 1..n /\ b[1] = [co |-> k, h |-> handled[k]]
  BY <1>1, <1>2, <1>6
<1>9. /\ r \in Seq(F) /\ Len(r) = n /\ DOMAIN r = 1..n
      /\ r[1] = [co |-> k, h |-> H] /\ \A i \in 2..n : r[i] = b[i]
  <2>1. [co |-> k, h |-> H] \in F /\ [co |-> k, h |-> {}] \in F
    BY <1>3 DEF FramesT
  <2>2. ReplacedBy(F, b, n, k, {}, q)
    <3>1. StartsWith(b, k, handled[k]) /\ Len(b) = n /\ b \in Seq(F)
      BY <1>6, <1>8 DEF StartsWith
    <3> QED
      BY <1>7, <1>8, <2>1, <3>1, HandlersReplaced
  <2>3. ReplacedBy(F, q, n, k, H, r)
    <3>1. StartsWith(q, k, {}) /\ Len(q) = n /\ q \in Seq(F)
      BY <2>2 DEF ReplacedBy
    <3> QED
      BY <1>7, <1>8, <2>1, <3>1, HandlersReplaced
  <2> QED
    BY <2>2, <2>3 DEF ReplacedBy, StartsWith
<1>10. PICK both, g : both = JoinOf(low, high) /\ g = JoinOf(a, r)
  OBVIOUS
<1>11. /\ both \in Seq(Coroutines) /\ Len(both) = m + n /\ DOMAIN both = 1..(m + n)
       /\ \A i \in 1..(m + n) : both[i] = IF i <= m THEN low[i] ELSE high[i - m]
  <2>1. JoinedFrom(Coroutines, low, high, m, n, both)
    BY <1>1, <1>2, <1>10, Joined
  <2> QED
    BY <2>1 DEF JoinedFrom
<1>12. /\ g \in Seq(F) /\ Len(g) = m + n /\ DOMAIN g = 1..(m + n)
       /\ \A i \in 1..(m + n) : g[i] = IF i <= m THEN a[i] ELSE r[i - m]
  <2>1. a \in Seq(F) /\ m = Len(a) /\ r \in Seq(F) /\ n = Len(r)
    BY <1>5, <1>9
  <2>2. JoinedFrom(F, a, r, m, n, g)
    BY <1>10, <2>1, Joined
  <2> QED
    BY <2>2 DEF JoinedFrom
<1>13. ASSUME NEW i \in 1..(m + n)
       PROVE  g[i] = [co |-> both[i], h |-> handled'[both[i]]]
  <2>1. CASE i <= m
    <3>1. i \in 1..m /\ both[i] = low[i] /\ g[i] = a[i]
      BY <1>11, <1>12, <2>1
    <3>2. low[i] \in Coroutines /\ low[i] # k
      BY <1>2, <3>1
    <3> QED
      BY <1>5, <3>1, <3>2 DEF TypeOK
  <2>2. CASE i = m + 1
    <3>1. ~(i <= m) /\ i - m = 1
      BY <2>2
    <3>2. both[i] = k /\ g[i] = r[1]
      BY <1>11, <1>12, <3>1
    <3> QED
      BY <1>9, <3>2 DEF TypeOK
  <2>3. CASE i > m + 1
    <3>1. PICK j : j = i - m
      OBVIOUS
    <3>2. ~(i <= m) /\ j \in 2..n /\ j \in 1..n /\ j # 1
      BY <2>3, <3>1
    <3>3. both[i] = high[j] /\ g[i] = b[j]
      BY <1>9, <1>11, <1>12, <3>1, <3>2
    <3>4. high[j] \in Coroutines /\ high[j] # k
      BY <1>1, <1>2, <3>2
    <3> QED
      BY <1>6, <3>2, <3>3, <3>4 DEF TypeOK
  <2> QED
    BY <2>1, <2>2, <2>3
<1>14. g = [i \in DOMAIN g |-> g[i]]
  BY <1>12
<1>15. Frames(both)' = g
  <2>1. Frames(both)' = [i \in DOMAIN both |-> [co |-> both[i], h |-> handled'[both[i]]]]
    BY DEF Frames
  <2> QED
    BY <1>11, <1>12, <1>13, <1>14, <2>1
<1> QED
  BY <1>4, <1>7, <1>10, <1>15 DEF Frames

LEMMA ResumeFrames ==
    ASSUME NEW owner, NEW s, NEW c, Known(owner, s, c), TypeOK, TypeOK', IsFiniteSet(live),
           NEW t \in Threads, NEW k \in Coroutines, NEW H \in SUBSET Effects, Resume(t, k, H)
    PROVE  /\ HandlerStack' = [HandlerStack EXCEPT ![t] = @ \o [Captured[k] EXCEPT ![1].h = H]]
           /\ Captured' = [Captured EXCEPT ![k] = <<>>]
           /\ Captured[k] # <<>>
<1>1. PICK s2 : s2 = StacksWith(s, c, t, k)
  OBVIOUS
<1>2. Carry(s2, c)'
  <2>1. PICK depth \in [Coroutines -> Nat] : Chains(owner, depth)
    BY DEF Known
  <2>2. owner \in [Coroutines -> Owners] /\ Carry(s, c) /\ Owned(owner, s, c)
    BY DEF Known
  <2> QED
    BY <1>1, <2>1, <2>2, ResumeLists
<1>3. /\ live' = live /\ handled' = [handled EXCEPT ![k] = H]
      /\ resumable' = resumable \ {k} /\ k \in resumable
  BY DEF Resume
<1>4. FramesOf(s2, c)'
  BY <1>2, <1>3, CarriedFramesAfter DEF ListsGiveFrames
<1>5. /\ owner[k] = k /\ k \notin Threads
      /\ \A u \in Threads : \A i \in DOMAIN s[u] : owner[s[u][i]] = u
      /\ \A j \in resumable : \A i \in DOMAIN c[j] : owner[c[j][i]] = j
  BY <1>3 DEF Known, Chains, Attached, Owned
<1>6. \A u \in Threads : Frames(s[u])' = Frames(s[u])
  <2> SUFFICES ASSUME NEW u \in Threads PROVE Frames(s[u])' = Frames(s[u])
    OBVIOUS
  <2>1. PICK chain : chain = s[u]
    OBVIOUS
  <2>2. \A i \in DOMAIN chain : chain[i] \in Coroutines /\ chain[i] # k
    BY <1>5, <2>1 DEF Known, Carry, Distinct
  <2>3. Frames(chain)' = Frames(chain)
    BY <1>3, <2>2, FramesSame DEF TypeOK
  <2> QED
    BY <2>1, <2>3 DEF Frames
<1>7. \A j \in resumable \ {k} : Frames(c[j])' = Frames(c[j])
  <2> SUFFICES ASSUME NEW j \in resumable \ {k} PROVE Frames(c[j])' = Frames(c[j])
    OBVIOUS
  <2>1. PICK chain : chain = c[j]
    OBVIOUS
  <2>2. \A i \in DOMAIN chain : chain[i] \in Coroutines /\ chain[i] # k
    BY <1>5, <2>1 DEF Known, Carry, Distinct
  <2>3. Frames(chain)' = Frames(chain)
    BY <1>3, <2>2, FramesSame DEF TypeOK
  <2> QED
    BY <2>1, <2>3 DEF Frames
<1>8. Captured[k] = [Frames(c[k]) EXCEPT ![1].h = {}]
  BY <1>3 DEF Known, FramesOf
<1>9. Distinct(c[k]) /\ c[k] # <<>> /\ c[k][1] = k
  BY <1>3 DEF Known, Carry, Owned
<1>10. Frames(JoinOf(s[t], c[k]))' = JoinOf(HandlerStack[t], WithHandlers(Captured[k], H))
  <2>1. PICK low, high : low = s[t] /\ high = c[k]
    OBVIOUS
  <2>2. low \in Seq(Coroutines) /\ HandlerStack[t] = Frames(low) /\ \A i \in DOMAIN low : low[i] # k
    BY <1>5, <2>1, StackIs
  <2>3. Frames(JoinOf(low, high))' =
            JoinOf(Frames(low), WithHandlers(WithHandlers(Frames(high), {}), H))
    <3>1. PutBack(low, high, k, H)
      BY <1>3, <1>9, <2>1, <2>2 DEF PutBack
    <3> QED
      BY <3>1, ResumedFrames
  <2>4. WithHandlers(Frames(high), {}) = Captured[k]
    BY <1>8, <2>1 DEF WithHandlers
  <2>5. PICK both : both = JoinOf(low, high)
    OBVIOUS
  <2>6. both = JoinOf(s[t], c[k])
    BY <2>1, <2>5
  <2>7. Frames(both)' = JoinOf(HandlerStack[t], WithHandlers(Captured[k], H))
    BY <2>2, <2>3, <2>4, <2>5 DEF Frames
  <2> QED
    BY <2>6, <2>7 DEF Frames
<1>11. HandlerStack' = [HandlerStack EXCEPT ![t] = @ \o [Captured[k] EXCEPT ![1].h = H]]
  <2>1. HandlerStack' = [u \in Threads |-> Frames(s2[u])']
    BY <1>4 DEF FramesOf
  <2>2. HandlerStack = [u \in Threads |-> Frames(s[u])]
    BY DEF Known, FramesOf
  <2>3. ASSUME NEW u \in Threads, u # t PROVE Frames(s2[u])' = HandlerStack[u]
    <3>1. s2[u] = s[u]
      BY <1>1, <2>3 DEF StacksWith
    <3> QED
      BY <1>6, <2>2, <3>1 DEF Frames
  <2>4. Frames(s2[t])' = JoinOf(HandlerStack[t], WithHandlers(Captured[k], H))
    <3>1. s2[t] = JoinOf(s[t], c[k])
      BY <1>1 DEF JoinOf, StacksWith
    <3> QED
      BY <1>10, <3>1 DEF Frames
  <2>5. HandlerStack' = [HandlerStack EXCEPT ![t] =
                            JoinOf(HandlerStack[t], WithHandlers(Captured[k], H))]
    BY <2>1, <2>2, <2>3, <2>4
  <2> QED
    BY <2>5 DEF JoinOf, WithHandlers
<1>12. Captured' = [Captured EXCEPT ![k] = <<>>]
  <2>1. Captured' = [j \in Coroutines |->
                       IF j \in resumable' THEN [Frames(c[j])' EXCEPT ![1].h = {}] ELSE <<>>]
    BY <1>4 DEF FramesOf
  <2>2. Captured = [j \in Coroutines |->
                       IF j \in resumable THEN [Frames(c[j]) EXCEPT ![1].h = {}] ELSE <<>>]
    BY DEF Known, FramesOf
  <2> QED
    BY <1>3, <1>7, <2>1, <2>2
<1>13. Captured[k] # <<>>
  <2>1. c[k] \in Seq(Coroutines) /\ 1 \in DOMAIN c[k]
    BY <1>9 DEF Distinct
  <2>2. 1 \in DOMAIN Captured[k]
    BY <1>8, <2>1 DEF Frames
  <2> QED
    BY <2>2
<1> QED
  BY <1>11, <1>12, <1>13

LEMMA NewFrames ==
    ASSUME NEW owner, NEW s, NEW c, Known(owner, s, c), TypeOK, TypeOK', IsFiniteSet(live),
           NEW t \in Threads, NEW k \in Coroutines, New(t, k)
    PROVE  /\ HandlerStack' = HandlerStack
           /\ Captured' = [Captured EXCEPT ![k] = <<[co |-> k, h |-> {}]>>]
           /\ Status[k] = "none" /\ Status' = [Status EXCEPT ![k] = "alive"]
<1>1. PICK c2 : c2 = [j \in Coroutines |-> IF j = k THEN <<k>> ELSE c[j]]
  OBVIOUS
<1>2. Carry(s, c2)'
  <2>1. \A j \in Coroutines : c2[j] = IF j = k THEN <<k>> ELSE c[j]
    BY <1>1
  <2> QED
    BY <2>1, NewLists DEF Known
<1>3. /\ k \notin live /\ live' = live \cup {k} /\ resumable' = resumable \cup {k}
      /\ \A j \in Coroutines \ {k} : handled'[j] = handled[j] /\ state'[j] = state[j]
      /\ state'[k] = "PAUSED"
  BY DEF New, TypeOK
<1>4. FramesOf(s, c2)'
  <2>1. IsFiniteSet(live')
    BY <1>3, FS_AddElement
  <2> QED
    BY <1>2, <2>1, CarriedFramesAfter DEF ListsGiveFrames
<1>5. ASSUME NEW chain, Distinct(chain) PROVE Frames(chain)' = Frames(chain)
  <2>1. \A i \in DOMAIN chain : chain[i] \in Coroutines /\ chain[i] \in live
    BY <1>5 DEF Distinct
  <2> QED
    BY <1>3, <2>1, FramesSame
<1>6. HandlerStack' = HandlerStack
  <2>1. HandlerStack' = [u \in Threads |-> Frames(s[u])']
    BY <1>4 DEF FramesOf
  <2>2. HandlerStack = [u \in Threads |-> Frames(s[u])]
    BY DEF Known, FramesOf
  <2>3. ASSUME NEW u \in Threads PROVE Frames(s[u])' = Frames(s[u])
    <3>1. PICK chain : chain = s[u]
      OBVIOUS
    <3>2. Frames(chain)' = Frames(chain)
      BY <1>5, <3>1 DEF Known, Carry
    <3> QED
      BY <3>1, <3>2 DEF Frames
  <2> QED
    BY <2>1, <2>2, <2>3
<1>7. WithHandlers(Frames(<<k>>)', {}) = <<[co |-> k, h |-> {}]>>
  <2>1. PICK f, F : f = Frames(<<k>>)' /\ F = FramesT
    OBVIOUS
  <2>2. f = [i \in 1..1 |-> [co |-> k, h |-> handled'[k]]]
    BY <2>1 DEF Frames
  <2>3. [co |-> k, h |-> handled'[k]] \in F /\ [co |-> k, h |-> {}] \in F
    BY <2>1 DEF TypeOK, FramesT
  <2>4. f \in Seq(F) /\ Len(f) = 1 /\ StartsWith(f, k, handled'[k])
    BY <2>2, <2>3 DEF StartsWith
  <2>5. PICK g : g = WithHandlers(f, {})
    OBVIOUS
  <2>6. ReplacedBy(F, f, Len(f), k, {}, g)
    <3>1. Len(f) # 0
      BY <2>4
    <3> QED
      BY <2>3, <2>4, <2>5, <3>1, HandlersReplaced
  <2>7. g \in Seq(F) /\ Len(g) = 1 /\ g[1] = [co |-> k, h |-> {}]
    BY <2>4, <2>6 DEF ReplacedBy, StartsWith
  <2>8. g = <<[co |-> k, h |-> {}]>>
    BY <2>7
  <2> QED
    BY <2>1, <2>5, <2>8
<1>8. Captured' = [Captured EXCEPT ![k] = <<[co |-> k, h |-> {}]>>]
  <2>1. Captured' = [j \in Coroutines |->
                       IF j \in resumable' THEN WithHandlers(Frames(c2[j])', {}) ELSE <<>>]
    BY <1>4 DEF FramesOf, WithHandlers
  <2>2. Captured = [j \in Coroutines |->
                       IF j \in resumable THEN WithHandlers(Frames(c[j]), {}) ELSE <<>>]
    BY DEF Known, FramesOf, WithHandlers
  <2>3. ASSUME NEW j \in Coroutines, j # k, j \in resumable PROVE Frames(c2[j])' = Frames(c[j])
    <3>1. PICK chain : chain = c[j]
      OBVIOUS
    <3>2. Frames(chain)' = Frames(chain)
      BY <1>5, <2>3, <3>1 DEF Known, Carry
    <3>3. c2[j] = chain
      BY <1>1, <2>3, <3>1
    <3> QED
      BY <3>1, <3>2, <3>3 DEF Frames
  <2>4. WithHandlers(Frames(c2[k])', {}) = <<[co |-> k, h |-> {}]>>
    <3>1. c2[k] = <<k>>
      BY <1>1
    <3> QED
      BY <1>7, <3>1 DEF Frames
  <2> QED
    BY <1>3, <2>1, <2>2, <2>3, <2>4
<1>9. Status[k] = "none" /\ Status' = [Status EXCEPT ![k] = "alive"]
  <2>1. Status[k] = "none"
    BY <1>3 DEF Status
  <2>2. Status' = [j \in Coroutines |-> IF j = k THEN "alive" ELSE Status[j]]
    BY <1>3 DEF Status
  <2> QED
    BY <2>1, <2>2 DEF Status
<1> QED
  BY <1>6, <1>8, <1>9

LEMMA DeleteFrames ==
    ASSUME NEW owner, NEW s, NEW c, Known(owner, s, c), TypeOK, TypeOK', IsFiniteSet(live),
           NEW t \in Threads, NEW k \in Coroutines, Delete(t, k)
    PROVE  /\ HandlerStack' = HandlerStack
           /\ Captured' = [Captured EXCEPT ![k] = <<>>]
           /\ Captured[k] # <<>> \/ Status[k] = "finished"
           /\ Status' = [Status EXCEPT ![k] = "none"]
<1>1. /\ live' = live \ {k} /\ resumable' = resumable \ {k} /\ handled' = handled
      /\ state' = state /\ k \in live
      /\ (k \in resumable \/ state[k] = "FINISHED")
  BY DEF Delete
<1>2. FramesOf(s, c)'
  <2>1. Carry(s, c)'
    BY DeleteLists DEF Known
  <2>2. IsFiniteSet(live')
    BY <1>1, FS_Subset
  <2> QED
    BY <2>1, <2>2, CarriedFramesAfter DEF ListsGiveFrames
<1>3. \A chain : Frames(chain)' = Frames(chain)
  BY <1>1, FramesSame
<1>4. HandlerStack' = HandlerStack
  BY <1>2, <1>3 DEF Known, FramesOf
<1>5. Captured' = [Captured EXCEPT ![k] = <<>>]
  <2>1. Captured' = [j \in Coroutines |->
                       IF j \in resumable' THEN WithHandlers(Frames(c[j]), {}) ELSE <<>>]
    BY <1>2, <1>3 DEF FramesOf, WithHandlers
  <2>2. Captured = [j \in Coroutines |->
                       IF j \in resumable THEN WithHandlers(Frames(c[j]), {}) ELSE <<>>]
    BY DEF Known, FramesOf, WithHandlers
  <2> QED
    BY <1>1, <2>1, <2>2
<1>6. Captured[k] # <<>> \/ Status[k] = "finished"
  <2>1. CASE k \in resumable
    <3>1. c[k] \in Seq(Coroutines) /\ c[k] # <<>>
      BY <2>1 DEF Known, Carry, Owned, Distinct
    <3>2. Captured[k] = [Frames(c[k]) EXCEPT ![1].h = {}]
      BY <2>1 DEF Known, FramesOf
    <3>3. 1 \in DOMAIN c[k]
      BY <3>1
    <3>4. 1 \in DOMAIN Captured[k]
      BY <3>2, <3>3 DEF Frames
    <3> QED
      BY <3>4
  <2>2. CASE k \notin resumable
    <3>1. k \in live /\ state[k] = "FINISHED"
      BY <1>1, <2>2
    <3>2. Status[k] = "finished"
      BY <3>1 DEF Status
    <3> QED
      BY <3>2
  <2> QED
    BY <2>1, <2>2
<1>7. Status' = [Status EXCEPT ![k] = "none"]
  <2>0. live' = live \ {k} /\ state' = state
    BY <1>1
  <2>1. Status' = [j \in Coroutines |-> IF j = k THEN "none" ELSE Status[j]]
    BY <2>0 DEF Status
  <2> QED
    BY <2>1 DEF Status
<1> QED
  BY <1>4, <1>5, <1>6, <1>7

LEMMA SameFrames ==
    ASSUME NEW owner, NEW s, NEW c, Known(owner, s, c), TypeOK, TypeOK', IsFiniteSet(live),
           UNCHANGED <<blockVars, current, resumable>>
    PROVE  HandlerStack' = HandlerStack /\ Captured' = Captured /\ Status' = Status
<1>1. UNCHANGED <<live, state, parent, handled, rp, current, resumable>>
  BY DEF blockVars
<1>2. FramesOf(s, c)'
  <2>1. Carry(s, c)'
    BY <1>1, SameLists DEF Known
  <2> QED
    BY <1>1, <2>1, CarriedFramesAfter DEF ListsGiveFrames
<1>3. \A chain : Frames(chain)' = Frames(chain)
  BY <1>1, FramesSame
<1>4. HandlerStack' = HandlerStack
  BY <1>2, <1>3 DEF Known, FramesOf
<1>5. Captured' = Captured
  BY <1>1, <1>2, <1>3 DEF Known, FramesOf
<1>6. Status' = Status
  BY <1>1 DEF Status
<1> QED
  BY <1>4, <1>5, <1>6

----------------------------------------------------------------------------
(* Where seff_locate_handler is.                                           *)

\* Handler w.co has been reached, and no handler above it handles w.eff.
PassedIn(f, w) ==
    \E i \in 0..Len(f) :
        /\ w.co = IF i = 0 THEN NULL ELSE f[i].co
        /\ \A j \in DOMAIN f : j > i => w.eff \notin f[j].h \cup {ReturnEffect}

Passed == \A t \in Threads : walk[t].op # "none" => PassedIn(HandlerStack[t], walk[t])

LEMMA PassedKept ==
    ASSUME Passed,
           \A u \in Threads : \/ walk'[u].op = "none"
                              \/ walk'[u] = walk[u] /\ HandlerStack'[u] = HandlerStack[u]
    PROVE  Passed'
<1> SUFFICES ASSUME NEW u \in Threads, walk'[u].op # "none"
             PROVE  PassedIn(HandlerStack'[u], walk'[u])
  BY DEF Passed, PassedIn
<1>1. walk'[u] = walk[u] /\ HandlerStack'[u] = HandlerStack[u]
  OBVIOUS
<1>2. PassedIn(HandlerStack[u], walk[u])
  BY <1>1 DEF Passed
<1> QED
  BY <1>1, <1>2

----------------------------------------------------------------------------
(* Steps of the abstract specification.                                    *)

LEMMA CaptureStep ==
    ASSUME NEW t \in Threads, NEW i, NEW k, HandlerStack[t][i].co = k,
           HandlerStack' = [HandlerStack EXCEPT ![t] = LowOf(@, i)],
           Captured' = [Captured EXCEPT ![k] = [HighOf(HandlerStack[t], i) EXCEPT ![1].h = {}]],
           Status' = Status
    PROVE  Abstract!Capture(t, i)
  BY DEF Abstract!Capture, Abstract!Below, Abstract!Segment, LowOf, HighOf

LEMMA AbandonStep ==
    ASSUME NEW t \in Threads, NEW i, NEW k, HandlerStack[t][i].co = k,
           HandlerStack' = [HandlerStack EXCEPT ![t] = LowOf(@, i)],
           Captured' = Captured,
           Status' = [Status EXCEPT ![k] = "finished"]
    PROVE  Abstract!Abandon(t, i)
  BY DEF Abstract!Abandon, Abstract!Below, LowOf

\* seff_yield and seff_exit to the coroutine at place i of t
LEMMA LeaveSteps ==
    ASSUME NEW owner, NEW s, NEW c, Known(owner, s, c), TypeOK, TypeOK', IsFiniteSet(live),
           Passed, NEW t \in Threads, NEW i \in DOMAIN s[t]
    PROVE  /\ YieldTo(t, s[t][i]) => Abstract!Capture(t, i) /\ Passed'
           /\ ExitTo(t, s[t][i]) => Abstract!Abandon(t, i) /\ Passed'
<1>1. HandlerStack[t][i].co = s[t][i]
  <2>1. HandlerStack[t][i] = [co |-> s[t][i], h |-> handled[s[t][i]]]
    BY StackIs, SMTT(30)
  <2> QED
    BY <2>1
<1>2. ASSUME HandlerStack' = [HandlerStack EXCEPT ![t] = LowOf(@, i)],
             NEW k, SwitchTo(t, k)
      PROVE  Passed'
  <2>1. \A u \in Threads : \/ walk'[u].op = "none"
                           \/ walk'[u] = walk[u] /\ HandlerStack'[u] = HandlerStack[u]
    <3>1. walk' = [walk EXCEPT ![t] = Idle] /\ Idle.op = "none"
      BY <1>2 DEF SwitchTo, Idle
    <3> QED
      BY <1>2, <3>1 DEF TypeOK, HandlerStack
  <2> QED
    BY <2>1, PassedKept
<1>3. ASSUME YieldTo(t, s[t][i]) PROVE Abstract!Capture(t, i) /\ Passed'
  <2>1. /\ HandlerStack' = [HandlerStack EXCEPT ![t] = LowOf(@, i)]
        /\ Captured' = [Captured EXCEPT ![s[t][i]] =
                           [HighOf(HandlerStack[t], i) EXCEPT ![1].h = {}]]
    BY <1>3, YieldFrames
  <2>2. Status' = Status
    BY <1>3 DEF YieldTo, Status
  <2>3. Abstract!Capture(t, i)
    BY <1>1, <2>1, <2>2, CaptureStep
  <2> QED
    BY <1>2, <1>3, <2>1, <2>3 DEF YieldTo
<1>4. ASSUME ExitTo(t, s[t][i]) PROVE Abstract!Abandon(t, i) /\ Passed'
  <2>1. /\ HandlerStack' = [HandlerStack EXCEPT ![t] = LowOf(@, i)]
        /\ Captured' = Captured
        /\ Status' = [Status EXCEPT ![s[t][i]] = "finished"]
    BY <1>4, ExitFrames
  <2>2. Abstract!Abandon(t, i)
    BY <1>1, <2>1, AbandonStep
  <2> QED
    BY <1>2, <1>4, <2>1, <2>2 DEF ExitTo
<1> QED
  BY <1>3, <1>4

\* The coroutine a thread runs is the last of its list.
LEMMA RunningIsLast ==
    ASSUME NEW owner, NEW s, NEW c, Known(owner, s, c), TypeOK,
           NEW t \in Threads, running[t] \in Coroutines
    PROVE  /\ Len(s[t]) \in DOMAIN s[t] /\ s[t][Len(s[t])] = running[t]
           /\ Len(HandlerStack[t]) = Len(s[t]) /\ HandlerStack[t] # <<>>
<1>1. current[t] = running[t] /\ current[t] # NULL
  BY DEF Known, Chains, ThreadTops
<1>2. s[t] \in Seq(Coroutines) /\ s[t] # <<>> /\ s[t][Len(s[t])] = current[t]
  BY <1>1 DEF Known, Carry, Distinct, IsChain
<1>3. Len(s[t]) \in DOMAIN s[t] /\ Len(s[t]) # 0
  BY <1>2
<1>4. Len(HandlerStack[t]) = Len(s[t]) /\ HandlerStack[t] = Frames(s[t])
  BY StackIs
<1>5. HandlerStack[t] # <<>>
  <2>1. HandlerStack[t] = <<>> => Len(HandlerStack[t]) = 0
    OBVIOUS
  <2> QED
    BY <1>3, <1>4, <2>1
<1> QED
  BY <1>1, <1>2, <1>3, <1>4, <1>5

\* Where seff_locate_handler stops is the innermost handler of the effect.
LEMMA StopsAtInnermost ==
    ASSUME NEW owner, NEW s, NEW c, Known(owner, s, c), TypeOK, Passed,
           NEW t \in Threads, walk[t].op # "none", walk[t].co # NULL,
           StopsAt(walk[t].co, walk[t].eff)
    PROVE  \E i \in DOMAIN s[t] : /\ s[t][i] = walk[t].co
                                  /\ i \in DOMAIN HandlerStack[t]
                                  /\ Abstract!Handles(t, walk[t].eff, i)
<1>1. PICK f, w, l : f = HandlerStack[t] /\ w = walk[t] /\ l = s[t]
  OBVIOUS
<1>2. /\ l \in Seq(Coroutines) /\ DOMAIN f = DOMAIN l /\ Len(f) = Len(l)
      /\ \A i \in DOMAIN l : f[i] = [co |-> l[i], h |-> handled[l[i]]]
  BY <1>1, StackIs
<1>3. PICK i \in 0..Len(f) :
        /\ w.co = IF i = 0 THEN NULL ELSE f[i].co
        /\ \A j \in DOMAIN f : j > i => w.eff \notin f[j].h \cup {ReturnEffect}
  BY <1>1 DEF Passed, PassedIn
<1>4. i # 0
  BY <1>1, <1>3
<1>5. i \in DOMAIN l /\ i \in DOMAIN f /\ l[i] = w.co
  <2>1. i \in DOMAIN l
    BY <1>2, <1>4
  <2> QED
    BY <1>2, <1>3, <1>4, <2>1
<1>6. w.eff \in f[i].h \cup {ReturnEffect}
  <2>1. f[i].h = handled[w.co]
    BY <1>2, <1>5
  <2> QED
    BY <1>1, <2>1 DEF StopsAt
<1>7. \A j \in DOMAIN f : w.eff \in f[j].h \cup {ReturnEffect} => j <= i
  <2>1. DOMAIN f = 1..Len(l) /\ Len(l) \in Nat
    BY <1>2
  <2> QED
    BY <1>3, <2>1
<1>8. Abstract!Handles(t, w.eff, i)
  BY <1>1, <1>5, <1>6, <1>7 DEF Abstract!Handles
<1> QED
  BY <1>1, <1>5, <1>8

\* The rest of what the lookup does
LEMMA WalkSteps ==
    ASSUME NEW owner, NEW s, NEW c, Known(owner, s, c), TypeOK, Passed, NEW t \in Threads,
           HandlerStack' = HandlerStack
    PROVE  /\ \A e \in Effects \cup {ReturnEffect}, op \in {"perform", "throw"} :
                 BeginLocate(t, e, op) => Passed'
           /\ LocateNext(t) => Passed'
<1>1. PICK f, l : f = HandlerStack[t] /\ l = s[t]
  OBVIOUS
<1>2. /\ l \in Seq(Coroutines) /\ DOMAIN f = DOMAIN l /\ Len(f) = Len(l) /\ DOMAIN f = 1..Len(f)
      /\ Len(f) \in Nat
      /\ \A i \in DOMAIN l : f[i].co = l[i] /\ f[i].h = handled[l[i]]
  <2>1. /\ l \in Seq(Coroutines) /\ DOMAIN f = DOMAIN l /\ Len(f) = Len(l)
        /\ \A i \in DOMAIN l : f[i] = [co |-> l[i], h |-> handled[l[i]]]
    BY <1>1, StackIs
  <2> QED
    BY <2>1
<1>3. IsChain(l, current[t], NULL) /\ NULL \notin Coroutines
  BY <1>1 DEF Known, Carry
<1>4. ASSUME PassedIn(f, walk'[t]), \A u \in Threads \ {t} : walk'[u] = walk[u]
      PROVE  Passed'
  <2> SUFFICES ASSUME NEW u \in Threads, walk'[u].op # "none"
               PROVE  PassedIn(HandlerStack'[u], walk'[u])
    BY DEF Passed, PassedIn
  <2>1. CASE u = t
    BY <1>1, <1>4, <2>1
  <2>2. CASE u # t
    <3>1. PassedIn(HandlerStack[u], walk[u])
      BY <1>4, <2>2 DEF Passed
    <3> QED
      BY <1>4, <2>2, <3>1
  <2> QED
    BY <2>1, <2>2
<1>5. ASSUME NEW e \in Effects \cup {ReturnEffect}, NEW op \in {"perform", "throw"},
             BeginLocate(t, e, op)
      PROVE  Passed'
  <2>1. /\ walk'[t] = [op |-> op, eff |-> e, co |-> current[t]]
        /\ \A u \in Threads \ {t} : walk'[u] = walk[u]
    BY <1>5 DEF BeginLocate, TypeOK
  <2>2. PICK w : w = walk'[t]
    OBVIOUS
  <2>3. w.co = IF Len(f) = 0 THEN NULL ELSE f[Len(f)].co
    <3>1. w.co = current[t]
      BY <2>1, <2>2
    <3>2. CASE Len(f) = 0
      <4>0. l \in Seq(Coroutines) /\ Len(l) = 0
        BY <1>2, <3>2
      <4>1. l = <<>>
        BY <4>0
      <4> QED
        BY <1>3, <3>1, <3>2, <4>1 DEF IsChain
    <3>3. CASE Len(f) # 0
      <4>1. l # <<>> /\ Len(l) \in DOMAIN l
        BY <1>2, <3>3
      <4>2. l[Len(l)] = current[t]
        BY <1>3, <4>1 DEF IsChain
      <4> QED
        BY <1>2, <3>1, <3>3, <4>1, <4>2
    <3> QED
      BY <3>2, <3>3
  <2>4. \A j \in DOMAIN f : ~(j > Len(f))
    BY <1>2
  <2>5. PassedIn(f, w)
    BY <1>2, <2>3, <2>4 DEF PassedIn
  <2> QED
    BY <1>4, <2>1, <2>2, <2>5
<1>6. ASSUME LocateNext(t) PROVE Passed'
  <2>1. PICK v, w : v = walk[t] /\ w = walk'[t]
    OBVIOUS
  <2>2. /\ w.eff = v.eff /\ w.co = parent[v.co]
        /\ \A u \in Threads \ {t} : walk'[u] = walk[u]
        /\ v.co # NULL /\ v.eff \notin handled[v.co] \cup {ReturnEffect}
        /\ PassedIn(f, v)
    <3>1. walk' = [walk EXCEPT ![t] = [walk[t] EXCEPT !.co = parent[walk[t].co]]]
      BY <1>6 DEF LocateNext
    <3>2. v = [op |-> v.op, eff |-> v.eff, co |-> v.co]
      BY <2>1 DEF TypeOK
    <3>3. w = [op |-> v.op, eff |-> v.eff, co |-> parent[v.co]]
      BY <2>1, <3>1, <3>2 DEF TypeOK
    <3>4. v.op # "none"
      BY <1>6, <2>1 DEF LocateNext, Locating
    <3>5. v.co # NULL /\ v.eff \notin handled[v.co] \cup {ReturnEffect}
      BY <1>6, <2>1 DEF LocateNext, StopsAt
    <3>6. PassedIn(f, v)
      BY <1>1, <2>1, <3>4 DEF Passed
    <3> QED
      BY <3>1, <3>3, <3>5, <3>6 DEF TypeOK
  <2>3. PICK i \in 0..Len(f) :
          /\ v.co = IF i = 0 THEN NULL ELSE f[i].co
          /\ \A j \in DOMAIN f : j > i => v.eff \notin f[j].h \cup {ReturnEffect}
    BY <2>2 DEF PassedIn
  <2>4. i # 0 /\ i \in DOMAIN f
    BY <1>2, <2>2, <2>3
  <2>5. f[i].co = v.co /\ l[i] = v.co /\ f[i].h = handled[v.co]
    BY <1>2, <2>3, <2>4
  <2>6. PICK m : m = i - 1
    OBVIOUS
  <2>7. m \in 0..Len(f) /\ i = m + 1
    BY <1>2, <2>4, <2>6
  <2>8. \A j \in DOMAIN f : j > m => w.eff \notin f[j].h \cup {ReturnEffect}
    <3> SUFFICES ASSUME NEW j \in DOMAIN f, j > m
                 PROVE  w.eff \notin f[j].h \cup {ReturnEffect}
      OBVIOUS
    <3>1. j = i \/ j > i
      BY <1>2, <2>7
    <3> QED
      BY <2>2, <2>3, <2>5, <3>1
  <2>9. w.co = IF m = 0 THEN NULL ELSE f[m].co
    <3>1. l # <<>> /\ l[1] \in Coroutines
      BY <1>2, <2>4
    <3>2. parent[l[1]] = NULL /\ \A j \in 2..Len(l) : parent[l[j]] = l[j - 1]
      BY <1>3, <3>1 DEF IsChain
    <3>3. CASE m = 0
      BY <2>2, <2>5, <2>7, <3>2, <3>3
    <3>4. CASE m # 0
      <4>1. i \in 2..Len(l) /\ i - 1 = m /\ m \in DOMAIN l
        BY <1>2, <2>4, <2>7, <3>4
      <4>2. parent[l[i]] = l[m] /\ f[m].co = l[m]
        BY <1>2, <3>2, <4>1
      <4> QED
        BY <2>2, <2>5, <3>4, <4>2
    <3> QED
      BY <3>3, <3>4
  <2>10. PassedIn(f, w)
    BY <2>7, <2>8, <2>9 DEF PassedIn
  <2> QED
    BY <1>4, <2>1, <2>2, <2>10
<1> QED
  BY <1>5, <1>6

RefinementInv == Inv /\ IsFiniteSet(live) /\ Passed

LEMMA InitRefines == Init => Abstract!Init /\ RefinementInv
<1> SUFFICES ASSUME Init PROVE Abstract!Init /\ RefinementInv
  OBVIOUS
<1>1. /\ Inv /\ TypeOK /\ IsFiniteSet(live)
      /\ live = {} /\ resumable = {} /\ \A t \in Threads : current[t] = NULL
      /\ \A t \in Threads : walk[t].op = "none"
  BY InitInv, FS_EmptySet DEF Init, Inv, Idle
<1>2. PICK s : s = [t \in Threads |-> <<>>]
  OBVIOUS
<1>3. Carry(s, s)
  BY <1>1, <1>2 DEF Carry, Distinct, IsChain
<1>4. FramesOf(s, s)
  BY <1>1, <1>3, CarriedFrames DEF ListsGiveFrames
<1>5. Frames(<<>>) = <<>>
  BY DEF Frames
<1>6. HandlerStack = [t \in Threads |-> <<>>] /\ Captured = [k \in Coroutines |-> <<>>]
  BY <1>1, <1>2, <1>4, <1>5 DEF FramesOf
<1>7. Status = [k \in Coroutines |-> "none"]
  BY <1>1 DEF Status
<1>8. Abstract!Init
  BY <1>6, <1>7 DEF Abstract!Init
<1> QED
  BY <1>1, <1>8 DEF RefinementInv, Passed

LEMMA StepRefines ==
    ASSUME RefinementInv, [Next]_vars, TypeOK'
    PROVE  [Abstract!Next]_(Abstract!vars) /\ IsFiniteSet(live)' /\ Passed'
<1>1. TypeOK /\ Inv /\ IsFiniteSet(live) /\ Passed
  BY DEF RefinementInv, Inv
<1>2. PICK owner, s, c : Known(owner, s, c)
  BY <1>1, KnownExists
<1> DEFINE Goal == [Abstract!Next]_(Abstract!vars) /\ IsFiniteSet(live)' /\ Passed'
<1> SUFFICES Goal
  OBVIOUS
\* Steps the client's frames do not see
<1>3. ASSUME UNCHANGED <<blockVars, current, resumable>>,
             HandlerStack' = HandlerStack => Passed'
      PROVE  Goal
  <2>1. HandlerStack' = HandlerStack /\ Captured' = Captured /\ Status' = Status
    BY <1>1, <1>2, <1>3, SameFrames
  <2>2. live' = live
    BY <1>3 DEF blockVars
  <2> QED
    BY <1>1, <1>3, <2>1, <2>2 DEF Abstract!vars
<1>4. ASSUME UNCHANGED vars PROVE Goal
  <2>1. UNCHANGED <<blockVars, current, resumable>> /\ walk' = walk
    BY <1>4 DEF vars, threadVars
  <2> QED
    BY <1>1, <1>3, <2>1, PassedKept
<1>5. ASSUME NEW t \in Threads, NEW k \in Coroutines, New(t, k) PROVE Goal
  <2>1. /\ HandlerStack' = HandlerStack
        /\ Captured' = [Captured EXCEPT ![k] = <<[co |-> k, h |-> {}]>>]
        /\ Status[k] = "none" /\ Status' = [Status EXCEPT ![k] = "alive"]
    BY <1>1, <1>2, <1>5, NewFrames
  <2>2. Abstract!Create(k)
    BY <2>1 DEF Abstract!Create
  <2>3. IsFiniteSet(live') /\ walk' = walk
    BY <1>1, <1>5, FS_AddElement DEF New
  <2>4. Passed'
    BY <1>1, <2>1, <2>3, PassedKept
  <2> QED
    BY <2>2, <2>3, <2>4 DEF Abstract!Next
<1>6. ASSUME NEW t \in Threads, NEW k \in Coroutines, Delete(t, k) PROVE Goal
  <2>1. /\ HandlerStack' = HandlerStack
        /\ Captured' = [Captured EXCEPT ![k] = <<>>]
        /\ Captured[k] # <<>> \/ Status[k] = "finished"
        /\ Status' = [Status EXCEPT ![k] = "none"]
    BY <1>1, <1>2, <1>6, DeleteFrames
  <2>2. Abstract!Discard(k)
    BY <2>1 DEF Abstract!Discard
  <2>3. IsFiniteSet(live') /\ walk' = walk
    BY <1>1, <1>6, FS_Subset DEF Delete
  <2>4. Passed'
    BY <1>1, <2>1, <2>3, PassedKept
  <2> QED
    BY <2>2, <2>3, <2>4 DEF Abstract!Next
<1>7. ASSUME NEW t \in Threads, NEW k \in Coroutines, NEW H \in SUBSET Effects, Resume(t, k, H)
      PROVE  Goal
  <2>1. /\ HandlerStack' = [HandlerStack EXCEPT ![t] = @ \o [Captured[k] EXCEPT ![1].h = H]]
        /\ Captured' = [Captured EXCEPT ![k] = <<>>]
        /\ Captured[k] # <<>>
    BY <1>1, <1>2, <1>7, ResumeFrames
  <2>2. live' = live /\ state' = state /\ walk' = walk /\ walk[t].op = "none"
    BY <1>7 DEF Resume, Free
  <2>3. Abstract!Resume(t, k, H)
    <3>1. Status' = Status
      BY <2>2 DEF Status
    <3> QED
      BY <2>1, <3>1 DEF Abstract!Resume
  <2>4. Passed'
    <3>1. \A u \in Threads : u # t => HandlerStack'[u] = HandlerStack[u]
      BY <2>1 DEF HandlerStack
    <3> QED
      BY <1>1, <2>2, <3>1, PassedKept
  <2> QED
    BY <1>1, <2>2, <2>3, <2>4 DEF Abstract!Next
<1>8. ASSUME NEW t \in Threads, NEW i \in DOMAIN s[t],
             YieldTo(t, s[t][i]) \/ ExitTo(t, s[t][i])
      PROVE  /\ IsFiniteSet(live)' /\ Passed'
             /\ YieldTo(t, s[t][i]) => Abstract!Capture(t, i)
             /\ ExitTo(t, s[t][i]) => Abstract!Abandon(t, i)
  <2>1. IsFiniteSet(live')
    BY <1>1, <1>8 DEF YieldTo, ExitTo
  <2> QED
    BY <1>1, <1>2, <1>8, <2>1, LeaveSteps
<1>9. ASSUME NEW t \in Threads, Yield(t) \/ Return(t) PROVE Goal
  <2>1. running[t] \in Coroutines
    BY <1>9 DEF Yield, Return
  <2>2. PICK i \in DOMAIN s[t] : /\ i = Len(HandlerStack[t]) /\ s[t][i] = running[t]
                                 /\ HandlerStack[t] # <<>>
    BY <1>1, <1>2, <2>1, RunningIsLast
  <2>3. CASE Yield(t)
    <3>1. YieldTo(t, s[t][i])
      BY <2>2, <2>3 DEF Yield
    <3>2. Abstract!Yield(t)
      BY <1>8, <2>2, <3>1 DEF Abstract!Yield
    <3> QED
      BY <1>8, <3>1, <3>2 DEF Abstract!Next
  <2>4. CASE Return(t)
    <3>1. ExitTo(t, s[t][i])
      BY <2>2, <2>4 DEF Return
    <3>2. Abstract!Return(t)
      BY <1>8, <2>2, <3>1 DEF Abstract!Return
    <3> QED
      BY <1>8, <3>1, <3>2 DEF Abstract!Next
  <2> QED
    BY <1>9, <2>3, <2>4
<1>10. ASSUME NEW t \in Threads, PerformHandled(t) \/ ThrowHandled(t) PROVE Goal
  <2>1. /\ walk[t].op # "none" /\ walk[t].co # NULL /\ StopsAt(walk[t].co, walk[t].eff)
        /\ walk[t].eff \in Effects \cup {ReturnEffect}
    BY <1>1, <1>10 DEF PerformHandled, ThrowHandled, Located, Locating, TypeOK
  <2>2. PICK i \in DOMAIN s[t] : /\ s[t][i] = walk[t].co
                                 /\ i \in DOMAIN HandlerStack[t]
                                 /\ Abstract!Handles(t, walk[t].eff, i)
    BY <1>1, <1>2, <2>1, StopsAtInnermost
  <2>3. CASE PerformHandled(t)
    <3>1. YieldTo(t, s[t][i])
      BY <2>2, <2>3 DEF PerformHandled
    <3>2. Abstract!Perform(t, walk[t].eff)
      BY <1>8, <2>2, <3>1 DEF Abstract!Perform
    <3> QED
      BY <1>8, <2>1, <3>1, <3>2 DEF Abstract!Next
  <2>4. CASE ThrowHandled(t)
    <3>1. ExitTo(t, s[t][i])
      BY <2>2, <2>4 DEF ThrowHandled
    <3>2. Abstract!Throw(t, walk[t].eff)
      BY <1>8, <2>2, <3>1 DEF Abstract!Throw
    <3> QED
      BY <1>8, <2>1, <3>1, <3>2 DEF Abstract!Next
  <2> QED
    BY <1>10, <2>3, <2>4
<1>11. ASSUME NEW t \in Threads, NEW op \in {"perform", "throw"}, RunDefault(t, op) PROVE Goal
  <2>1. UNCHANGED <<blockVars, current, resumable>> /\ walk' = [walk EXCEPT ![t] = Idle]
    BY <1>11 DEF RunDefault, threadVars
  <2>2. \A u \in Threads : walk'[u].op = "none" \/ walk'[u] = walk[u]
    BY <1>1, <2>1 DEF TypeOK, Idle
  <2>3. HandlerStack' = HandlerStack => Passed'
    BY <1>1, <2>2, PassedKept
  <2> QED
    BY <1>3, <2>1, <2>3
<1>12. ASSUME NEW t \in Threads,
              \/ LocateNext(t)
              \/ \E e \in Effects \cup {ReturnEffect}, op \in {"perform", "throw"} :
                    BeginLocate(t, e, op)
       PROVE  Goal
  <2>1. UNCHANGED <<blockVars, current, resumable>>
    BY <1>12 DEF LocateNext, BeginLocate, threadVars
  <2>2. HandlerStack' = HandlerStack => Passed'
    BY <1>1, <1>2, <1>12, WalkSteps
  <2> QED
    BY <1>3, <2>1, <2>2
<1>13. ASSUME NEW t \in Threads, MainMoves(t) \/ \E e \in Effects : SetDefault(t, e) PROVE Goal
  <2>1. UNCHANGED <<blockVars, current, resumable>> /\ walk' = walk
    BY <1>13 DEF MainMoves, SetDefault, threadVars
  <2>2. HandlerStack' = HandlerStack => Passed'
    BY <1>1, <2>1, PassedKept
  <2> QED
    BY <1>3, <2>1, <2>2
<1> HIDE DEF Goal
<1> QED
  BY <1>4, <1>5, <1>6, <1>7, <1>9, <1>10, <1>11, <1>12, <1>13
     DEF Next, Client, Locate, PerformDefault, ThrowDefault, Stopped

LEMMA NextRefines ==
    RefinementInv /\ [Next]_vars => [Abstract!Next]_(Abstract!vars) /\ RefinementInv'
<1> SUFFICES ASSUME RefinementInv, [Next]_vars
             PROVE  [Abstract!Next]_(Abstract!vars) /\ RefinementInv'
  OBVIOUS
<1>1. Inv' /\ TypeOK'
  BY StepInv DEF RefinementInv, Inv
<1> QED
  BY <1>1, StepRefines DEF RefinementInv

LEMMA RefinementInvariance == Spec => []RefinementInv
<1>1. Init => RefinementInv
  BY InitRefines
<1>2. RefinementInv /\ [Next]_vars => RefinementInv'
  BY NextRefines
<1> QED
  BY <1>1, <1>2, PTL DEF Spec

\* Whatever the registers, parent pointers and resume points are made to do,
\* the client sees one-shot, shallow effect handlers: performing an effect
\* captures exactly the frames from its innermost handler up, resuming puts
\* exactly those back, and an exit drops only what is above its handler.
THEOREM SeffIsEffectHandlers == Spec => ImplementsEffectHandlers
<1>1. Init => Abstract!Init
  BY InitRefines
<1>2. RefinementInv /\ [Next]_vars => [Abstract!Next]_(Abstract!vars)
  BY NextRefines
<1> QED
  BY <1>1, <1>2, RefinementInvariance, PTL DEF Spec, ImplementsEffectHandlers, Abstract!Spec

----------------------------------------------------------------------------
(* The pointers themselves lead along the chains.                          *)

\* What ChainOf finds is the whole chain of each owner.
LEMMA ChainsFound ==
    ASSUME TypeOK, IsFiniteSet(live),
           NEW owner \in [Coroutines -> Owners], NEW depth \in [Coroutines -> Nat],
           Chains(owner, depth), NEW o \in Threads \cup resumable
    PROVE  Listed(owner, o, ChainOf(o)) /\ Whole(owner, depth, o, ChainOf(o))
<1>1. /\ live \subseteq Coroutines /\ resumable \subseteq Coroutines
      /\ \A k \in Coroutines : owner[k] # NULL => k \in live
  BY DEF TypeOK, Chains, Attached
<1>2. ASSUME NEW c \in Coroutines, Innermost(owner, depth, o, c), NEW last,
             last = IF o \in Threads THEN NULL ELSE o, ChainOf(o) = Chain(c, last)
      PROVE  Listed(owner, o, ChainOf(o)) /\ Whole(owner, depth, o, ChainOf(o))
  <2>1. PICK chain : /\ IsChain(chain, c, last) /\ Listed(owner, o, chain)
                     /\ Whole(owner, depth, o, chain)
    BY <1>1, <1>2, ChainExists
  <2>2. Distinct(chain)
    <3>1. o # NULL
      BY <1>1
    <3>2. \A i \in DOMAIN chain : chain[i] \in Coroutines /\ owner[chain[i]] = o
      BY <2>1 DEF Listed
    <3> QED
      BY <1>1, <2>1, <3>1, <3>2 DEF Distinct, Listed
  <2>3. Chain(c, last) = chain
    BY <1>1, <2>1, <2>2, ChainIs DEF ChainIsChosen
  <2> QED
    BY <1>2, <2>1, <2>3
<1>3. CASE o \in Threads /\ current[o] = NULL
  <2>1. \A k \in Coroutines : owner[k] # o
    BY <1>3 DEF Chains, ThreadTops
  <2>2. Chain(NULL, NULL) = <<>>
    <3>1. IsChain(<<>>, NULL, NULL) /\ Distinct(<<>>)
      BY DEF IsChain, Distinct
    <3> QED
      BY <1>1, <3>1, ChainIs DEF ChainIsChosen
  <2>3. ChainOf(o) = <<>>
    BY <1>3, <2>2 DEF ChainOf
  <2> QED
    BY <2>1, <2>3 DEF Listed, Whole
<1>4. CASE o \in Threads /\ current[o] # NULL
  <2>1. current[o] \in Coroutines /\ Innermost(owner, depth, o, current[o])
    BY <1>4 DEF Chains, ThreadTops
  <2>2. ChainOf(o) = Chain(current[o], NULL)
    BY <1>4 DEF ChainOf
  <2> QED
    BY <1>2, <1>4, <2>1, <2>2
<1>5. CASE o \in resumable
  <2>1. /\ o \in Coroutines /\ o \notin Threads /\ rp[o].co \in Coroutines
        /\ Innermost(owner, depth, o, rp[o].co)
    BY <1>1, <1>5 DEF Chains, SuspendedTops
  <2>2. ChainOf(o) = Chain(rp[o].co, o)
    BY <2>1 DEF ChainOf
  <2> QED
    BY <1>2, <2>1, <2>2
<1> QED
  BY <1>3, <1>4, <1>5

\* Depths count for the coroutines on a chain only.
LEMMA DepthsOnChains ==
    ASSUME TypeOK, NEW owner \in [Coroutines -> Owners], NEW depth, NEW d,
           Chains(owner, depth), \A k \in Coroutines : owner[k] # NULL => d[k] = depth[k]
    PROVE  Chains(owner, d)
<1>1. \A k \in resumable : k \in Coroutines /\ owner[k] = k
  BY DEF TypeOK, Chains, Attached
<1>2. \A o \in Threads \cup Coroutines : \A c \in Coroutines :
         Innermost(owner, depth, o, c) => Innermost(owner, d, o, c)
  BY DEF Innermost
<1>3. Linear(owner, d)
  BY DEF Chains, Linear
<1>4. Linked(owner, d)
  BY DEF Chains, Linked, OnParent
<1>5. ThreadTops(owner, d)
  BY <1>2 DEF Chains, ThreadTops
<1>6. SuspendedTops(owner, d)
  BY <1>1, <1>2 DEF Chains, SuspendedTops
<1> QED
  BY <1>3, <1>4, <1>5, <1>6 DEF Chains

LEMMA FoundChains ==
    ASSUME Inv, IsFiniteSet(live) PROVE PointersFormChains
<1>1. PICK owner \in [Coroutines -> Owners], depth \in [Coroutines -> Nat] :
         TypeOK /\ Chains(owner, depth)
  BY DEF Inv
<1>2. ASSUME NEW o \in Threads \cup resumable
      PROVE  /\ \A i \in DOMAIN ChainOf(o) : /\ ChainOf(o)[i] \in Coroutines
                                            /\ owner[ChainOf(o)[i]] = o
             /\ \A i, j \in DOMAIN ChainOf(o) : ChainOf(o)[i] = ChainOf(o)[j] => i = j
             /\ \A k \in Coroutines : owner[k] = o =>
                   depth[k] + 1 \in DOMAIN ChainOf(o) /\ ChainOf(o)[depth[k] + 1] = k
  BY <1>1, ChainsFound DEF Listed, Whole
<1>3. \A k \in Coroutines : owner[k] # NULL => owner[k] \in Threads \cup resumable
  BY <1>1 DEF Owners, Chains, Attached
<1>4. NULL \notin Threads \cup resumable
  BY <1>1 DEF TypeOK
<1>5. ASSUME NEW k \in Coroutines PROVE OwnerOf[k] = owner[k]
  <2> DEFINE O == {o \in Threads \cup resumable :
                     \E i \in DOMAIN ChainOf(o) : ChainOf(o)[i] = k}
  <2>1. \A o \in O : o = owner[k]
    BY <1>2
  <2>2. owner[k] # NULL => owner[k] \in O
    BY <1>2, <1>3
  <2>3. OwnerOf[k] = IF O = {} THEN NULL ELSE CHOOSE o \in O : TRUE
    BY DEF OwnerOf
  <2> HIDE DEF O
  <2>4. O \subseteq Threads \cup resumable
    BY DEF O
  <2>5. CASE owner[k] = NULL
    BY <1>4, <2>1, <2>3, <2>4, <2>5
  <2>6. CASE owner[k] # NULL
    BY <2>1, <2>2, <2>3, <2>6
  <2> QED
    BY <2>5, <2>6
<1>6. OwnerOf = owner
  BY <1>5 DEF OwnerOf
<1>7. ASSUME NEW k \in Coroutines, owner[k] # NULL PROVE DepthOf[k] = depth[k]
  <2>1. PICK o \in Threads \cup resumable : o = owner[k]
    BY <1>3, <1>7
  <2>2. DepthOf[k] = (CHOOSE i \in DOMAIN ChainOf(o) : ChainOf(o)[i] = k) - 1
    BY <1>5, <1>7, <2>1 DEF DepthOf
  <2>3. depth[k] + 1 \in DOMAIN ChainOf(o) /\ ChainOf(o)[depth[k] + 1] = k
    BY <1>2, <2>1
  <2>4. (CHOOSE i \in DOMAIN ChainOf(o) : ChainOf(o)[i] = k) = depth[k] + 1
    BY <1>2, <2>3
  <2>5. DepthOf[k] = (depth[k] + 1) - 1
    BY <2>2, <2>4, Zenon
  <2>6. depth[k] \in Nat
    OBVIOUS
  <2> QED
    BY <2>5, <2>6
<1>8. Chains(owner, DepthOf)
  BY <1>1, <1>7, DepthsOnChains
<1> QED
  BY <1>6, <1>8 DEF PointersFormChains

\* At every moment the pointers of seff.c form the chains of the invariant:
\* parent_coroutine and the resume points lead down from each running or
\* resumable coroutine, and no two of these lists share a coroutine.
THEOREM PointersCorrect == Spec => []PointersFormChains
<1>1. RefinementInv => PointersFormChains
  BY FoundChains DEF RefinementInv
<1> QED
  BY <1>1, RefinementInvariance, PTL
=============================================================================
