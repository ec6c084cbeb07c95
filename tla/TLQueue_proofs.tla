--------------------------- MODULE TLQueue_proofs ---------------------------
(***************************************************************************)
(* The queue of tl_queue.c frees no array under a thread that uses it, and *)
(* implements WorkQueue, for any number of thieves, any size of the first  *)
(* array and any number of replacements.                                   *)
(*                                                                         *)
(* What a call has read stays true while it holds the lock; so the element *)
(* it stores or takes is the one that the abstract queue appends or gives. *)
(*                                                                         *)
(* The second part is about the ticket queue of tk_queue.c, next to it in  *)
(* MCQueues: it has no lock, and implements WorkQueue but for the steps of *)
(* thieves whose array was replaced under them.                            *)
(*                                                                         *)
(* The third carries the theorems of CLQueue_proofs over to the deque that *)
(* stands beside them in MCQueues.                                         *)
(***************************************************************************)
EXTENDS MCQueues, CircularArray_proofs, SequenceTheorems

USE QueueAssumption

----------------------------------------------------------------------------
(* The lock.                                                               *)

InSection(t) == pc[t] \notin {"idle", "lock"}

\* What the steps need to know of the types
Types ==
    /\ pc \in [Threads -> Labels]
    /\ arr \in [Threads -> Nat \ {0}]
    /\ array \in Nat \ {0}
    /\ freed \in SUBSET Nat
    /\ locked \in BOOLEAN

\* The spinlock is held by the one thread in the critical section.
Exclusion ==
    /\ \A t \in Threads : InSection(t) => locked
    /\ \A t, u \in Threads : InSection(t) /\ InSection(u) => t = u

\* The arrays that have been freed are the earlier ones, and the current one
\* while a push that replaces it has not installed the next.
FreedAreOld ==
    \A n \in freed : n < array \/ \E t \in Threads : pc[t] = "install"

\* Whoever is past the read of self->array has the current one.
HasCurrent ==
    \A t \in Threads :
        pc[t] \in {"grow", "free", "install", "set", "get"} => arr[t] = array

\* Nothing newer than the current array is ever freed.
FreedExist == \A n \in freed : n <= array

LockInv == Types /\ Exclusion /\ FreedAreOld /\ HasCurrent /\ FreedExist

LEMMA InitLockInv == Init => LockInv
<1> SUFFICES ASSUME Init PROVE LockInv
  OBVIOUS
<1>1. Types
  BY DEF Init, Types, Labels
<1>2. Exclusion
  BY DEF Init, Exclusion, InSection
<1>3. FreedAreOld /\ HasCurrent /\ FreedExist
  BY DEF Init, FreedAreOld, HasCurrent, FreedExist
<1> QED
  BY <1>1, <1>2, <1>3 DEF LockInv

\* A step inside the critical section that frees nothing and keeps the array.
LEMMA QuietStep ==
    ASSUME LockInv, NEW t \in Threads, InSection(t), pc[t] # "install",
           NEW label \in Labels \ {"idle", "lock", "free", "install"},
           Goto(t, label), UNCHANGED <<locked, array, freed>>,
           \/ pc[t] = "read" /\ arr' = [arr EXCEPT ![t] = array]
           \/ label \in {"tail", "unlock", "head"} /\ UNCHANGED arr
    PROVE  LockInv'
<1>1. \A u \in Threads : pc'[u] = IF u = t THEN label ELSE pc[u]
  BY DEF LockInv, Types, Goto
<1>2. \A u \in Threads \ {t} : pc[u] \in {"idle", "lock"}
  BY DEF LockInv, Exclusion, InSection
<1>3. Types'
  BY DEF LockInv, Types, Goto
<1>4. Exclusion'
  BY <1>1, <1>2 DEF LockInv, Exclusion, InSection
<1>5. FreedAreOld'
  BY <1>1, <1>2 DEF LockInv, FreedAreOld
<1>6. HasCurrent'
  BY <1>1, <1>2 DEF LockInv, Types, HasCurrent
<1> QED
  BY <1>3, <1>4, <1>5, <1>6 DEF LockInv, FreedExist

\* A step outside the critical section.
LEMMA OutsideStep ==
    ASSUME LockInv, NEW t \in Threads, ~InSection(t),
           NEW label \in {"idle", "lock"},
           Goto(t, label) \/ UNCHANGED pc,
           UNCHANGED <<locked, arr, array, freed>>
    PROVE  LockInv'
<1>1. \A u \in Threads :
        \/ pc'[u] = pc[u]
        \/ pc'[u] \in {"idle", "lock"} /\ pc[u] \in {"idle", "lock"}
  BY DEF LockInv, Types, InSection, Goto
<1>2. Types'
  BY DEF LockInv, Types, Labels, Goto
<1>3. Exclusion'
  <2>1. \A u \in Threads : InSection(u)' => InSection(u)
    BY <1>1 DEF InSection
  <2>2. locked' = locked
    OBVIOUS
  <2> QED
    BY <2>1, <2>2 DEF LockInv, Exclusion
<1>4. FreedAreOld' /\ HasCurrent' /\ FreedExist'
  BY <1>1 DEF LockInv, FreedAreOld, HasCurrent, FreedExist
<1> QED
  BY <1>2, <1>3, <1>4 DEF LockInv

LEMMA StepLockInv == LockInv /\ [Next]_vars => LockInv'
<1> SUFFICES ASSUME LockInv, [Next]_vars PROVE LockInv'
  OBVIOUS
<1>1. CASE UNCHANGED vars
  BY <1>1 DEF vars, locals, shared, LockInv, Types, Exclusion, InSection,
              FreedAreOld, HasCurrent, FreedExist
<1>2. ASSUME NEW t \in Threads, Call(t)
      PROVE  LockInv'
  <2>1. pc[t] = "idle" \/ pc[Owner] = "idle"
    BY <1>2 DEF Call, Push, PriorityPush, Pop, Steal, StartTake
  <2>2. \/ Goto(t, "lock") \/ UNCHANGED pc
    BY <1>2 DEF Call, Push, PriorityPush, Pop, Steal, StartTake, StartPush
  <2>3. UNCHANGED <<locked, arr, array, freed>>
    BY <1>2 DEF Call, Push, PriorityPush, Pop, Steal, StartTake, locals, shared
  <2>4. pc[t] = "idle"
    BY <1>2, <2>1 DEF Call, Push, PriorityPush, Pop, Steal, StartTake
  <2> QED
    BY <2>2, <2>3, <2>4, OutsideStep DEF InSection
<1>3. ASSUME NEW t \in Threads, Acquire(t)
      PROVE  LockInv'
  <2>1. \A u \in Threads : pc[u] \in {"idle", "lock"}
    BY <1>3 DEF Acquire, LockInv, Exclusion, InSection
  <2>2. \A u \in Threads : pc'[u] = IF u = t THEN "read" ELSE pc[u]
    BY <1>3 DEF Acquire, Goto, LockInv, Types
  <2>3. Types'
    BY <1>3 DEF Acquire, Goto, LockInv, Types, Labels, locals
  <2> QED
    BY <1>3, <2>1, <2>2, <2>3
       DEF Acquire, LockInv, Exclusion, InSection, FreedAreOld, HasCurrent,
           FreedExist, locals
<1>4. ASSUME NEW t \in Threads, Read(t)
      PROVE  LockInv'
  <2>1. Continue(t) \in {"unlock", "get", "grow", "set"}
    BY DEF Continue
  <2> QED
    BY <1>4, <2>1, QuietStep DEF Read, shared, InSection, Labels
<1>5. ASSUME NEW t \in Threads,
             SetSlot(t) \/ StoreTail(t) \/ GetSlot(t) \/ StoreHead(t)
      PROVE  LockInv'
  <2>1. /\ pc[t] \in {"set", "tail", "get", "head"}
        /\ UNCHANGED <<locked, array, freed, arr>>
        /\ \E label \in {"tail", "unlock", "head"} : Goto(t, label)
    BY <1>5 DEF SetSlot, StoreTail, GetSlot, StoreHead, locals, shared
  <2> QED
    BY <2>1, QuietStep DEF InSection, Labels
<1>6. ASSUME NEW t \in Threads, Grow(t) \/ FreeArray(t) \/ Install(t)
      PROVE  LockInv'
  <2>1. \A u \in Threads \ {t} : pc[u] \in {"idle", "lock"} /\ pc'[u] = pc[u]
    BY <1>6 DEF Grow, FreeArray, Install, Goto, LockInv, Types, Exclusion,
                InSection
  <2>2. arr[t] = array /\ arr[t] \in Nat \ {0} /\ locked
    BY <1>6 DEF Grow, FreeArray, Install, LockInv, Types, HasCurrent, Exclusion,
                InSection
  <2>3. CASE Grow(t)
    <3>1. /\ pc'[t] = "free" /\ pc[t] = "grow"
          /\ UNCHANGED <<locked, array, freed, arr>>
      BY <2>3 DEF Grow, Goto, LockInv, Types, locals
    <3>2. Types'
      BY <2>3, <3>1 DEF Grow, Goto, LockInv, Types, Labels
    <3> QED
      BY <2>1, <2>2, <3>1, <3>2
         DEF LockInv, Exclusion, InSection, FreedAreOld, HasCurrent, FreedExist
  <2>4. CASE FreeArray(t)
    <3>1. /\ pc'[t] = "install" /\ freed' = freed \cup {array}
          /\ UNCHANGED <<locked, array, arr>>
      BY <2>4 DEF FreeArray, Goto, LockInv, Types, locals
    <3>2. Types'
      BY <2>4, <3>1 DEF FreeArray, Goto, LockInv, Types, Labels
    <3> QED
      BY <2>1, <2>2, <3>1, <3>2
         DEF LockInv, Types, Exclusion, InSection, FreedAreOld, HasCurrent,
             FreedExist
  <2>5. CASE Install(t)
    <3>1. /\ pc'[t] = "set" /\ array' = 2 * array /\ arr'[t] = 2 * array
          /\ UNCHANGED <<locked, freed>>
      BY <2>2, <2>5 DEF Install, Goto, LockInv, Types
    <3>2. Types'
      BY <2>2, <2>5, <3>1 DEF Install, Goto, LockInv, Types, Labels
    <3> QED
      BY <2>1, <2>2, <3>1, <3>2
         DEF LockInv, Types, Exclusion, InSection, FreedAreOld, HasCurrent,
             FreedExist
  <2> QED
    BY <1>6, <2>3, <2>4, <2>5
<1>7. ASSUME NEW t \in Threads, Release(t)
      PROVE  LockInv'
  <2>1. \A u \in Threads : pc[u] \in {"idle", "lock"} \/ u = t
    BY <1>7 DEF Release, LockInv, Exclusion, InSection
  <2>2. \A u \in Threads : pc'[u] = IF u = t THEN "idle" ELSE pc[u]
    BY <1>7 DEF Release, Goto, LockInv, Types
  <2>3. Types'
    BY <1>7 DEF Release, Goto, LockInv, Types, Labels, locals
  <2> QED
    BY <1>7, <2>1, <2>2, <2>3
       DEF Release, LockInv, Exclusion, InSection, FreedAreOld, HasCurrent,
           FreedExist, locals
<1>8. ASSUME NEW t \in Threads, Section(t)
      PROVE  LockInv'
  BY <1>4, <1>5, <1>6, <1>7, <1>8 DEF Section, Continue
<1> QED
  BY <1>1, <1>2, <1>3, <1>8 DEF Next

----------------------------------------------------------------------------
(* The inductive invariant.                                                *)

\* The elements have been copied to the next array.
Copied ==
    /\ 2 * array \in DOMAIN slot
    /\ \A i \in head..(tail - 1) : At(2 * array, i) = At(array, i)

\* What a thread knows at each step of the critical section.
Stage(t) ==
    /\ pc[t] \in {"grow", "free", "install", "set", "tail", "get", "head"} =>
          h[t] = head /\ tl[t] = tail /\ arr[t] = array
    /\ pc[t] \in {"grow", "free", "install", "set", "tail"} => op[t] # "take"
    /\ pc[t] \in {"get", "head"} => op[t] = "take" /\ head < tail
    /\ pc[t] \in {"grow", "free", "install"} => tail - head = array
    /\ pc[t] \in {"free", "install"} => Copied
    /\ pc[t] \in {"set", "tail"} => tail - head < array
    /\ pc[t] = "tail" => At(array, tail) = elt[t]
    /\ pc[t] = "head" => At(array, head) = elt[t]

Bounds == head <= tail /\ tail - head <= array

One(p) == IF p THEN 1 ELSE 0

\* The element that is on its way in, and the buffer.
OwnersCall ==
    /\ \A t \in Threads \ {Owner} : op[t] = "take"
    /\ op[Owner] = "take" /\ pc[Owner] # "idle" => buffer = EMPTY
    /\ Pushing => elt[Owner] = given
    /\ Replacing => buffer = given /\ elt[Owner] # EMPTY
    /\ tail + One(Pushing \/ Replacing) + One(buffer # EMPTY) <= given

QueueInv == TypeOK /\ LockInv /\ Bounds /\ OwnersCall /\ \A t \in Threads : Stage(t)

LEMMA InitQueueInv == Init => QueueInv
<1> SUFFICES ASSUME Init PROVE QueueInv
  OBVIOUS
<1>1. TypeOK
  <2>1. Owner \in Threads
    OBVIOUS
  <2>2. EMPTY \in Values /\ Garbage \in Values /\ 0 \in 0..MaxPush
    BY DEF Values, EMPTY
  <2>3. ArraysOK(Values) /\ InitSize \in DOMAIN slot
    BY <2>2 DEF Init, NewArray, ArraysOK
  <2> QED
    BY <2>1, <2>2, <2>3 DEF Init, TypeOK, Labels
<1>2. Bounds
  BY DEF Init, Bounds
<1>3. OwnersCall
  BY DEF Init, OwnersCall, Pushing, Replacing, One
<1>4. \A t \in Threads : Stage(t)
  BY DEF Init, Stage
<1> QED
  BY <1>1, <1>2, <1>3, <1>4, InitLockInv DEF QueueInv

LEMMA OthersOutside ==
    ASSUME QueueInv, NEW t \in Threads, InSection(t)
    PROVE  \A u \in Threads \ {t} : pc[u] \in {"idle", "lock"}
  BY DEF QueueInv, LockInv, Exclusion, InSection

LEMMA GotoSets ==
    ASSUME TypeOK, NEW t \in Threads, NEW label, Goto(t, label)
    PROVE  \A u \in Threads : pc'[u] = IF u = t THEN label ELSE pc[u]
  BY DEF TypeOK, Goto

LEMMA OthersStay ==
    ASSUME QueueInv, NEW t \in Threads, InSection(t),
           \A u \in Threads \ {t} : pc'[u] = pc[u], Stage(t)'
    PROVE  \A u \in Threads : Stage(u)'
<1> SUFFICES ASSUME NEW u \in Threads \ {t} PROVE Stage(u)'
  OBVIOUS
<1>1. pc'[u] \in {"idle", "lock"}
  BY OthersOutside
<1> QED
  BY <1>1 DEF Stage

\* A step of the critical section that does not end a push.
LEMMA CallGoesOn ==
    ASSUME QueueInv, NEW t \in Threads, InSection(t),
           UNCHANGED <<op, given, buffer, tail>>, NEW label, Goto(t, label),
           UNCHANGED elt \/ (op[t] = "take" /\ \A u \in Threads \ {t} : elt'[u] = elt[u]),
           \/ label \notin {"idle", "unlock"} /\ pc[t] # "unlock"
           \/ label = "unlock" /\ op[t] = "take"
           \/ label = "idle" /\ pc[t] = "unlock"
    PROVE  OwnersCall'
<1>1. \A u \in Threads : pc'[u] = IF u = t THEN label ELSE pc[u]
  BY GotoSets DEF QueueInv
<1>2. pc[t] \notin {"idle", "lock"}
  BY DEF InSection
<1>3. Pushing' = Pushing /\ Replacing' = Replacing
  <2>1. op[Owner] # "take" =>
           (pc'[Owner] \notin {"idle", "unlock"} <=> pc[Owner] \notin {"idle", "unlock"})
    BY <1>1, <1>2
  <2> QED
    BY <2>1 DEF Pushing, Replacing
<1>4. Pushing \/ Replacing => elt'[Owner] = elt[Owner]
  BY DEF Pushing, Replacing
<1>5. pc'[Owner] # "idle" => pc[Owner] # "idle"
  BY <1>1, <1>2
<1> QED
  BY <1>3, <1>4, <1>5 DEF OwnersCall, QueueInv, One

LEMMA CallQueueInv ==
    ASSUME QueueInv, NEW t \in Threads, Call(t) \/ Acquire(t) PROVE QueueInv'
<1> USE DEF locals, shared
<1>1. LockInv'
  BY StepLockInv DEF QueueInv, Next
<1>2. Owner \in Threads /\ TypeOK /\ Bounds /\ OwnersCall
  BY DEF QueueInv
<1>3. /\ pc[t] \in {"idle", "lock"} /\ \A u \in Threads \ {t} : pc'[u] = pc[u]
      /\ pc'[t] \in {"idle", "lock", "read"}
      /\ UNCHANGED <<arr, h, tl, head, tail, array, slot, freed>>
      /\ \A u \in Threads \ {t} : op'[u] = op[u] /\ elt'[u] = elt[u]
  BY <1>2, GotoSets DEF Call, Push, PriorityPush, Pop, Steal, StartTake, StartPush, Acquire, TypeOK
<1>4. \A u \in Threads : Stage(u)'
  <2> SUFFICES ASSUME NEW u \in Threads PROVE Stage(u)'
    OBVIOUS
  <2>1. CASE u = t
    BY <1>3, <2>1 DEF Stage
  <2>2. CASE u # t
    BY <1>3, <2>2 DEF Stage, QueueInv, Copied, At
  <2> QED
    BY <2>1, <2>2
<1>5. Bounds'
  BY <1>2, <1>3 DEF Bounds
<1>6. TypeOK' /\ OwnersCall'
  <2>1. CASE Acquire(t)
    <3>1. TypeOK'
      BY <1>2, <2>1 DEF Acquire, TypeOK, ArraysOK, Goto, Labels
    <3>2. Pushing' = Pushing /\ Replacing' = Replacing
      BY <1>2, <2>1, GotoSets DEF Acquire, Pushing, Replacing
    <3>3. pc'[Owner] # "idle" => pc[Owner] # "idle"
      BY <1>2, <2>1, GotoSets DEF Acquire
    <3> QED
      BY <1>2, <2>1, <3>1, <3>2, <3>3 DEF Acquire, OwnersCall
  <2>2. CASE t = Owner /\ Push
    <3>1. given \in Nat /\ given' = given + 1 /\ given' \in 1..MaxPush
      BY <1>2, <2>2 DEF Push, TypeOK
    <3>2. TypeOK'
      BY <1>2, <2>2, <3>1 DEF Push, StartPush, TypeOK, ArraysOK, Goto, Labels, Values
    <3>3. /\ op'[Owner] = "push" /\ elt'[Owner] = given' /\ pc'[Owner] = "lock"
          /\ pc[Owner] = "idle" /\ UNCHANGED <<buffer, tail>>
      BY <1>2, <2>2 DEF Push, StartPush, TypeOK, Goto
    <3>4. Pushing' /\ ~Replacing' /\ ~Pushing /\ ~Replacing
      BY <3>3 DEF Pushing, Replacing
    <3>5. tail \in Nat
      BY <1>2 DEF TypeOK
    <3> QED
      BY <1>2, <1>3, <2>2, <3>1, <3>2, <3>3, <3>4, <3>5 DEF OwnersCall, One
  <2>3. CASE t = Owner /\ PriorityPush
    <3>1. given \in Nat /\ given' = given + 1 /\ given' \in 1..MaxPush /\ buffer' = given'
          /\ buffer' # EMPTY /\ pc[Owner] = "idle" /\ tail \in Nat /\ UNCHANGED tail
      BY <1>2, <2>3 DEF PriorityPush, TypeOK, EMPTY
    <3>2. TypeOK'
      <4>1. pc' \in [Threads -> Labels] /\ op' \in [Threads -> {"push", "priority_push", "take"}]
            /\ elt' \in [Threads -> Values] /\ buffer' \in Values
        BY <1>2, <2>3, <3>1 DEF PriorityPush, StartPush, TypeOK, Goto, Labels, Values
      <4> QED
        BY <1>2, <2>3, <3>1, <4>1 DEF PriorityPush, TypeOK, ArraysOK
    <3>3. CASE buffer = EMPTY
      <4>1. UNCHANGED <<pc, op, elt>>
        BY <2>3, <3>3 DEF PriorityPush
      <4>2. ~Pushing' /\ ~Replacing' /\ ~Pushing /\ ~Replacing
        BY <3>1, <4>1 DEF Pushing, Replacing
      <4> QED
        BY <1>2, <1>3, <3>1, <3>2, <3>3, <4>1, <4>2 DEF OwnersCall, One
    <3>4. CASE buffer # EMPTY
      <4>1. op'[Owner] = "priority_push" /\ elt'[Owner] = buffer /\ pc'[Owner] = "lock"
        BY <1>2, <2>3, <3>4 DEF PriorityPush, StartPush, TypeOK, Goto
      <4>2. ~Pushing' /\ Replacing' /\ ~Pushing /\ ~Replacing
        BY <3>1, <4>1 DEF Pushing, Replacing
      <4> QED
        BY <1>2, <1>3, <2>3, <3>1, <3>2, <3>4, <4>1, <4>2 DEF OwnersCall, One
    <3> QED
      BY <3>3, <3>4
  <2>4. CASE t = Owner /\ Pop
    <3>1. CASE UNCHANGED <<pc, locals, locked, head, tail, array, slot, freed, given>>
               /\ pc[Owner] = "idle" /\ buffer # EMPTY /\ buffer' = EMPTY
               /\ got' = [got EXCEPT ![Owner] = buffer]
      <4>1. TypeOK'
        BY <1>2, <3>1 DEF TypeOK, ArraysOK, Values
      <4>2. ~Pushing' /\ ~Replacing' /\ ~Pushing /\ ~Replacing /\ tail \in Nat /\ given \in Nat
        BY <1>2, <3>1 DEF Pushing, Replacing, TypeOK
      <4> QED
        BY <1>2, <3>1, <4>1, <4>2 DEF OwnersCall, One
    <3>2. CASE buffer = EMPTY /\ StartTake(Owner)
      <4>1. TypeOK'
        BY <1>2, <3>2 DEF StartTake, TypeOK, ArraysOK, Goto, Labels
      <4>2. op'[Owner] = "take" /\ pc[Owner] = "idle" /\ UNCHANGED <<buffer, tail, given>>
        BY <1>2, <3>2 DEF StartTake, TypeOK
      <4>3. ~Pushing' /\ ~Replacing' /\ ~Pushing /\ ~Replacing
        BY <4>2 DEF Pushing, Replacing
      <4> QED
        BY <1>2, <1>3, <2>4, <3>2, <4>1, <4>2, <4>3 DEF OwnersCall
    <3> QED
      BY <2>4, <3>1, <3>2 DEF Pop
  <2>5. CASE Steal(t)
    <3>1. TypeOK'
      BY <1>2, <2>5 DEF Steal, StartTake, TypeOK, ArraysOK, Goto, Labels
    <3>2. /\ t # Owner /\ op'[t] = "take" /\ op'[Owner] = op[Owner] /\ pc'[Owner] = pc[Owner]
          /\ UNCHANGED <<buffer, tail, given, elt>>
      BY <1>2, <1>3, <2>5 DEF Steal, StartTake, TypeOK
    <3>3. Pushing' = Pushing /\ Replacing' = Replacing
      BY <3>2 DEF Pushing, Replacing
    <3> QED
      BY <1>2, <1>3, <3>1, <3>2, <3>3 DEF OwnersCall
  <2> QED
    BY <2>1, <2>2, <2>3, <2>4, <2>5 DEF Call
<1> QED
  BY <1>1, <1>4, <1>5, <1>6 DEF QueueInv

----------------------------------------------------------------------------
(* The critical section keeps the invariant.                               *)

LEMMA ReadQueueInv ==
    ASSUME QueueInv, NEW t \in Threads, Read(t) PROVE QueueInv'
<1> USE DEF shared
<1>1. TypeOK /\ Bounds /\ InSection(t) /\ pc[t] = "read"
  BY DEF QueueInv, Read, InSection
<1>2. LockInv'
  BY StepLockInv DEF QueueInv, Next, Section
<1>3. Continue(t) \in {"unlock", "get", "grow", "set"}
      /\ (Continue(t) = "unlock" => op[t] = "take")
  BY DEF Continue
<1>4. TypeOK'
  BY <1>1, <1>3 DEF Read, TypeOK, ArraysOK, Goto, Labels, Values
<1>5. Bounds'
  BY <1>1 DEF Read, Bounds
<1>6. OwnersCall'
  BY <1>1, <1>3, CallGoesOn DEF Read
<1>7. Stage(t)'
  <2>1. /\ pc'[t] = Continue(t) /\ h'[t] = head /\ tl'[t] = tail /\ arr'[t] = array
        /\ UNCHANGED <<op, head, tail, array>>
    BY <1>1, GotoSets DEF Read, TypeOK
  <2>2. /\ head \in Nat /\ tail \in Nat /\ head <= tail
        /\ tail - head <= array /\ array \in Nat
    BY <1>1 DEF TypeOK, Bounds, ArraysOK
  <2>3. CASE op[t] = "take"
    BY <2>1, <2>2, <2>3 DEF Stage, Continue
  <2>4. CASE op[t] # "take" /\ tail - head <= array - 1
    BY <2>1, <2>2, <2>4 DEF Stage, Continue
  <2>5. CASE op[t] # "take" /\ tail - head > array - 1
    BY <2>1, <2>2, <2>5 DEF Stage, Continue
  <2> QED
    BY <2>2, <2>3, <2>4, <2>5
<1>8. \A u \in Threads : Stage(u)'
  BY <1>1, <1>7, OthersStay, GotoSets DEF Read
<1> QED
  BY <1>2, <1>4, <1>5, <1>6, <1>8 DEF QueueInv

\* circular_array_resize copies each element to a slot of its own.
LEMMA GrowCopies ==
    ASSUME QueueInv, NEW t \in Threads, Grow(t)
    PROVE  /\ DOMAIN slot' = DOMAIN slot \cup {2 * array}
           /\ ArraysOK(Values)'
           /\ slot'[array] = slot[array]
           /\ Copied'
<1> DEFINE e == [i \in head..(tail - 1) |-> At(array, i)]
<1>1. TypeOK /\ Bounds /\ Stage(t) /\ pc[t] = "grow"
  BY DEF QueueInv, Grow
<1>2. /\ array \in Nat \ {0} /\ array \in DOMAIN slot /\ array # 2 * array
      /\ arr[t] = array /\ h[t] = head /\ tl[t] = tail
      /\ head \in Nat /\ tail \in Nat /\ tail - head = array /\ ArraysOK(Values)
  BY <1>1 DEF Stage, TypeOK, ArraysOK
<1>3. \A i \in head..(tail - 1) : At(array, i) \in Values
  BY <1>2, SlotExists
<1>4. e \in [head..(tail - 1) -> Values] /\ Resize(array, e) /\ Garbage \in Values
  BY <1>2, <1>3 DEF Grow, Values
<1> HIDE DEF e
<1>5. PICK S \in SUBSET Int : S = head..(tail - 1)
  BY <1>2
<1>6. /\ DOMAIN slot' = DOMAIN slot \cup {2 * array}
      /\ DOMAIN slot' \subseteq Nat \ {0}
      /\ \A m \in DOMAIN slot' : slot'[m] \in [Slots(m) -> Values]
      /\ \A m \in DOMAIN slot \ {2 * array} : slot'[m] = slot[m]
      /\ \A i \in S : slot'[2 * array][Index(2 * array, i)] = e[i]
  <2>1. DOMAIN e = S /\ \A i \in DOMAIN e : e[i] \in Values
    BY <1>4, <1>5
  <2>2. Apart(DOMAIN e, Doubled(array)) /\ Doubled(array) = 2 * array
    <3>1. 2 * array \in Nat \ {0} /\ head \in Int /\ tail \in Int /\ tail - head <= 2 * array
      BY <1>2
    <3> QED
      BY <3>1, <1>5, <2>1, RangeApart DEF Doubled
  <2>3. \A i \in S : slot'[2 * array][Index(2 * array, i)] = e[i]
    BY <1>2, <1>4, <2>1, <2>2, ResizeCopies
  <2> QED
    BY <1>2, <1>4, <2>1, <2>2, <2>3, ResizeKeeps
<1>7. UNCHANGED <<head, tail, array>> /\ slot'[array] = slot[array]
  BY <1>2, <1>6 DEF Grow
<1>8. \A i \in head..(tail - 1) : e[i] = At(array, i)
  BY DEF e
<1>9. \A i \in head..(tail - 1) :
        slot'[2 * array][Index(2 * array, i)] = slot'[array][Index(array, i)]
  BY <1>5, <1>6, <1>7, <1>8 DEF At
<1>10. 2 * array \in DOMAIN slot'
  BY <1>6
<1>11. Copied'
  BY <1>7, <1>9, <1>10 DEF Copied, At
<1>12. ArraysOK(Values)'
  BY <1>6 DEF ArraysOK
<1> QED
  BY <1>6, <1>7, <1>11, <1>12

LEMMA GrowQueueInv ==
    ASSUME QueueInv, NEW t \in Threads, Grow(t) PROVE QueueInv'
<1> USE DEF locals
<1>1. TypeOK /\ Bounds /\ InSection(t) /\ pc[t] = "grow" /\ Stage(t)
  BY DEF QueueInv, Grow, InSection
<1>2. LockInv'
  BY StepLockInv DEF QueueInv, Next, Section
<1>3. \A u \in Threads : pc'[u] = IF u = t THEN "free" ELSE pc[u]
  BY <1>1, GotoSets DEF Grow
<1>4. TypeOK'
  <2>1. ArraysOK(Values)' /\ DOMAIN slot' = DOMAIN slot \cup {2 * array}
    BY GrowCopies
  <2> QED
    BY <1>1, <2>1 DEF Grow, TypeOK, Goto, Labels
<1>5. Bounds'
  BY <1>1, GrowCopies DEF Grow, Bounds
<1>6. OwnersCall'
  BY <1>1, CallGoesOn DEF Grow
<1>7. Stage(t)'
  BY <1>1, <1>3, GrowCopies DEF Stage, Grow
<1>8. \A u \in Threads : Stage(u)'
  BY <1>1, <1>3, <1>7, OthersStay
<1> QED
  BY <1>2, <1>4, <1>5, <1>6, <1>8 DEF QueueInv

LEMMA FreeQueueInv ==
    ASSUME QueueInv, NEW t \in Threads, FreeArray(t) PROVE QueueInv'
<1> USE DEF locals
<1>1. TypeOK /\ Bounds /\ InSection(t) /\ pc[t] = "free" /\ Stage(t)
  BY DEF QueueInv, FreeArray, InSection
<1>2. LockInv'
  BY StepLockInv DEF QueueInv, Next, Section
<1>3. \A u \in Threads : pc'[u] = IF u = t THEN "install" ELSE pc[u]
  BY <1>1, GotoSets DEF FreeArray
<1>4. TypeOK'
  BY <1>1 DEF FreeArray, TypeOK, ArraysOK, Goto, Labels
<1>5. Bounds'
  BY <1>1 DEF FreeArray, Bounds
<1>6. OwnersCall'
  BY <1>1, CallGoesOn DEF FreeArray
<1>7. Stage(t)'
  BY <1>1, <1>3 DEF Stage, FreeArray, Copied, At
<1>8. \A u \in Threads : Stage(u)'
  BY <1>1, <1>3, <1>7, OthersStay
<1> QED
  BY <1>2, <1>4, <1>5, <1>6, <1>8 DEF QueueInv

LEMMA InstallQueueInv ==
    ASSUME QueueInv, NEW t \in Threads, Install(t) PROVE QueueInv'
<1>1. TypeOK /\ Bounds /\ InSection(t) /\ pc[t] = "install" /\ Stage(t)
  BY DEF QueueInv, Install, InSection
<1>2. LockInv'
  BY StepLockInv DEF QueueInv, Next, Section
<1>3. \A u \in Threads : pc'[u] = IF u = t THEN "set" ELSE pc[u]
  BY <1>1, GotoSets DEF Install
<1>4. /\ arr[t] = array /\ array \in Nat \ {0} /\ 2 * array \in DOMAIN slot
      /\ array' = 2 * array /\ arr'[t] = 2 * array /\ h[t] = head /\ tl[t] = tail /\ op[t] # "take"
      /\ tail - head = array
      /\ UNCHANGED <<op, h, tl, head, tail, slot, elt>>
  BY <1>1 DEF Stage, Install, TypeOK, ArraysOK, Copied
<1>5. TypeOK'
  BY <1>1, <1>4 DEF Install, TypeOK, ArraysOK, Goto, Labels
<1>7. Bounds' /\ tail' - head' < array'
  BY <1>1, <1>4 DEF Bounds
<1>8. OwnersCall'
  BY <1>1, CallGoesOn DEF Install
<1>9. Stage(t)'
  BY <1>3, <1>4, <1>7 DEF Stage
<1>10. \A u \in Threads : Stage(u)'
  BY <1>1, <1>3, <1>9, OthersStay
<1> QED
  BY <1>2, <1>5, <1>7, <1>8, <1>10 DEF QueueInv

\* The slot that is written is none of those with an element.
LEMMA SetSlotKeeps ==
    ASSUME QueueInv, NEW t \in Threads, SetSlot(t)
    PROVE  /\ DOMAIN slot' = DOMAIN slot
           /\ ArraysOK(Values)'
           /\ slot'[array][Index(array, tail)] = elt[t]
           /\ \A i \in head..(tail - 1) : slot'[array][Index(array, i)] = slot[array][Index(array, i)]
<1>1. TypeOK /\ Bounds /\ Stage(t) /\ pc[t] = "set"
  BY DEF QueueInv, SetSlot
<1>2. /\ array \in Nat \ {0} /\ array \in DOMAIN slot /\ arr[t] = array /\ tl[t] = tail
      /\ head \in Nat /\ tail \in Nat /\ tail - head < array
      /\ elt[t] \in Values /\ ArraysOK(Values)
  BY <1>1 DEF Stage, TypeOK, ArraysOK
<1>3. SetAt(array, tail, elt[t]) /\ tail \in Int
  BY <1>2 DEF SetSlot
<1>4. /\ DOMAIN slot' = DOMAIN slot
      /\ DOMAIN slot' \subseteq Nat \ {0}
      /\ \A m \in DOMAIN slot' : slot'[m] \in [Slots(m) -> Values]
      /\ slot'[array][Index(array, tail)] = elt[t]
      /\ \A m \in DOMAIN slot : \A j \in Slots(m) :
            m # array \/ j # Index(array, tail) => slot'[m][j] = slot[m][j]
  BY <1>2, <1>3, SetAtKeeps
<1>5. ASSUME NEW i \in head..(tail - 1)
      PROVE  slot'[array][Index(array, i)] = slot[array][Index(array, i)]
  <2>1. i \in Int /\ i < tail /\ tail - i < array
    BY <1>2
  <2>2. Index(array, i) # Index(array, tail)
    BY <1>2, <1>3, <2>1, SlotsApart
  <2>3. Index(array, i) \in Slots(array)
    BY <1>2, <2>1, SlotExists
  <2> QED
    BY <1>2, <1>4, <2>2, <2>3
<1> QED
  BY <1>4, <1>5 DEF ArraysOK

LEMMA SetSlotQueueInv ==
    ASSUME QueueInv, NEW t \in Threads, SetSlot(t) PROVE QueueInv'
<1> USE DEF locals
<1>1. TypeOK /\ Bounds /\ InSection(t) /\ pc[t] = "set" /\ Stage(t)
  BY DEF QueueInv, SetSlot, InSection
<1>2. LockInv'
  BY StepLockInv DEF QueueInv, Next, Section
<1>3. \A u \in Threads : pc'[u] = IF u = t THEN "tail" ELSE pc[u]
  BY <1>1, GotoSets DEF SetSlot
<1>4. TypeOK'
  BY <1>1, SetSlotKeeps DEF SetSlot, TypeOK, ArraysOK, Goto, Labels
<1>5. Bounds'
  BY <1>1, SetSlotKeeps DEF SetSlot, Bounds
<1>6. OwnersCall'
  BY <1>1, CallGoesOn DEF SetSlot
<1>7. Stage(t)'
  BY <1>1, <1>3, SetSlotKeeps DEF Stage, SetSlot, At
<1>8. \A u \in Threads : Stage(u)'
  BY <1>1, <1>3, <1>7, OthersStay
<1> QED
  BY <1>2, <1>4, <1>5, <1>6, <1>8 DEF QueueInv

LEMMA StoreTailQueueInv ==
    ASSUME QueueInv, NEW t \in Threads, StoreTail(t) PROVE QueueInv'
<1> USE DEF locals
<1>1. TypeOK /\ Bounds /\ InSection(t) /\ pc[t] = "tail" /\ Stage(t) /\ OwnersCall
  BY DEF QueueInv, StoreTail, InSection
<1>2. LockInv'
  BY StepLockInv DEF QueueInv, Next, Section
<1>3. \A u \in Threads : pc'[u] = IF u = t THEN "unlock" ELSE pc[u]
  BY <1>1, GotoSets DEF StoreTail
<1>4. /\ tail' = tail + 1 /\ tail \in Nat /\ head \in Nat /\ given \in Nat
      /\ tail - head < array /\ array \in Nat /\ op[t] # "take"
      /\ UNCHANGED <<op, elt, buffer, given, head, array, slot>>
  BY <1>1 DEF Stage, StoreTail, TypeOK, ArraysOK
<1>6. TypeOK'
  BY <1>1, <1>4 DEF StoreTail, TypeOK, ArraysOK, Goto, Labels
<1>7. Bounds'
  BY <1>1, <1>4 DEF Bounds
<1>8. OwnersCall'
  <2>1. t = Owner /\ (Pushing \/ Replacing)
    BY <1>1, <1>4 DEF OwnersCall, Pushing, Replacing, TypeOK
  <2>2. ~Pushing' /\ ~Replacing'
    BY <1>3, <2>1 DEF Pushing, Replacing
  <2> QED
    BY <1>1, <1>4, <2>1, <2>2 DEF OwnersCall, One
<1>9. Stage(t)'
  BY <1>3 DEF Stage
<1>10. \A u \in Threads : Stage(u)'
  BY <1>1, <1>3, <1>9, OthersStay
<1> QED
  BY <1>2, <1>6, <1>7, <1>8, <1>10 DEF QueueInv

\* An element in the queue is a value.
LEMMA ElementIsValue ==
    ASSUME QueueInv, NEW i \in head..(tail - 1) PROVE At(array, i) \in Values
  BY SlotExists DEF QueueInv, TypeOK

LEMMA GetSlotQueueInv ==
    ASSUME QueueInv, NEW t \in Threads, GetSlot(t) PROVE QueueInv'
<1> USE DEF shared
<1>1. TypeOK /\ Bounds /\ InSection(t) /\ pc[t] = "get" /\ Stage(t)
  BY DEF QueueInv, GetSlot, InSection
<1>2. LockInv'
  BY StepLockInv DEF QueueInv, Next, Section
<1>3. \A u \in Threads : pc'[u] = IF u = t THEN "head" ELSE pc[u]
  BY <1>1, GotoSets DEF GetSlot
<1>4. /\ head \in head..(tail - 1) /\ arr[t] = array /\ h[t] = head /\ tl[t] = tail
      /\ op[t] = "take" /\ head < tail
  BY <1>1 DEF Stage, TypeOK
<1>5. At(array, head) \in Values
  BY <1>4, ElementIsValue
<1>6. /\ \A u \in Threads : elt'[u] = IF u = t THEN At(array, head) ELSE elt[u]
      /\ elt' \in [Threads -> Values]
  BY <1>1, <1>4, <1>5 DEF GetSlot, TypeOK
<1>7. TypeOK'
  BY <1>1, <1>6 DEF GetSlot, TypeOK, ArraysOK, Goto, Labels
<1>8. Bounds'
  BY <1>1 DEF GetSlot, Bounds
<1>9. OwnersCall'
  BY <1>1, <1>4, <1>6, CallGoesOn DEF GetSlot
<1>10. Stage(t)'
  BY <1>1, <1>3, <1>4, <1>6 DEF Stage, GetSlot, At
<1>11. \A u \in Threads : Stage(u)'
  BY <1>1, <1>3, <1>10, OthersStay
<1> QED
  BY <1>2, <1>7, <1>8, <1>9, <1>11 DEF QueueInv

LEMMA StoreHeadQueueInv ==
    ASSUME QueueInv, NEW t \in Threads, StoreHead(t) PROVE QueueInv'
<1> USE DEF locals
<1>1. TypeOK /\ Bounds /\ InSection(t) /\ pc[t] = "head" /\ Stage(t)
  BY DEF QueueInv, StoreHead, InSection
<1>2. LockInv'
  BY StepLockInv DEF QueueInv, Next, Section
<1>3. \A u \in Threads : pc'[u] = IF u = t THEN "unlock" ELSE pc[u]
  BY <1>1, GotoSets DEF StoreHead
<1>4. /\ head' = head + 1 /\ head < tail /\ op[t] = "take" /\ head \in Nat /\ tail \in Nat
      /\ array \in Nat /\ tail - head <= array
  BY <1>1 DEF Stage, StoreHead, TypeOK, Bounds, ArraysOK
<1>6. TypeOK'
  <2>1. got' \in [Threads -> Values] /\ head' \in Nat /\ pc' \in [Threads -> Labels]
    BY <1>1, <1>4 DEF StoreHead, TypeOK, Goto, Labels
  <2> QED
    BY <1>1, <2>1 DEF StoreHead, TypeOK, ArraysOK
<1>7. Bounds'
  BY <1>1, <1>4 DEF StoreHead, Bounds
<1>8. OwnersCall'
  BY <1>1, <1>4, CallGoesOn DEF StoreHead
<1>9. Stage(t)'
  BY <1>3 DEF Stage
<1>10. \A u \in Threads : Stage(u)'
  BY <1>1, <1>3, <1>9, OthersStay
<1> QED
  BY <1>2, <1>6, <1>7, <1>8, <1>10 DEF QueueInv

LEMMA ReleaseQueueInv ==
    ASSUME QueueInv, NEW t \in Threads, Release(t) PROVE QueueInv'
<1> USE DEF locals
<1>1. TypeOK /\ Bounds /\ InSection(t) /\ pc[t] = "unlock"
  BY DEF QueueInv, Release, InSection
<1>2. LockInv'
  BY StepLockInv DEF QueueInv, Next, Section
<1>3. \A u \in Threads : pc'[u] = IF u = t THEN "idle" ELSE pc[u]
  BY <1>1, GotoSets DEF Release
<1>4. TypeOK'
  BY <1>1 DEF Release, TypeOK, ArraysOK, Goto, Labels
<1>5. Bounds'
  BY <1>1 DEF Release, Bounds
<1>6. OwnersCall'
  BY <1>1, CallGoesOn DEF Release
<1>7. Stage(t)'
  BY <1>3 DEF Stage
<1>8. \A u \in Threads : Stage(u)'
  BY <1>1, <1>3, <1>7, OthersStay
<1> QED
  BY <1>2, <1>4, <1>5, <1>6, <1>8 DEF QueueInv

LEMMA NextQueueInv == ASSUME QueueInv, [Next]_vars PROVE QueueInv'
<1>1. CASE UNCHANGED vars
  <2>1. LockInv'
    BY <1>1, StepLockInv DEF QueueInv
  <2>2. UNCHANGED <<pc, op, elt, arr, h, tl, locked, head, tail, buffer, array, slot, freed,
                    got, given>>
    BY <1>1 DEF vars, locals, shared
  <2>3. TypeOK' /\ Bounds'
    BY <2>2 DEF QueueInv, TypeOK, ArraysOK, Bounds
  <2>4. OwnersCall'
    BY <2>2 DEF QueueInv, OwnersCall, Pushing, Replacing
  <2>5. \A t \in Threads : Stage(t)'
    BY <2>2 DEF QueueInv, Stage, Copied, At
  <2> QED
    BY <2>1, <2>3, <2>4, <2>5 DEF QueueInv
<1>2. ASSUME NEW t \in Threads, Call(t) \/ Acquire(t) \/ Section(t) PROVE QueueInv'
  BY <1>2, CallQueueInv, ReadQueueInv, GrowQueueInv, FreeQueueInv, InstallQueueInv,
     SetSlotQueueInv, StoreTailQueueInv, GetSlotQueueInv, StoreHeadQueueInv, ReleaseQueueInv
     DEF Section
<1> QED
  BY <1>1, <1>2 DEF Next

----------------------------------------------------------------------------
(* The refinement.                                                         *)

Items == [i \in 1..(tail - head) |-> At(array, head + i - 1)]
Spare == IF Replacing THEN elt[Owner] ELSE buffer
Given == IF Replacing \/ Pushing THEN given - 1 ELSE given

AbstractStep == Abstract!Next \/ UNCHANGED Abstract!vars

LEMMA Stutters ==
    ASSUME UNCHANGED <<Items, Spare, Given, got>> PROVE AbstractStep
  BY DEF AbstractStep, Abstract!vars, Items, Spare, Given

LEMMA ItemsKept ==
    ASSUME QueueInv, UNCHANGED <<head, tail>>,
           \A i \in head..(tail - 1) : At(array, i)' = At(array, i)
    PROVE  UNCHANGED Items
<1>1. head \in Nat /\ tail \in Nat
  BY DEF QueueInv, TypeOK
<1>2. \A i \in 1..(tail - head) : head + i - 1 \in head..(tail - 1)
  BY <1>1
<1>3. \A i \in 1..(tail - head) : At(array, head + i - 1)' = At(array, head + i - 1)
  <2> SUFFICES ASSUME NEW i \in 1..(tail - head)
               PROVE  At(array, head + i - 1)' = At(array, head + i - 1)
    OBVIOUS
  <2>1. PICK j \in head..(tail - 1) : j = head + i - 1
    BY <1>2
  <2>2. At(array, j)' = At(array, j)
    OBVIOUS
  <2> QED
    BY <2>1, <2>2 DEF At
<1> QED
  BY <1>3 DEF Items

LEMMA ItemsAre ==
    ASSUME QueueInv
    PROVE  /\ Items \in Seq(Values) /\ Len(Items) = tail - head
           /\ \A i \in 1..(tail - head) : Items[i] = At(array, head + i - 1)
           /\ head \in Nat /\ tail \in Nat /\ tail - head \in Nat
<1>1. head \in Nat /\ tail \in Nat /\ tail - head \in Nat
  BY DEF QueueInv, TypeOK, Bounds
<1>2. \A i \in 1..(tail - head) : At(array, head + i - 1) \in Values
  <2> SUFFICES ASSUME NEW i \in 1..(tail - head) PROVE At(array, head + i - 1) \in Values
    OBVIOUS
  <2>1. head + i - 1 \in head..(tail - 1)
    BY <1>1
  <2> QED
    BY <2>1, ElementIsValue
<1>3. Items \in [1..(tail - head) -> Values]
  BY <1>2 DEF Items
<1>4. Items \in Seq(Values) /\ Len(Items) = tail - head
  <2>1. PICK n \in Nat : n = tail - head
    BY <1>1
  <2>2. Items \in [1..n -> Values]
    BY <1>3, <2>1
  <2>3. Items \in Seq(Values) /\ Len(Items) = n
    BY <2>2
  <2> QED
    BY <2>1, <2>3
<1>5. \A i \in 1..(tail - head) : Items[i] = At(array, head + i - 1)
  BY DEF Items
<1> QED
  BY <1>1, <1>4, <1>5

LEMMA InitAbstract == Init => Abstract!Init
<1> SUFFICES ASSUME Init PROVE Abstract!Init
  OBVIOUS
<1>1. Items = <<>>
  BY DEF Init, Items
<1>2. Spare = EMPTY /\ Given = 0
  BY DEF Init, Spare, Given, Replacing, Pushing
<1> QED
  BY <1>1, <1>2 DEF Init, Abstract!Init, Items, Spare, Given

\* A call begins; only a priority_push or a pop that needs the buffer alone
\* is over.
LEMMA CallRefines ==
    ASSUME QueueInv, NEW t \in Threads, Call(t) \/ Acquire(t) PROVE AbstractStep
<1> USE DEF locals, shared
<1>1. Owner \in Threads /\ TypeOK
  BY DEF QueueInv
<1>2. UNCHANGED Items
  <2>1. UNCHANGED <<head, tail, array, slot>>
    BY DEF Call, Push, PriorityPush, Pop, Steal, StartTake, Acquire
  <2> QED
    BY <2>1, ItemsKept DEF At
<1>3. CASE Acquire(t)
  <2>1. Pushing' = Pushing /\ Replacing' = Replacing
    BY <1>1, <1>3, GotoSets DEF Acquire, Pushing, Replacing
  <2>2. UNCHANGED <<Spare, Given, got>>
    BY <1>3, <2>1 DEF Acquire, Spare, Given
  <2> QED
    BY <1>2, <2>2, Stutters
<1>4. CASE t = Owner /\ Push
  <2>1. given \in Nat /\ given' = given + 1 /\ UNCHANGED <<buffer, got>>
    BY <1>1, <1>4 DEF Push, TypeOK
  <2>2. op'[Owner] = "push" /\ pc'[Owner] = "lock" /\ pc[Owner] = "idle"
    BY <1>1, <1>4 DEF Push, StartPush, TypeOK, Goto
  <2>3. Pushing' /\ ~Replacing' /\ ~Pushing /\ ~Replacing
    BY <2>2 DEF Pushing, Replacing
  <2>4. UNCHANGED <<Spare, Given, got>>
    BY <2>1, <2>3 DEF Spare, Given
  <2> QED
    BY <1>2, <2>4, Stutters
<1>5. CASE t = Owner /\ PriorityPush
  <2>1. given \in Nat /\ given' = given + 1 /\ buffer' = given' /\ pc[Owner] = "idle"
        /\ UNCHANGED got
    BY <1>1, <1>5 DEF PriorityPush, TypeOK
  <2>2. ~Pushing /\ ~Replacing
    BY <2>1 DEF Pushing, Replacing
  <2>3. CASE buffer = EMPTY
    <3>1. UNCHANGED <<pc, op, elt>>
      BY <1>5, <2>3 DEF PriorityPush
    <3>2. ~Pushing' /\ ~Replacing'
      BY <2>1, <3>1 DEF Pushing, Replacing
    <3>3. Given' = Given + 1 /\ Spare = EMPTY /\ Spare' = Given' /\ UNCHANGED <<Items, got>>
      BY <1>2, <2>1, <2>2, <2>3, <3>2 DEF Given, Spare
    <3> QED
      BY <3>3 DEF AbstractStep, Abstract!Next, Abstract!PriorityPush, Items, Spare, Given
  <2>4. CASE buffer # EMPTY
    <3>1. op'[Owner] = "priority_push" /\ elt'[Owner] = buffer /\ pc'[Owner] = "lock"
      BY <1>1, <1>5, <2>4 DEF PriorityPush, StartPush, TypeOK, Goto
    <3>2. ~Pushing' /\ Replacing'
      BY <3>1 DEF Pushing, Replacing
    <3>3. UNCHANGED <<Spare, Given, got>>
      BY <2>1, <2>2, <3>1, <3>2 DEF Spare, Given
    <3> QED
      BY <1>2, <3>3, Stutters
  <2> QED
    BY <2>3, <2>4
<1>6. CASE t = Owner /\ Pop
  <2>1. CASE UNCHANGED <<pc, locals, given>> /\ pc[Owner] = "idle" /\ buffer # EMPTY
             /\ buffer' = EMPTY /\ got' = [got EXCEPT ![Owner] = buffer]
    <3>1. ~Pushing /\ ~Replacing /\ ~Pushing' /\ ~Replacing'
      BY <2>1 DEF Pushing, Replacing
    <3>2. /\ Spare # EMPTY /\ got' = [got EXCEPT ![Owner] = Spare] /\ Spare' = EMPTY
          /\ UNCHANGED <<Items, Given>>
      BY <1>2, <2>1, <3>1 DEF Spare, Given
    <3> QED
      BY <3>2 DEF AbstractStep, Abstract!Next, Abstract!Pop, Items, Spare, Given
  <2>2. CASE buffer = EMPTY /\ StartTake(Owner)
    <3>1. op'[Owner] = "take" /\ pc[Owner] = "idle" /\ UNCHANGED <<buffer, given, got>>
      BY <1>1, <2>2 DEF StartTake, TypeOK
    <3>2. ~Pushing' /\ ~Replacing' /\ ~Pushing /\ ~Replacing
      BY <3>1 DEF Pushing, Replacing
    <3>3. UNCHANGED <<Spare, Given, got>>
      BY <3>1, <3>2 DEF Spare, Given
    <3> QED
      BY <1>2, <3>3, Stutters
  <2> QED
    BY <1>6, <2>1, <2>2 DEF Pop
<1>7. CASE Steal(t)
  <2>1. t # Owner /\ op'[Owner] = op[Owner] /\ pc'[Owner] = pc[Owner]
        /\ UNCHANGED <<buffer, given, elt, got>>
    BY <1>1, <1>7, GotoSets DEF Steal, StartTake, TypeOK
  <2>2. Pushing' = Pushing /\ Replacing' = Replacing
    BY <2>1 DEF Pushing, Replacing
  <2>3. UNCHANGED <<Spare, Given, got>>
    BY <2>1, <2>2 DEF Spare, Given
  <2> QED
    BY <1>2, <2>3, Stutters
<1> QED
  BY <1>3, <1>4, <1>5, <1>6, <1>7 DEF Call

\* A step of the critical section that stores neither head nor tail and does
\* not find the queue empty.
LEMMA SectionStutters ==
    ASSUME QueueInv, NEW t \in Threads, InSection(t),
           UNCHANGED <<op, given, buffer, got, head, tail>>,
           NEW label, Goto(t, label),
           UNCHANGED elt \/ (op[t] = "take" /\ \A u \in Threads \ {t} : elt'[u] = elt[u]),
           \/ label \notin {"idle", "unlock"} /\ pc[t] # "unlock"
           \/ label = "idle" /\ pc[t] = "unlock",
           \A i \in head..(tail - 1) : At(array, i)' = At(array, i)
    PROVE  AbstractStep
<1>1. \A u \in Threads : pc'[u] = IF u = t THEN label ELSE pc[u]
  BY GotoSets DEF QueueInv
<1>2. pc[t] \notin {"idle", "lock"}
  BY DEF InSection
<1>3. Pushing' = Pushing /\ Replacing' = Replacing
  BY <1>1, <1>2 DEF Pushing, Replacing
<1>4. Replacing => elt'[Owner] = elt[Owner]
  BY DEF Replacing
<1>5. UNCHANGED <<Spare, Given>>
  BY <1>3, <1>4 DEF Spare, Given
<1> QED
  BY <1>5, ItemsKept, Stutters

\* Who finds nothing, or the oldest element, takes as WorkQueue says.
LEMMA Takes ==
    ASSUME QueueInv, NEW t \in Threads, InSection(t), op[t] = "take",
           UNCHANGED <<op, given, buffer, elt>>, NEW label, Goto(t, label),
           UNCHANGED <<Spare, Given>> => Abstract!TakeHead(t)
    PROVE  AbstractStep
<1>1. \A u \in Threads : pc'[u] = IF u = t THEN label ELSE pc[u]
  BY GotoSets DEF QueueInv
<1>2. Pushing' = Pushing /\ Replacing' = Replacing
  BY <1>1 DEF Pushing, Replacing
<1>3. UNCHANGED <<Spare, Given>>
  BY <1>2 DEF Spare, Given
<1>4. Abstract!TakeHead(t)
  BY <1>3
<1>5. CASE t = Owner
  <2>1. ~Replacing /\ buffer = EMPTY
    BY <1>5 DEF Replacing, QueueInv, OwnersCall, InSection
  <2> QED
    BY <1>4, <1>5, <2>1 DEF AbstractStep, Abstract!Next, Abstract!Pop
<1> QED
  BY <1>4, <1>5 DEF AbstractStep, Abstract!Next, Abstract!Steal

LEMMA ReadRefines ==
    ASSUME QueueInv, NEW t \in Threads, Read(t) PROVE AbstractStep
<1> USE DEF shared
<1>1. InSection(t) /\ pc[t] = "read" /\ Goto(t, Continue(t))
      /\ UNCHANGED <<op, elt, given, buffer, head, tail, array, slot>>
  BY DEF Read, InSection
<1>2. CASE Continue(t) # "unlock"
  <2>1. Continue(t) # "idle"
    BY DEF Continue
  <2>2. \A i \in head..(tail - 1) : At(array, i)' = At(array, i)
    BY <1>1 DEF At
  <2>3. UNCHANGED got
    BY <1>2 DEF Read
  <2> QED
    BY <1>1, <1>2, <2>1, <2>2, <2>3, SectionStutters
<1>3. CASE Continue(t) = "unlock"
  <2>1. op[t] = "take" /\ head = tail /\ got' = [got EXCEPT ![t] = EMPTY]
    BY <1>3 DEF Continue, Read
  <2>2. Items = <<>> /\ Items' = <<>>
    <3>1. Items = <<>>
      BY <2>1, ItemsAre
    <3>2. UNCHANGED Items
      BY <1>1 DEF Items, At
    <3> QED
      BY <3>1, <3>2
  <2>3. UNCHANGED <<Spare, Given>> => Abstract!TakeHead(t)
    BY <2>1, <2>2 DEF Abstract!TakeHead, Items, Spare, Given
  <2> QED
    BY <1>1, <2>1, <2>3, Takes
<1> QED
  BY <1>2, <1>3

LEMMA TailIs ==
    ASSUME NEW S, NEW s \in Seq(S), s # <<>>
    PROVE  Tail(s) = [i \in 1..(Len(s) - 1) |-> s[i + 1]]
<1> DEFINE rest == [i \in 1..(Len(s) - 1) |-> s[i + 1]]
<1>1. /\ Tail(s) \in Seq(S) /\ Len(Tail(s)) = Len(s) - 1
      /\ \A i \in 1..Len(Tail(s)) : Tail(s)[i] = s[i + 1]
  BY HeadTailProperties
<1>2. PICK n \in Nat : n = Len(s) - 1 /\ n = Len(Tail(s))
  <2>1. Len(Tail(s)) \in Nat
    BY <1>1, LenProperties
  <2> QED
    BY <1>1, <2>1
<1>3. rest \in [1..n -> S]
  <2>1. \A i \in 1..n : i + 1 \in 1..Len(s)
    BY <1>2
  <2> QED
    BY <1>2, <2>1
<1>4. rest \in Seq(S) /\ Len(rest) = n
  BY <1>3
<1>5. \A i \in 1..n : rest[i] = Tail(s)[i]
  BY <1>1, <1>2
<1> QED
  BY <1>1, <1>2, <1>4, <1>5, SeqEqual

LEMMA StoreHeadRefines ==
    ASSUME QueueInv, NEW t \in Threads, StoreHead(t) PROVE AbstractStep
<1> USE DEF locals
<1>1. /\ InSection(t) /\ pc[t] = "head" /\ Goto(t, "unlock") /\ Stage(t)
      /\ got' = [got EXCEPT ![t] = elt[t]] /\ head' = h[t] + 1
      /\ UNCHANGED <<op, elt, given, buffer, tail, array, slot>>
  BY DEF StoreHead, InSection, QueueInv
<1>2. op[t] = "take" /\ head < tail /\ At(array, head) = elt[t] /\ head' = head + 1
  BY <1>1 DEF Stage
<1>3. /\ Items \in Seq(Values) /\ Len(Items) = tail - head
      /\ \A i \in 1..(tail - head) : Items[i] = At(array, head + i - 1)
      /\ head \in Nat /\ tail \in Nat /\ tail - head \in Nat
  BY ItemsAre
<1>4. Items # <<>> /\ Head(Items) = elt[t]
  <2>1. head + 1 - 1 = head /\ 1 \in 1..(tail - head)
    BY <1>2, <1>3
  <2>2. Items[1] = elt[t]
    BY <1>2, <1>3, <2>1
  <2>3. Len(Items) # 0
    BY <1>2, <1>3
  <2> QED
    BY <1>3, <2>2, <2>3
<1>5. Items' = [i \in 1..(tail - head - 1) |-> At(array, head + i)]
  <2>1. Items' = [i \in 1..(tail - (head + 1)) |-> At(array, (head + 1) + i - 1)]
    BY <1>1, <1>2 DEF Items, At
  <2>2. tail - (head + 1) = tail - head - 1
        /\ \A i \in 1..(tail - head - 1) : (head + 1) + i - 1 = head + i
    BY <1>3
  <2> QED
    BY <2>1, <2>2
<1>6. Tail(Items) = [i \in 1..(tail - head - 1) |-> At(array, head + i)]
  <2>1. Tail(Items) = [i \in 1..(tail - head - 1) |-> Items[i + 1]]
    <3>1. Tail(Items) = [i \in 1..(Len(Items) - 1) |-> Items[i + 1]]
      BY <1>3, <1>4, TailIs
    <3> QED
      BY <1>3, <3>1
  <2>2. \A i \in 1..(tail - head - 1) :
           i + 1 \in 1..(tail - head) /\ head + (i + 1) - 1 = head + i
    BY <1>3
  <2>3. \A i \in 1..(tail - head - 1) : Items[i + 1] = At(array, head + i)
    BY <1>3, <2>2
  <2> QED
    BY <2>1, <2>3
<1>7. Items' = Tail(Items)
  BY <1>5, <1>6
<1>8. UNCHANGED <<Spare, Given>> => Abstract!TakeHead(t)
  BY <1>1, <1>4, <1>7 DEF Abstract!TakeHead, Items, Spare, Given
<1> QED
  BY <1>1, <1>2, <1>8, Takes

LEMMA StoreTailRefines ==
    ASSUME QueueInv, NEW t \in Threads, StoreTail(t) PROVE AbstractStep
<1> USE DEF locals
<1>1. /\ pc[t] = "tail" /\ Goto(t, "unlock") /\ Stage(t) /\ tail' = tl[t] + 1
      /\ TypeOK /\ OwnersCall
      /\ UNCHANGED <<op, elt, got, given, buffer, head, array, slot>>
  BY DEF StoreTail, QueueInv
<1>2. op[t] # "take" /\ At(array, tail) = elt[t] /\ tail' = tail + 1 /\ given \in Nat
  BY <1>1 DEF Stage, TypeOK
<1>3. /\ Items \in Seq(Values) /\ Len(Items) = tail - head
      /\ \A i \in 1..(tail - head) : Items[i] = At(array, head + i - 1)
      /\ head \in Nat /\ tail \in Nat /\ tail - head \in Nat
  BY ItemsAre
<1>4. t = Owner /\ elt[Owner] \in Values
  BY <1>1, <1>2 DEF OwnersCall, TypeOK
<1>5. Items' = Append(Items, elt[Owner])
  <2>1. Items' = [i \in 1..(tail + 1 - head) |-> At(array, head + i - 1)]
    <3>1. tail' - head' = tail + 1 - head /\ UNCHANGED <<head, array, slot>>
      BY <1>1, <1>2, <1>3
    <3>2. \A i \in 1..(tail + 1 - head) : At(array, head + i - 1)' = At(array, head + i - 1)
      BY <3>1 DEF At
    <3> QED
      BY <3>1, <3>2 DEF Items
  <2>2. tail + 1 - head = tail - head + 1 /\ head + (tail - head + 1) - 1 = tail
    BY <1>3
  <2>3. \A i \in 1..(tail - head + 1) :
           At(array, head + i - 1) = IF i = tail - head + 1 THEN elt[Owner] ELSE Items[i]
    <3> SUFFICES ASSUME NEW i \in 1..(tail - head + 1)
                 PROVE  At(array, head + i - 1)
                           = IF i = tail - head + 1 THEN elt[Owner] ELSE Items[i]
      OBVIOUS
    <3>1. CASE i = tail - head + 1
      BY <1>2, <1>4, <2>2, <3>1
    <3>2. CASE i # tail - head + 1
      <4>1. i \in 1..(tail - head)
        BY <1>3, <3>2
      <4> QED
        BY <1>3, <3>2, <4>1
    <3> QED
      BY <3>1, <3>2
  <2>4. Append(Items, elt[Owner])
           = [i \in 1..(tail - head + 1) |->
                IF i = tail - head + 1 THEN elt[Owner] ELSE Items[i]]
    BY <1>3
  <2> QED
    BY <2>1, <2>2, <2>3, <2>4
<1>6. ~Pushing' /\ ~Replacing'
  BY <1>1, <1>4, GotoSets DEF Pushing, Replacing
<1>7. CASE op[Owner] = "push"
  <2>1. Pushing /\ ~Replacing
    BY <1>1, <1>4, <1>7 DEF Pushing, Replacing
  <2>2. Given' = Given + 1 /\ Items' = Append(Items, Given') /\ UNCHANGED <<Spare, got>>
    BY <1>1, <1>2, <1>5, <1>6, <2>1 DEF OwnersCall, Given, Spare
  <2> QED
    BY <2>2 DEF AbstractStep, Abstract!Next, Abstract!Push, Items, Spare, Given
<1>8. CASE op[Owner] = "priority_push"
  <2>1. ~Pushing /\ Replacing
    BY <1>1, <1>4, <1>8 DEF Pushing, Replacing
  <2>2. /\ Given' = Given + 1 /\ Spare' = Given' /\ Spare # EMPTY
        /\ Items' = Append(Items, Spare) /\ UNCHANGED got
    BY <1>1, <1>2, <1>5, <1>6, <2>1 DEF OwnersCall, Given, Spare
  <2> QED
    BY <2>2 DEF AbstractStep, Abstract!Next, Abstract!PriorityPush, Items, Spare, Given
<1> QED
  BY <1>1, <1>2, <1>4, <1>7, <1>8 DEF TypeOK

LEMMA SectionRefines ==
    ASSUME QueueInv, NEW t \in Threads, Section(t) PROVE AbstractStep
<1> USE DEF locals, shared
<1>1. TypeOK /\ Stage(t)
  BY DEF QueueInv
<1>2. CASE Grow(t)
  <2>2. slot'[array] = slot[array]
    BY <1>2, GrowCopies
  <2>3. \A i \in head..(tail - 1) : At(array, i)' = At(array, i)
    BY <1>2, <2>2 DEF Grow, At
  <2> QED
    BY <1>2, <2>3, SectionStutters DEF Grow, InSection
<1>3. CASE FreeArray(t)
  <2>1. \A i \in head..(tail - 1) : At(array, i)' = At(array, i)
    BY <1>3 DEF FreeArray, At
  <2> QED
    BY <1>3, <2>1, SectionStutters DEF FreeArray, InSection
<1>4. CASE Install(t)
  <2>1. Copied /\ array' = 2 * array /\ UNCHANGED slot
    BY <1>1, <1>4 DEF Install, Stage
  <2>2. \A i \in head..(tail - 1) : At(array, i)' = At(array, i)
    BY <2>1 DEF Copied, At
  <2> QED
    BY <1>4, <2>2, SectionStutters DEF Install, InSection
<1>5. CASE SetSlot(t)
  <2>1. \A i \in head..(tail - 1) : At(array, i)' = At(array, i)
    BY <1>5, SetSlotKeeps DEF SetSlot, At
  <2> QED
    BY <1>5, <2>1, SectionStutters DEF SetSlot, InSection
<1>6. CASE GetSlot(t)
  <2>1. \A i \in head..(tail - 1) : At(array, i)' = At(array, i)
    BY <1>6 DEF GetSlot, At
  <2>2. op[t] = "take" /\ \A u \in Threads \ {t} : elt'[u] = elt[u]
    BY <1>1, <1>6 DEF GetSlot, Stage, TypeOK
  <2> QED
    BY <1>6, <2>1, <2>2, SectionStutters DEF GetSlot, InSection
<1>7. CASE Release(t)
  <2>1. \A i \in head..(tail - 1) : At(array, i)' = At(array, i)
    BY <1>7 DEF Release, At
  <2> QED
    BY <1>7, <2>1, SectionStutters DEF Release, InSection
<1> QED
  BY <1>2, <1>3, <1>4, <1>5, <1>6, <1>7, ReadRefines, StoreHeadRefines, StoreTailRefines
     DEF Section

LEMMA NextRefines == ASSUME QueueInv, [Next]_vars PROVE AbstractStep
<1>1. CASE UNCHANGED vars
  <2>1. UNCHANGED <<Items, Spare, Given, got>>
    BY <1>1 DEF vars, locals, shared, Items, At, Spare, Given, Replacing, Pushing
  <2> QED
    BY <2>1, Stutters
<1> QED
  BY <1>1, CallRefines, SectionRefines DEF Next

----------------------------------------------------------------------------
(* The theorems.                                                           *)

LEMMA Invariance == Spec => []QueueInv
<1>1. QueueInv /\ [Next]_vars => QueueInv'
  BY NextQueueInv
<1> QED
  BY <1>1, InitQueueInv, PTL DEF Spec

\* The free() in tl_queue_push is safe: whoever is about to read or write a
\* slot does so in the current array.
THEOREM ArrayIsNotFreedInUse == Spec => []NoFreedAccess
<1>1. ASSUME LockInv PROVE NoFreedAccess
  <2> SUFFICES ASSUME NEW t \in Threads, pc[t] \in {"grow", "set", "get"},
                      arr[t] \in freed
               PROVE  FALSE
    BY DEF NoFreedAccess
  <2>1. arr[t] = array /\ array \in Nat
    BY <1>1 DEF LockInv, Types, HasCurrent
  <2>2. PICK u \in Threads : pc[u] = "install"
    BY <1>1, <2>1 DEF LockInv, FreedAreOld
  <2> QED
    BY <1>1, <2>2 DEF LockInv, Exclusion, InSection
<1> QED
  BY <1>1, InitLockInv, StepLockInv, PTL DEF Spec

\* Every variable of the queue keeps its type: slots are read and written
\* inside their array, and every array in use has been allocated.
THEOREM TypeCorrectness == Spec => []TypeOK
<1>1. QueueInv => TypeOK
  BY DEF QueueInv
<1> QED
  BY <1>1, Invariance, PTL

\* Seen from outside, elements come out of the queue in the order in which
\* they went in, each once, and a priority_push or pop that needs the buffer
\* acts on the buffer: tl_queue implements the queue of module WorkQueue, with
\* which the scheduler is modelled.
THEOREM QueueIsWorkQueue == Spec => ImplementsWorkQueue
<1>1. QueueInv /\ [Next]_vars => [Abstract!Next]_(Abstract!vars)
  BY NextRefines DEF AbstractStep
<1> QED
  BY <1>1, InitAbstract, Invariance, PTL DEF Spec, ImplementsWorkQueue, Abstract!Spec

----------------------------------------------------------------------------
(* Part 2: module TKQueue, of which MCQueues has an instance.              *)

KA == INSTANCE CircularArray_proofs WITH slot <- kslot

\* What the owner knows at each step of its calls.  head may have moved on
\* since it was read.
OwnersStep ==
    /\ kpc[Owner] \notin {"array", "head", "empty"}
    /\ kpc[Owner] = "grow" => ktail - kh[Owner] = karray
    /\ kpc[Owner] \in {"set", "tail"} => karr[Owner] = karray /\ ktail - khead < karray
    /\ kpc[Owner] = "tail" => kelt[Owner] = TK!At(karray, ktail)
    /\ kpc[Owner] \in {"get", "cas"} => karr[Owner] = karray
    /\ kpc[Owner] \in {"pop", "get", "cas"} => kbuffer = EMPTY
    /\ TK!InPush /\ ~replacing => kelt[Owner] = kgiven
    /\ TK!InPush /\ replacing => kbuffer = kgiven /\ kelt[Owner] # EMPTY

ThievesSteal ==
    \A t \in Threads \ {Owner} : kpc[t] \notin {"push", "grow", "set", "tail", "pop"}

\* head was at most what it is now, and tail at least more than that.
HeadsRead ==
    \A t \in Threads :
        /\ kh[t] <= khead
        /\ kpc[t] \in {"get", "cas"} => kh[t] < ktail

\* Who compares against a head that has not moved, in an array that was not
\* replaced, carries the oldest element.
OldestRead ==
    \A t \in Threads :
        kpc[t] = "cas" /\ karr[t] = karray /\ kh[t] = khead =>
            kelt[t] = TK!At(karray, khead)

\* The array in use is the last that was allocated.
Newest == \A n \in DOMAIN kslot : n <= karray

TicketInv == TK!TypeOK /\ OwnersStep /\ ThievesSteal /\ HeadsRead /\ OldestRead /\ Newest

LEMMA TicketFacts ==
    ASSUME TicketInv
    PROVE  /\ Owner \in Threads /\ EMPTY = TK!EMPTY
           /\ khead \in Nat /\ ktail \in Nat /\ kgiven \in Nat
           /\ ktail - khead \in Nat /\ ktail - khead <= karray
           /\ karray \in Nat \ {0} /\ karray \in DOMAIN kslot
           /\ KA!ArraysOK(TK!Values)
           /\ \A t \in Threads : /\ kh[t] \in Nat /\ karr[t] \in DOMAIN kslot
                                 /\ kelt[t] \in TK!Values /\ kpc[t] \in TK!Labels
<1>1. KA!ArraysOK(TK!Values) /\ TK!TypeOK
  BY DEF TicketInv, TK!TypeOK, TK!ArraysOK, KA!ArraysOK, TK!Slots, KA!Slots
<1>2. karray \in DOMAIN kslot /\ karray \in Nat \ {0}
  BY <1>1 DEF TK!TypeOK, TK!ArraysOK
<1>3. khead \in Nat /\ ktail \in Nat /\ ktail - khead \in 0..karray
  BY <1>1 DEF TK!TypeOK
<1>4. kgiven \in Nat
  BY <1>1, QueuesAssumption DEF TK!TypeOK, TK!TKQueueAssumption
<1>5. /\ \A t \in Threads : /\ kh[t] \in Nat /\ karr[t] \in DOMAIN kslot
                            /\ kelt[t] \in TK!Values /\ kpc[t] \in TK!Labels
      /\ EMPTY = TK!EMPTY
  BY <1>1 DEF TK!TypeOK, EMPTY, TK!EMPTY
<1>6. ktail - khead \in Nat /\ ktail - khead <= karray
  BY <1>2, <1>3
<1>7. Owner \in Threads
  OBVIOUS
<1> QED
  BY <1>1, <1>2, <1>3, <1>4, <1>5, <1>6, <1>7, Zenon

LEMMA TicketElement ==
    ASSUME TicketInv, NEW n \in DOMAIN kslot, NEW i \in Int PROVE TK!At(n, i) \in TK!Values
<1>1. KA!At(n, i) \in TK!Values
  BY TicketFacts, KA!SlotExists
<1> QED
  BY <1>1 DEF TK!At, TK!Index, KA!At, KA!Index

LEMMA TicketGoto ==
    ASSUME TicketInv, NEW t \in Threads, NEW label \in TK!Labels, TK!Goto(t, label)
    PROVE  /\ kpc' \in [Threads -> TK!Labels]
           /\ \A u \in Threads : kpc'[u] = IF u = t THEN label ELSE kpc[u]
  BY DEF TicketInv, TK!TypeOK, TK!Goto

LEMMA TicketAnswer ==
    ASSUME TicketInv, NEW t \in Threads, NEW e \in TK!Values, TK!Answer(t, e)
    PROVE  /\ kpc' \in [Threads -> TK!Labels]
           /\ \A u \in Threads : kpc'[u] = IF u = t THEN "idle" ELSE kpc[u]
           /\ kgot' = [kgot EXCEPT ![t] = e]
           /\ kgot' \in [Threads -> TK!Values]
           /\ ktimes' \in [1..TKMaxPush -> Nat]
<1>1. "idle" \in TK!Labels
  BY DEF TK!Labels
<1>2. ktimes' \in [1..TKMaxPush -> Nat]
  BY DEF TicketInv, TK!TypeOK, TK!Answer
<1> QED
  BY <1>1, <1>2, TicketGoto DEF TK!Answer, TicketInv, TK!TypeOK

\* A step that changes nothing but what its thread knows.
LEMMA TicketReads ==
    ASSUME TicketInv, NEW t \in Threads, NEW label \in TK!Labels,
           kpc' \in [Threads -> TK!Labels], karr' \in [Threads -> DOMAIN kslot],
           kh' \in [Threads -> Nat], kelt' \in [Threads -> TK!Values],
           kgot' \in [Threads -> TK!Values], ktimes' \in [1..TKMaxPush -> Nat],
           \A u \in Threads \ {t} : /\ kpc'[u] = kpc[u] /\ karr'[u] = karr[u]
                                    /\ kh'[u] = kh[u] /\ kelt'[u] = kelt[u],
           UNCHANGED <<khead, ktail, kbuffer, karray, kslot, kgiven, replacing>>,
           kpc'[t] = label, kh'[t] <= khead, label \in {"get", "cas"} => kh'[t] < ktail,
           label = "cas" /\ karr'[t] = karray /\ kh'[t] = khead =>
              kelt'[t] = TK!At(karray, khead),
           t # Owner => label \notin {"push", "grow", "set", "tail", "pop"},
           t = Owner => OwnersStep'
    PROVE  TicketInv'
<1>1. TK!TypeOK'
  BY DEF TicketInv, TK!TypeOK, TK!ArraysOK
<1>2. OwnersStep'
  BY TicketFacts DEF TicketInv, OwnersStep, TK!InPush, TK!At
<1>3. ThievesSteal'
  BY DEF TicketInv, ThievesSteal
<1>4. HeadsRead'
  BY DEF TicketInv, HeadsRead
<1>5. OldestRead'
  BY DEF TicketInv, OldestRead, TK!At
<1>6. Newest'
  BY DEF TicketInv, Newest
<1> QED
  BY <1>1, <1>2, <1>3, <1>4, <1>5, <1>6 DEF TicketInv

----------------------------------------------------------------------------
(* What WorkQueue sees of the steps.                                       *)

TicketItems == [i \in 1..(ktail - khead) |-> TK!At(karray, khead + i - 1)]
TicketSpare == IF TK!InPush /\ replacing THEN kelt[Owner] ELSE kbuffer
TicketGiven == IF TK!InPush THEN kgiven - 1 ELSE kgiven

TicketStep ==
    \/ TK!Abstract!Next
    \/ \E t \in Threads : TK!Overtaken(t) /\ TK!CasHead(t)
    \/ UNCHANGED TK!Abstract!vars

LEMMA TicketStutters ==
    ASSUME UNCHANGED <<TicketItems, TicketSpare, TicketGiven, kgot>> PROVE TicketStep
  BY DEF TicketStep, TK!Abstract!vars, TicketItems, TicketSpare, TicketGiven

LEMMA TicketItemsAre ==
    ASSUME TicketInv
    PROVE  /\ TicketItems \in Seq(TK!Values) /\ Len(TicketItems) = ktail - khead
           /\ \A i \in 1..(ktail - khead) : TicketItems[i] = TK!At(karray, khead + i - 1)
<1>1. khead \in Nat /\ ktail \in Nat /\ ktail - khead \in Nat /\ karray \in DOMAIN kslot
  BY TicketFacts
<1>2. PICK n \in Nat : n = ktail - khead
  BY <1>1
<1>3. ASSUME NEW i \in 1..n PROVE TK!At(karray, khead + i - 1) \in TK!Values
  BY <1>1, TicketElement
<1>4. TicketItems \in [1..n -> TK!Values]
  BY <1>2, <1>3 DEF TicketItems
<1>5. TicketItems \in Seq(TK!Values) /\ Len(TicketItems) = n
  BY <1>4
<1> QED
  BY <1>2, <1>5 DEF TicketItems

LEMMA TicketItemsKept ==
    ASSUME TicketInv, UNCHANGED <<khead, ktail>>,
           \A i \in khead..(ktail - 1) : TK!At(karray, i)' = TK!At(karray, i)
    PROVE  UNCHANGED TicketItems
<1>1. khead \in Nat /\ ktail \in Nat
  BY TicketFacts
<1>2. \A i \in 1..(ktail - khead) : khead + i - 1 \in khead..(ktail - 1)
  BY <1>1
<1>3. ASSUME NEW i \in 1..(ktail - khead)
      PROVE  TK!At(karray, khead + i - 1)' = TK!At(karray, khead + i - 1)
  <2>1. PICK j \in khead..(ktail - 1) : j = khead + i - 1
    BY <1>2
  <2>2. TK!At(karray, j)' = TK!At(karray, j)
    OBVIOUS
  <2> QED
    BY <2>1, <2>2 DEF TK!At
<1> QED
  BY <1>3 DEF TicketItems

LEMMA TicketItemsStay ==
    ASSUME UNCHANGED <<khead, ktail, karray, kslot>> PROVE UNCHANGED TicketItems
  BY DEF TicketItems, TK!At

\* Who finds nothing, or the oldest element, takes as WorkQueue says.
LEMMA TicketTakes ==
    ASSUME TicketInv, NEW t \in Threads, kpc[t] \notin {"push", "grow", "set", "tail"},
           t = Owner => kbuffer = EMPTY, NEW label, TK!Goto(t, label),
           label \notin {"push", "grow", "set", "tail"},
           UNCHANGED <<kelt, kbuffer, kgiven, replacing>>,
           UNCHANGED <<TicketSpare, TicketGiven>> => TK!Abstract!TakeHead(t)
    PROVE  TicketStep
<1>1. TK!InPush' = TK!InPush
  BY TicketFacts DEF TK!InPush, TicketInv, TK!TypeOK, TK!Goto
<1>2. UNCHANGED <<TicketSpare, TicketGiven>>
  BY <1>1 DEF TicketSpare, TicketGiven
<1>3. CASE t = Owner
  <2>1. TicketSpare = EMPTY /\ TK!EMPTY = EMPTY
    BY <1>3, TicketFacts DEF TicketSpare, TK!InPush
  <2> QED
    BY <1>2, <1>3, <2>1 DEF TicketStep, TK!Abstract!Next, TK!Abstract!Pop, TicketSpare
<1>4. CASE t # Owner
  BY <1>2, <1>4 DEF TicketStep, TK!Abstract!Next, TK!Abstract!Steal
<1> QED
  BY <1>3, <1>4
----------------------------------------------------------------------------
(* The steps of the owner.                                                 *)

LEMMA TicketInit == TK!Init => TicketInv /\ TK!Abstract!Init
<1> SUFFICES ASSUME TK!Init PROVE TicketInv /\ TK!Abstract!Init
  OBVIOUS
<1>1. /\ khead = 0 /\ ktail = 0 /\ karray = TKInitSize /\ kbuffer = 0 /\ kgiven = 0
      /\ kslot = TK!NewArray(TKInitSize)
      /\ kgot = [t \in Threads |-> 0] /\ kelt = [t \in Threads |-> 0]
      /\ karr = [t \in Threads |-> TKInitSize] /\ kh = [t \in Threads |-> 0]
      /\ kpc = [t \in Threads |-> "idle"] /\ ktimes = [e \in 1..TKMaxPush |-> 0]
      /\ replacing = FALSE
  BY DEF TK!Init, TK!EMPTY
<1>2. /\ TKInitSize \in Nat \ {0} /\ TKMaxPush \in Nat /\ Owner \in Threads
  BY QueuesAssumption DEF TK!TKQueueAssumption
<1>3. DOMAIN kslot = {TKInitSize} /\ TK!ArraysOK(TK!Values)
  BY <1>1, <1>2 DEF TK!NewArray, TK!ArraysOK, TK!Values
<1>4. 0 \in TK!Values /\ "idle" \in TK!Labels /\ 0 \in 0..TKMaxPush
  BY <1>2 DEF TK!Values, TK!EMPTY, TK!Labels
<1>5. TK!TypeOK
  <2>1. ktail - khead \in 0..karray
    BY <1>1, <1>2
  <2> QED
    BY <1>1, <1>2, <1>3, <1>4, <2>1 DEF TK!TypeOK
<1>6. OwnersStep /\ ThievesSteal /\ HeadsRead /\ OldestRead /\ Newest
  BY <1>1, <1>2, <1>3 DEF OwnersStep, ThievesSteal, HeadsRead, OldestRead, Newest, TK!InPush
<1>7. TicketItems = <<>>
  BY <1>1 DEF TicketItems
<1>8. TicketSpare = TK!EMPTY /\ TicketGiven = 0
  BY <1>1, <1>2 DEF TicketSpare, TicketGiven, TK!InPush, TK!EMPTY
<1> QED
  BY <1>1, <1>5, <1>6, <1>7, <1>8
     DEF TicketInv, TK!Abstract!Init, TicketItems, TicketSpare, TicketGiven, TK!EMPTY

LEMMA NextGiven ==
    ASSUME TicketInv, kgiven < TKMaxPush
    PROVE  kgiven \in Nat /\ kgiven + 1 \in 0..TKMaxPush /\ kgiven + 1 \in TK!Values
<1>1. kgiven \in Nat /\ TKMaxPush \in Nat
  BY TicketFacts, QueuesAssumption DEF TK!TKQueueAssumption
<1>2. kgiven + 1 \in 1..TKMaxPush
  BY <1>1
<1> QED
  BY <1>1, <1>2 DEF TK!Values

LEMMA TicketPush ==
    ASSUME TicketInv, TK!Push PROVE TicketInv' /\ TicketStep
<1>1. /\ kpc[Owner] = "idle" /\ kgiven' = kgiven + 1 /\ kgiven \in Nat /\ kgiven' \in 0..TKMaxPush
      /\ kgiven' \in TK!Values
      /\ replacing' = FALSE /\ kelt' = [kelt EXCEPT ![Owner] = kgiven']
      /\ TK!Goto(Owner, "push") /\ "push" \in TK!Labels /\ Owner \in Threads
      /\ UNCHANGED <<karr, kh, khead, ktail, kbuffer, karray, kslot, kgot, ktimes>>
  <2>1. TK!EMPTY = EMPTY /\ Owner \in Threads /\ kgiven < TKMaxPush
    BY TicketFacts DEF TK!Push
  <2> QED
    BY <2>1, NextGiven DEF TK!Push, TK!StartPush, TK!Labels
<1>2. /\ kpc' \in [Threads -> TK!Labels]
      /\ \A u \in Threads : kpc'[u] = IF u = Owner THEN "push" ELSE kpc[u]
  BY <1>1, TicketGoto
<1>3. /\ kelt' \in [Threads -> TK!Values]
      /\ \A u \in Threads : kelt'[u] = IF u = Owner THEN kgiven' ELSE kelt[u]
  BY <1>1 DEF TicketInv, TK!TypeOK
<1>4. TK!TypeOK'
  BY <1>1, <1>2, <1>3 DEF TicketInv, TK!TypeOK, TK!ArraysOK
<1>5. OwnersStep'
  BY <1>1, <1>2, <1>3 DEF OwnersStep, TK!InPush
<1>6. ThievesSteal' /\ HeadsRead' /\ OldestRead' /\ Newest'
  BY <1>1, <1>2, <1>3 DEF TicketInv, ThievesSteal, HeadsRead, OldestRead, Newest, TK!At
<1>7. ~TK!InPush /\ TK!InPush'
  BY <1>1, <1>2 DEF TK!InPush
<1>8. UNCHANGED <<TicketItems, TicketSpare, TicketGiven, kgot>>
  BY <1>1, <1>7, TicketItemsStay DEF TicketSpare, TicketGiven
<1> QED
  BY <1>4, <1>5, <1>6, <1>8, TicketStutters DEF TicketInv

LEMMA TicketPriorityPush ==
    ASSUME TicketInv, TK!PriorityPush PROVE TicketInv' /\ TicketStep
<1>1. /\ kpc[Owner] = "idle" /\ kgiven' = kgiven + 1 /\ kgiven \in Nat /\ kgiven' \in 0..TKMaxPush
      /\ kbuffer' = kgiven' /\ kgiven' \in TK!Values /\ kbuffer \in TK!Values
      /\ "push" \in TK!Labels /\ Owner \in Threads /\ EMPTY = TK!EMPTY
      /\ UNCHANGED <<karr, kh, khead, ktail, karray, kslot, kgot, ktimes>>
  <2>1. kbuffer \in TK!Values /\ kgiven < TKMaxPush
    BY DEF TK!PriorityPush, TicketInv, TK!TypeOK
  <2>2. EMPTY = TK!EMPTY
    BY TicketFacts
  <2> QED
    BY <2>1, <2>2, NextGiven DEF TK!PriorityPush, TK!Labels
<1>2. ~TK!InPush /\ UNCHANGED TicketItems
  BY <1>1, TicketItemsStay DEF TK!InPush
<1>3. CASE kbuffer = EMPTY
  <2>1. UNCHANGED <<kpc, kelt, replacing>>
    BY <1>1, <1>3 DEF TK!PriorityPush
  <2>2. TK!TypeOK'
    BY <1>1, <2>1 DEF TicketInv, TK!TypeOK, TK!ArraysOK
  <2>3. ~TK!InPush'
    BY <1>2, <2>1 DEF TK!InPush
  <2>4. OwnersStep'
    BY <1>1, <1>2, <2>1, <2>3 DEF OwnersStep
  <2>5. ThievesSteal' /\ HeadsRead' /\ OldestRead' /\ Newest'
    BY <1>1, <2>1 DEF TicketInv, ThievesSteal, HeadsRead, OldestRead, Newest, TK!At
  <2>6. /\ TicketGiven' = TicketGiven + 1 /\ TicketSpare' = TicketGiven'
        /\ TicketSpare = TK!EMPTY /\ UNCHANGED <<TicketItems, kgot>>
    BY <1>1, <1>2, <1>3, <2>3 DEF TicketSpare, TicketGiven
  <2>7. TK!Abstract!PriorityPush
    BY <2>6 DEF TK!Abstract!PriorityPush, TicketItems, TicketSpare, TicketGiven
  <2> QED
    BY <2>2, <2>4, <2>5, <2>7 DEF TicketInv, TicketStep, TK!Abstract!Next
<1>4. CASE kbuffer # EMPTY
  <2>1. replacing' = TRUE /\ kelt' = [kelt EXCEPT ![Owner] = kbuffer] /\ TK!Goto(Owner, "push")
    BY <1>1, <1>4 DEF TK!PriorityPush, TK!StartPush
  <2>2. /\ kpc' \in [Threads -> TK!Labels]
        /\ \A u \in Threads : kpc'[u] = IF u = Owner THEN "push" ELSE kpc[u]
    BY <1>1, <2>1, TicketGoto
  <2>3. /\ kelt' \in [Threads -> TK!Values]
        /\ \A u \in Threads : kelt'[u] = IF u = Owner THEN kbuffer ELSE kelt[u]
    BY <1>1, <2>1 DEF TicketInv, TK!TypeOK
  <2>4. TK!TypeOK'
    BY <1>1, <2>1, <2>2, <2>3 DEF TicketInv, TK!TypeOK, TK!ArraysOK
  <2>5. OwnersStep'
    BY <1>1, <1>4, <2>1, <2>2, <2>3 DEF OwnersStep, TK!InPush
  <2>6. ThievesSteal' /\ HeadsRead' /\ OldestRead' /\ Newest'
    BY <1>1, <2>2, <2>3 DEF TicketInv, ThievesSteal, HeadsRead, OldestRead, Newest, TK!At
  <2>7. TK!InPush'
    BY <1>1, <2>2 DEF TK!InPush
  <2>8. UNCHANGED <<TicketItems, TicketSpare, TicketGiven, kgot>>
    BY <1>1, <1>2, <2>1, <2>3, <2>7 DEF TicketSpare, TicketGiven
  <2> QED
    BY <2>4, <2>5, <2>6, <2>8, TicketStutters DEF TicketInv
<1> QED
  BY <1>3, <1>4

LEMMA TicketPushRead ==
    ASSUME TicketInv, TK!PushRead PROVE TicketInv' /\ TicketStep
<1> DEFINE label == IF TK!Full THEN "grow" ELSE "set"
<1>1. /\ kpc[Owner] = "push" /\ TK!Goto(Owner, label) /\ label \in TK!Labels
      /\ karr' = [karr EXCEPT ![Owner] = karray] /\ kh' = [kh EXCEPT ![Owner] = khead]
      /\ UNCHANGED <<kelt, khead, ktail, kbuffer, karray, kslot, kgot, ktimes, kgiven, replacing>>
  BY DEF TK!PushRead, TK!Labels
<1>2. /\ Owner \in Threads /\ khead \in Nat /\ ktail \in Nat /\ karray \in Nat
      /\ ktail - khead <= karray /\ karray \in DOMAIN kslot
  BY TicketFacts
<1>3. /\ kpc' \in [Threads -> TK!Labels]
      /\ \A u \in Threads : kpc'[u] = IF u = Owner THEN label ELSE kpc[u]
  BY <1>1, <1>2, TicketGoto
<1>4. /\ karr' \in [Threads -> DOMAIN kslot] /\ kh' \in [Threads -> Nat]
      /\ karr'[Owner] = karray /\ kh'[Owner] = khead
      /\ \A u \in Threads \ {Owner} : karr'[u] = karr[u] /\ kh'[u] = kh[u]
  BY <1>1, <1>2 DEF TicketInv, TK!TypeOK
<1>5. label \in {"grow", "set"} /\ (label = "grow" => ktail - khead = karray)
      /\ (label = "set" => ktail - khead < karray)
  BY <1>2 DEF TK!Full
<1> HIDE DEF label
<1>6. TK!InPush /\ TK!InPush'
  BY <1>1, <1>2, <1>3, <1>5 DEF TK!InPush
<1>7. OwnersStep'
  BY <1>1, <1>2, <1>3, <1>4, <1>5, <1>6 DEF TicketInv, OwnersStep
<1>8. TicketInv'
  <2>1. /\ kelt' \in [Threads -> TK!Values] /\ kgot' \in [Threads -> TK!Values]
        /\ ktimes' \in [1..TKMaxPush -> Nat]
    BY <1>1 DEF TicketInv, TK!TypeOK
  <2> QED
    BY <1>1, <1>2, <1>3, <1>4, <1>5, <1>7, <2>1, TicketReads
<1>9. UNCHANGED <<TicketItems, TicketSpare, TicketGiven, kgot>>
  BY <1>1, <1>6, TicketItemsStay DEF TicketSpare, TicketGiven
<1> QED
  BY <1>8, <1>9, TicketStutters

\* circular_array_resize copies what is in the queue, to slots of their own.
LEMMA TicketGrowCopies ==
    ASSUME TicketInv, TK!Grow
    PROVE  /\ DOMAIN kslot' = DOMAIN kslot \cup {2 * karray}
           /\ TK!ArraysOK(TK!Values)'
           /\ \A i \in khead..(ktail - 1) : TK!At(karray, i)' = TK!At(karray, i)
<1> DEFINE e == [i \in kh[Owner]..(ktail - 1) |-> TK!At(karray, i)]
<1>1. /\ kpc[Owner] = "grow" /\ TK!Resize(karray, e) /\ karray' = 2 * karray
      /\ UNCHANGED <<khead, ktail>>
  BY DEF TK!Grow
<1>2. /\ Owner \in Threads /\ khead \in Nat /\ ktail \in Nat /\ karray \in Nat \ {0}
      /\ karray \in DOMAIN kslot /\ KA!ArraysOK(TK!Values) /\ kh[Owner] \in Nat
  BY TicketFacts
<1>3. ktail - kh[Owner] = karray /\ kh[Owner] <= khead
  BY <1>1, <1>2 DEF TicketInv, OwnersStep, HeadsRead
<1>4. PICK a \in Nat : a = kh[Owner]
  BY <1>2
<1>5. PICK S \in SUBSET Int : S = a..(ktail - 1)
  BY <1>2
<1>6. DOMAIN e = S /\ \A i \in S : e[i] = TK!At(karray, i) /\ e[i] \in TK!Values
  <2>1. \A i \in S : TK!At(karray, i) \in TK!Values
    BY <1>2, TicketElement
  <2> QED
    BY <1>4, <1>5, <2>1
<1> HIDE DEF e
<1>7. KA!Resize(karray, e) /\ KA!Garbage \in TK!Values
  BY <1>1 DEF TK!Resize, KA!Resize, TK!Index, KA!Index, TK!Slots, KA!Slots, TK!Garbage,
              KA!Garbage, TK!Values
<1>8. KA!Doubled(karray) = 2 * karray /\ karray # 2 * karray
  BY <1>2 DEF KA!Doubled
<1>9. KA!Apart(DOMAIN e, KA!Doubled(karray))
  <2>1. 2 * karray \in Nat \ {0} /\ ktail \in Int /\ a \in Int /\ ktail - a <= 2 * karray
    BY <1>2, <1>3, <1>4
  <2> QED
    BY <1>5, <1>6, <1>8, <2>1, KA!RangeApart
<1>10. /\ DOMAIN kslot' = DOMAIN kslot \cup {2 * karray}
       /\ DOMAIN kslot' \subseteq Nat \ {0}
       /\ \A m \in DOMAIN kslot' : kslot'[m] \in [KA!Slots(m) -> TK!Values]
  BY <1>2, <1>6, <1>7, <1>8, KA!ResizeKeeps
<1>11. \A i \in S : kslot'[2 * karray][KA!Index(2 * karray, i)] = e[i]
  BY <1>2, <1>6, <1>7, <1>8, <1>9, KA!ResizeCopies
<1>12. TK!ArraysOK(TK!Values)'
  BY <1>10 DEF TK!ArraysOK, TK!Slots, KA!Slots
<1>13. \A i \in khead..(ktail - 1) : TK!At(karray, i)' = TK!At(karray, i)
  <2> SUFFICES ASSUME NEW i \in khead..(ktail - 1) PROVE TK!At(karray, i)' = TK!At(karray, i)
    OBVIOUS
  <2>1. i \in S
    BY <1>2, <1>3, <1>4, <1>5
  <2>2. kslot'[2 * karray][KA!Index(2 * karray, i)] = TK!At(karray, i)
    BY <1>6, <1>11, <2>1
  <2> QED
    BY <1>1, <2>2 DEF TK!At, TK!Index, KA!Index
<1> QED
  BY <1>10, <1>12, <1>13

LEMMA TicketGrow ==
    ASSUME TicketInv, TK!Grow PROVE TicketInv' /\ TicketStep
<1>1. /\ kpc[Owner] = "grow" /\ karray' = 2 * karray /\ karr' = [karr EXCEPT ![Owner] = 2 * karray]
      /\ TK!Goto(Owner, "set") /\ "set" \in TK!Labels
      /\ UNCHANGED <<kelt, kh, khead, ktail, kbuffer, kgot, ktimes, kgiven, replacing>>
  BY DEF TK!Grow, TK!Labels
<1>2. /\ Owner \in Threads /\ khead \in Nat /\ ktail \in Nat /\ karray \in Nat \ {0}
      /\ ktail - khead \in Nat /\ ktail - khead <= karray /\ karray \in DOMAIN kslot
  BY TicketFacts
<1>3. /\ DOMAIN kslot' = DOMAIN kslot \cup {2 * karray} /\ TK!ArraysOK(TK!Values)'
      /\ \A i \in khead..(ktail - 1) : TK!At(karray, i)' = TK!At(karray, i)
  BY TicketGrowCopies
<1>4. /\ kpc' \in [Threads -> TK!Labels]
      /\ \A u \in Threads : kpc'[u] = IF u = Owner THEN "set" ELSE kpc[u]
  BY <1>1, <1>2, TicketGoto
<1>5. /\ karr' \in [Threads -> DOMAIN kslot'] /\ karr'[Owner] = 2 * karray
      /\ \A u \in Threads \ {Owner} : karr'[u] = karr[u]
  BY <1>1, <1>2, <1>3 DEF TicketInv, TK!TypeOK
<1>6. ktail - khead \in 0..(2 * karray) /\ ktail - khead < 2 * karray /\ karray < 2 * karray
  BY <1>2
<1>7. TK!TypeOK'
  BY <1>1, <1>3, <1>4, <1>5, <1>6 DEF TicketInv, TK!TypeOK
<1>8. TK!InPush /\ TK!InPush'
  BY <1>1, <1>2, <1>4 DEF TK!InPush
<1>9. OwnersStep'
  BY <1>1, <1>2, <1>4, <1>5, <1>6, <1>8 DEF TicketInv, OwnersStep
<1>10. Newest'
  <2>1. DOMAIN kslot \subseteq Nat
    BY DEF TicketInv, TK!TypeOK, TK!ArraysOK
  <2>2. ASSUME NEW n \in DOMAIN kslot' PROVE n <= karray'
    <3>1. CASE n = 2 * karray
      BY <1>1, <1>2, <3>1
    <3>2. CASE n \in DOMAIN kslot
      <4>1. n \in Nat /\ n <= karray
        BY <2>1, <3>2 DEF TicketInv, Newest
      <4> QED
        BY <1>1, <1>2, <4>1
    <3> QED
      BY <1>3, <3>1, <3>2
  <2> QED
    BY <2>2 DEF Newest
<1>11. OldestRead'
  <2>1. ASSUME NEW u \in Threads, kpc'[u] = "cas", karr'[u] = karray' PROVE FALSE
    <3>1. u # Owner /\ karr[u] = 2 * karray /\ karr[u] \in DOMAIN kslot
      BY <1>1, <1>4, <1>5, <2>1, TicketFacts
    <3>2. 2 * karray <= karray
      BY <3>1 DEF TicketInv, Newest
    <3> QED
      BY <1>2, <3>2
  <2> QED
    BY <2>1 DEF OldestRead
<1>12. ThievesSteal' /\ HeadsRead'
  BY <1>1, <1>4 DEF TicketInv, ThievesSteal, HeadsRead
<1>13. UNCHANGED <<TicketItems, TicketSpare, TicketGiven, kgot>>
  BY <1>1, <1>3, <1>8, TicketItemsKept DEF TicketSpare, TicketGiven
<1> QED
  BY <1>7, <1>9, <1>10, <1>11, <1>12, <1>13, TicketStutters DEF TicketInv

\* The slot that is written is none of those with an element.
LEMMA TicketSetKeeps ==
    ASSUME TicketInv, TK!SetSlot
    PROVE  /\ DOMAIN kslot' = DOMAIN kslot /\ TK!ArraysOK(TK!Values)'
           /\ TK!At(karray, ktail)' = kelt[Owner]
           /\ \A i \in khead..(ktail - 1) : TK!At(karray, i)' = TK!At(karray, i)
<1>1. /\ kpc[Owner] = "set" /\ TK!SetAt(karr[Owner], ktail, kelt[Owner])
      /\ UNCHANGED <<karray, khead, ktail>>
  BY DEF TK!SetSlot
<1>2. /\ Owner \in Threads /\ khead \in Nat /\ ktail \in Nat /\ karray \in Nat \ {0}
      /\ karray \in DOMAIN kslot /\ KA!ArraysOK(TK!Values) /\ kelt[Owner] \in TK!Values
  BY TicketFacts
<1>3. karr[Owner] = karray /\ ktail - khead < karray /\ ktail \in Int
  BY <1>1, <1>2 DEF TicketInv, OwnersStep
<1>4. KA!SetAt(karray, ktail, kelt[Owner])
  BY <1>1, <1>3 DEF TK!SetAt, KA!SetAt, TK!Index, KA!Index
<1>5. /\ DOMAIN kslot' = DOMAIN kslot
      /\ DOMAIN kslot' \subseteq Nat \ {0}
      /\ \A m \in DOMAIN kslot' : kslot'[m] \in [KA!Slots(m) -> TK!Values]
      /\ kslot'[karray][KA!Index(karray, ktail)] = kelt[Owner]
      /\ \A m \in DOMAIN kslot : \A j \in KA!Slots(m) :
            m # karray \/ j # KA!Index(karray, ktail) => kslot'[m][j] = kslot[m][j]
  BY <1>2, <1>3, <1>4, KA!SetAtKeeps
<1>6. ASSUME NEW i \in khead..(ktail - 1) PROVE TK!At(karray, i)' = TK!At(karray, i)
  <2>1. i \in Int /\ i < ktail /\ ktail - i < karray
    BY <1>2, <1>3
  <2>2. KA!Index(karray, i) # KA!Index(karray, ktail)
    BY <1>2, <1>3, <2>1, KA!SlotsApart
  <2>3. KA!Index(karray, i) \in KA!Slots(karray)
    BY <1>2, <2>1, KA!SlotExists
  <2>4. kslot'[karray][KA!Index(karray, i)] = kslot[karray][KA!Index(karray, i)]
    BY <1>2, <1>5, <2>2, <2>3
  <2> QED
    BY <1>1, <2>4 DEF TK!At, TK!Index, KA!Index
<1>7. TK!ArraysOK(TK!Values)'
  BY <1>5 DEF TK!ArraysOK, TK!Slots, KA!Slots
<1>8. TK!At(karray, ktail)' = kelt[Owner]
  BY <1>1, <1>5 DEF TK!At, TK!Index, KA!Index
<1> QED
  BY <1>5, <1>6, <1>7, <1>8

LEMMA TicketSetSlot ==
    ASSUME TicketInv, TK!SetSlot PROVE TicketInv' /\ TicketStep
<1>1. /\ kpc[Owner] = "set" /\ TK!Goto(Owner, "tail") /\ "tail" \in TK!Labels
      /\ UNCHANGED <<kelt, karr, kh, khead, ktail, kbuffer, karray, kgot, ktimes, kgiven, replacing>>
  BY DEF TK!SetSlot, TK!Labels
<1>2. Owner \in Threads /\ khead \in Nat /\ ktail \in Nat /\ karray \in DOMAIN kslot
  BY TicketFacts
<1>3. /\ DOMAIN kslot' = DOMAIN kslot /\ TK!ArraysOK(TK!Values)'
      /\ TK!At(karray, ktail)' = kelt[Owner]
      /\ \A i \in khead..(ktail - 1) : TK!At(karray, i)' = TK!At(karray, i)
  BY TicketSetKeeps
<1>4. /\ kpc' \in [Threads -> TK!Labels]
      /\ \A u \in Threads : kpc'[u] = IF u = Owner THEN "tail" ELSE kpc[u]
  BY <1>1, <1>2, TicketGoto
<1>5. TK!TypeOK'
  BY <1>1, <1>3, <1>4 DEF TicketInv, TK!TypeOK
<1>6. TK!InPush /\ TK!InPush'
  BY <1>1, <1>2, <1>4 DEF TK!InPush
<1>7. OwnersStep'
  BY <1>1, <1>2, <1>3, <1>4, <1>6 DEF TicketInv, OwnersStep
<1>8. OldestRead'
  <2> SUFFICES ASSUME NEW u \in Threads, kpc'[u] = "cas", karr'[u] = karray', kh'[u] = khead'
               PROVE  kelt'[u] = TK!At(karray, khead)'
    BY DEF OldestRead
  <2>1. kpc[u] = "cas" /\ karr[u] = karray /\ kh[u] = khead
    BY <1>1, <1>4
  <2>2. khead < ktail /\ khead \in khead..(ktail - 1)
    BY <1>2, <2>1 DEF TicketInv, HeadsRead
  <2>3. \A i \in khead..(ktail - 1) : i = khead => TK!At(karray, i)' = TK!At(karray, khead)'
    BY <1>1 DEF TK!At
  <2>4. TK!At(karray, khead)' = TK!At(karray, khead)
    BY <1>3, <2>2, <2>3
  <2>5. kelt[u] = TK!At(karray, khead)
    BY <2>1 DEF TicketInv, OldestRead
  <2> QED
    BY <1>1, <2>4, <2>5
<1>9. ThievesSteal' /\ HeadsRead' /\ Newest'
  BY <1>1, <1>3, <1>4 DEF TicketInv, ThievesSteal, HeadsRead, Newest
<1>10. UNCHANGED <<TicketItems, TicketSpare, TicketGiven, kgot>>
  BY <1>1, <1>3, <1>6, TicketItemsKept DEF TicketSpare, TicketGiven
<1> QED
  BY <1>5, <1>7, <1>8, <1>9, <1>10, TicketStutters DEF TicketInv

LEMMA TicketStoreTail ==
    ASSUME TicketInv, TK!StoreTail PROVE TicketInv' /\ TicketStep
<1>1. /\ kpc[Owner] = "tail" /\ ktail' = ktail + 1 /\ replacing' = FALSE
      /\ TK!Goto(Owner, "idle") /\ "idle" \in TK!Labels
      /\ UNCHANGED <<kelt, karr, kh, khead, kbuffer, karray, kslot, kgot, ktimes, kgiven>>
  BY DEF TK!StoreTail, TK!Labels
<1>2. /\ Owner \in Threads /\ khead \in Nat /\ ktail \in Nat /\ karray \in Nat /\ kgiven \in Nat
      /\ ktail - khead \in Nat
  BY TicketFacts
<1>3. /\ ktail - khead < karray /\ kelt[Owner] = TK!At(karray, ktail)
      /\ TK!InPush
      /\ ~replacing => kelt[Owner] = kgiven
      /\ replacing => kbuffer = kgiven /\ kelt[Owner] # EMPTY
  BY <1>1, <1>2 DEF TicketInv, OwnersStep, TK!InPush
<1>4. /\ kpc' \in [Threads -> TK!Labels]
      /\ \A u \in Threads : kpc'[u] = IF u = Owner THEN "idle" ELSE kpc[u]
  BY <1>1, <1>2, TicketGoto
<1>5. ktail' \in Nat /\ ktail' - khead \in 0..karray
  BY <1>1, <1>2, <1>3
<1>6. TK!TypeOK'
  BY <1>1, <1>4, <1>5 DEF TicketInv, TK!TypeOK, TK!ArraysOK
<1>7. ~TK!InPush'
  BY <1>2, <1>4 DEF TK!InPush
<1>8. OwnersStep'
  BY <1>2, <1>4, <1>7 DEF OwnersStep
<1>9. HeadsRead'
  <2> SUFFICES ASSUME NEW u \in Threads
               PROVE  kh[u] <= khead /\ (kpc'[u] \in {"get", "cas"} => kh[u] < ktail + 1)
    BY <1>1 DEF HeadsRead
  <2>1. kh[u] \in Nat
    BY TicketFacts
  <2> QED
    BY <1>2, <1>4, <2>1 DEF TicketInv, HeadsRead
<1>10. ThievesSteal' /\ OldestRead' /\ Newest'
  BY <1>1, <1>4 DEF TicketInv, ThievesSteal, OldestRead, Newest, TK!At
<1>11. TicketItems' = Append(TicketItems, kelt[Owner])
  <2>1. /\ TicketItems \in Seq(TK!Values) /\ Len(TicketItems) = ktail - khead
        /\ \A i \in 1..(ktail - khead) : TicketItems[i] = TK!At(karray, khead + i - 1)
    BY TicketItemsAre
  <2>2. TicketItems' = [i \in 1..(ktail + 1 - khead) |-> TK!At(karray, khead + i - 1)]
    <3>1. ktail' - khead' = ktail + 1 - khead
      BY <1>1, <1>2
    <3>2. \A i \in 1..(ktail + 1 - khead) : TK!At(karray, khead + i - 1)' = TK!At(karray, khead + i - 1)
      BY <1>1 DEF TK!At
    <3> QED
      BY <3>1, <3>2 DEF TicketItems
  <2>3. ktail + 1 - khead = ktail - khead + 1 /\ khead + (ktail - khead + 1) - 1 = ktail
    BY <1>2
  <2>4. ASSUME NEW i \in 1..(ktail - khead + 1)
        PROVE  TK!At(karray, khead + i - 1)
                  = IF i = ktail - khead + 1 THEN kelt[Owner] ELSE TicketItems[i]
    <3>1. CASE i = ktail - khead + 1
      BY <1>3, <2>3, <3>1
    <3>2. CASE i # ktail - khead + 1
      <4>1. i \in 1..(ktail - khead)
        BY <1>2, <3>2
      <4> QED
        BY <2>1, <3>2, <4>1
    <3> QED
      BY <3>1, <3>2
  <2>5. Append(TicketItems, kelt[Owner])
           = [i \in 1..(ktail - khead + 1) |->
                IF i = ktail - khead + 1 THEN kelt[Owner] ELSE TicketItems[i]]
    BY <2>1
  <2> QED
    BY <2>2, <2>3, <2>4, <2>5
<1>12. TicketGiven' = TicketGiven + 1 /\ TicketGiven' = kgiven /\ UNCHANGED kgot
  BY <1>1, <1>2, <1>3, <1>7 DEF TicketGiven
<1>13. CASE replacing
  <2>1. /\ TicketSpare = kelt[Owner] /\ TicketSpare' = kgiven
        /\ TicketSpare # TK!EMPTY
    BY <1>1, <1>3, <1>7, <1>13, TicketFacts DEF TicketSpare
  <2>2. TK!Abstract!PriorityPush
    BY <1>11, <1>12, <2>1 DEF TK!Abstract!PriorityPush, TicketItems, TicketSpare, TicketGiven
  <2> QED
    BY <1>6, <1>8, <1>9, <1>10, <2>2 DEF TicketInv, TicketStep, TK!Abstract!Next
<1>14. CASE ~replacing
  <2>1. TicketSpare' = TicketSpare /\ kelt[Owner] = kgiven
    BY <1>1, <1>3, <1>7, <1>14 DEF TicketSpare
  <2>2. TK!Abstract!Push
    BY <1>11, <1>12, <2>1 DEF TK!Abstract!Push, TicketItems, TicketSpare, TicketGiven
  <2> QED
    BY <1>6, <1>8, <1>9, <1>10, <2>2 DEF TicketInv, TicketStep, TK!Abstract!Next
<1> QED
  BY <1>13, <1>14

----------------------------------------------------------------------------
(* The steps of who pops or steals.                                        *)

LEMMA TicketPop ==
    ASSUME TicketInv, TK!Pop PROVE TicketInv' /\ TicketStep
<1>1. /\ kpc[Owner] = "idle" /\ Owner \in Threads /\ EMPTY = TK!EMPTY /\ "pop" \in TK!Labels
      /\ UNCHANGED <<kelt, karr, kh, khead, ktail, karray, kslot, kgiven, replacing>>
      /\ kbuffer \in TK!Values /\ kelt \in [Threads -> TK!Values]
      /\ karr \in [Threads -> DOMAIN kslot] /\ kh \in [Threads -> Nat]
  BY TicketFacts DEF TK!Pop, TicketInv, TK!TypeOK, TK!Labels
<1>2. ~TK!InPush /\ UNCHANGED TicketItems
  BY <1>1, TicketItemsStay DEF TK!InPush
<1>3. CASE kbuffer # EMPTY /\ TK!Answer(Owner, kbuffer) /\ kbuffer' = EMPTY
  <2>1. /\ kpc' \in [Threads -> TK!Labels]
        /\ \A u \in Threads : kpc'[u] = IF u = Owner THEN "idle" ELSE kpc[u]
        /\ kgot' = [kgot EXCEPT ![Owner] = kbuffer]
        /\ kgot' \in [Threads -> TK!Values] /\ ktimes' \in [1..TKMaxPush -> Nat]
    BY <1>1, <1>3, TicketAnswer
  <2>2. kbuffer' \in TK!Values
    BY <1>1, <1>3 DEF TK!Values
  <2>3. TK!TypeOK'
    BY <1>1, <2>1, <2>2 DEF TicketInv, TK!TypeOK, TK!ArraysOK
  <2>4. ~TK!InPush'
    BY <1>1, <2>1 DEF TK!InPush
  <2>5. OwnersStep'
    BY <1>1, <2>1, <2>4 DEF OwnersStep
  <2>6. ThievesSteal' /\ HeadsRead' /\ OldestRead' /\ Newest'
    BY <1>1, <2>1 DEF TicketInv, ThievesSteal, HeadsRead, OldestRead, Newest, TK!At
  <2>7. /\ TicketSpare # TK!EMPTY /\ kgot' = [kgot EXCEPT ![Owner] = TicketSpare]
        /\ TicketSpare' = TK!EMPTY /\ UNCHANGED <<TicketItems, TicketGiven>>
    BY <1>1, <1>2, <1>3, <2>1, <2>4 DEF TicketSpare, TicketGiven
  <2>8. TK!Abstract!Pop
    BY <2>7 DEF TK!Abstract!Pop, TicketItems, TicketSpare, TicketGiven
  <2> QED
    BY <2>3, <2>5, <2>6, <2>8 DEF TicketInv, TicketStep, TK!Abstract!Next
<1>4. CASE kbuffer = EMPTY /\ TK!Goto(Owner, "pop") /\ UNCHANGED <<kbuffer, kgot, ktimes>>
  <2>1. /\ kpc' \in [Threads -> TK!Labels]
        /\ \A u \in Threads : kpc'[u] = IF u = Owner THEN "pop" ELSE kpc[u]
    BY <1>1, <1>4, TicketGoto
  <2>2. ~TK!InPush'
    BY <1>1, <2>1 DEF TK!InPush
  <2>3. OwnersStep'
    BY <1>1, <1>4, <2>1, <2>2 DEF OwnersStep
  <2>4. TicketInv'
    <3>1. kgot' \in [Threads -> TK!Values] /\ ktimes' \in [1..TKMaxPush -> Nat] /\ kh[Owner] <= khead
      BY <1>1, <1>4 DEF TicketInv, TK!TypeOK, HeadsRead
    <3> QED
      BY <1>1, <1>4, <2>1, <2>3, <3>1, TicketReads
  <2>5. UNCHANGED <<TicketItems, TicketSpare, TicketGiven, kgot>>
    BY <1>1, <1>2, <1>4, <2>2 DEF TicketSpare, TicketGiven
  <2> QED
    BY <2>4, <2>5, TicketStutters
<1> QED
  BY <1>1, <1>3, <1>4 DEF TK!Pop

\* Who reads an empty queue takes nothing, as WorkQueue has it.
LEMMA TakesNothing ==
    ASSUME TicketInv, NEW t \in Threads, khead = ktail, TK!Answer(t, TK!EMPTY),
           kpc[t] \notin {"push", "grow", "set", "tail"}, t = Owner => kbuffer = EMPTY,
           UNCHANGED <<kelt, khead, ktail, kbuffer, karray, kslot, kgiven, replacing>>
    PROVE  TicketStep
<1>1. TicketItems = <<>> /\ UNCHANGED TicketItems
  BY TicketItemsAre, TicketItemsStay, TicketFacts
<1>2. kgot' = [kgot EXCEPT ![t] = TK!EMPTY] /\ TK!Goto(t, "idle")
  BY DEF TK!Answer
<1>3. UNCHANGED <<TicketSpare, TicketGiven>> => TK!Abstract!TakeHead(t)
  BY <1>1, <1>2 DEF TK!Abstract!TakeHead, TicketItems, TicketSpare, TicketGiven
<1> QED
  BY <1>2, <1>3, TicketTakes

LEMMA TicketPopRead ==
    ASSUME TicketInv, TK!PopRead PROVE TicketInv' /\ TicketStep
<1>1. /\ kpc[Owner] = "pop"
      /\ karr' = [karr EXCEPT ![Owner] = karray] /\ kh' = [kh EXCEPT ![Owner] = khead]
      /\ UNCHANGED <<kelt, khead, ktail, kbuffer, karray, kslot, kgiven, replacing>>
  BY DEF TK!PopRead
<1>2. /\ Owner \in Threads /\ khead \in Nat /\ ktail \in Nat /\ ktail - khead \in Nat
      /\ karray \in DOMAIN kslot /\ EMPTY = TK!EMPTY
  BY TicketFacts
<1>3. /\ karr' \in [Threads -> DOMAIN kslot] /\ kh' \in [Threads -> Nat]
      /\ karr'[Owner] = karray /\ kh'[Owner] = khead
      /\ \A u \in Threads \ {Owner} : karr'[u] = karr[u] /\ kh'[u] = kh[u]
      /\ kelt' \in [Threads -> TK!Values]
  BY <1>1, <1>2 DEF TicketInv, TK!TypeOK
<1>4. kbuffer = EMPTY /\ ~TK!InPush
  BY <1>1, <1>2 DEF TicketInv, OwnersStep, TK!InPush
<1>5. CASE khead = ktail
  <2>1. TK!Answer(Owner, TK!EMPTY) /\ TK!EMPTY \in TK!Values
    BY <1>5 DEF TK!PopRead, TK!Values
  <2>2. /\ kpc' \in [Threads -> TK!Labels]
        /\ \A u \in Threads : kpc'[u] = IF u = Owner THEN "idle" ELSE kpc[u]
        /\ kgot' \in [Threads -> TK!Values] /\ ktimes' \in [1..TKMaxPush -> Nat]
    BY <1>2, <2>1, TicketAnswer
  <2>3. OwnersStep'
    BY <1>2, <2>2 DEF OwnersStep, TK!InPush
  <2>4. TicketInv'
    <3>1. "idle" \in TK!Labels
      BY DEF TK!Labels
    <3> QED
      BY <1>1, <1>2, <1>3, <2>2, <2>3, <3>1, TicketReads
  <2>5. TicketStep
    BY <1>1, <1>2, <1>4, <1>5, <2>1, TakesNothing
  <2> QED
    BY <2>4, <2>5
<1>6. CASE khead # ktail
  <2>1. TK!Goto(Owner, "get") /\ UNCHANGED <<kgot, ktimes>> /\ "get" \in TK!Labels /\ khead < ktail
    BY <1>2, <1>6 DEF TK!PopRead, TK!Labels
  <2>2. /\ kpc' \in [Threads -> TK!Labels]
        /\ \A u \in Threads : kpc'[u] = IF u = Owner THEN "get" ELSE kpc[u]
    BY <1>2, <2>1, TicketGoto
  <2>3. ~TK!InPush'
    BY <1>2, <2>2 DEF TK!InPush
  <2>4. OwnersStep'
    BY <1>1, <1>2, <1>3, <1>4, <2>2, <2>3 DEF OwnersStep
  <2>5. TicketInv'
    <3>1. kgot' \in [Threads -> TK!Values] /\ ktimes' \in [1..TKMaxPush -> Nat]
      BY <2>1 DEF TicketInv, TK!TypeOK
    <3> QED
      BY <1>1, <1>2, <1>3, <2>1, <2>2, <2>4, <3>1, TicketReads
  <2>6. UNCHANGED <<TicketItems, TicketSpare, TicketGiven, kgot>>
    BY <1>1, <1>4, <2>1, <2>3, TicketItemsStay DEF TicketSpare, TicketGiven
  <2> QED
    BY <2>5, <2>6, TicketStutters
<1> QED
  BY <1>5, <1>6

LEMMA TicketThiefReads ==
    ASSUME TicketInv, NEW t \in Threads,
           TK!Steal(t) \/ TK!StealArray(t) \/ TK!StealHead(t)
    PROVE  TicketInv' /\ TicketStep
<1>1. t # Owner /\ Owner \in Threads /\ khead \in Nat /\ karray \in DOMAIN kslot
  BY TicketFacts DEF TK!Steal, TK!StealArray, TK!StealHead, TicketInv, OwnersStep
<1>2. PICK label \in {"array", "head", "empty"} : TK!Goto(t, label) /\ label \in TK!Labels
  BY DEF TK!Steal, TK!StealArray, TK!StealHead, TK!Labels
<1>3. /\ kpc' \in [Threads -> TK!Labels]
      /\ \A u \in Threads : kpc'[u] = IF u = t THEN label ELSE kpc[u]
  BY <1>2, TicketGoto
<1>4. /\ UNCHANGED <<kelt, khead, ktail, kbuffer, karray, kslot, kgot, ktimes, kgiven, replacing>>
      /\ karr' = karr \/ karr' = [karr EXCEPT ![t] = karray]
      /\ kh' = kh \/ kh' = [kh EXCEPT ![t] = khead]
  BY DEF TK!Steal, TK!StealArray, TK!StealHead
<1>5. /\ karr' \in [Threads -> DOMAIN kslot] /\ kh' \in [Threads -> Nat]
      /\ kelt' \in [Threads -> TK!Values] /\ kgot' \in [Threads -> TK!Values]
      /\ ktimes' \in [1..TKMaxPush -> Nat]
      /\ \A u \in Threads \ {t} : karr'[u] = karr[u] /\ kh'[u] = kh[u]
      /\ kh'[t] = kh[t] \/ kh'[t] = khead
  BY <1>1, <1>4 DEF TicketInv, TK!TypeOK
<1>6. kh'[t] <= khead
  BY <1>1, <1>5 DEF TicketInv, HeadsRead
<1>7. TicketInv'
  BY <1>1, <1>2, <1>3, <1>4, <1>5, <1>6, TicketReads
<1>8. TK!InPush' = TK!InPush
  BY <1>1, <1>3 DEF TK!InPush
<1>9. UNCHANGED <<TicketItems, TicketSpare, TicketGiven, kgot>>
  BY <1>4, <1>8, TicketItemsStay DEF TicketSpare, TicketGiven
<1> QED
  BY <1>7, <1>9, TicketStutters

LEMMA TicketStealTail ==
    ASSUME TicketInv, NEW t \in Threads, TK!StealTail(t) PROVE TicketInv' /\ TicketStep
<1>1. /\ kpc[t] = "empty"
      /\ UNCHANGED <<kelt, karr, kh, khead, ktail, kbuffer, karray, kslot, kgiven, replacing>>
  BY DEF TK!StealTail
<1>2. /\ t # Owner /\ Owner \in Threads /\ khead \in Nat /\ ktail \in Nat /\ ktail - khead \in Nat
      /\ kh[t] \in Nat /\ kh[t] <= khead
  BY <1>1, TicketFacts DEF TicketInv, OwnersStep, HeadsRead
<1>3. /\ karr' \in [Threads -> DOMAIN kslot] /\ kh' \in [Threads -> Nat]
      /\ kelt' \in [Threads -> TK!Values]
  BY <1>1 DEF TicketInv, TK!TypeOK
<1>4. CASE kh[t] = ktail
  <2>1. khead = ktail
    BY <1>2, <1>4
  <2>2. TK!Answer(t, TK!EMPTY) /\ TK!EMPTY \in TK!Values /\ "idle" \in TK!Labels
    BY <1>4 DEF TK!StealTail, TK!Values, TK!Labels
  <2>3. /\ kpc' \in [Threads -> TK!Labels]
        /\ \A u \in Threads : kpc'[u] = IF u = t THEN "idle" ELSE kpc[u]
        /\ kgot' \in [Threads -> TK!Values] /\ ktimes' \in [1..TKMaxPush -> Nat]
    BY <2>2, TicketAnswer
  <2>4. TicketInv'
    BY <1>1, <1>2, <1>3, <2>2, <2>3, TicketReads
  <2>5. TicketStep
    BY <1>1, <1>2, <2>1, <2>2, TakesNothing
  <2> QED
    BY <2>4, <2>5
<1>5. CASE kh[t] # ktail
  <2>1. kh[t] < ktail
    BY <1>2, <1>5
  <2>2. TK!Goto(t, "get") /\ UNCHANGED <<kgot, ktimes>> /\ "get" \in TK!Labels
    BY <1>5 DEF TK!StealTail, TK!Labels
  <2>3. /\ kpc' \in [Threads -> TK!Labels]
        /\ \A u \in Threads : kpc'[u] = IF u = t THEN "get" ELSE kpc[u]
    BY <2>2, TicketGoto
  <2>4. TicketInv'
    <3>1. kgot' \in [Threads -> TK!Values] /\ ktimes' \in [1..TKMaxPush -> Nat]
      BY <2>2 DEF TicketInv, TK!TypeOK
    <3> QED
      BY <1>1, <1>2, <1>3, <2>1, <2>2, <2>3, <3>1, TicketReads
  <2>5. TK!InPush' = TK!InPush
    BY <1>2, <2>3 DEF TK!InPush
  <2>6. UNCHANGED <<TicketItems, TicketSpare, TicketGiven, kgot>>
    BY <1>1, <2>2, <2>5, TicketItemsStay DEF TicketSpare, TicketGiven
  <2> QED
    BY <2>4, <2>6, TicketStutters
<1> QED
  BY <1>4, <1>5

LEMMA TicketGetSlot ==
    ASSUME TicketInv, NEW t \in Threads, TK!GetSlot(t) PROVE TicketInv' /\ TicketStep
<1> DEFINE e == TK!At(karr[t], kh[t])
<1>1. /\ kpc[t] = "get" /\ kelt' = [kelt EXCEPT ![t] = e]
      /\ TK!Goto(t, "cas") /\ "cas" \in TK!Labels
      /\ UNCHANGED <<karr, kh, khead, ktail, kbuffer, karray, kslot, kgot, ktimes, kgiven,
                     replacing>>
  BY DEF TK!GetSlot, TK!Labels
<1>2. Owner \in Threads /\ kh[t] \in Nat /\ karr[t] \in DOMAIN kslot
  BY TicketFacts
<1>3. e \in TK!Values
  BY <1>2, TicketElement
<1>4. karr[t] = karray /\ kh[t] = khead => e = TK!At(karray, khead)
  OBVIOUS
<1> HIDE DEF e
<1>5. /\ karr' \in [Threads -> DOMAIN kslot] /\ kh' \in [Threads -> Nat]
      /\ kgot' \in [Threads -> TK!Values] /\ ktimes' \in [1..TKMaxPush -> Nat]
      /\ kelt' \in [Threads -> TK!Values]
      /\ \A u \in Threads : kelt'[u] = IF u = t THEN e ELSE kelt[u]
  BY <1>1, <1>3 DEF TicketInv, TK!TypeOK
<1>6. /\ kpc' \in [Threads -> TK!Labels]
      /\ \A u \in Threads : kpc'[u] = IF u = t THEN "cas" ELSE kpc[u]
  BY <1>1, TicketGoto
<1>7. TK!InPush' = TK!InPush /\ (t = Owner => ~TK!InPush)
  BY <1>1, <1>2, <1>6 DEF TK!InPush
<1>8. ASSUME t = Owner PROVE OwnersStep'
  BY <1>1, <1>5, <1>6, <1>7, <1>8 DEF TicketInv, OwnersStep
<1>9. kh[t] <= khead /\ kh[t] < ktail
  BY <1>1 DEF TicketInv, HeadsRead
<1>10. TicketInv'
  BY <1>1, <1>4, <1>5, <1>6, <1>8, <1>9, TicketReads
<1>11. UNCHANGED <<TicketItems, TicketSpare, TicketGiven, kgot>>
  BY <1>1, <1>5, <1>7, TicketItemsStay DEF TicketSpare, TicketGiven
<1> QED
  BY <1>10, <1>11, TicketStutters

\* Who wins the compare-and-swap in the array in use takes the oldest element.
LEMMA TicketHeadTaken ==
    ASSUME TicketInv, NEW t \in Threads, kpc[t] = "cas", karr[t] = karray, kh[t] = khead,
           khead' = khead + 1, UNCHANGED <<ktail, karray, kslot>>
    PROVE  TicketItems # <<>> /\ Head(TicketItems) = kelt[t] /\ TicketItems' = Tail(TicketItems)
<1>1. /\ TicketItems \in Seq(TK!Values) /\ Len(TicketItems) = ktail - khead
      /\ \A i \in 1..(ktail - khead) : TicketItems[i] = TK!At(karray, khead + i - 1)
  BY TicketItemsAre
<1>2. khead \in Nat /\ ktail \in Nat /\ ktail - khead \in Nat
  BY TicketFacts
<1>3. kelt[t] = TK!At(karray, khead) /\ khead < ktail
  BY DEF TicketInv, OldestRead, HeadsRead
<1>4. TicketItems # <<>> /\ Head(TicketItems) = kelt[t]
  <2>1. khead + 1 - 1 = khead /\ 1 \in 1..(ktail - khead)
    BY <1>2, <1>3
  <2>2. TicketItems[1] = kelt[t]
    BY <1>1, <1>3, <2>1
  <2>3. Len(TicketItems) # 0
    BY <1>1, <1>2, <1>3
  <2> QED
    BY <1>1, <2>2, <2>3
<1>5. TicketItems' = [i \in 1..(ktail - khead - 1) |-> TK!At(karray, khead + i)]
  <2>1. TicketItems' = [i \in 1..(ktail - (khead + 1)) |-> TK!At(karray, (khead + 1) + i - 1)]
    BY DEF TicketItems, TK!At
  <2>2. ktail - (khead + 1) = ktail - khead - 1
        /\ \A i \in 1..(ktail - khead - 1) : (khead + 1) + i - 1 = khead + i
    BY <1>2
  <2> QED
    BY <2>1, <2>2
<1>6. Tail(TicketItems) = [i \in 1..(ktail - khead - 1) |-> TK!At(karray, khead + i)]
  <2>1. Tail(TicketItems) = [i \in 1..(ktail - khead - 1) |-> TicketItems[i + 1]]
    <3>1. Tail(TicketItems) = [i \in 1..(Len(TicketItems) - 1) |-> TicketItems[i + 1]]
      BY <1>1, <1>4, TailIs
    <3> QED
      BY <1>1, <3>1
  <2>2. \A i \in 1..(ktail - khead - 1) :
           i + 1 \in 1..(ktail - khead) /\ khead + (i + 1) - 1 = khead + i
    BY <1>2
  <2>3. \A i \in 1..(ktail - khead - 1) : TicketItems[i + 1] = TK!At(karray, khead + i)
    BY <1>1, <2>2
  <2> QED
    BY <2>1, <2>3
<1> QED
  BY <1>4, <1>5, <1>6

LEMMA TicketCasWins ==
    ASSUME TicketInv, NEW t \in Threads, TK!CasHead(t), khead = kh[t]
    PROVE  TicketInv' /\ TicketStep
<1>1. /\ kpc[t] = "cas" /\ khead' = khead + 1 /\ TK!Answer(t, kelt[t])
      /\ UNCHANGED <<kelt, karr, kh, ktail, kbuffer, karray, kslot, kgiven, replacing>>
  BY DEF TK!CasHead
<1>2. /\ khead \in Nat /\ ktail \in Nat /\ ktail - khead \in 0..karray /\ karray \in Nat
      /\ khead < ktail /\ kelt[t] \in TK!Values /\ Owner \in Threads
      /\ \A u \in Threads : kh[u] \in Nat /\ kh[u] <= khead
  BY <1>1, TicketFacts DEF TicketInv, HeadsRead
<1>3. khead' \in Nat /\ ktail' - khead' \in 0..karray /\ ktail - khead' <= ktail - khead
  BY <1>1, <1>2
<1>4. /\ kpc' \in [Threads -> TK!Labels]
      /\ \A u \in Threads : kpc'[u] = IF u = t THEN "idle" ELSE kpc[u]
      /\ kgot' = [kgot EXCEPT ![t] = kelt[t]]
      /\ kgot' \in [Threads -> TK!Values] /\ ktimes' \in [1..TKMaxPush -> Nat]
  BY <1>1, <1>2, TicketAnswer
<1>5. TK!TypeOK'
  BY <1>1, <1>3, <1>4 DEF TicketInv, TK!TypeOK, TK!ArraysOK
<1>6. t = Owner => ~TK!InPush /\ kbuffer = EMPTY /\ karr[t] = karray
  BY <1>1, <1>2 DEF TicketInv, OwnersStep, TK!InPush
<1>7. OwnersStep'
  <2>1. CASE t = Owner
    BY <1>1, <1>2, <1>4, <2>1 DEF OwnersStep, TK!InPush
  <2>2. CASE t # Owner
    <3>1. kpc'[Owner] = kpc[Owner] /\ (TK!InPush' = TK!InPush)
      BY <1>2, <1>4, <2>2 DEF TK!InPush
    <3>2. kpc[Owner] \in {"set", "tail"} => karr[Owner] = karray /\ ktail - khead' < karray
      BY <1>2, <1>3 DEF TicketInv, OwnersStep
    <3> QED
      BY <1>1, <3>1, <3>2 DEF TicketInv, OwnersStep, TK!At
  <2> QED
    BY <2>1, <2>2
<1>8. ThievesSteal'
  BY <1>4 DEF TicketInv, ThievesSteal
<1>9. HeadsRead'
  <2> SUFFICES ASSUME NEW u \in Threads
               PROVE  kh[u] <= khead + 1 /\ (kpc'[u] \in {"get", "cas"} => kh[u] < ktail)
    BY <1>1 DEF HeadsRead
  <2>1. kh[u] <= khead + 1
    BY <1>2
  <2> QED
    BY <1>4, <2>1 DEF TicketInv, HeadsRead
<1>10. OldestRead'
  <2>1. \A u \in Threads : kh[u] # khead + 1
    BY <1>2
  <2> QED
    BY <1>1, <2>1 DEF OldestRead
<1>11. Newest'
  BY <1>1 DEF TicketInv, Newest
<1>12. TicketStep
  <2>1. CASE karr[t] # karray
    BY <1>1, <2>1 DEF TicketStep, TK!Overtaken
  <2>2. CASE karr[t] = karray
    <3>1. /\ TicketItems # <<>> /\ Head(TicketItems) = kelt[t]
          /\ TicketItems' = Tail(TicketItems)
      BY <1>1, <2>2, TicketHeadTaken
    <3>2. UNCHANGED <<TicketSpare, TicketGiven>> => TK!Abstract!TakeHead(t)
      BY <1>4, <3>1 DEF TK!Abstract!TakeHead, TicketItems, TicketSpare, TicketGiven
    <3>3. TK!Goto(t, "idle")
      BY <1>1 DEF TK!Answer
    <3> QED
      BY <1>1, <1>6, <3>2, <3>3, TicketTakes
  <2> QED
    BY <2>1, <2>2
<1> QED
  BY <1>5, <1>7, <1>8, <1>9, <1>10, <1>11, <1>12 DEF TicketInv

LEMMA TicketCasFails ==
    ASSUME TicketInv, NEW t \in Threads, TK!CasHead(t), khead # kh[t]
    PROVE  TicketInv' /\ TicketStep
<1> DEFINE label == IF t = Owner THEN "pop" ELSE "head"
<1>1. /\ kpc[t] = "cas" /\ TK!Goto(t, label) /\ label \in TK!Labels
      /\ UNCHANGED <<kelt, karr, kh, khead, ktail, kbuffer, karray, kslot, kgot, ktimes, kgiven,
                     replacing>>
  BY DEF TK!CasHead, TK!Labels
<1>2. Owner \in Threads /\ kh[t] <= khead
  BY TicketFacts DEF TicketInv, HeadsRead
<1>3. /\ kpc' \in [Threads -> TK!Labels]
      /\ \A u \in Threads : kpc'[u] = IF u = t THEN label ELSE kpc[u]
  BY <1>1, TicketGoto
<1>4. /\ karr' \in [Threads -> DOMAIN kslot] /\ kh' \in [Threads -> Nat]
      /\ kelt' \in [Threads -> TK!Values] /\ kgot' \in [Threads -> TK!Values]
      /\ ktimes' \in [1..TKMaxPush -> Nat]
  BY <1>1 DEF TicketInv, TK!TypeOK
<1>5. TK!InPush' = TK!InPush /\ (t = Owner => ~TK!InPush)
  BY <1>1, <1>2, <1>3 DEF TK!InPush
<1>6. ASSUME t = Owner PROVE OwnersStep'
  BY <1>1, <1>3, <1>5, <1>6 DEF TicketInv, OwnersStep
<1>7. TicketInv'
  BY <1>1, <1>2, <1>3, <1>4, <1>6, TicketReads
<1>8. UNCHANGED <<TicketItems, TicketSpare, TicketGiven, kgot>>
  BY <1>1, <1>5, TicketItemsStay DEF TicketSpare, TicketGiven
<1> QED
  BY <1>7, <1>8, TicketStutters

LEMMA TicketNext ==
    ASSUME TicketInv, [TK!Next]_(TK!vars) PROVE TicketInv' /\ TicketStep
<1>1. CASE UNCHANGED TK!vars
  <2>1. TicketInv'
    BY <1>1 DEF TK!vars, TicketInv, TK!TypeOK, TK!ArraysOK, OwnersStep, ThievesSteal,
                HeadsRead, OldestRead, Newest, TK!InPush, TK!At
  <2>2. UNCHANGED <<TicketItems, TicketSpare, TicketGiven, kgot>>
    BY <1>1, TicketItemsStay DEF TK!vars, TicketSpare, TicketGiven, TK!InPush
  <2> QED
    BY <2>1, <2>2, TicketStutters
<1>2. CASE TK!Push \/ TK!PriorityPush \/ TK!Pop
  BY <1>2, TicketPush, TicketPriorityPush, TicketPop
<1>3. CASE TK!Pushing
  BY <1>3, TicketPushRead, TicketGrow, TicketSetSlot, TicketStoreTail DEF TK!Pushing
<1>4. ASSUME NEW t \in Threads, TK!Steal(t) \/ TK!Taking(t)
      PROVE  TicketInv' /\ TicketStep
  <2>1. CASE TK!Steal(t) \/ TK!StealArray(t) \/ TK!StealHead(t)
    BY <2>1, TicketThiefReads
  <2>2. CASE TK!StealTail(t) \/ TK!GetSlot(t) \/ (t = Owner /\ TK!PopRead)
    BY <2>2, TicketStealTail, TicketGetSlot, TicketPopRead
  <2>3. CASE TK!CasHead(t)
    BY <2>3, TicketCasWins, TicketCasFails
  <2> QED
    BY <1>4, <2>1, <2>2, <2>3 DEF TK!Taking
<1> QED
  BY <1>1, <1>2, <1>3, <1>4 DEF TK!Next

----------------------------------------------------------------------------
(* The theorems about the locked and the ticket queue.                     *)

LEMMA QueuesInvariance == QueuesSpec => [](QueueInv /\ TicketInv)
<1>1. QueuesInit => QueueInv /\ TicketInv
  BY InitQueueInv, TicketInit DEF QueuesInit
<1>2. ASSUME QueueInv, TicketInv, [QueuesNext]_queuesVars
      PROVE  (QueueInv /\ TicketInv)'
  <2>1. [Next]_vars /\ [TK!Next]_(TK!vars)
    BY <1>2 DEF QueuesNext, TLStep, TKStep, CLStep, queuesVars, tkVars, TK!vars
  <2> QED
    BY <1>2, <2>1, NextQueueInv, TicketNext
<1> QED
  BY <1>1, <1>2, PTL DEF QueuesSpec

\* Every variable of both queues keeps its type: slots are read and written
\* inside their array, head never passes tail, and the elements of the ticket
\* queue never outgrow its array, for any number of thieves and replacements.
THEOREM QueuesTypeCorrectness == QueuesSpec => []QueuesTypeOK
<1>1. QueueInv /\ TicketInv => QueuesTypeOK
  BY DEF QueueInv, TicketInv, QueuesTypeOK
<1> QED
  BY <1>1, QueuesInvariance, PTL

\* The ticket queue of tk_queue.c implements WorkQueue but for the steps of a
\* thief whose array was replaced under it: pops and steals that race for the
\* head get the elements in order, each once.
THEOREM TicketIsWorkQueue == QueuesSpec => TicketImplementsWorkQueue
<1>1. QueuesInit => TK!Abstract!Init
  BY TicketInit DEF QueuesInit
<1>2. ASSUME TicketInv, [QueuesNext]_queuesVars
      PROVE  [\/ TK!Abstract!Next
              \/ \E t \in Threads : TK!Overtaken(t) /\ TK!CasHead(t)]_(TK!Abstract!vars)
  <2>1. [TK!Next]_(TK!vars)
    BY <1>2 DEF QueuesNext, TLStep, TKStep, CLStep, queuesVars, tkVars, TK!vars
  <2> QED
    BY <1>2, <2>1, TicketNext DEF TicketStep
<1> QED
  BY <1>1, <1>2, QueuesInvariance, PTL DEF QueuesSpec, TicketImplementsWorkQueue,
     TK!ImplementsWorkQueue

----------------------------------------------------------------------------
(* The Chase-Lev deque of MCQueues is CLQueue, whose theorems hold of it.  *)

Deque == INSTANCE CLQueue_proofs WITH
            pc <- cpc, elt <- celt, arr <- carr, h <- ch, array <- carray,
            slot <- cslot, times <- ctimes, given <- cgiven

\* The third queue of MCQueues behaves as CLQueue does.
LEMMA DequeIs == QueuesSpec => Deque!Spec
<1>1. QueuesInit => Deque!Init
  BY DEF QueuesInit, CL!Init, Deque!Init, CL!EMPTY, Deque!EMPTY, CL!NewArray,
     Deque!NewArray, CL!Slots, Deque!Slots, CL!Garbage, Deque!Garbage
<1>2. CL!Push => Deque!Push
  BY DEF CL!Push, Deque!Push, CL!Full, Deque!Full, CL!Resize, Deque!Resize,
     CL!OwnGet, Deque!OwnGet, CL!Pending, Deque!Pending, CL!StoreElement,
     Deque!StoreElement, CL!StoreBottom, Deque!StoreBottom, CL!Index,
     Deque!Index, CL!At, Deque!At, CL!Slots, Deque!Slots, CL!Garbage,
     Deque!Garbage
<1>3. CL!Pop => Deque!Pop
  BY DEF CL!Pop, Deque!Pop, CL!Goto, Deque!Goto, CL!StoreBottom,
     Deque!StoreBottom
<1>4. CL!PopTop => Deque!PopTop
  BY DEF CL!PopTop, Deque!PopTop, CL!Fenced, Deque!Fenced, CL!Answer,
     Deque!Answer, CL!Goto, Deque!Goto, CL!OwnGet, Deque!OwnGet, CL!Pending,
     Deque!Pending, CL!RestoreBottom, Deque!RestoreBottom, CL!StoreBottom,
     Deque!StoreBottom, CL!EMPTY, Deque!EMPTY, CL!Index, Deque!Index, CL!At,
     Deque!At
<1>5. CL!PopCas => Deque!PopCas
  BY DEF CL!PopCas, Deque!PopCas, CL!Answer, Deque!Answer, CL!Goto,
     Deque!Goto, CL!RestoreBottom, Deque!RestoreBottom, CL!StoreBottom,
     Deque!StoreBottom, CL!EMPTY, Deque!EMPTY
<1>6. CL!Flush => Deque!Flush
  BY DEF CL!Flush, Deque!Flush
<1>7. \A t \in Threads : CL!Steal(t) => Deque!Steal(t)
  BY DEF CL!Steal, Deque!Steal, CL!Goto, Deque!Goto
<1>8. \A t \in Threads : CL!StealBottom(t) => Deque!StealBottom(t)
  BY DEF CL!StealBottom, Deque!StealBottom, CL!Goto, Deque!Goto, CL!Answer,
     Deque!Answer, CL!EMPTY, Deque!EMPTY
<1>9. \A t \in Threads : CL!StealArray(t) => Deque!StealArray(t)
  BY DEF CL!StealArray, Deque!StealArray, CL!Goto, Deque!Goto
<1>10. \A t \in Threads : CL!StealGet(t) => Deque!StealGet(t)
  BY DEF CL!StealGet, Deque!StealGet, CL!Goto, Deque!Goto, CL!At, Deque!At,
     CL!Index, Deque!Index
<1>11. \A t \in Threads : CL!StealCas(t) => Deque!StealCas(t)
  BY DEF CL!StealCas, Deque!StealCas, CL!Goto, Deque!Goto, CL!Answer,
     Deque!Answer, CL!ABORT, Deque!ABORT
<1>12. [QueuesNext]_queuesVars => [Deque!Next]_(Deque!vars)
  BY <1>2, <1>3, <1>4, <1>5, <1>6, <1>7, <1>8, <1>9, <1>10, <1>11 DEF
     QueuesNext, TLStep, TKStep, CLStep, queuesVars, clVars, Deque!vars,
     CL!Next, Deque!Next
<1> QED
  BY <1>1, <1>12, PTL DEF QueuesSpec, Deque!Spec

\* The run's TakenOnce: no element of the Chase-Lev deque is returned twice,
\* whatever the owner's buffer holds back and however often the array was
\* replaced.
THEOREM QueuesTakeOnce == QueuesSpec => []TakenOnce
<1>1. Deque!TakenOnce => TakenOnce
  BY DEF TakenOnce, CL!TakenOnce, Deque!TakenOnce
<1>2. Deque!Spec => []Deque!TakenOnce
  BY QueueAssumption, Deque!NoElementTwice
<1> QED
  BY <1>1, <1>2, DequeIs, PTL

\* The run's NoneLost: when every call has returned, what was pushed on the
\* deque and not returned is between top and bottom, in the installed array.
THEOREM QueuesLoseNone == QueuesSpec => []NoneLost
<1>1. Deque!NoneLost => NoneLost
  BY DEF NoneLost, CL!NoneLost, Deque!NoneLost, CL!OwnGet, Deque!OwnGet,
     CL!Pending, Deque!Pending, CL!Index, Deque!Index, CL!At, Deque!At
<1>2. Deque!Spec => []Deque!NoneLost
  BY QueueAssumption, Deque!NoElementLost
<1> QED
  BY <1>1, <1>2, DequeIs, PTL

\* The run's DequeTypeOK: bottom falls one below top at most, and never more
\* elements stand between them than the array has slots.
THEOREM DequeTypes == QueuesSpec => []DequeTypeOK
<1>1. Deque!TypeOK => DequeTypeOK
  BY DEF DequeTypeOK, CL!TypeOK, Deque!TypeOK, CL!Values, Deque!Values,
     CL!EMPTY, Deque!EMPTY, CL!ABORT, Deque!ABORT, CL!Garbage, Deque!Garbage,
     CL!Store, Deque!Store, CL!ArraysOK, Deque!ArraysOK, CL!Slots, Deque!Slots
<1>2. Deque!Spec => []Deque!TypeOK
  BY QueueAssumption, Deque!TypeCorrectness
<1> QED
  BY <1>1, <1>2, DequeIs, PTL
=============================================================================
