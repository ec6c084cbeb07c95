---------------------------- MODULE Actors_proofs ---------------------------
(***************************************************************************)
(* The mailbox of an actor for any senders, any capacity and any number of *)
(* messages.  What is proved of the slots and of the order needs the       *)
(* assertion in actor_remove_msg: compiled out, the actor would give back  *)
(* a slot that a sender is still to write.                                 *)
(*                                                                         *)
(* Senders reserve a place, then take a position (write_loc), then write   *)
(* and report; the actor claims a report, then takes a position (start).   *)
(* Positions are never reused, slots are: the slot of n is n % Capacity.   *)
(***************************************************************************)
EXTENDS Actors, FiniteSetTheorems, TLAPS

USE ActorsAssumption

----------------------------------------------------------------------------
(* Counting.                                                               *)

At(label) == {s \in Senders : spc[s] = label}

\* The actor has a position whose slot it has not given back.
Held == rpc \in {"take", "clear", "free", "aborted"}

\* The position of the oldest slot in use.
Oldest == IF Held THEN start - 1 ELSE start

Attempts ==
    /\ \A s \in Senders : spc[s] = "reserve" => sold[s] < Capacity
    /\ rpc = "claim" => rold > 0

Finite == IsFiniteSet(At("loc")) /\ IsFiniteSet(At("write")) /\ IsFiniteSet(At("ready"))

\* A place is reserved from the compare-and-exchange of its sender until the
\* actor gives it back, ...
Reserved ==
    reserved_size = Cardinality(At("loc")) + (write_loc - start) + (IF Held THEN 1 ELSE 0)

\* ... and a position that was taken is waiting for its sender, reported, or
\* claimed.
Positions ==
    write_loc - start = Cardinality(At("write")) + Cardinality(At("ready")) + ready_size
                        + (IF rpc = "start" THEN 1 ELSE 0)

CountInv == TypeOK /\ Attempts /\ Finite /\ Reserved /\ Positions

\* What the counts are for.
LEMMA Room ==
    ASSUME CountInv
    PROVE  /\ Cardinality(At("loc")) \in Nat
           /\ Cardinality(At("write")) \in Nat /\ Cardinality(At("ready")) \in Nat
           /\ start <= write_loc
           /\ rpc = "start" => start < write_loc
           /\ write_loc - Oldest <= Capacity
           /\ ready_size + Cardinality(At("ready")) + Cardinality(At("write")) <= reserved_size
           /\ Held => reserved_size > 0
           /\ \A s \in Senders : /\ spc[s] = "loc" => write_loc - Oldest < Capacity
                                 /\ spc[s] = "ready" => ready_size < reserved_size
<1>1. /\ Cardinality(At("loc")) \in Nat
      /\ Cardinality(At("write")) \in Nat /\ Cardinality(At("ready")) \in Nat
  BY FS_CardinalityType DEF CountInv, Finite
<1>2. /\ start \in Nat /\ write_loc \in Nat /\ ready_size \in Nat
      /\ reserved_size \in 0..Capacity
  BY DEF CountInv, TypeOK
<1>3. start <= write_loc /\ (rpc = "start" => start < write_loc)
  BY <1>1, <1>2 DEF CountInv, Positions
<1>4. write_loc - Oldest + Cardinality(At("loc")) = reserved_size
  BY <1>1, <1>2 DEF CountInv, Reserved, Oldest
<1>5. /\ ready_size + Cardinality(At("ready")) + Cardinality(At("write")) <= reserved_size
      /\ Held => reserved_size > 0
  BY <1>1, <1>2, <1>3 DEF CountInv, Reserved, Positions
<1>6. ASSUME NEW s \in Senders, spc[s] = "loc" PROVE Cardinality(At("loc")) > 0
  <2>1. s \in At("loc")
    BY <1>6 DEF At
  <2> QED
    BY <1>1, <2>1, FS_EmptySet DEF CountInv, Finite
<1>7. ASSUME NEW s \in Senders, spc[s] = "ready" PROVE Cardinality(At("ready")) > 0
  <2>1. s \in At("ready")
    BY <1>7 DEF At
  <2> QED
    BY <1>1, <2>1, FS_EmptySet DEF CountInv, Finite
<1>8. Oldest \in Int
  BY <1>2 DEF Oldest
<1>9. write_loc - Oldest <= Capacity
  BY <1>1, <1>2, <1>4, <1>8
<1>10. ASSUME NEW s \in Senders, spc[s] = "loc" PROVE write_loc - Oldest < Capacity
  <2>1. Cardinality(At("loc")) > 0
    BY <1>6, <1>10
  <2> QED
    BY <1>1, <1>2, <1>4, <1>8, <2>1
<1>11. ASSUME NEW s \in Senders, spc[s] = "ready" PROVE ready_size < reserved_size
  <2>1. Cardinality(At("ready")) > 0
    BY <1>7, <1>11
  <2> QED
    BY <1>1, <1>2, <1>5, <2>1
<1> QED
  BY <1>1, <1>3, <1>5, <1>9, <1>10, <1>11

LEMMA AtMoves ==
    ASSUME TypeOK, NEW s \in Senders, NEW target, SGoto(s, target), target # spc[s],
           NEW label, IsFiniteSet(At(label))
    PROVE  /\ IsFiniteSet(At(label)')
           /\ Cardinality(At(label)') = IF label = spc[s] THEN Cardinality(At(label)) - 1
                                        ELSE IF label = target THEN Cardinality(At(label)) + 1
                                        ELSE Cardinality(At(label))
<1>1. \A t \in Senders : spc'[t] = IF t = s THEN target ELSE spc[t]
  BY DEF SGoto, TypeOK
<1>2. CASE label = spc[s]
  <2>1. At(label)' = At(label) \ {s} /\ s \in At(label)
    BY <1>1, <1>2 DEF At
  <2> QED
    BY <1>2, <2>1, FS_RemoveElement
<1>3. CASE label # spc[s] /\ label = target
  <2>1. At(label)' = At(label) \cup {s} /\ s \notin At(label)
    BY <1>1, <1>3 DEF At
  <2> QED
    BY <1>3, <2>1, FS_AddElement
<1>4. CASE label # spc[s] /\ label # target
  <2>1. At(label)' = At(label)
    BY <1>1, <1>4 DEF At
  <2> QED
    BY <1>4, <2>1
<1> QED
  BY <1>2, <1>3, <1>4

LEMMA SendTypes ==
    ASSUME TypeOK, Attempts, NEW s \in Senders, Send(s) PROVE TypeOK' /\ Attempts'
<1>1. given' = given + 1 /\ given' \in 1..MaxSend /\ given \in Nat
  BY DEF TypeOK, Send
<1>2. from' \in [1..given' -> Senders]
  <2>1. from \in Seq(Senders) /\ Len(from) = given
    BY <1>1 DEF TypeOK
  <2>2. from' \in Seq(Senders) /\ Len(from') = given'
    BY <1>1, <2>1 DEF Send
  <2> QED
    BY <2>2
<1>3. spc' \in [Senders -> {"idle", "load", "poll", "reserve", "loc", "write", "ready"}]
  BY DEF TypeOK, Send, SGoto
<1>4. msg' \in [Senders -> Messages \cup {NULL}]
  BY <1>1 DEF TypeOK, Send, Messages
<1>5. TypeOK'
  BY <1>1, <1>2, <1>3, <1>4 DEF TypeOK, Send, receiverVars
<1>6. Attempts'
  BY DEF Attempts, TypeOK, Send, SGoto, receiverVars
<1> QED
  BY <1>5, <1>6

\* The steps of a sender that take or give back nothing.
LEMMA SenderQuietCounts ==
    ASSUME CountInv, NEW s \in Senders,
           \/ Send(s) \/ LoadReserved(s) \/ HasSpacePoll(s)
           \/ (Reserve(s) /\ SGoto(s, "poll") /\ UNCHANGED reserved_size)
    PROVE  CountInv'
<1> USE DEF receiverVars
<1>1. TypeOK /\ Attempts /\ Finite
  BY DEF CountInv
<1>2. TypeOK' /\ Attempts'
  <2>1. CASE Send(s)
    BY <1>1, <2>1, SendTypes
  <2>2. CASE LoadReserved(s)
    BY <1>1, <2>2 DEF TypeOK, Attempts, LoadReserved, SGoto
  <2>3. CASE HasSpacePoll(s)
    BY <1>1, <2>3 DEF TypeOK, Attempts, HasSpacePoll, SGoto
  <2>4. CASE Reserve(s) /\ SGoto(s, "poll") /\ UNCHANGED reserved_size
    BY <1>1, <2>4 DEF TypeOK, Attempts, Reserve, SGoto
  <2> QED
    BY <2>1, <2>2, <2>3, <2>4
<1>3. /\ At("loc")' = At("loc") /\ At("write")' = At("write") /\ At("ready")' = At("ready")
      /\ UNCHANGED <<rpc, start, write_loc, ready_size, reserved_size>>
  <2>1. /\ \A t \in Senders \ {s} : spc'[t] = spc[t]
        /\ spc[s] \notin {"loc", "write", "ready"} /\ spc'[s] \notin {"loc", "write", "ready"}
        /\ UNCHANGED <<rpc, start, write_loc, ready_size, reserved_size>>
    BY <1>1 DEF TypeOK, Send, LoadReserved, HasSpacePoll, Reserve, SGoto
  <2> QED
    BY <2>1 DEF At
<1> QED
  BY <1>2, <1>3 DEF CountInv, Finite, Reserved, Positions, Held

LEMMA ReserveCounts ==
    ASSUME CountInv, NEW s \in Senders, Reserve(s) PROVE CountInv'
<1> USE DEF receiverVars
<1>1. TypeOK /\ Attempts /\ Finite /\ spc[s] = "reserve"
  BY DEF CountInv, Reserve
<1>2. CASE SGoto(s, "poll") /\ UNCHANGED reserved_size
  BY <1>2, SenderQuietCounts
<1>3. CASE reserved_size = sold[s] /\ reserved_size' = sold[s] + 1 /\ SGoto(s, "loc")
  <2>1. TypeOK' /\ Attempts'
    BY <1>1, <1>3 DEF TypeOK, Attempts, Reserve, SGoto
  <2>2. /\ Cardinality(At("loc")') = Cardinality(At("loc")) + 1
        /\ Cardinality(At("write")') = Cardinality(At("write"))
        /\ Cardinality(At("ready")') = Cardinality(At("ready"))
        /\ Finite'
    BY <1>1, <1>3, AtMoves DEF Finite
  <2>3. Reserved'
    <3>1. Cardinality(At("loc")) \in Nat /\ start \in Nat /\ write_loc \in Nat
          /\ reserved_size \in Nat
      BY Room, <1>1 DEF TypeOK
    <3> QED
      BY <1>3, <2>2, <3>1 DEF CountInv, Reserved, Held, Reserve
  <2>4. Positions'
    BY <2>2 DEF CountInv, Positions, Reserve
  <2> QED
    BY <2>1, <2>2, <2>3, <2>4 DEF CountInv
<1> QED
  BY <1>2, <1>3 DEF Reserve

LEMMA TakeLocCounts ==
    ASSUME CountInv, NEW s \in Senders, TakeLoc(s) PROVE CountInv'
<1> USE DEF receiverVars
<1>1. TypeOK /\ Attempts /\ Finite /\ spc[s] = "loc" /\ SGoto(s, "write")
  BY DEF CountInv, TakeLoc
<1>2. write_loc % Capacity \in Slots
  BY <1>1 DEF TypeOK, Slots
<1>3. TypeOK' /\ Attempts'
  BY <1>1, <1>2 DEF TypeOK, Attempts, TakeLoc, SGoto
<1>4. /\ Cardinality(At("loc")') = Cardinality(At("loc")) - 1
      /\ Cardinality(At("write")') = Cardinality(At("write")) + 1
      /\ Cardinality(At("ready")') = Cardinality(At("ready"))
      /\ Finite'
  BY <1>1, AtMoves DEF Finite
<1>5. /\ Cardinality(At("loc")) \in Nat
      /\ Cardinality(At("write")) \in Nat /\ Cardinality(At("ready")) \in Nat
      /\ start \in Nat /\ write_loc \in Nat /\ ready_size \in Nat /\ reserved_size \in Nat
  BY Room, <1>1 DEF TypeOK
<1>8. write_loc' = write_loc + 1 /\ UNCHANGED <<rpc, start, ready_size, reserved_size>>
  BY DEF TakeLoc
<1>6. Reserved'
  BY <1>4, <1>5, <1>8 DEF CountInv, Reserved, Held
<1>7. Positions'
  BY <1>4, <1>5, <1>8 DEF CountInv, Positions
<1> QED
  BY <1>3, <1>4, <1>6, <1>7 DEF CountInv

LEMMA WriteCounts ==
    ASSUME CountInv, NEW s \in Senders, Write(s) PROVE CountInv'
<1> USE DEF receiverVars
<1>1. TypeOK /\ Attempts /\ Finite /\ spc[s] = "write" /\ SGoto(s, "ready")
  BY DEF CountInv, Write
<1>2. TypeOK' /\ Attempts'
  BY <1>1 DEF TypeOK, Attempts, Write, SGoto
<1>3. /\ Cardinality(At("loc")') = Cardinality(At("loc"))
      /\ Cardinality(At("write")') = Cardinality(At("write")) - 1
      /\ Cardinality(At("ready")') = Cardinality(At("ready")) + 1
      /\ Finite'
  BY <1>1, AtMoves DEF Finite
<1>4. /\ Cardinality(At("write")) \in Nat /\ Cardinality(At("ready")) \in Nat
      /\ start \in Nat /\ write_loc \in Nat /\ ready_size \in Nat
  BY Room, <1>1 DEF TypeOK
<1>5. Reserved'
  BY <1>3 DEF CountInv, Reserved, Held, Write
<1>6. Positions'
  BY <1>3, <1>4 DEF CountInv, Positions, Write
<1> QED
  BY <1>2, <1>3, <1>5, <1>6 DEF CountInv

LEMMA MarkReadyCounts ==
    ASSUME CountInv, NEW s \in Senders, MarkReady(s) PROVE CountInv'
<1> USE DEF receiverVars
<1>1. TypeOK /\ Attempts /\ Finite /\ spc[s] = "ready" /\ SGoto(s, "idle")
  BY DEF CountInv, MarkReady
<1>2. /\ Cardinality(At("write")) \in Nat /\ Cardinality(At("ready")) \in Nat
      /\ start \in Nat /\ write_loc \in Nat /\ ready_size \in Nat
      /\ reserved_size \in 0..Capacity /\ ready_size < reserved_size
  BY Room, <1>1 DEF TypeOK
<1>3. ready_size + 1 \in 0..Capacity
  BY <1>2
<1>4. TypeOK' /\ Attempts'
  BY <1>1, <1>3 DEF TypeOK, Attempts, MarkReady, SGoto
<1>5. /\ Cardinality(At("loc")') = Cardinality(At("loc"))
      /\ Cardinality(At("write")') = Cardinality(At("write"))
      /\ Cardinality(At("ready")') = Cardinality(At("ready")) - 1
      /\ Finite'
  BY <1>1, AtMoves DEF Finite
<1>6. Reserved'
  BY <1>5 DEF CountInv, Reserved, Held, MarkReady
<1>7. Positions'
  BY <1>2, <1>5 DEF CountInv, Positions, MarkReady
<1> QED
  BY <1>4, <1>5, <1>6, <1>7 DEF CountInv

LEMMA RecvCounts == ASSUME CountInv, Recv PROVE CountInv'
<1> USE DEF senderVars
<1>1. TypeOK /\ Attempts /\ Finite
  BY DEF CountInv
<1>2. UNCHANGED spc /\ UNCHANGED write_loc
  BY DEF Recv, LoadReady, HasMsgPoll, Claim, TakeStart, Take, Clear, Free
<1>3. \A label : At(label)' = At(label)
  BY <1>2 DEF At
<1>4. Finite'
  BY <1>1, <1>3 DEF Finite
<1>5. /\ Cardinality(At("loc")) \in Nat
      /\ Cardinality(At("write")) \in Nat /\ Cardinality(At("ready")) \in Nat
      /\ start \in Nat /\ write_loc \in Nat /\ ready_size \in 0..Capacity
      /\ reserved_size \in 0..Capacity
      /\ Held => reserved_size > 0
  BY Room, <1>1 DEF TypeOK
<1>6. TypeOK' /\ Attempts'
  <2>1. CASE LoadReady
    BY <1>1, <2>1 DEF TypeOK, Attempts, LoadReady
  <2>2. CASE HasMsgPoll
    BY <1>1, <2>2 DEF TypeOK, Attempts, HasMsgPoll
  <2>3. CASE Claim
    BY <1>1, <2>3 DEF TypeOK, Attempts, Claim
  <2>4. CASE TakeStart
    <3>1. start % Capacity \in Slots
      BY <1>5 DEF Slots
    <3> QED
      BY <1>1, <2>4, <3>1 DEF TypeOK, Attempts, TakeStart
  <2>5. CASE Take
    BY <1>1, <2>5 DEF TypeOK, Attempts, Take
  <2>6. CASE Clear
    BY <1>1, <2>6 DEF TypeOK, Attempts, Clear
  <2>7. CASE Free
    <3>1. reserved_size - 1 \in 0..Capacity
      BY <1>5, <2>7 DEF Free, Held
    <3>2. received' \in Seq(Messages)
      BY <1>1, <2>7 DEF TypeOK, Free
    <3> QED
      BY <1>1, <2>7, <3>1, <3>2 DEF TypeOK, Attempts, Free
  <2> QED
    BY <2>1, <2>2, <2>3, <2>4, <2>5, <2>6, <2>7 DEF Recv
<1>7. \/ /\ UNCHANGED <<start, ready_size, reserved_size>>
         /\ rpc \in {"load", "poll"} /\ rpc' \in {"load", "poll", "claim"}
      \/ /\ UNCHANGED <<start, ready_size, reserved_size>>
         /\ rpc = "claim" /\ rpc' = "poll"
      \/ /\ UNCHANGED <<start, reserved_size>> /\ ready_size' = ready_size - 1
         /\ rpc = "claim" /\ rpc' = "start"
      \/ /\ UNCHANGED <<ready_size, reserved_size>> /\ start' = start + 1
         /\ rpc = "start" /\ rpc' = "take"
      \/ /\ UNCHANGED <<start, ready_size, reserved_size>>
         /\ rpc \in {"take", "clear"} /\ rpc' \in {"clear", "free", "aborted"}
      \/ /\ UNCHANGED <<start, ready_size>> /\ reserved_size' = reserved_size - 1
         /\ rpc = "free" /\ rpc' \in {"load", "poll"}
  BY <1>1 DEF Recv, LoadReady, HasMsgPoll, Claim, TakeStart, Take, Clear, Free
<1>8. Reserved'
  BY <1>2, <1>3, <1>5, <1>7 DEF CountInv, Reserved, Held
<1>9. Positions'
  BY <1>2, <1>3, <1>5, <1>7 DEF CountInv, Positions
<1> QED
  BY <1>4, <1>6, <1>8, <1>9 DEF CountInv

LEMMA InitCounts == Init => CountInv
<1> SUFFICES ASSUME Init PROVE CountInv
  OBVIOUS
<1>1. At("loc") = {} /\ At("write") = {} /\ At("ready") = {}
  BY DEF Init, At
<1>2. Finite /\ Reserved /\ Positions
  <2>1. IsFiniteSet({}) /\ Cardinality({}) = 0
    BY FS_EmptySet
  <2>2. Finite
    BY <1>1, <2>1 DEF Finite
  <2>3. Cardinality(At("loc")) = 0 /\ Cardinality(At("write")) = 0
        /\ Cardinality(At("ready")) = 0
    BY <1>1, <2>1
  <2> QED
    BY <2>2, <2>3 DEF Init, Reserved, Positions, Held
<1>3. TypeOK
  BY DEF Init, TypeOK, NULL, Slots
<1> QED
  BY <1>2, <1>3 DEF CountInv, Attempts, Init

LEMMA NextCounts == CountInv /\ [Next]_vars => CountInv'
<1> SUFFICES ASSUME CountInv, [Next]_vars PROVE CountInv'
  OBVIOUS
<1>1. CASE Recv
  BY <1>1, RecvCounts
<1>2. ASSUME NEW s \in Senders, Send(s) \/ Insert(s) PROVE CountInv'
  BY <1>2, SenderQuietCounts, ReserveCounts, TakeLocCounts, WriteCounts, MarkReadyCounts
     DEF Insert
<1>3. CASE UNCHANGED vars
  BY <1>3 DEF vars, senderVars, receiverVars, CountInv, TypeOK, Attempts, Finite, Reserved,
              Positions, Held, At
<1> QED
  BY <1>1, <1>2, <1>3 DEF Next

----------------------------------------------------------------------------
(* Slots.                                                                  *)

Slot(n) == n % Capacity

\* Positions that are fewer than Capacity apart have different slots.
LEMMA SlotsDiffer ==
    ASSUME NEW m \in Int, NEW n \in Int, m < n, n - m < Capacity
    PROVE  Slot(m) # Slot(n)
<1> DEFINE p == m \div Capacity
           q == n \div Capacity
<1>1. /\ p \in Int /\ q \in Int
      /\ m = Capacity * p + (m % Capacity) /\ n = Capacity * q + (n % Capacity)
  OBVIOUS
<1> HIDE DEF p, q
<1>2. ASSUME m % Capacity = n % Capacity PROVE FALSE
  <2>1. n - m = Capacity * (q - p)
    BY <1>1, <1>2
  <2>2. q - p \in Int
    BY <1>1
  <2>3. CASE q - p <= 0
    BY <2>1, <2>2, <2>3
  <2>4. CASE q - p >= 1
    BY <2>1, <2>2, <2>4
  <2> QED
    BY <2>2, <2>3, <2>4
<1> QED
  BY <1>2 DEF Slot

InUse == {n \in Int : Oldest <= n /\ n < write_loc}

Writes(s, n) == spc[s] = "write" /\ loc[s] = Slot(n)

\* Only the slots of positions in use are written or hold a message.
Confined ==
    /\ \A s \in Senders : spc[s] = "write" => \E n \in InUse : Writes(s, n)
    /\ \A i \in Slots : mailbox[i] # NULL => \E n \in InUse : i = Slot(n)

\* The actor reads the slot of its position; once it has found a message
\* there, nobody is to write into it.
Reading ==
    /\ rpc \in {"take", "clear", "free"} => read = Slot(Oldest)
    /\ rpc = "free" => result # NULL /\ mailbox[read] = NULL
    /\ rpc \in {"clear", "free"} /\ result # NULL =>
          \A s \in Senders : ~(spc[s] = "write" /\ loc[s] = read)

SlotInv == CountInv /\ Confined /\ Reading /\ WritesAreExclusive

LEMMA InUseDiffer ==
    ASSUME CountInv, NEW m \in InUse, NEW n \in InUse, Slot(m) = Slot(n)
    PROVE  m = n
<1>1. m \in Int /\ n \in Int /\ write_loc \in Nat /\ Oldest \in Int
      /\ m < write_loc /\ n < write_loc /\ Oldest <= m /\ Oldest <= n
  BY DEF InUse, CountInv, TypeOK, Oldest
<1>2. write_loc - Oldest <= Capacity
  BY Room
<1>3. CASE m < n
  BY <1>1, <1>2, <1>3, SlotsDiffer
<1>4. CASE n < m
  BY <1>1, <1>2, <1>4, SlotsDiffer
<1> QED
  BY <1>1, <1>3, <1>4

\* A step that changes neither the slots nor who is to write into them, nor
\* what the actor reads.
LEMMA SlotsKept ==
    ASSUME SlotInv, CountInv',
           UNCHANGED <<loc, mailbox, start, write_loc, rpc, read, result>>,
           \A s \in Senders : spc'[s] = "write" <=> spc[s] = "write"
    PROVE  SlotInv'
<1>1. InUse' = InUse
  BY DEF InUse, Oldest, Held
<1>2. Oldest' = Oldest
  BY DEF Oldest, Held
<1> QED
  BY <1>1, <1>2 DEF SlotInv, Confined, Writes, Reading, WritesAreExclusive

LEMMA TakeLocSlots ==
    ASSUME SlotInv, CountInv', NEW s \in Senders, TakeLoc(s) PROVE SlotInv'
<1> USE DEF receiverVars
<1>1. CountInv /\ TypeOK /\ spc[s] = "loc"
  BY DEF SlotInv, CountInv, TakeLoc
<1>2. /\ \A t \in Senders : spc'[t] = IF t = s THEN "write" ELSE spc[t]
      /\ \A t \in Senders : loc'[t] = IF t = s THEN Slot(write_loc) ELSE loc[t]
      /\ write_loc' = write_loc + 1 /\ UNCHANGED <<mailbox, start, rpc, read, result>>
  BY <1>1 DEF TakeLoc, SGoto, TypeOK, Slot
<1>3. /\ write_loc \in Nat /\ Oldest \in Int /\ write_loc - Oldest < Capacity
      /\ Held => Oldest < write_loc
  BY <1>1, Room DEF TypeOK, Oldest
<1>4. \A n \in InUse : Slot(n) # Slot(write_loc)
  BY <1>3, SlotsDiffer DEF InUse
<1>5. Oldest' = Oldest /\ InUse' = InUse \cup {write_loc}
  <2>1. Oldest' = Oldest
    BY <1>2 DEF Oldest, Held
  <2>2. Oldest <= write_loc
    BY <1>1, <1>3, Room DEF TypeOK, Oldest
  <2> QED
    BY <1>2, <1>3, <2>1, <2>2 DEF InUse
<1>6. \A t \in Senders \ {s} : spc[t] = "write" => loc[t] # Slot(write_loc)
  BY <1>4 DEF SlotInv, Confined, Writes
<1>7. Slot(write_loc) \in Slots /\ mailbox[Slot(write_loc)] = NULL
  <2>1. Slot(write_loc) \in Slots
    BY <1>3 DEF Slots, Slot
  <2> QED
    BY <1>4, <2>1 DEF SlotInv, Confined
<1>8. Confined'
  BY <1>2, <1>5 DEF SlotInv, Confined, Writes
<1>9. Reading'
  <2>1. rpc \in {"take", "clear", "free"} => read # Slot(write_loc)
    <3>1. Held => Oldest \in InUse
      BY <1>3 DEF InUse
    <3> QED
      BY <1>4, <3>1 DEF SlotInv, Reading, Held
  <2> QED
    BY <1>2, <1>5, <2>1 DEF SlotInv, Reading
<1>10. WritesAreExclusive'
  BY <1>2, <1>6, <1>7 DEF SlotInv, WritesAreExclusive
<1> QED
  BY <1>8, <1>9, <1>10 DEF SlotInv

LEMMA WriteSlots ==
    ASSUME SlotInv, CountInv', NEW s \in Senders, Write(s) PROVE SlotInv'
<1> USE DEF receiverVars
<1>1. CountInv /\ TypeOK /\ spc[s] = "write"
  BY DEF SlotInv, CountInv, Write
<1>2. /\ \A t \in Senders : spc'[t] = IF t = s THEN "ready" ELSE spc[t]
      /\ \A i \in Slots : mailbox'[i] = IF i = loc[s] THEN msg[s] ELSE mailbox[i]
      /\ UNCHANGED <<loc, start, write_loc, rpc, read, result>>
  BY <1>1 DEF Write, SGoto, TypeOK
<1>3. Oldest' = Oldest /\ InUse' = InUse
  BY <1>2 DEF Oldest, Held, InUse
<1>4. \A t \in Senders \ {s} : spc[t] = "write" => loc[t] # loc[s]
  BY <1>1 DEF SlotInv, WritesAreExclusive
<1>5. PICK n \in InUse : loc[s] = Slot(n)
  BY <1>1 DEF SlotInv, Confined, Writes
<1>6. Confined'
  BY <1>2, <1>3, <1>5 DEF SlotInv, Confined, Writes
<1>7. Reading'
  <2>1. read \in Slots
    BY <1>1 DEF TypeOK
  <2>2. rpc = "free" => loc[s] # read
    BY <1>1 DEF SlotInv, Reading
  <2> QED
    BY <1>2, <1>3, <2>1, <2>2 DEF SlotInv, Reading
<1>8. WritesAreExclusive'
  <2>1. \A t \in Senders : loc[t] \in Slots
    BY <1>1 DEF TypeOK
  <2> QED
    BY <1>2, <1>4, <2>1 DEF SlotInv, WritesAreExclusive
<1> QED
  BY <1>6, <1>7, <1>8 DEF SlotInv

LEMMA SenderSlots ==
    ASSUME SlotInv, NEW s \in Senders, Send(s) \/ Insert(s) PROVE SlotInv'
<1> USE DEF receiverVars
<1>1. CountInv'
  <2>1. CountInv
    BY DEF SlotInv
  <2> QED
    BY <2>1, SenderQuietCounts, ReserveCounts, TakeLocCounts, WriteCounts, MarkReadyCounts
       DEF Insert
<1>2. TypeOK
  BY DEF SlotInv, CountInv
<1>3. CASE TakeLoc(s)
  BY <1>1, <1>3, TakeLocSlots
<1>4. CASE Write(s)
  BY <1>1, <1>4, WriteSlots
<1>5. CASE Send(s) \/ LoadReserved(s) \/ HasSpacePoll(s) \/ Reserve(s) \/ MarkReady(s)
  <2>1. UNCHANGED <<loc, mailbox, start, write_loc, rpc, read, result>>
    BY <1>5 DEF Send, LoadReserved, HasSpacePoll, Reserve, MarkReady
  <2>2. \A t \in Senders : spc'[t] = "write" <=> spc[t] = "write"
    BY <1>2, <1>5 DEF TypeOK, SGoto, Send, LoadReserved, HasSpacePoll, Reserve, MarkReady
  <2> QED
    BY <1>1, <2>1, <2>2, SlotsKept
<1> QED
  BY <1>3, <1>4, <1>5 DEF Insert

LEMMA RecvSlots ==
    ASSUME ~NDEBUG, SlotInv, Recv PROVE SlotInv'
<1> USE DEF senderVars
<1>1. CountInv' /\ CountInv /\ TypeOK
  BY RecvCounts DEF SlotInv, CountInv
<1>2. start \in Nat /\ write_loc \in Nat /\ read \in Slots
  BY <1>1 DEF TypeOK
<1>3. UNCHANGED <<spc, loc, write_loc>>
  BY DEF Recv, LoadReady, HasMsgPoll, Claim, TakeStart, Take, Clear, Free
<1>4. CASE LoadReady \/ HasMsgPoll \/ Claim \/ TakeStart
  <2>1. Oldest' = Oldest /\ UNCHANGED mailbox
    BY <1>2, <1>4 DEF Oldest, Held, LoadReady, HasMsgPoll, Claim, TakeStart
  <2>2. InUse' = InUse
    BY <1>3, <2>1 DEF InUse
  <2>3. Reading'
    BY <1>2, <1>4, <2>1 DEF Reading, LoadReady, HasMsgPoll, Claim, TakeStart, Slot, Oldest, Held
  <2> QED
    BY <1>1, <1>3, <2>1, <2>2, <2>3 DEF SlotInv, Confined, Writes, WritesAreExclusive
<1>5. CASE Take
  <2>1. /\ Oldest' = Oldest /\ UNCHANGED <<mailbox, read>> /\ result' = mailbox[read]
        /\ rpc = "take" /\ rpc' = "clear"
    BY <1>5 DEF Oldest, Held, Take
  <2>2. InUse' = InUse
    BY <1>3, <2>1 DEF InUse
  <2>3. Reading'
    BY <1>3, <2>1 DEF SlotInv, Reading, WritesAreExclusive
  <2> QED
    BY <1>1, <1>3, <2>1, <2>2, <2>3 DEF SlotInv, Confined, Writes, WritesAreExclusive
<1>6. CASE Clear
  <2>1. /\ Oldest' = Oldest /\ UNCHANGED <<read, result>>
        /\ rpc = "clear" /\ rpc' = IF result = NULL THEN "aborted" ELSE "free"
        /\ \A i \in Slots : mailbox'[i] = IF i = read THEN NULL ELSE mailbox[i]
    BY <1>1, <1>6 DEF Oldest, Held, Clear, TypeOK
  <2>2. InUse' = InUse
    BY <1>3, <2>1 DEF InUse
  <2>3. Reading'
    BY <1>2, <1>3, <2>1 DEF SlotInv, Reading
  <2>4. Confined'
    BY <1>3, <2>1, <2>2 DEF SlotInv, Confined, Writes
  <2>5. WritesAreExclusive'
    <3>1. \A t \in Senders : loc[t] \in Slots
      BY <1>1 DEF TypeOK
    <3> QED
      BY <1>3, <2>1, <3>1 DEF SlotInv, WritesAreExclusive
  <2> QED
    BY <1>1, <2>3, <2>4, <2>5 DEF SlotInv
<1>7. CASE Free
  <2>1. /\ rpc = "free" /\ rpc' \in {"load", "poll"} /\ UNCHANGED <<start, mailbox>>
    BY <1>7 DEF Free
  <2>2. Oldest' = Oldest + 1 /\ Oldest \in Int
    BY <1>2, <2>1 DEF Oldest, Held
  <2>3. InUse' = InUse \ {Oldest}
    BY <1>2, <1>3, <2>2 DEF InUse
  <2>4. read = Slot(Oldest) /\ mailbox[read] = NULL
        /\ \A s \in Senders : ~(spc[s] = "write" /\ loc[s] = read)
    BY <2>1 DEF SlotInv, Reading
  <2>5. Confined'
    BY <1>3, <2>1, <2>3, <2>4 DEF SlotInv, Confined, Writes
  <2>6. Reading'
    BY <2>1 DEF Reading
  <2> QED
    BY <1>1, <1>3, <2>1, <2>5, <2>6 DEF SlotInv, WritesAreExclusive
<1> QED
  BY <1>4, <1>5, <1>6, <1>7 DEF Recv

LEMMA NextSlots == ASSUME ~NDEBUG, SlotInv, [Next]_vars PROVE SlotInv'
<1>1. CASE UNCHANGED vars
  <2>1. CountInv'
    BY <1>1, NextCounts DEF SlotInv
  <2> QED
    BY <1>1, <2>1, SlotsKept DEF vars, senderVars, receiverVars
<1> QED
  BY <1>1, RecvSlots, SenderSlots DEF Next

LEMMA InitSlots == Init => SlotInv
BY InitCounts DEF Init, SlotInv, Confined, Reading, WritesAreExclusive

----------------------------------------------------------------------------
(* Order.                                                                  *)

\* m is the message of position n: written, about to be written, or just
\* taken.
Lies(m, n) ==
    \/ mailbox[Slot(n)] = m
    \/ \E s \in Senders : Writes(s, n) /\ msg[s] = m
    \/ rpc = "free" /\ n = Oldest /\ result = m

Unplaced == {"load", "poll", "reserve", "loc"}

\* A sender hands in one message at a time, ...
OneAtATime ==
    /\ \A s \in Senders : spc[s] # "idle" => msg[s] \in 1..given /\ from[msg[s]] = s
    /\ \A n \in InUse, m \in Messages :
          Lies(m, n) => m \in 1..given /\ m <= msg[from[m]]
                        /\ (spc[from[m]] \in Unplaced => m < msg[from[m]])

\* ... so its messages lie in order, after those that were received.
InOrder ==
    /\ \A n, o \in InUse, m, l \in Messages :
          n < o /\ Lies(m, n) /\ Lies(l, o) /\ from[m] = from[l] => m < l
    /\ \A i \in 1..Len(received), n \in InUse, m \in Messages :
          Lies(m, n) /\ from[received[i]] = from[m] => received[i] < m

Received ==
    \A i \in 1..Len(received) :
        /\ received[i] \in 1..given /\ received[i] <= msg[from[received[i]]]
        /\ spc[from[received[i]]] \in Unplaced => received[i] < msg[from[received[i]]]

Found == rpc = "clear" /\ result # NULL => mailbox[read] = result

OrderInv == OneAtATime /\ InOrder /\ Received /\ Found /\ ArriveInOrder

LEMMA OrderKept ==
    ASSUME SlotInv, OrderInv, InUse' \subseteq InUse,
           \A n \in InUse', m \in Messages : Lies(m, n)' => Lies(m, n),
           UNCHANGED <<received, from, given, msg>>,
           \A s \in Senders : /\ spc'[s] \in Unplaced => spc[s] \in Unplaced
                              /\ spc'[s] # "idle" => spc[s] # "idle",
           Found'
    PROVE  OrderInv'
<1>1. TypeOK
  BY DEF SlotInv, CountInv
<1>2. \A m \in 1..given : from[m] \in Senders
  BY <1>1 DEF TypeOK
<1>3. OneAtATime'
  BY <1>2 DEF OrderInv, OneAtATime
<1>4. InOrder'
  BY DEF OrderInv, InOrder
<1>5. Received'
  BY <1>2 DEF OrderInv, Received
<1> QED
  BY <1>3, <1>4, <1>5 DEF OrderInv, ArriveInOrder

LEMMA SendOrder ==
    ASSUME SlotInv, OrderInv, NEW s \in Senders, Send(s) PROVE OrderInv'
<1> USE DEF receiverVars
<1>1. TypeOK /\ spc[s] = "idle"
  BY DEF SlotInv, CountInv, Send
<1>2. /\ given \in Nat /\ given' = given + 1
      /\ \A t \in Senders : spc'[t] = IF t = s THEN "load" ELSE spc[t]
      /\ \A t \in Senders : msg'[t] = IF t = s THEN given + 1 ELSE msg[t]
      /\ UNCHANGED <<loc, mailbox, start, write_loc, rpc, read, result, received>>
  BY <1>1 DEF TypeOK, Send, SGoto
<1>3. from'[given + 1] = s /\ \A m \in 1..given : from'[m] = from[m] /\ from[m] \in Senders
  <2>1. from \in [1..given -> Senders] /\ given \in Nat
    BY <1>1, <1>2 DEF TypeOK
  <2>2. from \in Seq(Senders) /\ Len(from) = given
    BY <2>1
  <2> QED
    BY <2>2 DEF Send
<1>4. Oldest' = Oldest /\ InUse' = InUse
  BY <1>2 DEF Oldest, Held, InUse
<1>5. \A n \in InUse, m \in Messages : Lies(m, n)' => Lies(m, n)
  BY <1>1, <1>2, <1>4 DEF Lies, Writes
<1>6. given + 1 \in 1..(given + 1) /\ \A m \in 1..given : m \in 1..(given + 1) /\ m < given + 1
  BY <1>2
<1>7. OneAtATime'
  <2>1. ASSUME NEW t \in Senders, spc'[t] # "idle"
        PROVE  msg'[t] \in 1..given' /\ from'[msg'[t]] = t
    <3>1. CASE t = s
      BY <1>2, <1>3, <1>6, <3>1
    <3>2. CASE t # s
      BY <1>2, <1>3, <1>6, <2>1, <3>2 DEF OrderInv, OneAtATime
    <3> QED
      BY <3>1, <3>2
  <2>2. ASSUME NEW n \in InUse, NEW m \in Messages, Lies(m, n)'
        PROVE  m \in 1..given' /\ m <= msg'[from'[m]]
               /\ (spc'[from'[m]] \in Unplaced => m < msg'[from'[m]])
    <3>1. /\ m \in 1..given /\ m <= msg[from[m]]
          /\ (spc[from[m]] \in Unplaced => m < msg[from[m]])
      BY <1>5, <2>2 DEF OrderInv, OneAtATime
    <3>2. from'[m] = from[m] /\ from[m] \in Senders /\ m \in 1..(given + 1) /\ m < given + 1
      BY <1>3, <1>6, <3>1
    <3>3. CASE from[m] = s
      BY <1>2, <3>2, <3>3
    <3>4. CASE from[m] # s
      BY <1>2, <3>1, <3>2, <3>4
    <3> QED
      BY <3>3, <3>4
  <2> QED
    BY <1>4, <2>1, <2>2 DEF OneAtATime
<1>8. Received'
  <2> SUFFICES ASSUME NEW i \in 1..Len(received)
               PROVE  /\ received[i] \in 1..given' /\ received[i] <= msg'[from'[received[i]]]
                      /\ spc'[from'[received[i]]] \in Unplaced =>
                            received[i] < msg'[from'[received[i]]]
    BY <1>2 DEF Received
  <2> DEFINE m == received[i]
  <2>1. /\ m \in 1..given /\ m <= msg[from[m]]
        /\ (spc[from[m]] \in Unplaced => m < msg[from[m]])
    BY DEF OrderInv, Received
  <2> HIDE DEF m
  <2>2. from'[m] = from[m] /\ from[m] \in Senders /\ m \in 1..(given + 1) /\ m < given + 1
    BY <1>3, <1>6, <2>1
  <2>3. /\ m \in 1..given' /\ m <= msg'[from'[m]]
        /\ (spc'[from'[m]] \in Unplaced => m < msg'[from'[m]])
    <3>1. CASE from[m] = s
      BY <1>2, <2>2, <3>1
    <3>2. CASE from[m] # s
      BY <1>2, <2>1, <2>2, <3>2
    <3> QED
      BY <3>1, <3>2
  <2> QED
    BY <2>3 DEF m
<1>9. /\ \A i \in 1..Len(received) : from'[received[i]] = from[received[i]]
      /\ \A n \in InUse, m \in Messages : Lies(m, n) => from'[m] = from[m]
  BY <1>3 DEF OrderInv, OneAtATime, Received
<1>10. InOrder'
  BY <1>2, <1>4, <1>5, <1>9 DEF OrderInv, InOrder
<1>11. ArriveInOrder'
  <2>1. DOMAIN received = 1..Len(received)
    BY <1>1 DEF TypeOK
  <2> QED
    BY <1>2, <1>9, <2>1 DEF OrderInv, ArriveInOrder
<1>12. Found'
  BY <1>2 DEF OrderInv, Found
<1> QED
  BY <1>7, <1>8, <1>10, <1>11, <1>12 DEF OrderInv

LEMMA TakeLocOrder ==
    ASSUME SlotInv, OrderInv, NEW s \in Senders, TakeLoc(s) PROVE OrderInv'
<1> USE DEF receiverVars
<1>1. CountInv /\ TypeOK /\ spc[s] = "loc"
  BY DEF SlotInv, CountInv, TakeLoc
<1>2. /\ \A t \in Senders : spc'[t] = IF t = s THEN "write" ELSE spc[t]
      /\ \A t \in Senders : loc'[t] = IF t = s THEN Slot(write_loc) ELSE loc[t]
      /\ write_loc' = write_loc + 1
      /\ UNCHANGED <<msg, given, from, mailbox, start, rpc, read, result, received>>
  BY <1>1 DEF TakeLoc, SGoto, TypeOK, Slot
<1>3. /\ write_loc \in Nat /\ Oldest \in Int /\ write_loc - Oldest < Capacity
      /\ Held => Oldest < write_loc
  BY <1>1, Room DEF TypeOK, Oldest
<1>4. \A n \in InUse : Slot(n) # Slot(write_loc) /\ n < write_loc
  BY <1>3, SlotsDiffer DEF InUse
<1>5. Oldest' = Oldest /\ InUse' = InUse \cup {write_loc}
  <2>1. Oldest' = Oldest
    BY <1>2 DEF Oldest, Held
  <2>2. Oldest <= write_loc
    BY <1>1, <1>3, Room DEF TypeOK, Oldest
  <2> QED
    BY <1>2, <1>3, <2>1, <2>2 DEF InUse
<1>6. \A n \in InUse, m \in Messages : Lies(m, n)' => Lies(m, n)
  BY <1>2, <1>4, <1>5 DEF Lies, Writes
<1>7. ASSUME NEW n \in Int, n = write_loc, NEW m \in Messages, Lies(m, n)'
      PROVE  m = msg[s]
  <2>1. Slot(n) \in Slots
    BY DEF Slots, Slot
  <2>2. mailbox[Slot(n)] # m
    <3>1. mailbox[Slot(n)] = NULL
      BY <1>4, <1>7, <2>1 DEF SlotInv, Confined
    <3> QED
      BY <3>1 DEF Messages, NULL
  <2>3. \A t \in Senders \ {s} : ~(spc[t] = "write" /\ loc[t] = Slot(n))
    BY <1>4, <1>7 DEF SlotInv, Confined, Writes
  <2>4. rpc = "free" => Oldest # n
    BY <1>3, <1>7 DEF Held
  <2>5. \/ mailbox'[Slot(n)] = m
        \/ \E t \in Senders : spc'[t] = "write" /\ loc'[t] = Slot(n) /\ msg'[t] = m
        \/ rpc' = "free" /\ n = Oldest'
    BY <1>7 DEF Lies, Writes
  <2>6. PICK t \in Senders : spc'[t] = "write" /\ loc'[t] = Slot(n) /\ msg'[t] = m
    BY <1>2, <1>5, <2>2, <2>4, <2>5
  <2>7. t = s
    BY <1>2, <2>3, <2>6
  <2> QED
    BY <1>2, <2>6, <2>7
<1>8. /\ msg[s] \in 1..given /\ from[msg[s]] = s
      /\ \A n \in InUse, m \in Messages : Lies(m, n) /\ from[m] = s => m < msg[s]
      /\ \A i \in 1..Len(received) : from[received[i]] = s => received[i] < msg[s]
  BY <1>1 DEF OrderInv, OneAtATime, Received, Unplaced
<1>9. OneAtATime'
  <2>1. \A t \in Senders : spc'[t] # "idle" => msg'[t] \in 1..given' /\ from'[msg'[t]] = t
    BY <1>1, <1>2 DEF OrderInv, OneAtATime
  <2>2. ASSUME NEW n \in InUse', NEW m \in Messages, Lies(m, n)'
        PROVE  m \in 1..given' /\ m <= msg'[from'[m]]
               /\ (spc'[from'[m]] \in Unplaced => m < msg'[from'[m]])
    <3>1. CASE n \in InUse
      <4>1. /\ m \in 1..given /\ m <= msg[from[m]]
            /\ (spc[from[m]] \in Unplaced => m < msg[from[m]])
        BY <1>6, <2>2, <3>1 DEF OrderInv, OneAtATime
      <4>2. from[m] \in Senders
        BY <1>1, <4>1 DEF TypeOK
      <4> QED
        BY <1>2, <4>1, <4>2 DEF Unplaced
    <3>2. CASE n = write_loc
      <4>1. m = msg[s]
        BY <1>3, <1>7, <2>2, <3>2
      <4>2. m \in Nat
        BY DEF Messages
      <4> QED
        BY <1>2, <1>8, <4>1, <4>2 DEF Unplaced
    <3> QED
      BY <1>5, <3>1, <3>2
  <2> QED
    BY <2>1, <2>2 DEF OneAtATime
<1>10. InOrder'
  <2>1. ASSUME NEW n \in InUse', NEW o \in InUse', NEW m \in Messages, NEW l \in Messages,
               n < o, Lies(m, n)', Lies(l, o)', from[m] = from[l]
        PROVE  m < l
    <3>1. n \in InUse
      <4>1. n \in Int /\ o \in Int /\ o <= write_loc /\ n # write_loc
        <5>1. o \in InUse \/ o = write_loc
          BY <1>5
        <5>2. n \in Int /\ o \in Int /\ o <= write_loc
          BY <1>3, <1>5, <5>1 DEF InUse
        <5> QED
          BY <1>3, <2>1, <5>2
      <4> QED
        BY <1>5, <4>1
    <3>2. Lies(m, n)
      BY <1>6, <2>1, <3>1
    <3>3. CASE o \in InUse
      BY <1>6, <2>1, <3>1, <3>2, <3>3 DEF OrderInv, InOrder
    <3>4. CASE o = write_loc
      <4>1. l = msg[s] /\ from[m] = s
        BY <1>3, <1>7, <1>8, <2>1, <3>4
      <4> QED
        BY <1>8, <3>1, <3>2, <4>1
    <3> QED
      BY <1>5, <3>3, <3>4
  <2>2. ASSUME NEW i \in 1..Len(received), NEW n \in InUse', NEW m \in Messages,
               Lies(m, n)', from[received[i]] = from[m]
        PROVE  received[i] < m
    <3>1. CASE n \in InUse
      BY <1>6, <2>2, <3>1 DEF OrderInv, InOrder
    <3>2. CASE n = write_loc
      <4>1. m = msg[s] /\ from[received[i]] = s
        BY <1>3, <1>7, <1>8, <2>2, <3>2
      <4> QED
        BY <1>8, <4>1
    <3> QED
      BY <1>5, <3>1, <3>2
  <2> QED
    BY <1>2, <2>1, <2>2 DEF InOrder
<1>11. Received'
  <2>1. \A i \in 1..Len(received) : from[received[i]] \in Senders
    BY <1>1 DEF OrderInv, Received, TypeOK
  <2> QED
    BY <1>2, <2>1 DEF OrderInv, Received, Unplaced
<1> QED
  BY <1>2, <1>9, <1>10, <1>11 DEF OrderInv, ArriveInOrder, Found

LEMMA SenderOrder ==
    ASSUME SlotInv, OrderInv, NEW s \in Senders, Send(s) \/ Insert(s) PROVE OrderInv'
<1> USE DEF receiverVars
<1>1. TypeOK
  BY DEF SlotInv, CountInv
<1>2. CASE Send(s)
  BY <1>2, SendOrder
<1>3. CASE TakeLoc(s)
  BY <1>3, TakeLocOrder
<1>4. CASE Write(s)
  <2>1. /\ \A t \in Senders : spc'[t] = IF t = s THEN "ready" ELSE spc[t]
        /\ \A i \in Slots : mailbox'[i] = IF i = loc[s] THEN msg[s] ELSE mailbox[i]
        /\ UNCHANGED <<msg, given, from, loc, start, write_loc, rpc, read, result, received>>
        /\ spc[s] = "write"
    BY <1>1, <1>4 DEF Write, SGoto, TypeOK
  <2>2. Oldest' = Oldest /\ InUse' = InUse
    BY <2>1 DEF Oldest, Held, InUse
  <2>3. \A n \in InUse : Slot(n) \in Slots
    BY <1>1 DEF InUse, Slot, Slots
  <2>4. \A n \in InUse, m \in Messages : Lies(m, n)' => Lies(m, n)
    BY <2>1, <2>2, <2>3 DEF Lies, Writes
  <2>5. Found'
    <3>1. read \in Slots /\ (rpc = "clear" /\ result # NULL => loc[s] # read)
      BY <1>1, <2>1 DEF TypeOK, SlotInv, Reading
    <3> QED
      BY <2>1, <3>1 DEF OrderInv, Found
  <2> QED
    BY <2>1, <2>2, <2>4, <2>5, OrderKept DEF Unplaced
<1>5. CASE LoadReserved(s) \/ HasSpacePoll(s) \/ Reserve(s) \/ MarkReady(s)
  <2>1. /\ UNCHANGED <<msg, given, from, loc, mailbox, start, write_loc, rpc, read, result,
                       received>>
        /\ \A t \in Senders : spc'[t] \in Unplaced => spc[t] \in Unplaced
        /\ \A t \in Senders : spc'[t] # "idle" => spc[t] # "idle"
        /\ \A t \in Senders : spc'[t] = "write" <=> spc[t] = "write"
    BY <1>1, <1>5 DEF TypeOK, SGoto, LoadReserved, HasSpacePoll, Reserve, MarkReady, Unplaced
  <2>2. Oldest' = Oldest /\ InUse' = InUse
    BY <2>1 DEF Oldest, Held, InUse
  <2>3. \A n \in InUse, m \in Messages : Lies(m, n)' => Lies(m, n)
    BY <2>1, <2>2 DEF Lies, Writes
  <2>4. Found'
    BY <2>1 DEF OrderInv, Found
  <2> QED
    BY <2>1, <2>2, <2>3, <2>4, OrderKept
<1> QED
  BY <1>2, <1>3, <1>4, <1>5 DEF Insert

LEMMA RecvOrder ==
    ASSUME ~NDEBUG, SlotInv, OrderInv, Recv PROVE OrderInv'
<1> USE DEF senderVars
<1>1. CountInv /\ TypeOK
  BY DEF SlotInv, CountInv
<1>2. start \in Nat /\ write_loc \in Nat /\ read \in Slots
  BY <1>1 DEF TypeOK
<1>3. UNCHANGED <<spc, msg, given, from, loc, write_loc>>
  BY DEF Recv, LoadReady, HasMsgPoll, Claim, TakeStart, Take, Clear, Free
<1>4. CASE LoadReady \/ HasMsgPoll \/ Claim \/ TakeStart \/ Take
  <2>1. /\ Oldest' = Oldest /\ UNCHANGED <<mailbox, received>> /\ rpc' # "free"
        /\ rpc' = "clear" => result' = mailbox[read] /\ UNCHANGED read
    BY <1>2, <1>4 DEF Oldest, Held, LoadReady, HasMsgPoll, Claim, TakeStart, Take
  <2>2. InUse' = InUse
    BY <1>3, <2>1 DEF InUse
  <2>3. \A n \in InUse, m \in Messages : Lies(m, n)' => Lies(m, n)
    BY <1>3, <2>1 DEF Lies, Writes
  <2>4. Found'
    BY <2>1 DEF Found
  <2> QED
    BY <1>3, <2>1, <2>2, <2>3, <2>4, OrderKept
<1>5. CASE Clear
  <2>1. /\ Oldest' = Oldest /\ UNCHANGED <<read, result, received>>
        /\ rpc = "clear" /\ rpc' = IF result = NULL THEN "aborted" ELSE "free"
        /\ \A i \in Slots : mailbox'[i] = IF i = read THEN NULL ELSE mailbox[i]
    BY <1>1, <1>5 DEF Oldest, Held, Clear, TypeOK
  <2>2. InUse' = InUse
    BY <1>3, <2>1 DEF InUse
  <2>3. \A n \in InUse : Slot(n) \in Slots
    BY DEF InUse, Slot, Slots
  <2>4. result # NULL => mailbox[Slot(Oldest)] = result
    BY <2>1 DEF OrderInv, Found, SlotInv, Reading
  <2>5. \A n \in InUse, m \in Messages : Lies(m, n)' => Lies(m, n)
    BY <1>3, <2>1, <2>3, <2>4 DEF Lies, Writes, Messages, NULL
  <2>6. Found'
    BY <2>1 DEF Found
  <2> QED
    BY <1>3, <2>1, <2>2, <2>5, <2>6, OrderKept
<1>6. CASE Free
  <2>1. rpc = "free" /\ rpc' \in {"load", "poll"} /\ UNCHANGED <<start, mailbox>>
    BY <1>6 DEF Free
  <2>2. Oldest' = Oldest + 1 /\ Oldest \in Int /\ Oldest < write_loc
    BY <1>1, <1>2, <2>1, Room DEF Oldest, Held
  <2>3. InUse' = InUse \ {Oldest} /\ Oldest \in InUse /\ \A n \in InUse' : Oldest < n
    BY <1>2, <1>3, <2>2 DEF InUse
  <2>4. result \in Messages /\ Lies(result, Oldest)
    BY <1>1, <2>1 DEF SlotInv, Reading, TypeOK, Lies
  <2>5. \A n \in InUse', m \in Messages : Lies(m, n)' => Lies(m, n)
    BY <1>3, <2>1 DEF Lies, Writes
  <2>6. /\ received \in Seq(Messages) /\ Len(received') = Len(received) + 1
        /\ Len(received) \in Nat
        /\ \A i \in 1..Len(received) : received'[i] = received[i]
        /\ received'[Len(received) + 1] = result
        /\ DOMAIN received' = 1..(Len(received) + 1) /\ DOMAIN received = 1..Len(received)
    BY <1>1, <1>6, <2>4 DEF TypeOK, Free, Messages, NULL
  <2>7. 1..(Len(received) + 1) = 1..Len(received) \cup {Len(received) + 1}
    BY <2>6
  <2>8. OneAtATime'
    BY <1>3, <2>3, <2>5 DEF OrderInv, OneAtATime
  <2>9. InOrder'
    <3>1. ASSUME NEW i \in 1..Len(received'), NEW n \in InUse', NEW m \in Messages,
                 Lies(m, n)', from[received'[i]] = from[m]
          PROVE  received'[i] < m
      <4>1. CASE i \in 1..Len(received)
        BY <2>3, <2>5, <2>6, <3>1, <4>1 DEF OrderInv, InOrder
      <4>2. CASE i = Len(received) + 1
        <5>1. Lies(m, n) /\ n \in InUse /\ Oldest < n
          BY <2>3, <2>5, <3>1
        <5> QED
          BY <2>3, <2>4, <2>6, <3>1, <4>2, <5>1 DEF OrderInv, InOrder
      <4> QED
        BY <2>6, <2>7, <4>1, <4>2
    <3>2. \A n, o \in InUse', m, l \in Messages :
             n < o /\ Lies(m, n)' /\ Lies(l, o)' /\ from[m] = from[l] => m < l
      BY <2>3, <2>5 DEF OrderInv, InOrder
    <3> QED
      BY <1>3, <3>1, <3>2 DEF InOrder
  <2>10. Received'
    <3>1. /\ result \in 1..given /\ result <= msg[from[result]]
          /\ (spc[from[result]] \in Unplaced => result < msg[from[result]])
      BY <2>3, <2>4 DEF OrderInv, OneAtATime
    <3> QED
      BY <1>3, <2>6, <2>7, <3>1 DEF OrderInv, Received
  <2>11. ArriveInOrder'
    <3>1. ASSUME NEW i \in 1..(Len(received) + 1), NEW j \in 1..(Len(received) + 1),
                 i < j, from[received'[i]] = from[received'[j]]
          PROVE  received'[i] < received'[j]
      <4>1. i \in 1..Len(received)
        BY <2>6, <3>1
      <4>2. CASE j \in 1..Len(received)
        BY <2>6, <3>1, <4>1, <4>2 DEF OrderInv, ArriveInOrder
      <4>3. CASE j = Len(received) + 1
        BY <2>3, <2>4, <2>6, <3>1, <4>1, <4>3 DEF OrderInv, InOrder
      <4> QED
        BY <2>7, <4>2, <4>3
    <3> QED
      BY <1>3, <2>6, <3>1 DEF ArriveInOrder
  <2>12. Found'
    BY <2>1 DEF Found
  <2> QED
    BY <2>8, <2>9, <2>10, <2>11, <2>12 DEF OrderInv
<1> QED
  BY <1>4, <1>5, <1>6 DEF Recv

LEMMA NextOrder == ASSUME ~NDEBUG, SlotInv, OrderInv, [Next]_vars PROVE OrderInv'
<1>1. CASE UNCHANGED vars
  <2>1. UNCHANGED <<msg, given, from, spc, loc, mailbox, start, write_loc, rpc, read, result,
                    received>>
    BY <1>1 DEF vars, senderVars, receiverVars
  <2>2. Oldest' = Oldest /\ InUse' = InUse
    BY <2>1 DEF Oldest, Held, InUse
  <2>3. \A n \in InUse, m \in Messages : Lies(m, n)' => Lies(m, n)
    BY <2>1, <2>2 DEF Lies, Writes
  <2>4. Found'
    BY <2>1 DEF OrderInv, Found
  <2> QED
    BY <2>1, <2>2, <2>3, <2>4, OrderKept
<1> QED
  BY <1>1, RecvOrder, SenderOrder DEF Next

LEMMA InitOrder == Init => OrderInv
<1> SUFFICES ASSUME Init PROVE OrderInv
  OBVIOUS
<1>1. InUse = {} /\ received = <<>> /\ Len(received) = 0
  BY DEF Init, InUse, Oldest, Held
<1> QED
  BY <1>1 DEF Init, OrderInv, OneAtATime, InOrder, Received, Found, ArriveInOrder

----------------------------------------------------------------------------
(* The theorems.                                                           *)

\* The mailbox keeps its types: neither counter leaves 0..mailbox_capacity,
\* whatever order the steps of the senders and of the actor come in.
THEOREM TypeCorrectness == Spec => []TypeOK
<1>1. CountInv => TypeOK
  BY DEF CountInv
<1> QED
  BY <1>1, InitCounts, NextCounts, PTL DEF Spec

\* With the assertion compiled in, no two senders are about to write into one
\* slot, and none into a slot whose message has not been taken.
THEOREM SendersDoNotOverwrite ==
    ASSUME ~NDEBUG PROVE Spec => []WritesAreExclusive
<1>1. SlotInv => WritesAreExclusive
  BY DEF SlotInv
<1>2. SlotInv /\ [Next]_vars => SlotInv'
  BY NextSlots
<1> QED
  BY <1>1, <1>2, InitSlots, PTL DEF Spec

\* With the assertion compiled in, the messages of each sender arrive in the
\* order in which it sent them, none twice.
THEOREM MessagesArriveInOrder ==
    ASSUME ~NDEBUG PROVE Spec => []ArriveInOrder
<1>1. OrderInv => ArriveInOrder
  BY DEF OrderInv
<1>2. SlotInv /\ OrderInv /\ [Next]_vars => SlotInv' /\ OrderInv'
  BY NextSlots, NextOrder
<1>3. Init => SlotInv /\ OrderInv
  BY InitSlots, InitOrder
<1> QED
  BY <1>1, <1>2, <1>3, PTL DEF Spec

=============================================================================
