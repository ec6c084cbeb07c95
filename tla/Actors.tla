------------------------------- MODULE Actors -------------------------------
(***************************************************************************)
(* The mailbox of an actor (src/utils/actors.c): actor_send by any number  *)
(* of tasks, actor_recv by the actor itself.  The tasks run on the workers *)
(* of the scheduler, so a step is one access to the mailbox; between two   *)
(* attempts a task is parked by scheff_poll until its condition is seen to *)
(* hold.  Messages are numbered as they are handed to actor_send.          *)
(***************************************************************************)
EXTENDS Integers, Sequences

CONSTANTS
    Senders,
    Capacity,   \* mailbox_capacity
    NDEBUG,     \* whether assert(result) is compiled out
    MaxSend     \* bound: messages handed in

ASSUME ActorsAssumption ==
    /\ Capacity \in Nat \ {0}
    /\ NDEBUG \in BOOLEAN
    /\ MaxSend \in Nat

NULL     == 0
Slots    == 0..(Capacity - 1)
Messages == 1..MaxSend

VARIABLES
    spc,        \* sender -> the next step of its actor_send
    msg,        \* sender -> msg
    sold,       \* sender -> old_size of actor_insert_msg
    loc,        \* sender -> loc
    rpc,        \* the next step of actor_recv
    rold,       \* old_size of actor_remove_msg
    read,       \* read
    result,     \* result
    mailbox, start, write_loc, reserved_size, ready_size,
    given,      \* messages handed in so far
    from,       \* message -> who sent it
    received    \* what actor_recv has returned, in order

senderVars   == <<spc, msg, sold, loc, given, from>>
receiverVars == <<rpc, rold, read, result, received>>
vars == <<senderVars, receiverVars, mailbox, start, write_loc, reserved_size,
          ready_size>>

TypeOK ==
    /\ spc \in [Senders -> {"idle", "load", "poll", "reserve", "loc", "write",
                            "ready"}]
    /\ msg \in [Senders -> Messages \cup {NULL}]
    /\ sold \in [Senders -> 0..Capacity]
    /\ loc \in [Senders -> Slots]
    /\ rpc \in {"load", "poll", "claim", "start", "take", "clear", "free",
                "aborted"}
    /\ rold \in 0..Capacity
    /\ read \in Slots
    /\ result \in Messages \cup {NULL}
    /\ mailbox \in [Slots -> Messages \cup {NULL}]
    /\ start \in Nat
    /\ write_loc \in Nat
    /\ reserved_size \in 0..Capacity
    /\ ready_size \in 0..Capacity
    /\ given \in 0..MaxSend
    /\ from \in [1..given -> Senders]
    /\ received \in Seq(Messages)

\* actor_init
Init ==
    /\ spc  = [s \in Senders |-> "idle"]
    /\ msg  = [s \in Senders |-> NULL]
    /\ sold = [s \in Senders |-> 0]
    /\ loc  = [s \in Senders |-> 0]
    /\ rpc  = "load"
    /\ rold = 0
    /\ read = 0
    /\ result = NULL
    /\ mailbox = [i \in Slots |-> NULL]
    /\ start = 0
    /\ write_loc = 0
    /\ reserved_size = 0
    /\ ready_size = 0
    /\ given = 0
    /\ from = <<>>
    /\ received = <<>>

----------------------------------------------------------------------------
(* actor_send and actor_insert_msg                                         *)

SGoto(s, label) == spc' = [spc EXCEPT ![s] = label]

Send(s) ==
    /\ spc[s] = "idle"
    /\ given < MaxSend
    /\ given' = given + 1
    /\ msg'   = [msg EXCEPT ![s] = given']
    /\ from'  = Append(from, s)
    /\ SGoto(s, "load")
    /\ UNCHANGED <<sold, loc, receiverVars, mailbox, start, write_loc,
                   reserved_size, ready_size>>

\* Mutation: a full mailbox is taken for one with a place left.
LoadReservedLate(s) ==
    /\ spc[s] = "load"
    /\ sold' = [sold EXCEPT ![s] = reserved_size]
    /\ SGoto(s, IF reserved_size > Capacity THEN "poll" ELSE "reserve")
    /\ UNCHANGED <<msg, loc, given, from, receiverVars, mailbox, start,
                   write_loc, reserved_size, ready_size>>

LoadReserved(s) ==
    /\ spc[s] = "load"
    /\ sold' = [sold EXCEPT ![s] = reserved_size]
    /\ SGoto(s, IF reserved_size >= Capacity THEN "poll" ELSE "reserve")
    /\ UNCHANGED <<msg, loc, given, from, receiverVars, mailbox, start,
                   write_loc, reserved_size, ready_size>>

\* actor_has_space_poll
HasSpacePoll(s) ==
    /\ spc[s] = "poll"
    /\ reserved_size < Capacity
    /\ SGoto(s, "load")
    /\ UNCHANGED <<msg, sold, loc, given, from, receiverVars, mailbox, start,
                   write_loc, reserved_size, ready_size>>

\* Mutation: a store for the compare-and-exchange.
ReserveUnchecked(s) ==
    /\ spc[s] = "reserve"
    /\ reserved_size' = sold[s] + 1
    /\ SGoto(s, "loc")
    /\ UNCHANGED <<msg, sold, loc, given, from, receiverVars, mailbox, start,
                   write_loc, ready_size>>

\* The compare-and-exchange of actor_insert_msg.
Reserve(s) ==
    /\ spc[s] = "reserve"
    /\ \/ /\ reserved_size = sold[s]
          /\ reserved_size' = sold[s] + 1
          /\ SGoto(s, "loc")
       \/ /\ reserved_size # sold[s]
          /\ UNCHANGED reserved_size
          /\ SGoto(s, "poll")
    /\ UNCHANGED <<msg, sold, loc, given, from, receiverVars, mailbox, start,
                   write_loc, ready_size>>

TakeLoc(s) ==
    /\ spc[s] = "loc"
    /\ loc' = [loc EXCEPT ![s] = write_loc % Capacity]
    /\ write_loc' = write_loc + 1
    /\ SGoto(s, "write")
    /\ UNCHANGED <<msg, sold, given, from, receiverVars, mailbox, start,
                   reserved_size, ready_size>>

Write(s) ==
    /\ spc[s] = "write"
    /\ mailbox' = [mailbox EXCEPT ![loc[s]] = msg[s]]
    /\ SGoto(s, "ready")
    /\ UNCHANGED <<msg, sold, loc, given, from, receiverVars, start, write_loc,
                   reserved_size, ready_size>>

MarkReady(s) ==
    /\ spc[s] = "ready"
    /\ ready_size' = ready_size + 1
    /\ SGoto(s, "idle")
    /\ UNCHANGED <<msg, sold, loc, given, from, receiverVars, mailbox, start,
                   write_loc, reserved_size>>

----------------------------------------------------------------------------
(* actor_recv and actor_remove_msg                                         *)

LoadReady ==
    /\ rpc = "load"
    /\ rold' = ready_size
    /\ rpc' = IF ready_size <= 0 THEN "poll" ELSE "claim"
    /\ UNCHANGED <<senderVars, read, result, received, mailbox, start,
                   write_loc, reserved_size, ready_size>>

\* actor_has_msg_poll
HasMsgPoll ==
    /\ rpc = "poll"
    /\ ready_size > 0
    /\ rpc' = "load"
    /\ UNCHANGED <<senderVars, rold, read, result, received, mailbox, start,
                   write_loc, reserved_size, ready_size>>

\* Mutation: a store for the compare-and-exchange, since nobody else removes.
ClaimUnchecked ==
    /\ rpc = "claim"
    /\ ready_size' = rold - 1
    /\ rpc' = "start"
    /\ UNCHANGED <<senderVars, rold, read, result, received, mailbox, start,
                   write_loc, reserved_size>>

\* The compare-and-exchange of actor_remove_msg.
Claim ==
    /\ rpc = "claim"
    /\ \/ ready_size = rold /\ ready_size' = rold - 1 /\ rpc' = "start"
       \/ ready_size # rold /\ UNCHANGED ready_size /\ rpc' = "poll"
    /\ UNCHANGED <<senderVars, rold, read, result, received, mailbox, start,
                   write_loc, reserved_size>>

TakeStart ==
    /\ rpc = "start"
    /\ read' = start % Capacity
    /\ start' = start + 1
    /\ rpc' = "take"
    /\ UNCHANGED <<senderVars, rold, result, received, mailbox, write_loc,
                   reserved_size, ready_size>>

Take ==
    /\ rpc = "take"
    /\ result' = mailbox[read]
    /\ rpc' = "clear"
    /\ UNCHANGED <<senderVars, rold, read, received, mailbox, start, write_loc,
                   reserved_size, ready_size>>

\* The slot is cleared, then the assertion decides.
Clear ==
    /\ rpc = "clear"
    /\ mailbox' = [mailbox EXCEPT ![read] = NULL]
    /\ rpc' = IF result = NULL /\ ~NDEBUG THEN "aborted" ELSE "free"
    /\ UNCHANGED <<senderVars, rold, read, result, received, start, write_loc,
                   reserved_size, ready_size>>

\* The place is given back; a NULL result sends actor_recv to the poll.
Free ==
    /\ rpc = "free"
    /\ reserved_size' = reserved_size - 1
    /\ received' = IF result = NULL THEN received ELSE Append(received, result)
    /\ rpc' = IF result = NULL THEN "poll" ELSE "load"
    /\ UNCHANGED <<senderVars, rold, read, result, mailbox, start, write_loc,
                   ready_size>>

----------------------------------------------------------------------------
Insert(s) ==
    LoadReserved(s) \/ HasSpacePoll(s) \/ Reserve(s) \/ TakeLoc(s) \/ Write(s)
    \/ MarkReady(s)

Recv ==
    LoadReady \/ HasMsgPoll \/ Claim \/ TakeStart \/ Take \/ Clear \/ Free

\* abort() ends every thread.
Next == rpc # "aborted" /\ (Recv \/ \E s \in Senders : Send(s) \/ Insert(s))

Spec == Init /\ [][Next]_vars

\* The scheduler polls a parked task again and again and goes on running one
\* that is not parked.
FairSpec == Spec /\ WF_vars(Recv) /\ \A s \in Senders : WF_vars(Insert(s))

----------------------------------------------------------------------------
(* Properties.                                                             *)

\* assert(result) in actor_remove_msg: ready_size counts "elements ready to be
\* read", so the slot the actor claims holds a message.
TakesAMessage == rpc = "clear" => result # NULL

\* However the senders' reservations, their writes and the actor's removals
\* interleave around the ring, a sender writes only into a slot that is empty
\* and that no other sender is about to write.
WritesAreExclusive ==
    \A s \in Senders : spc[s] = "write" =>
        /\ mailbox[loc[s]] = NULL
        /\ \A t \in Senders : spc[t] = "write" /\ loc[t] = loc[s] => t = s

\* The messages of a sender arrive in the order in which it sends them, each at
\* most once, whatever the other senders do.
ArriveInOrder ==
    \A i, j \in DOMAIN received :
        i < j /\ from[received[i]] = from[received[j]]
            => received[i] < received[j]

\* Every message arrives, as long as the actor keeps receiving and the assertion
\* does not end the process.
EverythingArrives ==
    \A m \in Messages :
        m <= given ~> \/ \E i \in DOMAIN received : received[i] = m
                      \/ rpc = "aborted"
=============================================================================
