----------------------------- MODULE Chameneos -----------------------------
(***************************************************************************)
(* The chameneos benchmark (src/bench/chameneos_bench): creatures ask a    *)
(* broker for a mate and change colour when they meet.                     *)
(*                                                                         *)
(* In "actors", creatures and broker are actors: chameneos_actor.c, and    *)
(* chameneos_effect_actors.c, where a creature is a coroutine that         *)
(* performs meet and an actor around it talks to the broker.  A step of a  *)
(* creature stands for the same step of both.  In "direct" main handles    *)
(* meet itself.  The actors run on one thread, so sending and receiving    *)
(* are single steps on a bounded FIFO (module Actors has the mailbox       *)
(* itself); the order in which the scheduler runs them is left open.       *)
(***************************************************************************)
EXTENDS Integers, Sequences, FiniteSets

CONSTANTS
    Crowds,     \* the creatures' colours, by creature: 0..2 are Blue, Red, Yellow
    Meetings,   \* 600 in the code
    Capacity    \* DEFAULT_MAILBOX_CAPACITY, 128 in the code

ChameneosAssumption ==
    /\ \A crowd \in Crowds : crowd \in Seq(0..2) /\ Len(crowd) >= 2
    /\ Meetings \in Nat
    /\ Capacity \in Nat \ {0}

VARIABLES
    style,      \* "actors" or "direct"
    crowd,
    cpc,        \* creature -> where it is
    col, met, self_met,     \* creature -> self_col, meetings, self_meetings
    box,        \* creature -> its mailbox
    bpc,        \* where the broker, or main in "direct", is
    i,          \* its loop counter
    asked,      \* first and second, or reqs[a] and reqs[b]
    bbox,       \* the broker's mailbox
    remaining, total_meetings

creatureVars == <<cpc, col, met, self_met, box>>
brokerVars == <<bpc, i, asked, bbox, remaining, total_meetings>>
vars == <<style, crowd, creatureVars, brokerVars>>

Creatures == DOMAIN crowd
N == Len(crowd)

Message ==
    [finish : {FALSE}, who : Creatures, col : 0..2, count : {0}]
    \cup [finish : {TRUE}, who : Creatures, col : {0}, count : Nat]

TypeOK ==
    /\ cpc \in [Creatures -> {"none", "info", "ask", "mate", "final", "end"}]
    /\ col \in [Creatures -> 0..2]
    /\ met \in [Creatures -> Nat] /\ self_met \in [Creatures -> Nat]
    /\ \A c \in Creatures : Len(box[c]) <= Capacity
    /\ bpc \in {"fork", "info", "first", "second", "reply1", "reply2",
                "finalize", "wait", "done"}
    /\ i \in 0..(Meetings + N)
    /\ asked \in Seq(Message) /\ bbox \in Seq(Message)
    /\ Len(asked) <= 2 /\ Len(bbox) <= Capacity
    /\ remaining \in 0..N /\ total_meetings \in Nat

Init ==
    /\ style \in {"actors", "direct"}
    /\ crowd \in Crowds
    /\ cpc = [c \in Creatures |-> "none"]
    /\ col = crowd
    /\ met = [c \in Creatures |-> 0] /\ self_met = [c \in Creatures |-> 0]
    /\ box = [c \in Creatures |-> <<>>]
    /\ bpc = "fork" /\ i = 0 /\ asked = <<>> /\ bbox = <<>>
    /\ remaining = N /\ total_meetings = 0

\* Mutation: the colours of the two, instead of the one that is missing.
ComplementMissing(a, b) == IF a = b THEN a ELSE a + b

\* Blue, Red and Yellow are 0, 1 and 2: for two different colours the bits of
\* a | b are those of a + b, and 3 ^ x is 3 - x.
Complement(a, b) == IF a = b THEN a ELSE 3 - (a + b)

Info == [kind |-> "info"]
Mate(m) == [kind |-> "mate", who |-> m.who, col |-> m.col]
End == [kind |-> "end"]

MeetRequest(c) == [finish |-> FALSE, who |-> c, col |-> col[c], count |-> 0]
FinalCount(c)  == [finish |-> TRUE, who |-> c, col |-> 0, count |-> met[c]]

CGoto(c, label) == cpc' = [cpc EXCEPT ![c] = label]

\* The creature's colour and counters after it met mate m.
Meets(c, m) ==
    /\ col' = [col EXCEPT ![c] = Complement(@, m.col)]
    /\ met' = [met EXCEPT ![c] = @ + 1]
    /\ self_met' = [self_met EXCEPT ![c] = IF m.who = c THEN @ + 1 ELSE @]

\* chameneos between two performs
Body(c, finish, m) ==
    IF finish THEN CGoto(c, "final") /\ UNCHANGED <<col, met, self_met>>
    ELSE CGoto(c, "ask") /\ Meets(c, m)

----------------------------------------------------------------------------
(* chameneos and chameneos_wrapper: the creatures as actors.               *)

Recv(c) ==
    /\ box[c] # <<>>
    /\ box' = [box EXCEPT ![c] = Tail(@)]

SendBroker(m) ==
    /\ Len(bbox) < Capacity
    /\ bbox' = Append(bbox, m)
    /\ UNCHANGED <<style, crowd, col, met, self_met, box, bpc, i, asked,
                   remaining, total_meetings>>

CreatureStarts(c) ==
    /\ cpc[c] = "info"
    /\ Recv(c)
    /\ CGoto(c, "ask")
    /\ UNCHANGED <<style, crowd, col, met, self_met, brokerVars>>

CreatureAsks(c) ==
    /\ style = "actors" /\ cpc[c] = "ask"
    /\ SendBroker(MeetRequest(c))
    /\ CGoto(c, "mate")

CreatureMates(c) ==
    /\ cpc[c] = "mate"
    /\ Recv(c)
    /\ Body(c, Head(box[c]) = End, Head(box[c]))
    /\ UNCHANGED <<style, crowd, brokerVars>>

CreatureFinishes(c) ==
    /\ style = "actors" /\ cpc[c] = "final"
    /\ SendBroker(FinalCount(c))
    /\ CGoto(c, "end")

----------------------------------------------------------------------------
(* broker_fn, which is the same in both.                                   *)

Keeping(others) ==
    UNCHANGED <<style, crowd, col, met, self_met, remaining, total_meetings,
                others>>

SendTo(c, m) ==
    /\ Len(box[c]) < Capacity
    /\ box' = [box EXCEPT ![c] = Append(@, m)]

BrokerForks ==
    /\ style = "actors" /\ bpc = "fork" /\ i < N
    /\ CGoto(i + 1, "info")
    /\ bpc' = "info"
    /\ Keeping(<<i, box, asked, bbox>>)

BrokerInforms ==
    /\ bpc = "info"
    /\ SendTo(i + 1, Info)
    /\ i' = i + 1
    /\ bpc' = "fork"
    /\ Keeping(<<cpc, asked, bbox>>)

BrokerStarts ==
    /\ style = "actors" /\ bpc = "fork" /\ i = N
    /\ i' = 0
    /\ bpc' = IF Meetings > 0 THEN "first" ELSE "finalize"
    /\ Keeping(<<cpc, box, asked, bbox>>)

\* "first" and "second"
BrokerRecv ==
    /\ style = "actors"
    /\ bpc \in {"first", "second"} /\ bbox # <<>>
    /\ asked' = Append(asked, Head(bbox))
    /\ bbox' = Tail(bbox)
    /\ bpc' = IF bpc = "first" THEN "second" ELSE "reply1"
    /\ Keeping(<<cpc, box, i>>)

\* first is told of second, and second of first.
Reply(n) == Mate(asked[3 - n])

MeetingsLeft == i + 1 < Meetings

BrokerReplies ==
    /\ style = "actors"
    /\ \/ /\ bpc = "reply1"
          /\ SendTo(asked[1].who, Reply(1))
          /\ bpc' = "reply2"
          /\ UNCHANGED <<i, asked>>
       \/ /\ bpc = "reply2"
          /\ SendTo(asked[2].who, Reply(2))
          /\ bpc' = IF MeetingsLeft THEN "first" ELSE "finalize"
          /\ i' = IF MeetingsLeft THEN i + 1 ELSE 0
          /\ asked' = <<>>
    /\ Keeping(<<cpc, bbox>>)

BrokerFinalizes ==
    /\ style = "actors" /\ bpc = "finalize"
    /\ SendTo(i + 1, End)
    /\ i' = i + 1
    /\ bpc' = IF i + 1 < N THEN "finalize" ELSE "wait"
    /\ Keeping(<<cpc, asked, bbox>>)

\* Requests that were still in the mailbox are dropped.
BrokerWaits ==
    /\ style = "actors" /\ bpc = "wait" /\ remaining > 0
    /\ bbox # <<>>
    /\ bbox' = Tail(bbox)
    /\ IF Head(bbox).finish
       THEN /\ remaining' = remaining - 1
            /\ total_meetings' = total_meetings + Head(bbox).count
       ELSE UNCHANGED <<remaining, total_meetings>>
    /\ UNCHANGED <<style, crowd, creatureVars, bpc, i, asked>>

BrokerReturns ==
    /\ bpc = "wait" /\ remaining = 0
    /\ bpc' = "done"
    /\ Keeping(<<cpc, box, i, asked, bbox>>)

----------------------------------------------------------------------------
(* chameneos_effect_direct.c: asked holds the two requests of a meeting    *)
(* and i the number of creatures or meetings so far.                       *)

DirectStarts ==
    /\ style = "direct" /\ bpc = "fork"
    /\ cpc' = [c \in Creatures |-> "ask"]
    /\ bpc' = IF Meetings > 0 THEN "first" ELSE "finalize"
    /\ Keeping(<<box, i, asked, bbox>>)

\* next, of the pair that comes n-th in meeting i
Next2(n) == ((2 * i + n - 1) % N) + 1

DirectReads ==
    /\ style = "direct" /\ bpc = "first"
    /\ asked' = <<MeetRequest(Next2(1)), MeetRequest(Next2(2))>>
    /\ bpc' = "reply1"
    /\ Keeping(<<cpc, box, i, bbox>>)

DirectResumes ==
    /\ style = "direct"
    /\ \/ /\ bpc = "reply1"
          /\ Body(Next2(1), FALSE, Reply(1))
          /\ bpc' = "reply2"
          /\ UNCHANGED <<i, asked>>
       \/ /\ bpc = "reply2"
          /\ Body(Next2(2), FALSE, Reply(2))
          /\ bpc' = IF MeetingsLeft THEN "first" ELSE "finalize"
          /\ i' = IF MeetingsLeft THEN i + 1 ELSE 0
          /\ asked' = <<>>
    /\ UNCHANGED <<style, crowd, box, bbox, remaining, total_meetings>>

DirectCollects ==
    /\ style = "direct" /\ bpc = "finalize" /\ remaining > 0
    /\ Body(i + 1, TRUE, End)
    /\ i' = i + 1
    /\ remaining' = remaining - 1
    /\ total_meetings' = total_meetings + met[i + 1]
    /\ bpc' = IF remaining = 1 THEN "done" ELSE "finalize"
    /\ UNCHANGED <<style, crowd, box, asked, bbox>>

Creature(c) ==
    CreatureStarts(c) \/ CreatureAsks(c) \/ CreatureMates(c)
    \/ CreatureFinishes(c)

Broker ==
    \/ BrokerForks \/ BrokerInforms \/ BrokerStarts \/ BrokerRecv
    \/ BrokerReplies \/ BrokerFinalizes \/ BrokerWaits \/ BrokerReturns
    \/ DirectStarts \/ DirectReads \/ DirectResumes \/ DirectCollects

Next == Broker \/ \E c \in Creatures : Creature(c)

Spec == Init /\ [][Next]_vars
Fairness == WF_vars(Broker) /\ WF_vars(\E c \in Creatures : Creature(c))

----------------------------------------------------------------------------
(* Properties.                                                             *)

\* assert(!first->finish) and assert(!second->finish): no creature sends its
\* final count before the meetings are over.
NoneFinishesEarly ==
    \A n \in DOMAIN asked : ~asked[n].finish

\* "this should never happen": nobody is its own mate.
NobodyMeetsItself == \A c \in Creatures : self_met[c] = 0

\* Whatever the order of the requests, every meeting counts for two creatures
\* and no message is left over that somebody would have to free.
MeetingsCountTwice ==
    bpc = "done" =>
        /\ total_meetings = 2 * Meetings
        /\ bbox = <<>>
        /\ \A c \in Creatures : box[c] = <<>>
=============================================================================
