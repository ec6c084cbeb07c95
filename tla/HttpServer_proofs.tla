-------------------------- MODULE HttpServer_proofs --------------------------
(***************************************************************************)
(* Safety of the programs of MCPrograms, for any values of their constants.*)
(*                                                                         *)
(* Part 1 is the HTTP server: its descriptors and who holds them, the data *)
(* of each connection, and the types of what is left.  Part 2 is           *)
(* MultiLookup, part 3 Chameneos, part 4 the three as MCPrograms has them. *)
(***************************************************************************)
EXTENDS MCPrograms, FiniteSetTheorems, SequenceTheorems, WellFoundedInduction, TLAPS

----------------------------------------------------------------------------
(* Part 1: module HttpServer.  Descriptors.                                *)

\* Where the listener has a descriptor, and of what kind.
Opening   == {"bind", "listen"}
Accepting == {"accept", "accept_poll", "accept_again", "close"}

KindT == {"free", "foreign", "socket", "listening", "down", "conn"}

ListenerHolds ==
    IF lpc \in Opening THEN lfd \in Fds \ {Stdin} /\ kind[lfd] = "socket"
    ELSE IF lpc \in Accepting
    THEN lfd \in Fds \ {Stdin} /\ kind[lfd] \in {"listening", "down"}
    ELSE lfd = NULL

TaskHolds(fd) ==
    /\ kind[fd] # "foreign"
    /\ fd # lfd => kind[fd] \in {"free", "conn"}
    /\ kind[fd] # "conn" => pc[fd] = {}
    /\ kind[fd] = "conn" => \E label \in TaskLabels : pc[fd] = {label}

Untouched == kind[Stdin] = "foreign" /\ pc[Stdin] = {}

\* A task gets Stdin at most once, when the listener is about to end, and finds
\* nothing there.
StdinHolds ==
    /\ rx = [fd \in Fds |-> rx[fd]] /\ rx[Stdin] = <<>>
    /\ life = [fd \in Fds |-> life[fd]]
    /\ kind[Stdin] \in {"foreign", "free"}
    /\ kind[Stdin] = "free" => pc[Stdin] = {}
    /\ kind[Stdin] = "foreign" =>
          life[Stdin] = "dead" /\ pc[Stdin] \in {{}, {"recv"}, {"close"}}
    /\ Untouched \/ lpc \in {"close", "gone"} \/ (lpc = "accept" /\ kind[lfd] = "down")

DescriptorInv ==
    /\ lpc \in {"resolve", "socket", "gone"} \cup Opening \cup Accepting
    /\ kind \in [Fds -> KindT]
    /\ pc \in [Fds -> SUBSET TaskLabels]
    /\ \A fd \in Fds : kind[fd] = "down" => pending = 0
    /\ ListenerHolds
    /\ StdinHolds
    /\ \A fd \in Fds \ {Stdin} : TaskHolds(fd)

LEMMA DescriptorInit ==
    ASSUME HttpServerAssumption, Init PROVE DescriptorInv
<1>1. Stdin \in Fds
  BY DEF HttpServerAssumption
<1>2. ListenerHolds /\ \A fd \in Fds \ {Stdin} : TaskHolds(fd)
  BY DEF Init, ListenerHolds, TaskHolds, Opening, Accepting
<1>3. StdinHolds
  BY <1>1 DEF Init, StdinHolds, Untouched
<1> QED
  BY <1>2, <1>3 DEF Init, DescriptorInv, Opening, Accepting, KindT

\* Steps of the listener before it listens.
LEMMA OpeningKeeps ==
    ASSUME HttpServerAssumption, DescriptorInv,
           GetAddrInfo \/ Socket \/ Bind \/ Listen
    PROVE  DescriptorInv'
<1> USE DEF Opening, Accepting
<1>1. /\ pc' = pc /\ rx' = rx /\ life' = life /\ pending' = pending
      /\ Stdin \in Fds /\ NULL \notin Fds
  BY DEF GetAddrInfo, Socket, Bind, Listen, ListenerOnly, taskVars, kernelVars,
         HttpServerAssumption
<1>2. lpc \in {"resolve", "socket"} \cup Opening /\ Untouched
  BY DEF GetAddrInfo, Socket, Bind, Listen, DescriptorInv, StdinHolds
<1>3. \/ /\ lpc' \in {"socket", "gone"} \/ (lpc \in Opening /\ lpc' \in Opening)
         /\ UNCHANGED <<kind, lfd>>
         /\ lpc \in {"resolve", "socket"} \/ lpc' \in Opening
      \/ /\ lpc = "socket" /\ lpc' \in Opening
         /\ \E fd \in Fds : /\ kind[fd] = "free" /\ lfd' = fd
                            /\ kind' = [kind EXCEPT ![fd] = "socket"]
      \/ /\ lpc \in Opening /\ lpc' \in {"socket", "gone"}
         /\ kind' = [kind EXCEPT ![lfd] = "free"] /\ lfd' = NULL
      \/ /\ lpc \in Opening /\ lpc' = "accept"
         /\ kind' = [kind EXCEPT ![lfd] = "listening"] /\ lfd' = lfd
  BY DEF GetAddrInfo, Socket, Bind, Listen, TryAddress, Lowest
<1>4. kind' \in [Fds -> KindT] /\ kind'[Stdin] = kind[Stdin]
  BY <1>1, <1>2, <1>3 DEF DescriptorInv, ListenerHolds, KindT, Untouched
<1>5. ListenerHolds'
  BY <1>1, <1>2, <1>3 DEF DescriptorInv, ListenerHolds, Untouched
<1>6. ASSUME NEW fd \in Fds \ {Stdin} PROVE TaskHolds(fd)' /\ (kind'[fd] = "down" => kind[fd] = "down")
  BY <1>1, <1>2, <1>3 DEF DescriptorInv, ListenerHolds, TaskHolds
<1>7. StdinHolds'
  BY <1>1, <1>2, <1>4 DEF DescriptorInv, StdinHolds, Untouched
<1>8. \A fd \in Fds : kind'[fd] = "down" => pending' = 0
  BY <1>1, <1>4, <1>6 DEF DescriptorInv
<1>9. lpc' \in {"resolve", "socket", "gone"} \cup Opening \cup Accepting
  BY <1>3
<1> QED
  BY <1>1, <1>4, <1>5, <1>6, <1>7, <1>8, <1>9 DEF DescriptorInv

\* Steps of the listener later on, other than accepting a connection, and of
\* the system on its socket.
LEMMA AcceptingKeeps ==
    ASSUME HttpServerAssumption, DescriptorInv,
           AcceptFails \/ AcceptPoll \/ CloseListener \/ ListenerShut
    PROVE  DescriptorInv'
<1> USE DEF Opening, Accepting
<1>1. rx' = rx /\ life' = life /\ Stdin \in Fds /\ NULL \notin Fds
  BY DEF AcceptFails, AcceptPoll, CloseListener, ListenerShut, ListenerOnly, kernelVars,
         HttpServerAssumption
<1>2. lpc \in Accepting /\ lfd \in Fds \ {Stdin} /\ kind[lfd] \in {"listening", "down"}
  BY DEF AcceptFails, AcceptPoll, CloseListener, ListenerShut, DescriptorInv, ListenerHolds
<1>3. CASE AcceptFails \/ (AcceptPoll /\ pc' = pc)
  <2>1. /\ UNCHANGED <<lfd, kind, pending, pc>>
        /\ lpc \in {"accept", "accept_again", "accept_poll"}
        /\ \/ lpc' = "close"
           \/ kind[lfd] = "listening" /\ lpc' = "accept_poll"
           \/ lpc = "accept_poll" /\ lpc' = "accept_again"
           \/ lpc = "accept_poll" /\ kind[lfd] = "down" /\ lpc' = "accept"
    BY <1>3 DEF AcceptFails, AcceptPoll, ListenerOnly, taskVars
  <2>2. ListenerHolds'
    BY <1>2, <2>1 DEF ListenerHolds
  <2>3. StdinHolds'
    <3>1. Untouched \/ lpc' = "close" \/ (lpc' = "accept" /\ kind[lfd] = "down")
      BY <2>1 DEF DescriptorInv, StdinHolds
    <3> QED
      BY <1>1, <2>1, <3>1 DEF DescriptorInv, StdinHolds, Untouched
  <2>4. \A fd \in Fds \ {Stdin} : TaskHolds(fd)'
    BY <2>1 DEF DescriptorInv, TaskHolds
  <2> QED
    BY <2>1, <2>2, <2>3, <2>4 DEF DescriptorInv
<1>4. CASE AcceptPoll /\ pc' # pc
  <2>1. /\ UNCHANGED <<lfd, kind, pending>> /\ lpc = "accept_poll" /\ lpc' = "accept"
        /\ kind[lfd] = "down"
        /\ pc' = [pc EXCEPT ![Stdin] = @ \cup {"recv"}]
    BY <1>4 DEF AcceptPoll
  <2>2. Untouched
    BY <2>1 DEF DescriptorInv, StdinHolds
  <2>3. pc' = [pc EXCEPT ![Stdin] = {"recv"}] /\ pc' \in [Fds -> SUBSET TaskLabels]
        /\ pc'[Stdin] = {"recv"}
    BY <1>1, <2>1, <2>2 DEF DescriptorInv, Untouched, TaskLabels
  <2>4. ListenerHolds'
    BY <1>2, <2>1 DEF ListenerHolds
  <2>5. StdinHolds'
    BY <1>1, <2>1, <2>2, <2>3 DEF DescriptorInv, StdinHolds, Untouched
  <2>6. \A fd \in Fds \ {Stdin} : TaskHolds(fd)'
    BY <2>1, <2>3 DEF DescriptorInv, TaskHolds
  <2> QED
    BY <2>1, <2>3, <2>4, <2>5, <2>6 DEF DescriptorInv
<1>5. CASE CloseListener
  <2>1. /\ lpc' = "gone" /\ kind' = [kind EXCEPT ![lfd] = "free"] /\ lfd' = NULL
        /\ pending' = 0 /\ pc' = pc
    BY <1>5 DEF CloseListener, ListenerOnly, taskVars
  <2>2. kind' \in [Fds -> KindT] /\ kind'[Stdin] = kind[Stdin]
    BY <1>2, <2>1 DEF DescriptorInv, KindT
  <2>3. StdinHolds'
    BY <1>1, <2>1, <2>2 DEF DescriptorInv, StdinHolds
  <2>4. \A fd \in Fds \ {Stdin} : TaskHolds(fd)'
    BY <1>2, <2>1 DEF DescriptorInv, TaskHolds
  <2> QED
    BY <2>1, <2>2, <2>3, <2>4 DEF DescriptorInv, ListenerHolds
<1>6. CASE ListenerShut
  <2>1. /\ kind[lfd] = "listening" /\ kind' = [kind EXCEPT ![lfd] = "down"]
        /\ pending' = 0 /\ UNCHANGED <<lpc, lfd, pc>>
    BY <1>6 DEF ListenerShut, ListenerOnly, taskVars
  <2>2. kind' \in [Fds -> KindT] /\ kind'[Stdin] = kind[Stdin] /\ kind'[lfd] = "down"
    BY <1>2, <2>1 DEF DescriptorInv, KindT
  <2>3. StdinHolds'
    BY <1>1, <2>1, <2>2 DEF DescriptorInv, StdinHolds, Untouched
  <2>4. \A fd \in Fds \ {Stdin} : TaskHolds(fd)'
    BY <1>2, <2>1 DEF DescriptorInv, TaskHolds
  <2>5. ListenerHolds'
    BY <1>2, <2>1, <2>2 DEF ListenerHolds
  <2> QED
    BY <2>1, <2>2, <2>3, <2>4, <2>5 DEF DescriptorInv
<1> QED
  BY <1>3, <1>4, <1>5, <1>6

\* A task that goes from one place to another, or forks or ends, on fd.
LEMMA TaskKeeps ==
    ASSUME HttpServerAssumption, DescriptorInv, NEW fd \in Fds \ {Stdin},
           lfd' = lfd, pending = 0 => pending' = 0,
           \/ lpc' = lpc
           \/ Untouched /\ lpc \in {"accept", "accept_again"} /\ lpc' = "accept",
           rx' = [f \in Fds |-> rx'[f]], life' = [f \in Fds |-> life'[f]],
           rx'[Stdin] = rx[Stdin], life'[Stdin] = life[Stdin],
           kind[fd] \in {"free", "conn"},
           \/ /\ kind' = [kind EXCEPT ![fd] = "conn"]
              /\ \E label \in TaskLabels : pc' = [pc EXCEPT ![fd] = {label}]
           \/ /\ kind' = [kind EXCEPT ![fd] = "free"]
              /\ pc' = [pc EXCEPT ![fd] = {}]
    PROVE  DescriptorInv'
<1>1. lfd # fd
  BY DEF DescriptorInv, ListenerHolds, HttpServerAssumption, Opening, Accepting
<1>2. /\ kind' \in [Fds -> KindT] /\ pc' \in [Fds -> SUBSET TaskLabels]
      /\ \A f \in Fds \ {fd} : kind'[f] = kind[f] /\ pc'[f] = pc[f]
      /\ kind'[fd] \in {"free", "conn"} /\ Stdin \in Fds
  BY DEF DescriptorInv, KindT, HttpServerAssumption
<1>3. ListenerHolds' /\ (lfd # NULL => kind'[lfd] = kind[lfd])
  BY <1>1, <1>2 DEF DescriptorInv, ListenerHolds, Opening, Accepting
<1>4. ASSUME NEW f \in Fds \ {Stdin} PROVE TaskHolds(f)'
  BY <1>1 DEF DescriptorInv, TaskHolds
<1>5. StdinHolds'
  <2>1. kind'[Stdin] = kind[Stdin] /\ pc'[Stdin] = pc[Stdin]
    BY <1>2
  <2>2. lpc = "accept" => lfd # NULL
    BY DEF DescriptorInv, ListenerHolds, HttpServerAssumption, Opening, Accepting
  <2>3. Untouched' \/ lpc' \in {"close", "gone"} \/ (lpc' = "accept" /\ kind'[lfd'] = "down")
    BY <1>3, <2>1, <2>2 DEF DescriptorInv, StdinHolds, Untouched
  <2> QED
    BY <2>1, <2>3 DEF DescriptorInv, StdinHolds
<1>6. \A f \in Fds : kind'[f] = "down" => pending' = 0
  BY <1>2 DEF DescriptorInv
<1>7. lpc' \in {"resolve", "socket", "gone"} \cup Opening \cup Accepting
  BY DEF DescriptorInv, Accepting
<1> QED
  BY <1>2, <1>3, <1>4, <1>5, <1>6, <1>7 DEF DescriptorInv

LEMMA GotoKeeps ==
    ASSUME HttpServerAssumption, DescriptorInv, NEW fd \in Fds \ {Stdin},
           NEW from \in pc[fd], NEW to \in TaskLabels, Goto(fd, from, to),
           UNCHANGED listenerVars,
           rx' = rx \/ \E r : rx' = [rx EXCEPT ![fd] = r],
           life' = life \/ Reported(fd)
    PROVE  DescriptorInv'
<1>1. kind[fd] = "conn" /\ pc[fd] = {from}
  BY DEF DescriptorInv, TaskHolds
<1>2. pc' = [pc EXCEPT ![fd] = {to}] /\ kind' = [kind EXCEPT ![fd] = "conn"]
  BY <1>1 DEF Goto, DescriptorInv, listenerVars
<1>3. /\ rx' = [f \in Fds |-> rx'[f]] /\ life' = [f \in Fds |-> life'[f]]
      /\ rx'[Stdin] = rx[Stdin] /\ life'[Stdin] = life[Stdin]
  <2>1. /\ rx = [f \in Fds |-> rx[f]] /\ life = [f \in Fds |-> life[f]] /\ Stdin \in Fds
    BY DEF DescriptorInv, StdinHolds, HttpServerAssumption
  <2>2. rx' = [f \in Fds |-> rx'[f]] /\ rx'[Stdin] = rx[Stdin]
    BY <2>1
  <2>3. life' = [f \in Fds |-> life'[f]] /\ life'[Stdin] = life[Stdin]
    BY <2>1 DEF Reported
  <2> QED
    BY <2>2, <2>3
<1> QED
  BY <1>1, <1>2, <1>3, TaskKeeps DEF DescriptorInv, listenerVars

\* The task on Stdin finds nothing to receive and closes it.
LEMMA StdinTask ==
    ASSUME HttpServerAssumption, DescriptorInv, Connection(Stdin)
    PROVE  /\ kind[Stdin] = "foreign" /\ UNCHANGED <<lpc, lfd, address, pending>>
           /\ \/ /\ pc' = [pc EXCEPT ![Stdin] = {"close"}] /\ UNCHANGED <<life, kind>>
                 /\ UNCHANGED <<rx, room, buf, response, total, sent, answers>>
              \/ Close(Stdin) /\ pc' = [pc EXCEPT ![Stdin] = {}]
<1>1. /\ Stdin \in Fds /\ rx[Stdin] = <<>> /\ pc \in [Fds -> SUBSET TaskLabels]
      /\ life = [fd \in Fds |-> life[fd]] /\ pc[Stdin] \in {{}, {"recv"}, {"close"}}
      /\ kind[Stdin] = "free" => pc[Stdin] = {}
      /\ kind[Stdin] = "foreign" => life[Stdin] = "dead"
      /\ kind[Stdin] \in {"foreign", "free"}
  BY DEF DescriptorInv, StdinHolds, HttpServerAssumption
<1>2. \/ \E from \in pc[Stdin] : ReceiveNothing(Stdin, from) /\ from = "recv"
      \/ Close(Stdin)
  BY <1>1 DEF Connection, Receive, ReceiveNothing, Send, SendNothing, ReceivePoll, SendPoll
<1>3. CASE \E from \in pc[Stdin] : ReceiveNothing(Stdin, from) /\ from = "recv"
  <2>1. pc[Stdin] = {"recv"} /\ kind[Stdin] = "foreign" /\ life[Stdin] = "dead"
    BY <1>1, <1>3
  <2>2. pc' = [pc EXCEPT ![Stdin] = {"close"}]
    BY <1>1, <1>3, <2>1 DEF ReceiveNothing, Goto
  <2>3. life' = life
    BY <1>1, <1>3, <2>1 DEF ReceiveNothing, Reported
  <2> QED
    BY <1>3, <2>1, <2>2, <2>3 DEF ReceiveNothing, Others, listenerVars
<1>4. CASE Close(Stdin)
  <2>1. pc[Stdin] = {"close"} /\ kind[Stdin] = "foreign"
    BY <1>1, <1>4 DEF Close
  <2>2. pc' = [pc EXCEPT ![Stdin] = {}]
    BY <1>1, <1>4, <2>1 DEF Close
  <2> QED
    BY <1>4, <2>1, <2>2 DEF Close
<1> QED
  BY <1>2, <1>3, <1>4

LEMMA StdinKeeps ==
    ASSUME HttpServerAssumption, DescriptorInv, Connection(Stdin)
    PROVE  DescriptorInv'
<1>1. /\ kind[Stdin] = "foreign" /\ UNCHANGED <<lpc, lfd, address, pending>>
      /\ \/ /\ pc' = [pc EXCEPT ![Stdin] = {"close"}] /\ UNCHANGED <<life, kind>>
            /\ UNCHANGED <<rx, room, buf, response, total, sent, answers>>
         \/ Close(Stdin) /\ pc' = [pc EXCEPT ![Stdin] = {}]
      /\ Stdin \in Fds
  BY StdinTask DEF HttpServerAssumption
<1>2. /\ pc' \in [Fds -> SUBSET TaskLabels] /\ kind' \in [Fds -> KindT]
      /\ \A fd \in Fds \ {Stdin} : pc'[fd] = pc[fd] /\ kind'[fd] = kind[fd]
  BY <1>1 DEF Close, DescriptorInv, KindT, TaskLabels
<1>3. ListenerHolds' /\ \A fd \in Fds \ {Stdin} : TaskHolds(fd)'
  BY <1>1, <1>2 DEF DescriptorInv, ListenerHolds, TaskHolds
<1>4. ~Untouched
  <2>1. CASE Close(Stdin)
    BY <2>1 DEF Close, Untouched
  <2>2. CASE pc' = [pc EXCEPT ![Stdin] = {"close"}] /\ UNCHANGED kind
    <3>1. pc[Stdin] # {}
      BY <1>1 DEF Connection, ReceivePoll, SendPoll, Close
    <3> QED
      BY <3>1 DEF Untouched
  <2> QED
    BY <1>1, <2>1, <2>2
<1>5. lpc \in {"close", "gone"} \/ (lpc = "accept" /\ kind[lfd] = "down" /\ lfd \in Fds \ {Stdin})
  BY <1>4 DEF DescriptorInv, StdinHolds, ListenerHolds, Opening, Accepting
<1>6. StdinHolds'
  <2>1. CASE pc' = [pc EXCEPT ![Stdin] = {"close"}] /\ UNCHANGED <<life, kind, rx>>
    <3>1. pc'[Stdin] = {"close"}
      BY <1>1, <2>1 DEF DescriptorInv
    <3> QED
      BY <1>1, <1>5, <2>1, <3>1 DEF DescriptorInv, StdinHolds
  <2>2. CASE Close(Stdin) /\ pc' = [pc EXCEPT ![Stdin] = {}]
    <3>1. /\ kind' = [kind EXCEPT ![Stdin] = "free"] /\ life' = [life EXCEPT ![Stdin] = "up"]
          /\ rx' = [rx EXCEPT ![Stdin] = <<>>]
      BY <2>2 DEF Close
    <3>2. kind'[Stdin] = "free" /\ pc'[Stdin] = {} /\ rx'[Stdin] = <<>>
          /\ rx' = [fd \in Fds |-> rx'[fd]] /\ life' = [fd \in Fds |-> life'[fd]]
      BY <1>1, <2>2, <3>1 DEF DescriptorInv, StdinHolds
    <3> QED
      BY <1>1, <1>2, <1>5, <3>2 DEF StdinHolds
  <2> QED
    BY <1>1, <2>1, <2>2
<1>7. \A fd \in Fds : kind'[fd] = "down" => pending' = 0
  <2>1. kind'[Stdin] # "down"
    BY <1>6 DEF StdinHolds
  <2> QED
    BY <1>1, <1>2, <2>1 DEF DescriptorInv
<1> QED
  BY <1>1, <1>2, <1>3, <1>6, <1>7 DEF DescriptorInv

LEMMA AcceptKeeps ==
    ASSUME HttpServerAssumption, DescriptorInv, Accept
    PROVE  /\ DescriptorInv'
           /\ \E fd \in Fds \ {Stdin} : /\ kind[fd] = "free"
                                        /\ kind' = [kind EXCEPT ![fd] = "conn"]
                                        /\ pc' = [pc EXCEPT ![fd] = {"recv"}]
<1>1. PICK fd \in Fds : /\ Lowest(fd)
                        /\ kind' = [kind EXCEPT ![fd] = "conn"]
                        /\ pc' = [pc EXCEPT ![fd] = @ \cup {"recv"}]
  BY DEF Accept
<1>2. lfd \in Fds /\ kind[lfd] = "listening" /\ lpc \in {"accept", "accept_again"}
  BY DEF Accept, DescriptorInv, ListenerHolds, Accepting, Opening
<1>3. Untouched
  BY <1>2 DEF DescriptorInv, StdinHolds
<1>4. kind[fd] = "free" /\ fd # Stdin /\ pc[fd] = {}
  BY <1>1, <1>3 DEF Lowest, Untouched, DescriptorInv, TaskHolds
<1>5. pc' = [pc EXCEPT ![fd] = {"recv"}] /\ "recv" \in TaskLabels
  BY <1>1, <1>4 DEF DescriptorInv, TaskLabels
<1>6. /\ lfd' = lfd /\ rx' = rx /\ life' = life /\ lpc' = "accept"
      /\ pending > 0
  BY DEF Accept, kernelVars
<1>7. pending = 0 => pending' = 0
  BY <1>6
<1>8. /\ rx = [f \in Fds |-> rx[f]] /\ life = [f \in Fds |-> life[f]]
  BY DEF DescriptorInv, StdinHolds
<1>9. DescriptorInv'
  BY <1>1, <1>2, <1>3, <1>4, <1>5, <1>6, <1>7, <1>8, TaskKeeps
<1> QED
  BY <1>1, <1>4, <1>5, <1>9

LEMMA DescriptorStep ==
    ASSUME HttpServerAssumption, DescriptorInv, [Next]_vars
    PROVE  DescriptorInv'
<1>1. CASE Accept
  BY <1>1, AcceptKeeps
<1>2. ASSUME NEW fd \in Fds \ {Stdin}, Connection(fd) PROVE DescriptorInv'
  <2>1. ASSUME NEW from \in pc[fd], Receive(fd, from) PROVE DescriptorInv'
    <3>1. \E to \in TaskLabels : Goto(fd, from, to)
      BY <2>1 DEF Receive, Parse, TaskLabels
    <3>2. (\E r : rx' = [rx EXCEPT ![fd] = r]) /\ life' = life /\ UNCHANGED listenerVars
      BY <2>1 DEF Receive, Others
    <3> QED
      BY <3>1, <3>2, GotoKeeps
  <2>2. ASSUME NEW from \in pc[fd], ReceiveNothing(fd, from) PROVE DescriptorInv'
    <3>1. \E to \in TaskLabels : Goto(fd, from, to)
      BY <2>2 DEF ReceiveNothing, TaskLabels
    <3> QED
      BY <2>2, <3>1, GotoKeeps DEF ReceiveNothing, Others
  <2>3. ASSUME NEW from \in pc[fd], Send(fd, from) PROVE DescriptorInv'
    <3>1. \E to \in TaskLabels : Goto(fd, from, to)
      BY <2>3 DEF Send, TaskLabels
    <3> QED
      BY <2>3, <3>1, GotoKeeps DEF Send, Others
  <2>4. ASSUME NEW from \in pc[fd], SendNothing(fd, from) PROVE DescriptorInv'
    <3>1. \E to \in TaskLabels : Goto(fd, from, to)
      BY <2>4 DEF SendNothing, TaskLabels, AfterSendError
    <3> QED
      BY <2>4, <3>1, GotoKeeps DEF SendNothing, Others
  <2>5. CASE ReceivePoll(fd)
    <3>1. \E to \in TaskLabels : Goto(fd, "recv_poll", to)
      BY <2>5 DEF ReceivePoll, TaskLabels
    <3> QED
      BY <2>5, <3>1, GotoKeeps DEF ReceivePoll, Others, kernelVars
  <2>6. CASE SendPoll(fd)
    <3>1. \E to \in TaskLabels : Goto(fd, "send_poll", to)
      BY <2>6 DEF SendPoll, TaskLabels
    <3> QED
      BY <2>6, <3>1, GotoKeeps DEF SendPoll, Others, kernelVars
  <2>7. CASE Close(fd)
    <3>1. kind[fd] = "conn" /\ pc[fd] = {"close"}
      BY <2>7 DEF Close, DescriptorInv, TaskHolds
    <3>2. pc' = [pc EXCEPT ![fd] = {}]
      BY <2>7, <3>1 DEF Close, DescriptorInv
    <3>3. /\ rx = [f \in Fds |-> rx[f]] /\ life = [f \in Fds |-> life[f]] /\ Stdin \in Fds
      BY DEF DescriptorInv, StdinHolds, HttpServerAssumption
    <3>4. /\ rx' = [f \in Fds |-> rx'[f]] /\ life' = [f \in Fds |-> life'[f]]
          /\ rx'[Stdin] = rx[Stdin] /\ life'[Stdin] = life[Stdin]
      BY <2>7, <3>3 DEF Close
    <3>5. kind' = [kind EXCEPT ![fd] = "free"] /\ UNCHANGED <<lpc, lfd, pending>>
      BY <2>7 DEF Close
    <3> QED
      BY <3>1, <3>2, <3>4, <3>5, TaskKeeps
  <2> QED
    BY <1>2, <2>1, <2>2, <2>3, <2>4, <2>5, <2>6, <2>7 DEF Connection
<1>3. CASE UNCHANGED <<lpc, lfd, kind, pc, rx, life, pending>>
  BY <1>3 DEF DescriptorInv, ListenerHolds, TaskHolds, StdinHolds, Untouched
<1>4. CASE Connect
  <2>1. UNCHANGED <<lpc, lfd, kind, pc, rx, life>> /\ \E fd \in Fds : kind[fd] = "listening"
    BY <1>4 DEF Connect, kernelVars, taskVars
  <2>2. \A fd \in Fds : kind[fd] # "down"
    BY <2>1 DEF DescriptorInv, TaskHolds, StdinHolds
  <2> QED
    BY <2>1, <2>2 DEF DescriptorInv, ListenerHolds, TaskHolds, StdinHolds, Untouched
<1>5. ASSUME NEW fd \in Fds, ClientActs(fd) PROVE DescriptorInv'
  <2>1. fd # Stdin /\ UNCHANGED <<lpc, lfd, kind, pc, pending>>
    BY <1>5 DEF ClientActs, listenerVars, taskVars, DescriptorInv, StdinHolds
  <2>2. /\ rx = [f \in Fds |-> rx[f]] /\ life = [f \in Fds |-> life[f]] /\ Stdin \in Fds
    BY DEF DescriptorInv, StdinHolds, HttpServerAssumption
  <2>3. rx' = [f \in Fds |-> rx'[f]] /\ rx'[Stdin] = rx[Stdin]
    BY <1>5, <2>1, <2>2 DEF ClientActs
  <2>4. life' = [f \in Fds |-> life'[f]] /\ life'[Stdin] = life[Stdin]
    BY <1>5, <2>1, <2>2 DEF ClientActs
  <2> QED
    BY <2>1, <2>3, <2>4 DEF DescriptorInv, ListenerHolds, TaskHolds, StdinHolds, Untouched
<1>6. CASE Connection(Stdin)
  BY <1>6, StdinKeeps
<1> QED
  BY <1>1, <1>2, <1>3, <1>4, <1>5, <1>6, OpeningKeeps, AcceptingKeeps
  DEF Next, Listener, vars, listenerVars, taskVars, kernelVars

LEMMA DescriptorsOwned ==
    ASSUME HttpServerAssumption, DescriptorInv PROVE DescriptorsAreOwned
<1> SUFFICES ASSUME NEW fd \in Fds \ {Stdin}
             PROVE  CASE kind[fd] = "free" -> pc[fd] = {} /\ lfd # fd
                      [] kind[fd] = "conn" -> Cardinality(pc[fd]) = 1 /\ lfd # fd
                      [] OTHER -> pc[fd] = {} /\ lfd = fd
  BY DEF DescriptorsAreOwned
<1>1. \A label \in TaskLabels : Cardinality({label}) = 1
  BY FS_Singleton
<1>2. kind[fd] = "conn" => Cardinality(pc[fd]) = 1
  BY <1>1 DEF DescriptorInv, TaskHolds
<1>3. kind[fd] \in {"free", "conn"} => lfd # fd
  BY DEF DescriptorInv, ListenerHolds, HttpServerAssumption, Opening, Accepting
<1> QED
  BY <1>2, <1>3 DEF DescriptorInv, TaskHolds

\* Every descriptor but standard input is in the hands of one task when it is
\* open and of none when it is not, for any number of descriptors and clients,
\* whatever calls fail and even when the listening socket is shut
\* (listen_tcp_socket, await_accept4, listener_fun, connection_fun).  Standard
\* input is left out: of a listening socket that hangs up, listener_fun makes
\* a connection on descriptor 0.
THEOREM DescriptorsHaveOneOwner ==
    ASSUME HttpServerAssumption PROVE Spec => []DescriptorsAreOwned
<1>1. Init => DescriptorInv
  BY DescriptorInit
<1>2. DescriptorInv /\ [Next]_vars => DescriptorInv'
  BY DescriptorStep
<1>3. DescriptorInv => DescriptorsAreOwned
  BY DescriptorsOwned
<1> QED
  BY <1>1, <1>2, <1>3, PTL DEF Spec

----------------------------------------------------------------------------
(* Responses.                                                              *)

Parts == {"header", "text"}
Sending == {"send", "send_poll", "send_again"}

DataTypes ==
    /\ life \in [Fds -> {"up", "fin", "rst", "dead"}]
    /\ room \in [Fds -> 0..SndBuf]
    /\ response \in [Fds -> Seq(Parts)]
    /\ total \in [Fds -> Nat]
    /\ sent \in [Fds -> Seq(Parts)]
    /\ answers \in [Fds -> Seq(Parts)]
    /\ \A fd \in Fds : total[fd] <= Len(response[fd])

\* What was asked for and not sent is the rest of the response the task is
\* sending; a second attempt to send finds room.
Delivered(fd) ==
    IF kind[fd] # "conn"
    THEN /\ sent[fd] = <<>> /\ answers[fd] = <<>>
         /\ kind[fd] # "foreign" => life[fd] = "up"
    ELSE /\ "send_again" \in pc[fd] => room[fd] > 0 \/ HungUp(fd)
         /\ IF life[fd] = "dead"
            THEN \E r \in Seq(Parts) : answers[fd] = sent[fd] \o r
            ELSE answers[fd] = IF pc[fd] \cap Sending # {} THEN sent[fd] \o Rest(fd)
                               ELSE sent[fd]

DataInv == DataTypes /\ \A fd \in Fds : Delivered(fd)

LEMMA DataInit ==
    ASSUME HttpServerAssumption, Init PROVE DataInv
<1>1. DataTypes
  <2>1. <<>> \in Seq(Parts) /\ Len(<<>>) = 0
    OBVIOUS
  <2> QED
    BY <2>1 DEF Init, DataTypes, HttpServerAssumption
<1>2. \A fd \in Fds : Delivered(fd)
  BY DEF Init, Delivered
<1> QED
  BY <1>1, <1>2 DEF DataInv

LEMMA Associates ==
    \A s, t, u \in Seq(Parts) : (s \o t) \o u = s \o (t \o u)
<1> TAKE s, t, u \in Seq(Parts)
<1> DEFINE l == (s \o t) \o u  r == s \o (t \o u)
<1>1. /\ s \o t \in Seq(Parts) /\ t \o u \in Seq(Parts)
      /\ Len(s \o t) = Len(s) + Len(t) /\ Len(t \o u) = Len(t) + Len(u)
      /\ Len(s) \in Nat /\ Len(t) \in Nat /\ Len(u) \in Nat
      /\ \A x \in 1..(Len(s) + Len(t)) : (s \o t)[x] = IF x <= Len(s) THEN s[x] ELSE t[x - Len(s)]
      /\ \A x \in 1..(Len(t) + Len(u)) : (t \o u)[x] = IF x <= Len(t) THEN t[x] ELSE u[x - Len(t)]
  BY ConcatProperties
<1>2. /\ l \in Seq(Parts) /\ Len(l) = Len(s) + Len(t) + Len(u)
      /\ \A x \in 1..Len(l) : l[x] = IF x <= Len(s) + Len(t) THEN (s \o t)[x]
                                      ELSE u[x - (Len(s) + Len(t))]
  BY <1>1, ConcatProperties
<1>3. /\ r \in Seq(Parts) /\ Len(r) = Len(s) + Len(t) + Len(u)
      /\ \A x \in 1..Len(r) : r[x] = IF x <= Len(s) THEN s[x] ELSE (t \o u)[x - Len(s)]
  BY <1>1, ConcatProperties
<1> HIDE DEF l, r
<1>4. ASSUME NEW x \in 1..Len(l) PROVE l[x] = r[x]
  <2>1. CASE x <= Len(s)
    <3>1. x <= Len(s) + Len(t) /\ x \in 1..(Len(s) + Len(t)) /\ x \in 1..Len(r)
      BY <1>1, <1>2, <1>3, <2>1
    <3> QED
      BY <1>1, <1>2, <1>3, <2>1, <3>1
  <2>2. CASE ~(x <= Len(s)) /\ x <= Len(s) + Len(t)
    <3>1. /\ x \in 1..(Len(s) + Len(t)) /\ x \in 1..Len(r)
          /\ x - Len(s) \in 1..(Len(t) + Len(u)) /\ x - Len(s) <= Len(t)
      BY <1>1, <1>2, <1>3, <2>2
    <3> QED
      BY <1>1, <1>2, <1>3, <2>2, <3>1
  <2>3. CASE ~(x <= Len(s) + Len(t))
    <3>1. /\ ~(x <= Len(s)) /\ x \in 1..Len(r)
          /\ x - Len(s) \in 1..(Len(t) + Len(u)) /\ ~(x - Len(s) <= Len(t))
          /\ (x - Len(s)) - Len(t) = x - (Len(s) + Len(t))
      BY <1>1, <1>2, <1>3, <2>3
    <3> QED
      BY <1>1, <1>2, <1>3, <2>3, <3>1
  <2> QED
    BY <1>1, <2>1, <2>2, <2>3
<1>5. l = r
  BY <1>2, <1>3, <1>4, SeqEqual
<1> QED
  BY <1>5 DEF l, r

LEMMA BuildResponseType == \A path : BuildResponse(path) \in Seq(Parts)
<1>1. <<"header", "text">> \in Seq(Parts)
  BY DEF Parts
<1>2. <<"header">> \in Seq(Parts)
  BY DEF Parts
<1> QED
  BY <1>1, <1>2 DEF BuildResponse

LEMMA RestType ==
    ASSUME DataTypes, NEW fd \in Fds
    PROVE  /\ Rest(fd) \in Seq(Parts)
           /\ Len(Rest(fd)) = Len(response[fd]) - total[fd]
<1>1. response[fd] \in Seq(Parts) /\ total[fd] \in Nat /\ Len(response[fd]) \in Nat
      /\ total[fd] <= Len(response[fd])
  BY DEF DataTypes
<1>2. \A x \in (total[fd] + 1)..Len(response[fd]) : response[fd][x] \in Parts
  BY <1>1, ElementOfSeq
<1> QED
  BY <1>1, <1>2, SubSeqProperties DEF Rest

\* The variables a task, a client or the end of a connection changes are
\* those of its descriptor.
LEMMA OnlyOf ==
    ASSUME DataInv, NEW fd \in Fds, DataTypes', Delivered(fd)',
           \A f \in Fds \ {fd} :
              /\ kind'[f] = kind[f] /\ pc'[f] = pc[f] /\ life'[f] = life[f]
              /\ room'[f] = room[f] /\ response'[f] = response[f] /\ total'[f] = total[f]
              /\ sent'[f] = sent[f] /\ answers'[f] = answers[f]
    PROVE  DataInv'
<1>1. ASSUME NEW f \in Fds \ {fd} PROVE Delivered(f)'
  BY <1>1, ZenonT(60) DEF DataInv, Delivered, HungUp, Rest
<1> QED
  BY <1>1 DEF DataInv

LEMMA ReceiveData ==
    ASSUME HttpServerAssumption, DescriptorInv, DataInv,
           NEW fd \in Fds \ {Stdin}, NEW from \in pc[fd], Receive(fd, from)
    PROVE  DataInv'
<1>1. kind[fd] = "conn" /\ pc[fd] = {from} /\ from \in {"recv", "recv_again"}
  BY DEF DescriptorInv, TaskHolds, Receive
<1>2. pc[fd] \cap Sending = {}
  BY <1>1 DEF Sending
<1>3. CASE UNCHANGED <<response, answers, total>> /\ Goto(fd, from, "recv")
  <2>1. pc' = [pc EXCEPT ![fd] = {"recv"}]
    BY <1>1, <1>3 DEF Goto, DescriptorInv
  <2>2. DataTypes'
    BY <1>3 DEF DataInv, DataTypes, Receive
  <2>3. Delivered(fd)'
    BY <1>1, <1>2, <1>3, <2>1
    DEF DataInv, Delivered, Receive, Others, listenerVars, Sending, DescriptorInv
  <2> QED
    BY <1>3, <2>1, <2>2, <2>3, OnlyOf DEF Receive, Others, listenerVars, DescriptorInv
<1>4. CASE \E p :
              /\ response' = [response EXCEPT ![fd] = BuildResponse(p)]
              /\ answers' = [answers EXCEPT ![fd] = @ \o BuildResponse(p)]
              /\ total' = [total EXCEPT ![fd] = 0]
              /\ Goto(fd, from, "send")
  <2>1. PICK p :
              /\ response' = [response EXCEPT ![fd] = BuildResponse(p)]
              /\ answers' = [answers EXCEPT ![fd] = @ \o BuildResponse(p)]
              /\ total' = [total EXCEPT ![fd] = 0]
              /\ Goto(fd, from, "send")
    BY <1>4
  <2> DEFINE R == BuildResponse(p)
  <2>2. R \in Seq(Parts) /\ Len(R) \in Nat
    BY BuildResponseType
  <2> HIDE DEF R
  <2>3. pc' = [pc EXCEPT ![fd] = {"send"}]
    BY <1>1, <2>1 DEF Goto, DescriptorInv
  <2>4. DataTypes'
    <3>1. answers[fd] \o R \in Seq(Parts)
      BY <2>2, ConcatProperties DEF DataInv, DataTypes
    <3> QED
      BY <2>1, <2>2, <3>1 DEF R, DataInv, DataTypes, Receive
  <2>5. Rest(fd)' = R
    BY <2>1, <2>2, SubSeqFull DEF R, Rest, DataInv, DataTypes
  <2>6. sent'[fd] = sent[fd] /\ life'[fd] = life[fd] /\ room'[fd] = room[fd]
        /\ kind'[fd] = kind[fd] /\ answers'[fd] = answers[fd] \o R
    BY <2>1 DEF Receive, Others, listenerVars, R, DataInv, DataTypes
  <2>7. CASE life[fd] = "dead"
    <3>1. PICK r \in Seq(Parts) : answers[fd] = sent[fd] \o r
      BY <1>1, <2>7 DEF DataInv, Delivered
    <3>2. sent[fd] \in Seq(Parts)
      BY DEF DataInv, DataTypes
    <3>3. r \o R \in Seq(Parts)
      BY <2>2, ConcatProperties
    <3>4. (sent[fd] \o r) \o R = sent[fd] \o (r \o R)
      BY <2>2, <3>2, Associates, Zenon
    <3>5. answers'[fd] = sent'[fd] \o (r \o R)
      BY <2>6, <3>1, <3>4
    <3> QED
      BY <1>1, <2>3, <2>4, <2>6, <2>7, <3>3, <3>5, OnlyOf, <2>1
      DEF Delivered, Receive, Others, listenerVars, DescriptorInv
  <2>8. CASE life[fd] # "dead"
    <3>1. answers[fd] = sent[fd]
      BY <1>1, <1>2, <2>8 DEF DataInv, Delivered
    <3>2. Delivered(fd)'
      BY <1>1, <2>3, <2>5, <2>6, <2>8, <3>1 DEF Delivered, Sending, DescriptorInv
    <3> QED
      BY <2>1, <2>3, <2>4, <3>2, OnlyOf DEF Receive, Others, listenerVars, DescriptorInv
  <2> QED
    BY <2>7, <2>8
<1> QED
  BY <1>3, <1>4 DEF Receive, Parse

LEMMA ReceiveNothingData ==
    ASSUME HttpServerAssumption, DescriptorInv, DataInv,
           NEW fd \in Fds \ {Stdin}, NEW from \in pc[fd], ReceiveNothing(fd, from)
    PROVE  DataInv'
<1>1. kind[fd] = "conn" /\ pc[fd] = {from} /\ from \in {"recv", "recv_again"}
  BY DEF DescriptorInv, TaskHolds, ReceiveNothing
<1>2. PICK to \in {"recv_poll", "close"} : pc' = [pc EXCEPT ![fd] = {to}]
  BY <1>1 DEF ReceiveNothing, Goto, DescriptorInv
<1>3. DataTypes'
  BY DEF DataInv, DataTypes, ReceiveNothing, Reported
<1>4. sent[fd] \o <<>> = sent[fd] /\ <<>> \in Seq(Parts)
  BY ConcatEmptySeq DEF DataInv, DataTypes
<1>5. Delivered(fd)'
  BY <1>1, <1>2, <1>4
  DEF DataInv, DataTypes, Delivered, ReceiveNothing, Reported, Others, listenerVars, Sending,
      DescriptorInv
<1> QED
  BY <1>2, <1>3, <1>5, OnlyOf
  DEF ReceiveNothing, Reported, Others, listenerVars, DescriptorInv, DataInv, DataTypes

\* What is sent and what is left are the rest there was.
LEMMA Split ==
    ASSUME DataTypes, NEW fd \in Fds, NEW n \in 0..Len(Rest(fd))
    PROVE  /\ SubSeq(Rest(fd), 1, n) \in Seq(Parts)
           /\ SubSeq(response[fd], total[fd] + n + 1, Len(response[fd])) \in Seq(Parts)
           /\ SubSeq(Rest(fd), 1, n) \o SubSeq(response[fd], total[fd] + n + 1, Len(response[fd]))
                 = Rest(fd)
<1> DEFINE R == response[fd]  t == total[fd]  len == Len(R)
<1>1. R \in Seq(Parts) /\ t \in Nat /\ len \in Nat /\ t <= len /\ n \in Nat /\ t + n <= len
      /\ Rest(fd) \in Seq(Parts) /\ Len(Rest(fd)) = len - t
  BY RestType DEF DataTypes
<1> HIDE DEF R, t, len
<1>2. ASSUME n = 0
      PROVE  /\ SubSeq(Rest(fd), 1, n) = <<>>
             /\ SubSeq(R, t + n + 1, len) = Rest(fd)
  <2>1. SubSeq(Rest(fd), 1, n) = <<>>
    BY <1>2, SubSeqEmpty
  <2>2. t + n + 1 = t + 1
    BY <1>1, <1>2
  <2> QED
    BY <2>1, <2>2 DEF R, t, len, Rest
<1>3. ASSUME n # 0
      PROVE  SubSeq(Rest(fd), 1, n) = SubSeq(R, t + 1, t + n)
  <2>1. Rest(fd) = SubSeq(R, t + 1, len)
    BY DEF Rest, R, t, len
  <2>2. /\ t + 1 \in 1..len /\ len \in 1..len
        /\ 1 \in 1..(len - (t + 1) + 1) /\ n \in 1..(len - (t + 1) + 1)
        /\ (t + 1) + 1 - 1 = t + 1 /\ (t + 1) + n - 1 = t + n
    BY <1>1, <1>3
  <2>3. SubSeq(SubSeq(R, t + 1, len), 1, n) = SubSeq(R, (t + 1) + 1 - 1, (t + 1) + n - 1)
    BY <1>1, <2>2, SubSeqOfSubSeq DEF len
  <2> QED
    BY <2>1, <2>2, <2>3
<1>4. SubSeq(R, t + 1, t + n) \o SubSeq(R, t + n + 1, len) = SubSeq(R, t + 1, len)
  <2>1. t + 1 \in 1..(Len(R) + 1) /\ t + n \in (t + 1) - 1..Len(R) /\ len \in (t + n)..Len(R)
    BY <1>1 DEF len
  <2> QED
    BY <1>1, <2>1, ConcatAdjacentSubSeq
<1>5. SubSeq(R, t + n + 1, len) \in Seq(Parts) /\ SubSeq(Rest(fd), 1, n) \in Seq(Parts)
  <2>1. \A x \in (t + n + 1)..len : R[x] \in Parts
    BY <1>1, ElementOfSeq DEF len
  <2>2. \A x \in 1..n : Rest(fd)[x] \in Parts
    BY <1>1, ElementOfSeq
  <2> QED
    BY <1>1, <2>1, <2>2, SubSeqProperties
<1>6. SubSeq(Rest(fd), 1, n) \o SubSeq(R, t + n + 1, len) = Rest(fd)
  BY <1>1, <1>2, <1>3, <1>4, ConcatEmptySeq DEF Rest, R, t, len
<1> QED
  BY <1>5, <1>6 DEF R, t, len

LEMMA SendData ==
    ASSUME HttpServerAssumption, DescriptorInv, DataInv,
           NEW fd \in Fds \ {Stdin}, NEW from \in pc[fd], Send(fd, from)
    PROVE  DataInv'
<1> DEFINE n == IF Len(Rest(fd)) <= room[fd] THEN Len(Rest(fd)) ELSE room[fd]
           now == SubSeq(Rest(fd), 1, n)
           left == SubSeq(response[fd], total[fd] + n + 1, Len(response[fd]))
<1>1. kind[fd] = "conn" /\ pc[fd] = {from} /\ from \in Sending
  BY DEF DescriptorInv, TaskHolds, Send, Sending
<1>2. /\ response[fd] \in Seq(Parts) /\ total[fd] \in Nat /\ room[fd] \in 0..SndBuf
      /\ Len(response[fd]) \in Nat /\ total[fd] <= Len(response[fd]) /\ SndBuf \in Nat
      /\ Rest(fd) \in Seq(Parts) /\ Len(Rest(fd)) = Len(response[fd]) - total[fd]
      /\ sent[fd] \in Seq(Parts)
  <2>1. SndBuf \in Nat
    BY DEF HttpServerAssumption
  <2> QED
    BY <2>1, RestType DEF DataInv, DataTypes
<1>3. n \in 0..Len(Rest(fd)) /\ n \in 0..room[fd]
  BY <1>2
<1>4. now \in Seq(Parts) /\ left \in Seq(Parts) /\ now \o left = Rest(fd)
  BY <1>3, Split DEF DataInv
<1>5. /\ ~HungUp(fd) /\ kind' = kind /\ life' = life /\ answers' = answers
      /\ room' = [room EXCEPT ![fd] = @ - n]
      /\ sent' = [sent EXCEPT ![fd] = @ \o now]
  BY DEF Send, Others, listenerVars
<1>6. answers[fd] = (sent[fd] \o now) \o left
  <2>1. answers[fd] = sent[fd] \o Rest(fd)
    BY <1>1, <1>5 DEF DataInv, Delivered, HungUp, Sending
  <2> HIDE DEF n, now, left
  <2>2. (sent[fd] \o now) \o left = sent[fd] \o (now \o left)
    BY <1>2, <1>4, Associates, Zenon
  <2> QED
    BY <1>4, <2>1, <2>2
<1>7. sent[fd] \o now \in Seq(Parts)
  BY <1>2, <1>4, ConcatProperties
<1>8. CASE n = Len(Rest(fd))
  <2>1. /\ pc' = [pc EXCEPT ![fd] = {"recv"}]
        /\ response' = [response EXCEPT ![fd] = <<>>]
        /\ total' = [total EXCEPT ![fd] = 0]
    BY <1>1, <1>8 DEF Send, Goto, Forget, DescriptorInv
  <2>2. left = <<>>
    BY <1>2, <1>8, SubSeqEmpty
  <2>3. answers[fd] = sent[fd] \o now
    BY <1>6, <1>7, <2>2, ConcatEmptySeq
  <2> HIDE DEF n, now, left
  <2>4. DataTypes'
    BY <1>2, <1>3, <1>5, <1>7, <2>1, SMTT(30) DEF DataInv, DataTypes
  <2>5. Delivered(fd)'
    BY <1>1, <1>5, <2>1, <2>3 DEF Delivered, Sending, DataInv, DataTypes, HungUp, DescriptorInv
  <2> QED
    BY <1>5, <2>1, <2>4, <2>5, OnlyOf DEF DescriptorInv, DataInv, DataTypes
<1>9. CASE n # Len(Rest(fd))
  <2>1. /\ pc' = [pc EXCEPT ![fd] = {"send"}]
        /\ response' = response
        /\ total' = [total EXCEPT ![fd] = @ + n]
    BY <1>1, <1>9 DEF Send, Goto, DescriptorInv
  <2>2. Rest(fd)' = left
    BY <1>2, <2>1 DEF Rest, DataInv, DataTypes
  <2> HIDE DEF n, now, left
  <2>3. DataTypes'
    <3>1. total[fd] + n \in Nat /\ total[fd] + n <= Len(response[fd])
      BY <1>2, <1>3
    <3>2. room[fd] - n \in 0..SndBuf
      BY <1>2, <1>3
    <3>3. /\ room' \in [Fds -> 0..SndBuf] /\ total' \in [Fds -> Nat]
          /\ sent' \in [Fds -> Seq(Parts)]
      BY <1>5, <1>7, <2>1, <3>1, <3>2 DEF DataInv, DataTypes
    <3>4. ASSUME NEW f \in Fds PROVE total'[f] <= Len(response'[f])
      BY <2>1, <3>1 DEF DataInv, DataTypes
    <3> QED
      BY <1>5, <2>1, <3>3, <3>4 DEF DataInv, DataTypes
  <2>4. Delivered(fd)'
    BY <1>1, <1>5, <1>6, <2>1, <2>2
    DEF Delivered, Sending, DataInv, DataTypes, HungUp, DescriptorInv
  <2> QED
    BY <1>5, <2>1, <2>3, <2>4, OnlyOf DEF DescriptorInv, DataInv, DataTypes
<1> QED
  BY <1>8, <1>9

LEMMA SendNothingData ==
    ASSUME HttpServerAssumption, DescriptorInv, DataInv,
           NEW fd \in Fds \ {Stdin}, NEW from \in pc[fd], SendNothing(fd, from)
    PROVE  DataInv'
<1>1. kind[fd] = "conn" /\ pc[fd] = {from} /\ from \in {"send", "send_again"}
  BY DEF DescriptorInv, TaskHolds, SendNothing
<1>2. /\ kind' = kind /\ room' = room /\ sent' = sent /\ answers' = answers
      /\ life' = [life EXCEPT ![fd] = IF @ = "rst" THEN "dead" ELSE @]
  BY DEF SendNothing, Reported, Others, listenerVars
<1>3. /\ sent[fd] \in Seq(Parts) /\ Rest(fd) \in Seq(Parts) /\ room[fd] \in Nat
      /\ life[fd] \in {"up", "fin", "rst", "dead"}
  <2>1. SndBuf \in Nat
    BY DEF HttpServerAssumption
  <2> QED
    BY <2>1, RestType DEF DataInv, DataTypes
<1>4. CASE from = "send" /\ ~HungUp(fd)
  <2>1. pc' = [pc EXCEPT ![fd] = {"send_poll"}] /\ UNCHANGED <<response, total>>
    BY <1>1, <1>4 DEF SendNothing, Goto, DescriptorInv
  <2>2. life' = life
    BY <1>2, <1>4 DEF HungUp, DataInv, DataTypes
  <2>3. DataTypes'
    BY <1>2, <2>1, <2>2 DEF DataInv, DataTypes
  <2>4. Delivered(fd)'
    BY <1>1, <1>2, <1>4, <2>1, <2>2
    DEF Delivered, Sending, DataInv, DataTypes, HungUp, DescriptorInv, Rest
  <2> QED
    BY <1>2, <2>1, <2>2, <2>3, <2>4, OnlyOf DEF DescriptorInv
<1>5. CASE ~(from = "send" /\ ~HungUp(fd))
  <2>1. /\ pc' = [pc EXCEPT ![fd] = {"recv"}]
        /\ response' = [response EXCEPT ![fd] = <<>>]
        /\ total' = [total EXCEPT ![fd] = 0]
    BY <1>1, <1>5 DEF SendNothing, Goto, Forget, AfterSendError, DescriptorInv
  <2>2. HungUp(fd) /\ life'[fd] = "dead"
    <3>1. HungUp(fd) \/ (from = "send_again" /\ room[fd] = 0)
      BY <1>1, <1>5 DEF SendNothing
    <3>2. HungUp(fd)
      BY <1>1, <1>3, <3>1 DEF DataInv, Delivered
    <3> QED
      BY <1>2, <3>2 DEF HungUp, DataInv, DataTypes
  <2>3. \E r \in Seq(Parts) : answers[fd] = sent[fd] \o r
    BY <1>1, <1>3 DEF DataInv, Delivered, Sending
  <2>4. DataTypes'
    <3>1. <<>> \in Seq(Parts) /\ Len(<<>>) = 0
      OBVIOUS
    <3> QED
      BY <1>2, <2>1, <3>1 DEF DataInv, DataTypes
  <2>5. Delivered(fd)'
    BY <1>1, <1>2, <2>1, <2>2, <2>3 DEF Delivered, DescriptorInv
  <2> QED
    BY <1>2, <2>1, <2>4, <2>5, OnlyOf DEF DescriptorInv, DataInv, DataTypes
<1> QED
  BY <1>4, <1>5

LEMMA PollData ==
    ASSUME HttpServerAssumption, DescriptorInv, DataInv,
           NEW fd \in Fds \ {Stdin}, ReceivePoll(fd) \/ SendPoll(fd)
    PROVE  DataInv'
<1>1. /\ kind' = kind /\ UNCHANGED <<life, room, response, total, sent, answers>>
  BY DEF ReceivePoll, SendPoll, Others, listenerVars, kernelVars
<1>2. DataTypes'
  BY <1>1 DEF DataInv, DataTypes
<1>3. CASE ReceivePoll(fd)
  <2>1. kind[fd] = "conn" /\ pc[fd] = {"recv_poll"}
    BY <1>3 DEF DescriptorInv, TaskHolds, ReceivePoll
  <2>2. PICK to \in {"recv_again", "close"} : pc' = [pc EXCEPT ![fd] = {to}]
    BY <1>3, <2>1 DEF ReceivePoll, Goto, DescriptorInv
  <2>3. Delivered(fd)'
    BY <1>1, <2>1, <2>2 DEF DataInv, Delivered, Sending, Rest, HungUp, DescriptorInv
  <2> QED
    BY <1>1, <1>2, <2>2, <2>3, OnlyOf DEF DescriptorInv
<1>4. CASE SendPoll(fd)
  <2>1. kind[fd] = "conn" /\ pc[fd] = {"send_poll"}
    BY <1>4 DEF DescriptorInv, TaskHolds, SendPoll
  <2>2. \/ HungUp(fd) /\ pc' = [pc EXCEPT ![fd] = {"send"}]
        \/ room[fd] > 0 /\ pc' = [pc EXCEPT ![fd] = {"send_again"}]
    BY <1>4, <2>1 DEF SendPoll, Goto, Writable, HungUp, DescriptorInv
  <2>3. Delivered(fd)'
    BY <1>1, <2>1, <2>2 DEF DataInv, Delivered, Sending, Rest, HungUp, DescriptorInv
  <2> QED
    BY <1>1, <1>2, <2>2, <2>3, OnlyOf DEF DescriptorInv
<1> QED
  BY <1>3, <1>4

LEMMA CloseData ==
    ASSUME HttpServerAssumption, DescriptorInv, DataInv, NEW fd \in Fds, Close(fd)
    PROVE  DataInv'
<1>1. DataTypes'
  <2>1. <<>> \in Seq(Parts) /\ SndBuf \in 0..SndBuf
    BY DEF HttpServerAssumption
  <2> QED
    BY <2>1 DEF Close, DataInv, DataTypes
<1>2. Delivered(fd)'
  BY DEF Close, Delivered, DescriptorInv, DataInv, DataTypes
<1> QED
  BY <1>1, <1>2, OnlyOf DEF Close, DescriptorInv, DataInv, DataTypes

\* A connection that is accepted starts with nothing sent and nothing asked.
LEMMA ListenerData ==
    ASSUME HttpServerAssumption, DescriptorInv, DataInv, Listener
    PROVE  DataInv'
<1>1. UNCHANGED <<life, room, response, total, sent, answers>>
  BY DEF Listener, GetAddrInfo, Socket, Bind, Listen, Accept, AcceptFails, AcceptPoll,
         CloseListener, ListenerOnly, kernelVars, taskVars
<1>2. DataTypes'
  BY <1>1 DEF DataInv, DataTypes
<1>3. CASE Accept
  <2>1. PICK fd \in Fds \ {Stdin} : /\ kind[fd] = "free"
                                   /\ kind' = [kind EXCEPT ![fd] = "conn"]
                                   /\ pc' = [pc EXCEPT ![fd] = {"recv"}]
    BY <1>3, AcceptKeeps
  <2>2. kind[fd] = "free" /\ pc' = [pc EXCEPT ![fd] = {"recv"}]
    BY <2>1
  <2>3. Delivered(fd)'
    BY <1>1, <2>1, <2>2 DEF Delivered, DataInv, Sending, DescriptorInv
  <2> QED
    BY <1>1, <1>2, <2>1, <2>2, <2>3, OnlyOf DEF DescriptorInv
<1>4. CASE ~Accept
  <2>1. ASSUME NEW fd \in Fds
        PROVE  \/ kind'[fd] = kind[fd]
               \/ kind[fd] \notin {"conn", "foreign"} /\ kind'[fd] # "conn"
    BY <1>4 DEF Listener, GetAddrInfo, Socket, Bind, Listen, AcceptFails, AcceptPoll,
         CloseListener, ListenerOnly, Lowest, DescriptorInv, ListenerHolds,
         Opening, Accepting
  <2>2. \A fd \in Fds : kind[fd] = "conn" => pc'[fd] = pc[fd]
    BY <1>4 DEF Listener, GetAddrInfo, Socket, Bind, Listen, AcceptFails, AcceptPoll,
         CloseListener, ListenerOnly, taskVars, DescriptorInv, StdinHolds
  <2>3. \A fd \in Fds : Delivered(fd)'
    BY <1>1, <2>1, <2>2 DEF DataInv, Delivered, HungUp, Rest
  <2> QED
    BY <1>2, <2>3 DEF DataInv
<1> QED
  BY <1>3, <1>4

\* The task on Stdin and the end of the listening socket touch no connection.
LEMMA StdinData ==
    ASSUME HttpServerAssumption, DescriptorInv, DataInv, Connection(Stdin)
    PROVE  DataInv'
<1>1. /\ kind[Stdin] = "foreign" /\ Stdin \in Fds
      /\ \/ /\ pc' = [pc EXCEPT ![Stdin] = {"close"}] /\ UNCHANGED <<life, kind>>
            /\ UNCHANGED <<rx, room, buf, response, total, sent, answers>>
         \/ Close(Stdin)
  BY StdinTask DEF HttpServerAssumption
<1>2. CASE pc' = [pc EXCEPT ![Stdin] = {"close"}]
           /\ UNCHANGED <<life, kind, room, response, total, sent, answers>>
  <2>1. DataTypes' /\ Delivered(Stdin)'
    BY <1>1, <1>2 DEF DataInv, DataTypes, Delivered
  <2> QED
    BY <1>1, <1>2, <2>1, OnlyOf DEF DescriptorInv
<1> QED
  BY <1>1, <1>2, CloseData

LEMMA ShutData ==
    ASSUME HttpServerAssumption, DescriptorInv, DataInv, ListenerShut
    PROVE  DataInv'
<1>1. /\ kind[lfd] = "listening" /\ kind' = [kind EXCEPT ![lfd] = "down"]
      /\ UNCHANGED <<pc, life, room, response, total, sent, answers>>
  BY DEF ListenerShut, ListenerOnly, kernelVars, taskVars
<1>2. DataTypes'
  BY <1>1 DEF DataInv, DataTypes
<1>3. \A fd \in Fds : kind'[fd] = kind[fd] \/ (kind[fd] = "listening" /\ kind'[fd] = "down")
  BY <1>1 DEF DescriptorInv
<1>4. \A fd \in Fds : Delivered(fd)'
  BY <1>1, <1>3 DEF DataInv, Delivered, HungUp, Rest
<1> QED
  BY <1>2, <1>4 DEF DataInv

LEMMA ClientData ==
    ASSUME HttpServerAssumption, DescriptorInv, DataInv, NEW fd \in Fds, ClientActs(fd)
    PROVE  DataInv'
<1>1. /\ kind[fd] = "conn"
      /\ UNCHANGED <<kind, pc, response, total, sent, answers>>
      /\ room' = room \/ (room[fd] < SndBuf /\ room' = [room EXCEPT ![fd] = @ + 1])
      /\ \/ life' = life
         \/ life[fd] = "up" /\ life' = [life EXCEPT ![fd] = "fin"]
         \/ life[fd] \in {"up", "fin"} /\ life' = [life EXCEPT ![fd] = "rst"]
  BY DEF ClientActs, listenerVars, taskVars
<1>2. DataTypes'
  <2>1. room' \in [Fds -> 0..SndBuf]
    <3>1. SndBuf \in Nat /\ room \in [Fds -> 0..SndBuf]
      BY DEF HttpServerAssumption, DataInv, DataTypes
    <3>2. room[fd] \in 0..SndBuf /\ (room[fd] < SndBuf => room[fd] + 1 \in 0..SndBuf)
      BY <3>1
    <3> QED
      BY <1>1, <3>1, <3>2
  <2>2. life' \in [Fds -> {"up", "fin", "rst", "dead"}]
    BY <1>1 DEF DataInv, DataTypes
  <2> QED
    BY <1>1, <2>1, <2>2 DEF DataInv, DataTypes
<1>3. Delivered(fd)'
  <2>1. /\ room[fd] > 0 => room'[fd] > 0
        /\ life'[fd] = "dead" <=> life[fd] = "dead"
        /\ HungUp(fd) => HungUp(fd)'
    <3>1. SndBuf \in Nat /\ fd \in Fds /\ room[fd] \in Nat
      BY DEF HttpServerAssumption, DataInv, DataTypes
    <3> QED
      BY <1>1, <3>1 DEF DataInv, DataTypes, HungUp
  <2> QED
    BY <1>1, <2>1 DEF DataInv, Delivered, Rest
<1> QED
  BY <1>1, <1>2, <1>3, OnlyOf DEF DataInv, DataTypes

LEMMA DataStep ==
    ASSUME HttpServerAssumption, DescriptorInv, DataInv, [Next]_vars
    PROVE  DataInv'
<1>1. CASE UNCHANGED <<kind, pc, life, room, response, total, sent, answers>>
  BY <1>1 DEF DataInv, DataTypes, Delivered, HungUp, Rest
<1>2. ASSUME NEW fd \in Fds, Connection(fd) PROVE DataInv'
  BY <1>2, StdinData, ReceiveData, ReceiveNothingData, SendData, SendNothingData, PollData, CloseData
  DEF Connection
<1> QED
  BY <1>1, <1>2, ListenerData, ShutData, ClientData
  DEF Next, Connect, vars, listenerVars, kernelVars, taskVars

LEMMA DeliveredWhole ==
    ASSUME DescriptorInv, DataInv PROVE ResponsesAreWhole
<1> SUFFICES ASSUME NEW fd \in Fds, kind[fd] = "conn"
             PROVE  /\ IsPrefix(sent[fd], answers[fd])
                    /\ life[fd] # "dead" /\ pc[fd] \cap {"recv", "recv_poll", "close"} # {}
                           => sent[fd] = answers[fd]
  BY DEF ResponsesAreWhole
<1>1. sent[fd] \in Seq(Parts) /\ answers[fd] \in Seq(Parts) /\ Rest(fd) \in Seq(Parts)
      /\ <<>> \in Seq(Parts)
  BY RestType DEF DataInv, DataTypes
<1>2. PICK r \in Seq(Parts) : answers[fd] = sent[fd] \o r
  BY <1>1, ConcatEmptySeq DEF DataInv, Delivered
<1>3. IsPrefix(sent[fd], answers[fd])
  <2> DEFINE s == sent[fd]  a == answers[fd]  n == Len(s)
  <2>1. s \in Seq(Parts) /\ a \in Seq(Parts) /\ n \in Nat /\ Len(a) \in Nat /\ Len(r) \in Nat
    BY <1>1
  <2>2. Len(a) = n + Len(r) /\ \A x \in 1..n : a[x] = s[x]
    BY <1>1, <1>2, <2>1, ConcatProperties
  <2> HIDE DEF s, a, n
  <2>3. SubSeq(s, 1, n) \in Seq(Parts) /\ SubSeq(a, 1, n) \in Seq(Parts)
        /\ Len(SubSeq(s, 1, n)) = n /\ Len(SubSeq(a, 1, n)) = n
        /\ \A x \in 1..n : SubSeq(s, 1, n)[x] = s[x] /\ SubSeq(a, 1, n)[x] = a[x]
    <3>1. \A x \in 1..n : s[x] \in Parts
      BY <2>1, ElementOfSeq DEF n
    <3>2. \A x \in 1..n : a[x] \in Parts
      BY <2>2, <3>1
    <3> QED
      BY <2>1, <3>1, <3>2, SubSeqProperties
  <2>4. SubSeq(s, 1, n) = SubSeq(a, 1, n)
    BY <2>2, <2>3, SeqEqual
  <2> QED
    BY <2>1, <2>2, <2>4 DEF IsPrefix, s, a, n
<1>4. ASSUME life[fd] # "dead", pc[fd] \cap {"recv", "recv_poll", "close"} # {}
      PROVE  sent[fd] = answers[fd]
  <2>1. fd # Stdin
    BY DEF DescriptorInv, StdinHolds
  <2>2. \E label : pc[fd] = {label}
    BY <2>1 DEF DescriptorInv, TaskHolds
  <2>3. pc[fd] \cap Sending = {}
    BY <1>4, <2>2 DEF Sending
  <2> QED
    BY <1>4, <2>3 DEF DataInv, Delivered
<1> QED
  BY <1>3, <1>4

\* However the sends are split and whatever the clients do, the responses to
\* the requests on a connection are sent in order and whole (await_send_all,
\* connection_fun).
THEOREM ResponsesArriveWhole ==
    ASSUME HttpServerAssumption PROVE Spec => []ResponsesAreWhole
<1>1. Init => DescriptorInv /\ DataInv
  BY DescriptorInit, DataInit
<1>2. DescriptorInv /\ DataInv /\ [Next]_vars => (DescriptorInv /\ DataInv)'
  BY DescriptorStep, DataStep
<1>3. DescriptorInv /\ DataInv => ResponsesAreWhole
  BY DeliveredWhole
<1> QED
  BY <1>1, <1>2, <1>3, PTL DEF Spec

----------------------------------------------------------------------------
(* Types.                                                                  *)

\* What DescriptorInv and DataInv do not say of the types: addresses are tried
\* as long as there are some, and what is in a buffer is an incomplete request.
HttpTypes ==
    /\ address \in 1..(Addresses + 1)
    /\ lpc \in {"socket", "bind"} => address <= Addresses
    /\ pending \in 0..Backlog
    /\ rx \in [Fds -> Seq(Pieces)]
    /\ buf \in [Fds -> Seq({"more"})]
    /\ \A fd \in Fds : Len(buf[fd]) < BufSize

LEMMA Least ==
    ASSUME NEW S \in SUBSET Nat, S # {}
    PROVE  \E m \in S : \A n \in S : m <= n
<1>1. PICK m \in S : \A n \in S : ~ (<<n, m>> \in OpToRel(<, Nat))
  BY NatLessThanWellFounded, WFMin
<1>2. \A n \in S : ~(n < m)
  BY <1>1 DEF OpToRel
<1> QED
  BY <1>2

LEMMA NoEndIsMore ==
    ASSUME NEW b \in Seq(Pieces), EndOfRequest(b) = 0
    PROVE  b \in Seq({"more"})
<1> DEFINE Ends == {x \in 1..Len(b) : b[x] # "more"}
<1>1. Len(b) \in Nat
  OBVIOUS
<1>2. Ends = {}
  <2> SUFFICES ASSUME Ends # {} PROVE FALSE
    OBVIOUS
  <2>1. Ends \in SUBSET Nat
    BY <1>1
  <2>2. PICK m \in Ends : \A n \in Ends : m <= n
    BY <2>1, Least
  <2>3. EndOfRequest(b) = Min(Ends)
    BY DEF EndOfRequest, SelectInSeq
  <2>4. Min(Ends) \in Ends
    BY <2>2 DEF Min
  <2> QED
    BY <1>1, <2>3, <2>4
<1>3. \A x \in 1..Len(b) : b[x] \in {"more"}
  BY <1>2
<1>4. SubSeq(b, 1, Len(b)) \in Seq({"more"})
  BY <1>1, <1>3, SubSeqProperties
<1> QED
  BY <1>4, SubSeqFull

LEMMA HttpTypesInit == ASSUME HttpServerAssumption, Init PROVE HttpTypes
<1>1. <<>> \in Seq(Pieces) /\ <<>> \in Seq({"more"}) /\ Len(<<>>) = 0
  OBVIOUS
<1> QED
  BY <1>1 DEF Init, HttpTypes, HttpServerAssumption

\* Pieces are added to a buffer as far as there is room.
LEMMA ReceiveTypes ==
    ASSUME HttpServerAssumption, HttpTypes,
           NEW fd \in Fds, NEW from, Receive(fd, from)
    PROVE  HttpTypes'
<1> DEFINE k == IF Len(rx[fd]) <= BufSize - Len(buf[fd]) THEN Len(rx[fd])
                ELSE BufSize - Len(buf[fd])
           b == buf[fd] \o Chunk(fd)
           n == Len(Chunk(fd))
<1>1. /\ rx[fd] \in Seq(Pieces) /\ buf[fd] \in Seq({"more"}) /\ buf[fd] \in Seq(Pieces)
      /\ Len(rx[fd]) \in Nat /\ Len(buf[fd]) \in Nat /\ Len(buf[fd]) < BufSize
      /\ BufSize \in Nat
  <2>1. {"more"} \subseteq Pieces
    BY DEF Pieces
  <2>2. rx[fd] \in Seq(Pieces) /\ buf[fd] \in Seq({"more"})
    BY DEF HttpTypes
  <2> QED
    BY <2>1, <2>2, SeqMonotonic DEF HttpTypes, HttpServerAssumption
<1>2. k \in 0..Len(rx[fd]) /\ k \in Nat /\ k + Len(buf[fd]) <= BufSize
  <2>1. PICK x \in Nat : x = Len(rx[fd])
    BY <1>1
  <2>2. PICK y \in Nat : y = Len(buf[fd]) /\ y < BufSize
    BY <1>1
  <2>3. \A z \in Nat : y < z => IF x <= z - y THEN x \in 0..x /\ x \in Nat /\ x + y <= z
                              ELSE z - y \in 0..x /\ z - y \in Nat /\ (z - y) + y <= z
    OBVIOUS
  <2> QED
    BY <1>1, <2>1, <2>2, <2>3
<1>3. Chunk(fd) \in Seq(Pieces) /\ n = k
  <2>1. Chunk(fd) = SubSeq(rx[fd], 1, k)
    BY DEF Chunk
  <2>2. \A x \in 1..k : rx[fd][x] \in Pieces
    <3> HIDE DEF k
    <3>1. \A x \in 1..k : x \in 1..Len(rx[fd])
      BY <1>1, <1>2
    <3> QED
      BY <1>1, <3>1, ElementOfSeq
  <2> HIDE DEF k
  <2> QED
    BY <1>2, <2>1, <2>2, SubSeqProperties
<1>4. b \in Seq(Pieces) /\ Len(b) = Len(buf[fd]) + n /\ Len(b) <= BufSize /\ Len(b) \in Nat
  <2>1. b \in Seq(Pieces) /\ Len(b) = Len(buf[fd]) + n
    BY <1>1, <1>3, ConcatProperties
  <2> HIDE DEF b, k
  <2> QED
    BY <1>1, <1>2, <1>3, <2>1
<1> HIDE DEF b
<1>5. rx' \in [Fds -> Seq(Pieces)]
  <2>1. rx' = [rx EXCEPT ![fd] = SubSeq(rx[fd], n + 1, Len(rx[fd]))]
    BY DEF Receive
  <2>2. \A x \in (n + 1)..Len(rx[fd]) : rx[fd][x] \in Pieces
    <3> HIDE DEF k, n
    <3>1. \A x \in (n + 1)..Len(rx[fd]) : x \in 1..Len(rx[fd])
      BY <1>1, <1>2, <1>3
    <3> QED
      BY <1>1, <3>1, ElementOfSeq
  <2>3. n \in Nat
    BY <1>2, <1>3
  <2>4. SubSeq(rx[fd], n + 1, Len(rx[fd])) \in Seq(Pieces)
    BY <1>1, <2>2, <2>3, SubSeqProperties
  <2> QED
    BY <2>1, <2>4 DEF HttpTypes
<1>6. PICK to : /\ buf' = [buf EXCEPT ![fd] = to]
                /\ to = <<>> \/ (to = b /\ EndOfRequest(b) = 0 /\ Len(b) # BufSize)
  BY DEF Receive, Parse, b
<1>7. to \in Seq({"more"}) /\ Len(to) < BufSize
  <2>1. CASE to = <<>>
    BY <1>1, <2>1
  <2>2. CASE to = b /\ EndOfRequest(b) = 0 /\ Len(b) # BufSize
    BY <1>1, <1>4, <2>2, NoEndIsMore
  <2> QED
    BY <1>6, <2>1, <2>2
<1>8. buf' \in [Fds -> Seq({"more"})] /\ \A f \in Fds : Len(buf'[f]) < BufSize
  BY <1>6, <1>7 DEF HttpTypes
<1>9. UNCHANGED <<lpc, address, pending>>
  BY DEF Receive, Others, listenerVars
<1> QED
  BY <1>5, <1>8, <1>9 DEF HttpTypes

LEMMA ListenerTypes ==
    ASSUME HttpServerAssumption, HttpTypes, Listener PROVE HttpTypes'
<1>1. rx' = rx /\ buf' = buf
  BY DEF Listener, GetAddrInfo, Socket, Bind, Listen, Accept, AcceptFails, AcceptPoll,
         CloseListener, ListenerOnly, kernelVars, taskVars
<1>2. /\ Addresses \in Nat /\ Backlog \in Nat /\ address \in 1..(Addresses + 1)
      /\ pending \in 0..Backlog
  BY DEF HttpTypes, HttpServerAssumption
<1>3. pending' \in 0..Backlog
  BY <1>2 DEF Listener, GetAddrInfo, Socket, Bind, Listen, Accept, AcceptFails, AcceptPoll,
              CloseListener
<1>4. /\ address' \in 1..(Addresses + 1)
      /\ lpc' \in {"socket", "bind"} => address' <= Addresses
  BY <1>2 DEF HttpTypes, Listener, GetAddrInfo, Socket, Bind, Listen, Accept, AcceptFails,
              AcceptPoll, CloseListener, TryAddress
<1> QED
  BY <1>1, <1>3, <1>4 DEF HttpTypes

LEMMA HttpTypesStep ==
    ASSUME HttpServerAssumption, HttpTypes, [Next]_vars PROVE HttpTypes'
<1>1. ASSUME NEW fd \in Fds, Connection(fd) PROVE HttpTypes'
  <2>1. ASSUME NEW from \in pc[fd], Receive(fd, from) PROVE HttpTypes'
    BY <2>1, ReceiveTypes
  <2>2. CASE Close(fd)
    <3>1. <<>> \in Seq(Pieces) /\ <<>> \in Seq({"more"}) /\ Len(<<>>) = 0 /\ BufSize \in Nat
          /\ BufSize > 0
      BY DEF HttpServerAssumption
    <3> QED
      BY <2>2, <3>1 DEF Close, HttpTypes
  <2>3. ASSUME UNCHANGED <<lpc, address, pending, rx, buf>> PROVE HttpTypes'
    BY <2>3 DEF HttpTypes
  <2> QED
    BY <1>1, <2>1, <2>2, <2>3
    DEF Connection, ReceiveNothing, Send, SendNothing, ReceivePoll, SendPoll, Others,
        listenerVars, kernelVars
<1>2. ASSUME NEW fd \in Fds, ClientActs(fd) PROVE HttpTypes'
  <2>1. UNCHANGED <<lpc, address, pending, buf>>
    BY <1>2 DEF ClientActs, listenerVars, taskVars
  <2>2. rx' \in [Fds -> Seq(Pieces)]
    <3>1. CASE rx' = rx
      BY <3>1 DEF HttpTypes
    <3>2. CASE \E p \in Pieces : rx' = [rx EXCEPT ![fd] = Append(@, p)]
      BY <3>2 DEF HttpTypes
    <3> QED
      BY <1>2, <3>1, <3>2 DEF ClientActs
  <2> QED
    BY <2>1, <2>2 DEF HttpTypes
<1>3. CASE Connect
  <2>1. pending < Backlog /\ pending' = pending + 1 /\ UNCHANGED <<lpc, address, rx, buf>>
    BY <1>3 DEF Connect, kernelVars, taskVars
  <2> QED
    BY <2>1 DEF HttpTypes, HttpServerAssumption
<1>4. CASE UNCHANGED vars
  BY <1>4 DEF HttpTypes, vars, listenerVars, kernelVars, taskVars
<1>5. CASE ListenerShut
  <2>1. pending' = 0 /\ UNCHANGED <<lpc, address, rx, buf>> /\ 0 \in 0..Backlog
    BY <1>5 DEF ListenerShut, ListenerOnly, kernelVars, taskVars, HttpServerAssumption
  <2> QED
    BY <2>1 DEF HttpTypes
<1> QED
  BY <1>1, <1>2, <1>3, <1>4, <1>5, ListenerTypes DEF Next

LEMMA HttpTypeOK ==
    ASSUME HttpServerAssumption, DescriptorInv, DataInv, HttpTypes PROVE TypeOK
<1>1. ASSUME NEW fd \in Fds PROVE total[fd] \in 0..Len(response[fd])
  BY DEF DataInv, DataTypes
<1>2. lfd \in Fds \cup {NULL}
  BY DEF DescriptorInv, ListenerHolds
<1> QED
  BY <1>1, <1>2 DEF TypeOK, DescriptorInv, DataInv, DataTypes, HttpTypes, Opening, Accepting, KindT

----------------------------------------------------------------------------
(* Part 2: module MultiLookup, of which MCPrograms has an instance.        *)

\* The ring of coroutines: cs from st on, sz places, holds each of S once.
RingOf(cs, st, sz, S) ==
    /\ \A n \in 0..(sz - 1) : cs[L!WriteLoc(st, n)] \in S
    /\ \A j \in S : \E n \in 0..(sz - 1) : cs[L!WriteLoc(st, n)] = j
    /\ \A m, n \in 0..(sz - 1) : cs[L!WriteLoc(st, m)] = cs[L!WriteLoc(st, n)] => m = n

Places == 0..(RingSize - 1)

LEMMA ModOnce ==
    ASSUME NEW c \in Nat \ {0}, NEW x \in Nat, x < 2 * c
    PROVE  x % c = IF x < c THEN x ELSE x - c
<1> DEFINE q == x \div c
           r == x % c
<1>1. q \in Int /\ r \in 0..(c - 1) /\ x = c * q + r
  OBVIOUS
<1> HIDE DEF q, r
<1>2. CASE q <= -1
  BY <1>1, <1>2
<1>3. CASE q >= 2
  BY <1>1, <1>3
<1>4. CASE q = 0
  BY <1>1, <1>4 DEF r
<1>5. CASE q = 1
  BY <1>1, <1>5 DEF r
<1> QED
  BY <1>1, <1>2, <1>3, <1>4, <1>5

\* An index that goes past the end of the ring at most once
LEMMA WriteLocIs ==
    ASSUME NEW st \in Places, NEW n \in 0..RingSize
    PROVE  /\ L!WriteLoc(st, n) \in Places
           /\ L!WriteLoc(st, n) = IF st + n < RingSize THEN st + n ELSE st + n - RingSize
<1>1. PICK c \in Nat \ {0} : c = RingSize
  BY ProgramsAssumption DEF L!MultiLookupAssumption
<1>2. PICK x \in Nat : x = st + n /\ x < 2 * c
  BY <1>1 DEF Places
<1>3. x % c = IF x < c THEN x ELSE x - c
  BY <1>2, ModOnce
<1>4. L!WriteLoc(st, n) = x % c
  BY <1>1, <1>2 DEF L!WriteLoc
<1>5. (IF x < c THEN x ELSE x - c) \in 0..(c - 1)
  BY <1>2
<1> QED
  BY <1>1, <1>2, <1>3, <1>4, <1>5 DEF Places

LEMMA RingPut ==
    ASSUME NEW cs, DOMAIN cs = Places, NEW st \in Places, NEW sz \in Nat, sz < RingSize, NEW S,
           RingOf(cs, st, sz, S), NEW j, j \notin S
    PROVE  RingOf([cs EXCEPT ![L!WriteLoc(st, sz)] = j], st, sz + 1, S \cup {j})
<1> DEFINE to == [cs EXCEPT ![L!WriteLoc(st, sz)] = j]
<1>1. RingSize \in Nat \ {0}
  BY ProgramsAssumption DEF L!MultiLookupAssumption
<1>2. sz \in 0..RingSize /\ \A n \in 0..(sz - 1) : n \in 0..RingSize
  BY <1>1
<1>3. ASSUME NEW n \in 0..(sz - 1) PROVE L!WriteLoc(st, n) # L!WriteLoc(st, sz)
  <2>1. /\ L!WriteLoc(st, n) = IF st + n < RingSize THEN st + n ELSE st + n - RingSize
        /\ L!WriteLoc(st, sz) = IF st + sz < RingSize THEN st + sz ELSE st + sz - RingSize
    BY <1>2, WriteLocIs
  <2> QED
    BY <1>1, <2>1 DEF Places
<1>4. L!WriteLoc(st, sz) \in Places /\ \A n \in 0..(sz - 1) : L!WriteLoc(st, n) \in Places
  BY <1>2, WriteLocIs
<1>5. /\ to[L!WriteLoc(st, sz)] = j
      /\ \A n \in 0..(sz - 1) : to[L!WriteLoc(st, n)] = cs[L!WriteLoc(st, n)]
  BY <1>3, <1>4
<1>6. (sz + 1) - 1 = sz /\ \A n \in 0..sz : n = sz \/ n \in 0..(sz - 1)
  OBVIOUS
<1>7. 0..(sz - 1) \subseteq 0..sz /\ sz \in 0..sz
  OBVIOUS
<1> HIDE DEF to
<1>8. \A n \in 0..sz : to[L!WriteLoc(st, n)] \in S \cup {j}
  BY <1>5, <1>6 DEF RingOf
<1>9. \A k \in S \cup {j} : \E n \in 0..sz : to[L!WriteLoc(st, n)] = k
  BY <1>5, <1>7 DEF RingOf
<1>10. \A m, n \in 0..sz : to[L!WriteLoc(st, m)] = to[L!WriteLoc(st, n)] => m = n
  BY <1>5, <1>6 DEF RingOf
<1> QED
  BY <1>6, <1>8, <1>9, <1>10 DEF RingOf, to

LEMMA RingTake ==
    ASSUME NEW cs, NEW st \in Places, NEW sz \in 1..RingSize, NEW S, RingOf(cs, st, sz, S)
    PROVE  /\ cs[st] \in S
           /\ L!WriteLoc(st, 1) \in Places
           /\ RingOf(cs, L!WriteLoc(st, 1), sz - 1, S \ {cs[st]})
<1>1. RingSize \in Nat \ {0}
  BY ProgramsAssumption DEF L!MultiLookupAssumption
<1>2. 0 \in 0..RingSize /\ 1 \in 0..RingSize /\ 0 \in 0..(sz - 1)
  BY <1>1
<1>3. L!WriteLoc(st, 0) = st
  BY <1>1, <1>2, WriteLocIs DEF Places
<1>4. L!WriteLoc(st, 1) \in Places
  BY <1>2, WriteLocIs
<1>5. ASSUME NEW n \in 0..((sz - 1) - 1)
      PROVE  n + 1 \in 0..(sz - 1) /\ L!WriteLoc(L!WriteLoc(st, 1), n) = L!WriteLoc(st, n + 1)
  <2>1. n \in 0..RingSize /\ n + 1 \in 0..RingSize /\ n + 1 \in 0..(sz - 1) /\ n < RingSize - 1
    BY <1>1
  <2>2. PICK s \in Places : s = L!WriteLoc(st, 1)
    BY <1>4
  <2>3. s = IF st + 1 < RingSize THEN st + 1 ELSE st + 1 - RingSize
    BY <1>2, <2>2, WriteLocIs
  <2>4. /\ L!WriteLoc(s, n) = IF s + n < RingSize THEN s + n ELSE s + n - RingSize
        /\ L!WriteLoc(st, n + 1) = IF st + (n + 1) < RingSize THEN st + (n + 1)
                                   ELSE st + (n + 1) - RingSize
    BY <2>1, WriteLocIs
  <2>5. L!WriteLoc(s, n) = L!WriteLoc(st, n + 1)
    BY <1>1, <2>1, <2>3, <2>4 DEF Places
  <2> QED
    BY <2>1, <2>2, <2>5
<1>6. cs[st] \in S
  BY <1>2, <1>3 DEF RingOf
<1>7. ASSUME NEW n \in 0..((sz - 1) - 1)
      PROVE  cs[L!WriteLoc(L!WriteLoc(st, 1), n)] \in S \ {cs[st]}
  <2>1. n + 1 \in 0..(sz - 1) /\ n + 1 # 0
    BY <1>5
  <2> QED
    BY <1>2, <1>3, <1>5, <2>1 DEF RingOf
<1>8. ASSUME NEW j \in S \ {cs[st]}
      PROVE  \E n \in 0..((sz - 1) - 1) : cs[L!WriteLoc(L!WriteLoc(st, 1), n)] = j
  <2>1. PICK m \in 0..(sz - 1) : cs[L!WriteLoc(st, m)] = j
    BY DEF RingOf
  <2>2. m # 0
    BY <1>3, <2>1
  <2>3. PICK n \in 0..((sz - 1) - 1) : m = n + 1
    <3>1. m - 1 \in 0..((sz - 1) - 1) /\ m = (m - 1) + 1
      BY <2>2
    <3> QED
      BY <3>1
  <2> QED
    BY <1>5, <2>1, <2>3
<1>9. ASSUME NEW m \in 0..((sz - 1) - 1), NEW n \in 0..((sz - 1) - 1),
             cs[L!WriteLoc(L!WriteLoc(st, 1), m)] = cs[L!WriteLoc(L!WriteLoc(st, 1), n)]
      PROVE  m = n
  <2>1. m + 1 = n + 1
    BY <1>5, <1>9 DEF RingOf
  <2> QED
    BY <2>1
<1> QED
  BY <1>4, <1>6, <1>7, <1>8, <1>9 DEF RingOf

SearchT == [first : Nat, len : Nat, waits : BOOLEAN]

\* Lookups whose answer is counted.
Answered == (1..next_arg) \ live

Within(s) == s.first + s.len <= Len(input.v) /\ (s.waits => s.len > 0)

\* The key of lookup j is in the interval of s, if it is anywhere.
Inside(j, s) ==
    L!IsFound(j) => \E n \in 1..s.len : input.v[s.first + n] = input.lookups[j]

LookupTypes ==
    /\ input \in [style : {"seff", "multi", "single"}, v : Arrays,
                  lookups : [L!Searches -> Keys], streams : Streams]
    /\ at \in {"fill", "turn", "finish", "done", "crashed"}
    /\ next_arg \in 0..NLookups
    /\ coros \in [Places -> L!Searches \cup {NULL}]
    /\ start \in Places
    /\ size \in 0..RingSize /\ limit \in Nat
    /\ live \subseteq 1..next_arg
    /\ search \in [L!Searches -> SearchT]
    /\ found_count \in Nat /\ not_found_count \in Nat

Intervals ==
    /\ \A j \in L!Searches : Within(search[j])
    /\ \A j \in L!Searches : j \notin Answered => Inside(j, search[j])

\* The ring holds live coroutines, all of them when it has room for all; the
\* streams are those of live coroutines and those that are left.
InRing ==
    /\ \E S \in SUBSET live :
          /\ RingOf(coros, start, size, S)
          /\ L!StreamsFit => S = live /\ size = Cardinality(live)
    /\ IsFiniteSet(live) /\ Cardinality(live) + limit = input.streams

\* What the loops know without asking the ring.
Loops ==
    /\ L!StreamsFit =>
          /\ at = "fill" => size > 0 \/ next_arg < NLookups \/ NLookups = 0
          /\ at = "turn" => size > 0
          /\ at # "crashed"
    /\ at \in {"finish", "done"} => next_arg = NLookups
    /\ at = "done" => limit = input.streams

Counting ==
    /\ found_count = Cardinality({j \in Answered : L!IsFound(j)})
    /\ found_count + not_found_count = Cardinality(Answered)

LookupInv == LookupTypes /\ Intervals /\ InRing /\ Loops /\ Counting

LEMMA LookupConstants ==
    /\ NLookups \in Nat /\ RingSize \in Nat \ {0} /\ Streams \subseteq Nat
    /\ NULL \notin L!Searches /\ L!Searches = 1..NLookups
    /\ Keys \subseteq Int
    /\ \A v \in Arrays : /\ v \in Seq(Int)
                         /\ \A m, n \in DOMAIN v : m <= n => v[m] <= v[n]
  BY ProgramsAssumption DEF L!MultiLookupAssumption, L!Searches

LEMMA HalfIs ==
    ASSUME NEW n \in Nat, n > 0
    PROVE  n \div 2 \in Nat /\ n \div 2 < n
  OBVIOUS

\* A binary search looks where the key must be.
LEMMA NarrowKeeps ==
    ASSUME LookupTypes, NEW j \in L!Searches, NEW s \in SearchT, s.len > 0, Within(s),
           NEW x, x = input.v[s.first + s.len \div 2 + 1],
           NEW to, to = L!Narrow(s, x, input.lookups[j])
    PROVE  /\ to \in SearchT /\ to.first + to.len <= Len(input.v)
           /\ Inside(j, s) /\ x # input.lookups[j] => Inside(j, to)
           /\ x = input.lookups[j] => L!IsFound(j)
<1> DEFINE v == input.v
           y == input.lookups[j]
<1>1. /\ v \in Seq(Int) /\ y \in Int
      /\ \A m, n \in DOMAIN v : m <= n => v[m] <= v[n]
  BY LookupConstants DEF LookupTypes
<1> HIDE DEF v, y
<1>2. PICK half \in Nat : half = s.len \div 2 /\ half < s.len
  BY HalfIs DEF SearchT
<1>3. /\ s.first \in Nat /\ s.len \in Nat /\ s.waits \in BOOLEAN
      /\ s = [first |-> s.first, len |-> s.len, waits |-> s.waits]
  BY DEF SearchT
<1>4. s.first + s.len <= Len(v)
  BY DEF Within, v
<1>5. DOMAIN v = 1..Len(v) /\ Len(v) \in Nat
  BY <1>1
<1>6. s.first + half + 1 \in DOMAIN v /\ x = v[s.first + half + 1] /\ x \in Int
  <2>1. s.first + half + 1 \in DOMAIN v
    BY <1>2, <1>3, <1>4, <1>5
  <2>2. x = v[s.first + half + 1]
    BY <1>2 DEF v
  <2>3. v[s.first + half + 1] \in Int
    BY <1>1, <1>5, <2>1
  <2> QED
    BY <2>1, <2>2, <2>3
<1>7. CASE x < y
  <2>1. to = [s EXCEPT !.first = s.first + half + 1, !.len = s.len - half - 1]
    BY <1>2, <1>7 DEF L!Narrow, y
  <2>2. to.first = s.first + half + 1 /\ to.len = s.len - half - 1 /\ to.waits = s.waits
        /\ to = [first |-> to.first, len |-> to.len, waits |-> to.waits]
    BY <1>3, <2>1
  <2>3. to \in SearchT /\ to.first + to.len <= Len(v)
    <3>1. to.first \in Nat /\ to.len \in Nat /\ to.first + to.len <= Len(v)
      BY <1>2, <1>3, <1>4, <1>5, <2>2, SMTT(30)
    <3> QED
      BY <1>3, <2>2, <3>1 DEF SearchT
  <2>4. ASSUME NEW n \in 1..s.len, v[s.first + n] = y
        PROVE  \E m \in 1..to.len : v[to.first + m] = y
    <3>1. s.first + n \in DOMAIN v
      BY <1>3, <1>4, <1>5
    <3>2. ~(s.first + n <= s.first + half + 1)
      BY <1>1, <1>6, <1>7, <2>4, <3>1
    <3>3. n - half - 1 \in 1..to.len /\ to.first + (n - half - 1) = s.first + n
      BY <1>2, <1>3, <2>2, <3>2
    <3> QED
      BY <2>4, <3>3
  <2>5. Inside(j, s) => Inside(j, to)
    BY <2>4 DEF Inside, v, y
  <2> QED
    BY <1>1, <1>6, <1>7, <2>3, <2>5 DEF v, y
<1>8. CASE ~(x < y)
  <2>1. to = [s EXCEPT !.len = half]
    BY <1>2, <1>8 DEF L!Narrow, y
  <2>2. to.first = s.first /\ to.len = half /\ to.waits = s.waits
        /\ to = [first |-> to.first, len |-> to.len, waits |-> to.waits]
    BY <1>3, <2>1
  <2>3. to \in SearchT /\ to.first + to.len <= Len(v)
    <3>1. to.first \in Nat /\ to.len \in Nat /\ to.first + to.len <= Len(v)
      BY <1>2, <1>3, <1>4, <1>5, <2>2
    <3> QED
      BY <1>3, <2>2, <3>1 DEF SearchT
  <2>4. ASSUME NEW n \in 1..s.len, v[s.first + n] = y, x # y
        PROVE  \E m \in 1..to.len : v[to.first + m] = y
    <3>1. s.first + n \in DOMAIN v
      BY <1>3, <1>4, <1>5
    <3>2. y < x
      BY <1>1, <1>6, <1>8, <2>4
    <3>3. ~(s.first + half + 1 <= s.first + n)
      BY <1>1, <1>6, <2>4, <3>1, <3>2
    <3>4. n \in 1..to.len
      BY <1>2, <1>3, <2>2, <3>3
    <3> QED
      BY <2>2, <2>4, <3>4
  <2>5. Inside(j, s) /\ x # y => Inside(j, to)
    BY <2>4 DEF Inside, v, y
  <2>6. x = y => L!IsFound(j)
    BY <1>6 DEF L!IsFound, v, y
  <2> QED
    BY <2>3, <2>5, <2>6 DEF v, y
<1> QED
  BY <1>7, <1>8

LEMMA WaitsSet ==
    ASSUME NEW s \in SearchT, NEW b \in BOOLEAN, NEW to, to = [s EXCEPT !.waits = b]
    PROVE  to \in SearchT /\ to.first = s.first /\ to.len = s.len /\ to.waits = b
  BY DEF SearchT

\* From one suspension of a coroutine to the next.
LEMMA RunIs ==
    ASSUME LookupTypes, NEW j \in L!Searches, Within(search[j]), Inside(j, search[j]),
           NEW r, r = L!Run(j)
    PROVE  /\ r.result \in {-1, 0, 1} /\ r.s \in SearchT /\ Within(r.s)
           /\ r.result = -1 => Inside(j, r.s)
           /\ r.result = 1 => L!IsFound(j)
           /\ r.result = 0 => ~L!IsFound(j)
<1> DEFINE s == search[j]
           x == input.v[s.first + s.len \div 2 + 1]
           y == input.lookups[j]
           to == L!Narrow(s, x, y)
<1>1. s \in SearchT
  BY DEF LookupTypes
<1>2. ASSUME NEW t \in SearchT, t.first + t.len <= Len(input.v), Inside(j, t), r = L!LoopHead(t)
      PROVE  /\ r.result \in {-1, 0, 1} /\ r.s \in SearchT /\ Within(r.s)
             /\ r.result = -1 => Inside(j, r.s)
             /\ r.result = 1 => L!IsFound(j)
             /\ r.result = 0 => ~L!IsFound(j)
  <2>1. t.first \in Nat /\ t.len \in Nat
    BY DEF SearchT
  <2>2. CASE t.len > 0
    <3>1. r.result = -1 /\ r.s = [t EXCEPT !.waits = TRUE]
      BY <1>2, <2>2 DEF L!LoopHead, L!Suspended
    <3>2. r.s \in SearchT /\ r.s.first = t.first /\ r.s.len = t.len /\ r.s.waits = TRUE
      BY <3>1, WaitsSet
    <3> QED
      BY <1>2, <2>1, <2>2, <3>1, <3>2 DEF Within, Inside
  <2>3. CASE ~(t.len > 0)
    <3>1. r.result = 0 /\ r.s = [t EXCEPT !.waits = FALSE]
      BY <1>2, <2>3 DEF L!LoopHead, L!Returned
    <3>2. r.s \in SearchT /\ r.s.first = t.first /\ r.s.len = t.len /\ r.s.waits = FALSE
      BY <3>1, WaitsSet
    <3>3. ~L!IsFound(j)
      BY <1>2, <2>1, <2>3 DEF Inside
    <3> QED
      BY <1>2, <2>1, <3>1, <3>2, <3>3 DEF Within
  <2> QED
    BY <2>2, <2>3
<1> HIDE DEF s, x, y, to
<1>3. CASE ~s.waits
  <2>1. r = L!LoopHead(s)
    BY <1>3 DEF L!Run, s
  <2> QED
    BY <1>1, <1>2, <2>1 DEF Within, s
<1>4. CASE s.waits
  <2>1. s.len > 0 /\ Within(s)
    BY <1>4 DEF Within, s
  <2>2. /\ to \in SearchT /\ to.first + to.len <= Len(input.v)
        /\ x # y => Inside(j, to)
        /\ x = y => L!IsFound(j)
    BY <1>1, <2>1, NarrowKeeps DEF s, x, y, to
  <2>3. CASE x = y
    <3>1. r = L!Returned(to, 1)
      BY <1>4, <2>3 DEF L!Run, s, x, y, to
    <3>2. r.result = 1 /\ r.s = [to EXCEPT !.waits = FALSE]
      BY <3>1 DEF L!Returned
    <3>3. r.s \in SearchT /\ r.s.first = to.first /\ r.s.len = to.len /\ r.s.waits = FALSE
      BY <2>2, <3>2, WaitsSet
    <3> QED
      BY <2>2, <2>3, <3>2, <3>3 DEF Within
  <2>4. CASE x # y
    <3>1. r = L!LoopHead(to)
      BY <1>4, <2>4 DEF L!Run, s, x, y, to
    <3> QED
      BY <1>2, <2>2, <2>4, <3>1
  <2> QED
    BY <2>3, <2>4
<1>5. s.waits \in BOOLEAN
  BY <1>1 DEF SearchT
<1> QED
  BY <1>3, <1>4, <1>5

LEMMA SameInput ==
    ASSUME UNCHANGED input
    PROVE  /\ \A j : L!IsFound(j)' <=> L!IsFound(j)
           /\ \A s : Within(s)' <=> Within(s)
           /\ \A j, s : Inside(j, s)' <=> Inside(j, s)
  BY DEF L!IsFound, Within, Inside

LEMMA AnsweredFinite ==
    ASSUME next_arg \in Nat PROVE IsFiniteSet(Answered) /\ Cardinality(Answered) \in Nat
<1>1. IsFiniteSet(1..next_arg)
  BY FS_Interval
<1> QED
  BY <1>1, FS_Subset, FS_CardinalityType DEF Answered

LEMMA LookupInit == L!Init => LookupInv
<1> SUFFICES ASSUME L!Init PROVE LookupInv
  OBVIOUS
<1>1. /\ input \in [style : {"seff", "multi", "single"}, v : Arrays,
                     lookups : [L!Searches -> Keys], streams : Streams]
      /\ at = "fill" /\ next_arg = 0 /\ limit = input.streams
      /\ coros = [n \in Places |-> NULL] /\ start = 0 /\ size = 0 /\ live = {}
      /\ search = [j \in L!Searches |-> [first |-> 0, len |-> Len(input.v), waits |-> FALSE]]
      /\ found_count = 0 /\ not_found_count = 0
  BY DEF L!Init, Places
<1>2. input.v \in Seq(Int) /\ Len(input.v) \in Nat /\ input.streams \in Nat
  BY <1>1, LookupConstants
<1>3. 0 \in Places /\ 0 \in 0..NLookups
  BY LookupConstants DEF Places
<1>4. ASSUME NEW j \in L!Searches
      PROVE  search[j] \in SearchT /\ Within(search[j]) /\ Inside(j, search[j])
  <2>1. search[j] = [first |-> 0, len |-> Len(input.v), waits |-> FALSE]
    BY <1>1
  <2>2. search[j].first = 0 /\ search[j].len = Len(input.v) /\ search[j].waits = FALSE
    BY <2>1
  <2>3. search[j] \in SearchT
    BY <1>2, <2>1 DEF SearchT
  <2>4. DOMAIN input.v = 1..Len(input.v) /\ \A n \in 1..Len(input.v) : 0 + n = n
    BY <1>2
  <2> QED
    BY <1>2, <2>2, <2>3, <2>4 DEF Within, Inside, L!IsFound
<1>5. search \in [L!Searches -> SearchT]
  BY <1>1, <1>4
<1>6. LookupTypes
  <2>1. coros \in [Places -> L!Searches \cup {NULL}]
    BY <1>1
  <2>2. size \in 0..RingSize
    BY <1>1, LookupConstants
  <2> QED
    BY <1>1, <1>2, <1>3, <1>5, <2>1, <2>2 DEF LookupTypes
<1>7. InRing
  <2>1. RingOf(coros, start, size, live)
    BY <1>1 DEF RingOf
  <2> QED
    BY <1>1, <1>2, <2>1, FS_EmptySet DEF InRing
<1>8. Loops
  BY <1>1, LookupConstants DEF Loops
<1>9. Counting
  <2>1. Answered = {} /\ {j \in Answered : L!IsFound(j)} = {}
    BY <1>1 DEF Answered
  <2> QED
    BY <1>1, <2>1, FS_EmptySet DEF Counting
<1> QED
  BY <1>4, <1>6, <1>7, <1>8, <1>9 DEF LookupInv, Intervals

LEMMA FillKeeps == ASSUME LookupInv, L!Fill PROVE LookupInv'
<1>1. LookupTypes /\ Intervals /\ InRing /\ Loops /\ Counting
  BY DEF LookupInv
<1>2. /\ at = "fill" /\ next_arg < NLookups /\ limit > 0 /\ limit' = limit - 1
      /\ next_arg' = next_arg + 1 /\ live' = live \cup {next_arg'}
      /\ L!Enqueue(start, size, next_arg')
      /\ UNCHANGED <<input, at, start, search, found_count, not_found_count>>
  BY DEF L!Fill, L!counts
<1> DEFINE j == next_arg + 1
<1>3. next_arg \in Nat /\ j \in L!Searches /\ j \notin live /\ live \subseteq 1..j
  BY <1>1, <1>2, LookupConstants DEF LookupTypes
<1>4. /\ size \in 0..RingSize /\ limit \in Nat /\ RingSize \in Nat /\ input.streams \in Nat
      /\ IsFiniteSet(live) /\ Cardinality(live) \in Nat
      /\ Cardinality(live) + limit = input.streams
  BY <1>1, FS_CardinalityType, LookupConstants DEF LookupTypes, InRing
<1>5. \/ size = RingSize /\ ~L!StreamsFit /\ UNCHANGED <<coros, size>>
      \/ /\ size \in Nat /\ size < RingSize
         /\ coros' = [coros EXCEPT ![L!WriteLoc(start, size)] = j] /\ size' = size + 1
  <2>1. CASE size = RingSize
    <3>1. ASSUME L!StreamsFit PROVE FALSE
      <4>1. Cardinality(live) = RingSize /\ input.streams <= RingSize
        BY <1>1, <1>4, <2>1, <3>1 DEF InRing, L!StreamsFit
      <4> QED
        BY <1>2, <1>4, <4>1
    <3> QED
      BY <1>2, <2>1, <3>1 DEF L!Enqueue
  <2>2. CASE size # RingSize
    BY <1>2, <1>4, <2>2 DEF L!Enqueue
  <2> QED
    BY <2>1, <2>2
<1>6. start \in Places /\ coros \in [Places -> L!Searches \cup {NULL}]
  BY <1>1 DEF LookupTypes
<1>7. coros' \in [Places -> L!Searches \cup {NULL}] /\ size' \in 0..RingSize
  BY <1>3, <1>4, <1>5, <1>6
<1> HIDE DEF j
<1>8. live' = live \cup {j} /\ next_arg' = j
  BY <1>2 DEF j
<1>9. Answered' = Answered
  BY <1>1, <1>3, <1>8 DEF Answered, LookupTypes, j
<1>10. LookupTypes'
  <2>1. limit' \in Nat
    BY <1>2, <1>4
  <2>2. next_arg' \in 0..NLookups
    BY <1>3, <1>8, LookupConstants
  <2>3. live' \subseteq 1..next_arg'
    BY <1>3, <1>8 DEF j
  <2> QED
    BY <1>1, <1>2, <1>7, <2>1, <2>2, <2>3 DEF LookupTypes
<1>11. Intervals'
  <2>1. /\ \A k \in L!Searches : Within(search[k])'
        /\ \A k \in L!Searches : k \notin Answered' => Inside(k, search[k])'
    BY <1>1, <1>2, <1>9 DEF Intervals, Within, Inside, L!IsFound
  <2> QED
    BY <2>1 DEF Intervals
<1>12. InRing'
  <2>1. PICK S \in SUBSET live : /\ RingOf(coros, start, size, S)
                                 /\ L!StreamsFit => S = live /\ size = Cardinality(live)
    BY <1>1 DEF InRing
  <2>2. IsFiniteSet(live') /\ Cardinality(live') = Cardinality(live) + 1
    BY <1>3, <1>4, <1>8, FS_AddElement
  <2>3. Cardinality(live') + limit' = input'.streams
    BY <1>2, <1>4, <2>2
  <2>4. L!StreamsFit' <=> L!StreamsFit
    BY <1>2 DEF L!StreamsFit
  <2>5. CASE size = RingSize /\ ~L!StreamsFit /\ UNCHANGED <<coros, size>>
    <3>1. S \in SUBSET live' /\ RingOf(coros', start', size', S)
      BY <1>2, <1>8, <2>1, <2>5
    <3> QED
      BY <2>2, <2>3, <2>4, <2>5, <3>1 DEF InRing
  <2>6. CASE /\ size \in Nat /\ size < RingSize
             /\ coros' = [coros EXCEPT ![L!WriteLoc(start, size)] = j] /\ size' = size + 1
    <3>1. DOMAIN coros = Places /\ j \notin S /\ S \cup {j} \in SUBSET live'
      BY <1>3, <1>6, <1>8
    <3>2. RingOf(coros', start', size', S \cup {j})
      BY <1>2, <1>6, <2>1, <2>6, <3>1, RingPut
    <3>3. L!StreamsFit => S \cup {j} = live' /\ size' = Cardinality(live')
      BY <1>8, <2>1, <2>2, <2>6
    <3> QED
      BY <2>2, <2>3, <2>4, <3>1, <3>2, <3>3 DEF InRing
  <2> QED
    BY <1>5, <2>5, <2>6
<1>13. Loops'
  <2>1. L!StreamsFit' => size' > 0
    BY <1>2, <1>5 DEF L!StreamsFit
  <2> QED
    BY <1>2, <2>1 DEF Loops
<1>14. Counting'
  <2>1. {k \in Answered : L!IsFound(k)}' = {k \in Answered : L!IsFound(k)}
    BY <1>2, <1>9 DEF L!IsFound
  <2> QED
    BY <1>1, <1>2, <1>9, <2>1 DEF Counting
<1> QED
  BY <1>10, <1>11, <1>12, <1>13, <1>14 DEF LookupInv

\* Filled, Finish and a crash change at alone.
LEMMA LoopKeeps ==
    ASSUME LookupInv, at' \in {"fill", "turn", "finish", "done", "crashed"}, Loops',
           UNCHANGED <<input, next_arg, limit, coros, start, size, live, search,
                       found_count, not_found_count>>
    PROVE  LookupInv'
<1>1. LookupTypes /\ Intervals /\ InRing /\ Counting
  BY DEF LookupInv
<1>2. LookupTypes'
  BY <1>1 DEF LookupTypes
<1>3. Answered' = Answered
  BY DEF Answered
<1>4. Intervals'
  BY <1>1, <1>3 DEF Intervals, Within, Inside, L!IsFound
<1>5. InRing'
  BY <1>1 DEF InRing, L!StreamsFit
<1>6. Counting'
  BY <1>1, <1>3 DEF Counting, L!IsFound
<1> QED
  BY <1>2, <1>4, <1>5, <1>6 DEF LookupInv

LEMMA FilledKeeps == ASSUME LookupInv, L!Filled PROVE LookupInv'
<1>1. LookupTypes /\ Loops
  BY DEF LookupInv
<1>2. /\ at = "fill" /\ ~(next_arg < NLookups /\ limit > 0)
      /\ at' = IF NLookups > 0 /\ (input.style = "seff" \/ limit = 0) THEN "turn" ELSE "finish"
      /\ UNCHANGED <<input, next_arg, limit, coros, start, size, live, search,
                     found_count, not_found_count>>
  BY DEF L!Filled, L!queueVars, L!counts
<1>3. /\ next_arg \in 0..NLookups /\ limit \in Nat /\ NLookups \in Nat
      /\ size \in 0..RingSize /\ RingSize \in Nat
  BY <1>1, LookupConstants DEF LookupTypes
<1>4. CASE at' = "turn"
  <2>1. ASSUME L!StreamsFit PROVE size > 0
    <3>1. size = Cardinality(live) /\ Cardinality(live) + limit = input.streams
          /\ input.streams >= 1
      BY <1>3, <2>1 DEF LookupInv, InRing, L!StreamsFit
    <3>2. size > 0 \/ next_arg < NLookups
      BY <1>1, <1>2, <1>3, <1>4, <2>1 DEF Loops
    <3> QED
      BY <1>2, <1>3, <3>1, <3>2
  <2>2. L!StreamsFit' <=> L!StreamsFit
    BY <1>2 DEF L!StreamsFit
  <2> QED
    BY <1>2, <1>4, <2>1, <2>2, LoopKeeps DEF Loops
<1>5. CASE at' = "finish"
  <2>1. NLookups = 0 \/ limit # 0
    BY <1>2, <1>3, <1>5
  <2>2. next_arg = NLookups
    BY <1>2, <1>3, <2>1
  <2> QED
    BY <1>2, <1>5, <2>2, LoopKeeps DEF Loops
<1> QED
  BY <1>2, <1>4, <1>5

LEMMA FinishKeeps == ASSUME LookupInv, L!Finish PROVE LookupInv'
<1>1. LookupTypes /\ Loops
  BY DEF LookupInv
<1>2. /\ at = "finish" /\ limit = input.streams /\ at' = "done"
      /\ UNCHANGED <<input, next_arg, limit, coros, start, size, live, search,
                     found_count, not_found_count>>
  BY DEF L!Finish, L!queueVars, L!counts
<1> QED
  BY <1>1, <1>2, LoopKeeps DEF Loops

\* A coroutine is taken off the ring and resumed.
LEMMA ResumeKeeps ==
    ASSUME LookupInv, size > 0, at \in {"turn", "finish"}, UNCHANGED <<input, next_arg>>,
           NEW j, j = coros[start], NEW r, r = L!Run(j), L!ResumeFront(j, r)
    PROVE  LookupInv'
<1>1. LookupTypes /\ Intervals /\ InRing /\ Loops /\ Counting
  BY DEF LookupInv
<1>2. /\ limit \in Nat /\ RingSize \in Nat /\ size \in 1..RingSize
      /\ NLookups \in Nat /\ next_arg \in 0..NLookups /\ input.streams \in Nat
  <2>1. /\ limit \in Nat /\ RingSize \in Nat /\ size \in 0..RingSize
        /\ NLookups \in Nat /\ next_arg \in 0..NLookups
    BY <1>1, LookupConstants DEF LookupTypes
  <2>2. input.streams \in Nat
    BY <1>1, LookupConstants DEF LookupTypes
  <2> QED
    BY <2>1, <2>2
<1>3. start \in Places /\ coros \in [Places -> L!Searches \cup {NULL}]
  BY <1>1 DEF LookupTypes
<1> PICK S \in SUBSET live : /\ RingOf(coros, start, size, S)
                             /\ L!StreamsFit => S = live /\ size = Cardinality(live)
  BY <1>1 DEF InRing
<1>4. /\ j \in S /\ j \in live /\ L!AfterFront \in Places
      /\ RingOf(coros, L!AfterFront, size - 1, S \ {j})
  <2>1. L!AfterFront = L!WriteLoc(start, 1)
    BY DEF L!AfterFront, L!WriteLoc
  <2> QED
    BY <1>2, <1>3, <2>1, RingTake
<1>5. j \in L!Searches /\ j \in 1..next_arg /\ live \subseteq 1..next_arg /\ j \notin Answered
  BY <1>1, <1>2, <1>4, LookupConstants DEF LookupTypes, Answered
<1>6. Within(search[j]) /\ Inside(j, search[j])
  BY <1>1, <1>5 DEF Intervals
<1>7. /\ r.result \in {-1, 0, 1} /\ r.s \in SearchT /\ Within(r.s)
      /\ r.result = -1 => Inside(j, r.s)
      /\ r.result = 1 => L!IsFound(j)
      /\ r.result = 0 => ~L!IsFound(j)
  BY <1>1, <1>5, <1>6, RunIs
<1>8. /\ search' = [search EXCEPT ![j] = r.s] /\ start' = L!AfterFront
      /\ search \in [L!Searches -> SearchT]
  BY <1>1 DEF L!ResumeFront, LookupTypes
<1>9. /\ search' \in [L!Searches -> SearchT]
      /\ search'[j] = r.s /\ \A k \in L!Searches : k # j => search'[k] = search[k]
  BY <1>5, <1>7, <1>8
<1>10. ASSUME Answered \subseteq Answered', r.result # -1 => j \in Answered'
       PROVE  Intervals'
  <2>1. ASSUME NEW k \in L!Searches
        PROVE  Within(search'[k]) /\ (k \notin Answered' => Inside(k, search'[k]))
    <3>1. CASE k = j
      BY <1>7, <1>9, <1>10, <3>1
    <3>2. CASE k # j
      BY <1>1, <1>9, <1>10, <3>2 DEF Intervals
    <3> QED
      BY <3>1, <3>2
  <2> QED
    BY <2>1, SameInput DEF Intervals, Within, Inside, L!IsFound
<1>11. CASE r.result = -1
  <2>1. L!Enqueue(L!AfterFront, size - 1, j)
        /\ UNCHANGED <<at, live, limit, found_count, not_found_count>>
    BY <1>11 DEF L!ResumeFront, L!counts
  <2>2. /\ coros' = [coros EXCEPT ![L!WriteLoc(L!AfterFront, size - 1)] = j]
        /\ size' = (size - 1) + 1 /\ size' = size
    BY <1>2, <2>1 DEF L!Enqueue
  <2>3. coros' \in [Places -> L!Searches \cup {NULL}]
    BY <1>3, <1>5, <2>2
  <2>4. LookupTypes'
    BY <1>1, <1>4, <1>8, <1>9, <2>1, <2>2, <2>3 DEF LookupTypes
  <2>5. Answered' = Answered
    BY <2>1 DEF Answered
  <2>6. InRing'
    <3>1. (S \ {j}) \cup {j} = S /\ DOMAIN coros = Places /\ j \notin S \ {j}
          /\ size - 1 \in Nat /\ size - 1 < RingSize
      BY <1>2, <1>3, <1>4
    <3>2. RingOf([coros EXCEPT ![L!WriteLoc(L!AfterFront, size - 1)] = j], L!AfterFront,
                 (size - 1) + 1, (S \ {j}) \cup {j})
      BY <1>4, <3>1, RingPut
    <3>3. RingOf(coros', start', size', S)
      BY <1>8, <2>2, <3>1, <3>2
    <3>4. L!StreamsFit' => S = live' /\ size' = Cardinality(live')
      BY <2>1, <2>2 DEF L!StreamsFit
    <3> QED
      BY <1>1, <2>1, <3>3, <3>4 DEF InRing
  <2>7. Loops'
    BY <1>1, <2>1, <2>2 DEF Loops, L!StreamsFit
  <2>8. Counting'
    BY <1>1, <2>1, <2>5 DEF Counting, L!IsFound
  <2> QED
    BY <1>10, <1>11, <2>4, <2>5, <2>6, <2>7, <2>8 DEF LookupInv
<1>12. CASE r.result # -1
  <2>1. /\ size' = size - 1 /\ found_count' = found_count + r.result
        /\ not_found_count' = not_found_count + 1 - r.result
        /\ live' = live \ {j} /\ limit' = limit + 1 /\ at' = L!AfterDone
        /\ UNCHANGED coros
    BY <1>12 DEF L!ResumeFront
  <2>2. r.result \in {0, 1} /\ (r.result = 1 <=> L!IsFound(j))
    BY <1>7, <1>12
  <2>3. Answered' = Answered \cup {j}
    BY <1>4, <1>5, <2>1 DEF Answered
  <2>4. size' \in 0..RingSize /\ limit' \in Nat
    BY <1>2, <2>1
  <2>5. /\ found_count \in Nat /\ not_found_count \in Nat
        /\ found_count' \in Nat /\ not_found_count' \in Nat
        /\ found_count' + not_found_count' = (found_count + not_found_count) + 1
    BY <1>1, <2>1, <2>2 DEF LookupTypes
  <2>6. at' \in {"fill", "finish"} /\ (at' = "fill" => next_arg < NLookups)
        /\ (at' = "finish" => next_arg = NLookups)
    BY <1>1, <1>2, <2>1 DEF L!AfterDone, Loops
  <2>7. LookupTypes'
    BY <1>1, <1>4, <1>8, <1>9, <2>1, <2>4, <2>5, <2>6 DEF LookupTypes
  <2>8. InRing'
    <3>1. RingOf(coros', start', size', S \ {j}) /\ S \ {j} \in SUBSET live'
      BY <1>4, <1>8, <2>1
    <3>2. /\ IsFiniteSet(live) /\ Cardinality(live) \in Nat
          /\ Cardinality(live) + limit = input.streams
      BY <1>1, FS_CardinalityType DEF InRing
    <3>3. IsFiniteSet(live') /\ Cardinality(live') = Cardinality(live) - 1
      BY <1>4, <2>1, <3>2, FS_RemoveElement
    <3>4. Cardinality(live') + limit' = input'.streams
      BY <1>2, <2>1, <3>2, <3>3
    <3>5. L!StreamsFit' => S \ {j} = live' /\ size' = Cardinality(live')
      BY <2>1, <3>3 DEF L!StreamsFit
    <3> QED
      BY <3>1, <3>3, <3>4, <3>5 DEF InRing
  <2>9. Loops'
    BY <2>6 DEF Loops
  <2>10. Counting'
    <3> DEFINE F == {k \in Answered : L!IsFound(k)}
               G == {k \in Answered' : L!IsFound(k)}
    <3>1. IsFiniteSet(Answered) /\ Cardinality(Answered) \in Nat
      BY <1>2, AnsweredFinite
    <3>2. IsFiniteSet(F) /\ Cardinality(F) \in Nat /\ j \notin F
      BY <1>5, <3>1, FS_Subset, FS_CardinalityType
    <3>3. G = IF L!IsFound(j) THEN F \cup {j} ELSE F
      BY <2>3
    <3>4. Cardinality(G) = IF L!IsFound(j) THEN Cardinality(F) + 1 ELSE Cardinality(F)
      BY <3>2, <3>3, FS_AddElement
    <3>5. Cardinality(Answered') = Cardinality(Answered) + 1
      BY <1>5, <2>3, <3>1, FS_AddElement
    <3>6. found_count = Cardinality(F) /\ found_count + not_found_count = Cardinality(Answered)
      BY <1>1 DEF Counting
    <3>7. found_count' = Cardinality(G)
      BY <2>1, <2>2, <2>5, <3>4, <3>6
    <3>8. found_count' + not_found_count' = Cardinality(Answered')
      BY <2>5, <3>5, <3>6
    <3>9. {k \in Answered : L!IsFound(k)}' = G
      BY SameInput DEF L!IsFound
    <3> QED
      BY <3>7, <3>8, <3>9 DEF Counting
  <2> QED
    BY <1>10, <2>3, <2>7, <2>8, <2>9, <2>10 DEF LookupInv
<1> QED
  BY <1>11, <1>12

LEMMA TurnKeeps == ASSUME LookupInv, L!Turn PROVE LookupInv'
<1>1. LookupTypes /\ InRing /\ Loops
  BY DEF LookupInv
<1>2. /\ at = "turn" \/ (at = "finish" /\ limit < input.streams)
      /\ UNCHANGED <<input, next_arg>>
  BY DEF L!Turn
<1>3. size \in 0..RingSize /\ RingSize \in Nat /\ limit \in Nat
  BY <1>1, LookupConstants DEF LookupTypes
<1>4. CASE size > 0
  <2>1. L!Front = coros[start] /\ size \in 1..RingSize
    BY <1>3, <1>4 DEF L!Front
  <2>2. coros[start] \in live
    BY <1>1, <2>1, RingTake DEF LookupTypes, InRing
  <2>3. live \subseteq L!Searches
    BY <1>1, LookupConstants DEF LookupTypes
  <2>4. coros[start] # NULL
    BY <2>2, <2>3, LookupConstants
  <2>5. L!ResumeFront(coros[start], L!Run(coros[start]))
    BY <2>1, <2>4 DEF L!Turn
  <2> QED
    BY <1>2, <1>4, <2>5, ResumeKeeps
<1>5. CASE ~(size > 0)
  <2>1. /\ at' = "crashed"
        /\ UNCHANGED <<input, next_arg, limit, coros, start, size, live, search,
                       found_count, not_found_count>>
    BY <1>3, <1>5 DEF L!Turn, L!Front, L!queueVars, L!counts
  <2>2. ~L!StreamsFit
    <3>1. SUFFICES ASSUME L!StreamsFit PROVE FALSE
      OBVIOUS
    <3>2. size = Cardinality(live) /\ Cardinality(live) + limit = input.streams /\ size = 0
      BY <1>1, <1>3, <1>5, <3>1 DEF InRing
    <3> QED
      BY <1>1, <1>2, <1>3, <3>1, <3>2 DEF Loops
  <2>3. Loops'
    BY <2>1, <2>2 DEF Loops, L!StreamsFit
  <2> QED
    BY <2>1, <2>3, LoopKeeps
<1> QED
  BY <1>4, <1>5

LEMMA LookupNext == ASSUME LookupInv, L!Next PROVE LookupInv'
  BY FillKeeps, FilledKeeps, TurnKeeps, FinishKeeps DEF L!Next

LEMMA LookupStutters == ASSUME LookupInv, UNCHANGED L!vars PROVE LookupInv'
<1>1. /\ UNCHANGED <<input, next_arg, limit, coros, start, size, live, search,
                     found_count, not_found_count>>
      /\ UNCHANGED at
  BY DEF L!vars, L!queueVars, L!counts
<1>2. at \in {"fill", "turn", "finish", "done", "crashed"} /\ Loops
  BY DEF LookupInv, LookupTypes
<1>3. Loops'
  BY <1>1, <1>2 DEF Loops, L!StreamsFit
<1> QED
  BY <1>1, <1>2, <1>3, LoopKeeps

\* The instance has a Cardinality of its own.
LEMMA SameCardinality == ASSUME NEW S PROVE L!Cardinality(S) = Cardinality(S)
  BY DEF L!Cardinality, Cardinality

LEMMA LookupResults ==
    ASSUME LookupInv
    PROVE  /\ L!TypeOK /\ L!KeyStaysInside /\ L!RingHoldsTheLive /\ L!CountsAreRight
<1>1. LookupTypes /\ Intervals /\ InRing /\ Loops /\ Counting
  BY DEF LookupInv
<1>2. /\ input.streams \in Nat /\ RingSize \in Nat /\ NLookups \in Nat
      /\ size \in 0..RingSize /\ limit \in 0..input.streams
      /\ IsFiniteSet(live) /\ Cardinality(live) \in Nat
      /\ Cardinality(live) + limit = input.streams
      /\ next_arg \in 0..NLookups /\ L!Searches = 1..NLookups
  <2>1. IsFiniteSet(live) /\ Cardinality(live) + limit = input.streams
    BY <1>1 DEF InRing
  <2>2. Cardinality(live) \in Nat
    BY <2>1, FS_CardinalityType
  <2>3. limit \in Nat /\ input.streams \in Nat
    BY <1>1, LookupConstants DEF LookupTypes
  <2>4. limit \in 0..input.streams
    BY <2>1, <2>2, <2>3
  <2> QED
    BY <1>1, <2>1, <2>2, <2>3, <2>4, LookupConstants DEF LookupTypes
<1>3. live \subseteq L!Searches
  BY <1>1, <1>2 DEF LookupTypes
<1>4. L!TypeOK
  BY <1>1, <1>2, <1>3 DEF L!TypeOK, LookupTypes, Places, Intervals, Within
<1>5. L!KeyStaysInside
  <2>1. ASSUME NEW j \in live PROVE Inside(j, search[j])
    BY <1>1, <1>3, <2>1 DEF Intervals, Answered
  <2> QED
    BY <2>1 DEF L!KeyStaysInside, Inside
<1>6. ASSUME L!StreamsFit PROVE L!RingHoldsTheLive
  <2>1. /\ \A n \in 0..(size - 1) : coros[L!WriteLoc(start, n)] \in live
        /\ \A j \in live : \E n \in 0..(size - 1) : coros[L!WriteLoc(start, n)] = j
    BY <1>1, <1>6 DEF InRing, RingOf
  <2>2. at # "crashed" /\ size = Cardinality(live)
    BY <1>1, <1>6 DEF Loops, InRing
  <2>3. size = input.streams - limit
    BY <1>2, <2>2
  <2> QED
    BY <2>1, <2>2, <2>3, SameCardinality DEF L!RingHoldsTheLive
<1>7. L!CountsAreRight
  <2>1. CASE at = "done"
    <3>1. live = {} /\ next_arg = NLookups
      <4>1. Cardinality(live) = 0 /\ next_arg = NLookups
        BY <1>1, <1>2, <2>1 DEF Loops
      <4> QED
        BY <1>2, <4>1, FS_EmptySet
    <3>2. Answered = L!Searches /\ Cardinality(L!Searches) = NLookups
      BY <1>2, <3>1, FS_Interval DEF Answered
    <3> DEFINE F == {j \in L!Searches : L!IsFound(j)}
    <3>3. {j \in Answered : L!IsFound(j)} = F
      BY <3>2
    <3>4. found_count = Cardinality(F) /\ found_count + not_found_count = NLookups
      BY <1>1, <3>2, <3>3 DEF Counting
    <3> QED
      BY <3>4, SameCardinality DEF L!CountsAreRight
  <2> QED
    BY <2>1 DEF L!CountsAreRight
<1>8. ~L!StreamsFit => L!RingHoldsTheLive
  BY DEF L!RingHoldsTheLive
<1> QED
  BY <1>4, <1>5, <1>6, <1>7, <1>8

----------------------------------------------------------------------------
(* Part 3: module Chameneos, of which MCPrograms has an instance.          *)

MateT == [kind : {"mate"}, who : C!Creatures, col : 0..2]
BoxT == {C!Info, C!End} \cup MateT

ChamTypes ==
    /\ style \in {"actors", "direct"} /\ crowd \in Crowds
    /\ cpc \in [C!Creatures -> {"none", "info", "ask", "mate", "final", "end"}]
    /\ col \in [C!Creatures -> 0..2]
    /\ met \in [C!Creatures -> Nat] /\ self_met \in [C!Creatures -> {0}]
    /\ box \in [C!Creatures -> Seq(BoxT)]
    /\ \A c \in C!Creatures : Len(box[c]) <= MailboxSize
    /\ bpc \in {"fork", "info", "first", "second", "reply1", "reply2",
                "finalize", "wait", "done"}
    /\ i \in Nat
    /\ asked \in Seq(C!Message) /\ bbox \in Seq(C!Message)
    /\ Len(bbox) <= MailboxSize
    /\ remaining \in 0..C!N /\ total_meetings \in Nat

\* The loop counter and the requests in hand.
Stages ==
    /\ bpc = "fork" => i <= C!N
    /\ bpc = "info" => i < C!N
    /\ bpc \in {"first", "second", "reply1", "reply2"} => i < Meetings
    /\ bpc = "finalize" => i < C!N
    /\ bpc \in {"wait", "done"} => i = C!N
    /\ Len(asked) = IF bpc = "second" THEN 1 ELSE IF bpc \in {"reply1", "reply2"} THEN 2 ELSE 0
    /\ \A n \in 1..Len(asked) : ~asked[n].finish
    /\ Len(asked) = 2 => asked[1].who # asked[2].who

\* The meetings of the creatures in S, one by one.
Met(S) == {p \in S \X Nat : 1 <= p[2] /\ p[2] <= met[p[1]]}

\* Creatures that have been told of a mate and do not know yet.
Mated == {c \in C!Creatures : box[c] # <<>> /\ Head(box[c]).kind = "mate"}

\* Each meeting so far is with both of its creatures, or on its way.
Expected ==
    IF bpc \in {"fork", "info"} THEN 0
    ELSE IF bpc \in {"first", "second", "reply1"} THEN 2 * i
    ELSE IF bpc = "reply2" THEN 2 * i + 1
    ELSE 2 * Meetings

Sums ==
    /\ IsFiniteSet(Met(C!Creatures))
    /\ Cardinality(Met(C!Creatures)) + Cardinality(Mated) = Expected

----------------------------------------------------------------------------
(* The actors.                                                             *)

\* The broker has sent c its start, or its end.
Told(c) == bpc \in {"fork", "info"} => c <= i
Ended(c) == bpc \in {"wait", "done"} \/ (bpc = "finalize" /\ c <= i)

EndOf(c) == IF Ended(c) THEN <<C!End>> ELSE <<>>
Before(m, c) == IF Ended(c) THEN <<m, C!End>> ELSE <<m>>

\* What is in the mailbox of a creature, by where it is.
BoxOf(c) ==
    /\ cpc[c] = "none" => ~Told(c) /\ box[c] = <<>>
    /\ cpc[c] = "info" => IF Told(c) THEN box[c] = Before(C!Info, c)
                          ELSE bpc = "info" /\ c = i + 1 /\ box[c] = <<>>
    /\ cpc[c] = "ask" => Told(c) /\ box[c] = EndOf(c)
    /\ cpc[c] = "mate" =>
          /\ Told(c)
          /\ \/ box[c] = EndOf(c)
             \/ \E m \in MateT : m.who # c /\ box[c] = Before(m, c)
    /\ cpc[c] \in {"final", "end"} => Ended(c) /\ box[c] = <<>>
    /\ bpc = "info" /\ c = i + 1 => cpc[c] = "info"

\* c has asked and has no answer.
Waits(c) == cpc[c] = "mate" /\ box[c] = EndOf(c)

\* The creature that sent m waits or has been ended.
Sent(m) ==
    IF m.finish THEN cpc[m.who] = "end" /\ m.count = met[m.who]
    ELSE cpc[m.who] \in {"final", "end"} \/ Waits(m.who)

\* The broker's mailbox: at most one request of each creature, and after it at
\* most one final count.
Requests ==
    /\ \A n \in 1..Len(bbox) : Sent(bbox[n])
    /\ \A m, n \in 1..Len(bbox) :
          m < n /\ bbox[m].who = bbox[n].who => ~bbox[m].finish /\ bbox[n].finish

\* Requests in the broker's hands that are not answered.
Asking ==
    \A n \in 1..Len(asked) : ~(bpc = "reply2" /\ n = 1) =>
        /\ Waits(asked[n].who)
        /\ \A k \in 1..Len(bbox) : bbox[k].who # asked[n].who

\* The final count of c is received.
Counted == {c \in C!Creatures : /\ cpc[c] = "end"
                                /\ \A n \in 1..Len(bbox) : bbox[n].who # c}
Counts ==
    /\ \A n \in 1..Len(bbox) : cpc[bbox[n].who] = "end" =>
          \E k \in 1..Len(bbox) : bbox[k].who = bbox[n].who /\ bbox[k].finish
    /\ remaining + Cardinality(Counted) = C!N
    /\ total_meetings = Cardinality(Met(Counted))

ActorsInv ==
    /\ \A c \in C!Creatures : BoxOf(c)
    /\ Requests /\ Asking /\ Counts
    /\ bpc = "done" => remaining = 0

----------------------------------------------------------------------------
(* Main, where it handles meet itself.                                     *)

DirectInv ==
    /\ box = [c \in C!Creatures |-> <<>>] /\ bbox = <<>>
    /\ bpc \in {"fork", "first", "reply1", "reply2", "finalize", "done"}
    /\ bpc = "fork" => i = 0
    /\ bpc \in {"reply1", "reply2"} =>
          asked[1].who = C!Next2(1) /\ asked[2].who = C!Next2(2)
    /\ remaining = IF bpc \in {"finalize", "done"} THEN C!N - i ELSE C!N
    /\ total_meetings = Cardinality(Met(1..(C!N - remaining)))

ChamInv ==
    /\ ChamTypes /\ Stages /\ Sums
    /\ style = "actors" => ActorsInv
    /\ style = "direct" => DirectInv

----------------------------------------------------------------------------

LEMMA CrowdIs ==
    ASSUME crowd \in Crowds
    PROVE  /\ C!N \in Nat /\ C!N >= 2 /\ C!Creatures = 1..C!N
           /\ crowd \in [C!Creatures -> 0..2]
           /\ Meetings \in Nat /\ MailboxSize \in Nat \ {0}
<1>1. crowd \in Seq(0..2) /\ Len(crowd) >= 2 /\ Meetings \in Nat /\ MailboxSize \in Nat \ {0}
  BY ProgramsAssumption DEF C!ChameneosAssumption
<1> QED
  BY <1>1 DEF C!N, C!Creatures

LEMMA Tuples ==
    ASSUME NEW a, NEW b
    PROVE  /\ Len(<<>>) = 0 /\ Len(<<a>>) = 1 /\ Len(<<a, b>>) = 2
           /\ <<a>> # <<>> /\ <<a, b>> # <<>>
           /\ Head(<<a>>) = a /\ Head(<<a, b>>) = a
           /\ Tail(<<a>>) = <<>> /\ Tail(<<a, b>>) = <<b>>
           /\ Append(<<>>, b) = <<b>> /\ Append(<<a>>, b) = <<a, b>>
<1>1. /\ Len(<<>>) = 0 /\ Len(<<a>>) = 1 /\ Len(<<a, b>>) = 2
      /\ <<a>> # <<>> /\ <<a, b>> # <<>>
  OBVIOUS
<1>2. Head(<<a>>) = a /\ Head(<<a, b>>) = a
  OBVIOUS
<1>3. Tail(<<a>>) = <<>>
  OBVIOUS
<1>4. Tail(<<a, b>>) = <<b>>
  <2>1. <<a, b>> \in Seq({a, b}) /\ <<a, b>> # <<>> /\ <<b>> \in Seq({a, b}) /\ Len(<<b>>) = 1
        /\ Len(<<a, b>>) = 2 /\ <<b>>[1] = b /\ <<a, b>>[2] = b
    OBVIOUS
  <2>2. /\ Tail(<<a, b>>) \in Seq({a, b}) /\ Len(Tail(<<a, b>>)) = 1
        /\ \A x \in 1..1 : Tail(<<a, b>>)[x] = <<a, b>>[x + 1]
    BY <2>1, HeadTailProperties
  <2>3. Tail(<<a, b>>)[1] = b
    BY <2>1, <2>2
  <2>4. \A x \in 1..1 : Tail(<<a, b>>)[x] = <<b>>[x]
    BY <2>1, <2>3
  <2> QED
    BY <2>1, <2>2, <2>4, SeqEqual
<1>5. Append(<<>>, b) = <<b>>
  OBVIOUS
<1>6. Append(<<a>>, b) = <<a, b>>
  <2>1. <<a>> \in Seq({a, b}) /\ b \in {a, b} /\ Len(<<a>>) = 1 /\ <<a>>[1] = a
        /\ <<a, b>> \in Seq({a, b}) /\ Len(<<a, b>>) = 2 /\ <<a, b>>[1] = a /\ <<a, b>>[2] = b
    OBVIOUS
  <2> DEFINE q == Append(<<a>>, b)
  <2>2. q \in Seq({a, b}) /\ Len(q) = 2 /\ q[1] = a /\ q[2] = b
    BY <2>1, AppendProperties
  <2> HIDE DEF q
  <2>3. \A x \in 1..Len(q) : q[x] = <<a, b>>[x]
    BY <2>1, <2>2
  <2>4. q = <<a, b>>
    BY <2>1, <2>2, <2>3, SeqEqual
  <2> QED
    BY <2>4 DEF q
<1> QED
  BY <1>1, <1>2, <1>3, <1>4, <1>5, <1>6

LEMMA MessageIs ==
    ASSUME NEW m \in C!Message
    PROVE  /\ m.finish \in BOOLEAN /\ m.who \in C!Creatures /\ m.col \in 0..2 /\ m.count \in Nat
<1>1. CASE m \in [finish : {FALSE}, who : C!Creatures, col : 0..2, count : {0}]
  <2>1. m.finish = FALSE
    BY <1>1, Zenon
  <2>2. m.who \in C!Creatures /\ m.col \in 0..2 /\ m.count \in {0}
    BY <1>1
  <2>3. m.finish \in BOOLEAN
    BY <2>1, Zenon
  <2> QED
    BY <2>2, <2>3
<1>2. CASE m \in [finish : {TRUE}, who : C!Creatures, col : {0}, count : Nat]
  <2>1. m.finish = TRUE
    BY <1>2, Zenon
  <2>2. m.who \in C!Creatures /\ m.col \in {0} /\ m.count \in Nat
    BY <1>2
  <2>3. m.finish \in BOOLEAN
    BY <2>1, Zenon
  <2> QED
    BY <2>2, <2>3
<1> QED
  BY <1>1, <1>2 DEF C!Message

\* One more meeting of c, and one more creature with its meetings
LEMMA MetMore ==
    ASSUME NEW S, NEW c \in S, met \in [C!Creatures -> Nat], S \subseteq C!Creatures,
           met' = [met EXCEPT ![c] = @ + 1], IsFiniteSet(Met(S))
    PROVE  /\ IsFiniteSet(Met(S)') /\ Cardinality(Met(S)') = Cardinality(Met(S)) + 1
<1> DEFINE p == <<c, met[c] + 1>>
<1>1. Met(S)' = Met(S) \cup {p}
  <2>1. p \in Met(S)'
    BY DEF Met
  <2>2. \A q \in Met(S) : q \in Met(S)'
    BY DEF Met
  <2>3. ASSUME NEW q \in Met(S)', q # p PROVE q \in Met(S)
    <3>1. q \in S \X Nat /\ 1 <= q[2] /\ q[2] <= met'[q[1]] /\ q = <<q[1], q[2]>>
      BY DEF Met
    <3>2. CASE q[1] = c
      <4>1. q[2] # met[c] + 1
        BY <2>3, <3>1, <3>2
      <4>2. met'[c] = met[c] + 1 /\ met[c] \in Nat /\ q[2] \in Nat
        BY <3>1
      <4>3. q[2] <= met[c]
        BY <3>1, <3>2, <4>1, <4>2
      <4> QED
        BY <3>1, <3>2, <4>3 DEF Met
    <3>3. CASE q[1] # c
      BY <3>1, <3>3 DEF Met
    <3> QED
      BY <3>2, <3>3
  <2> QED
    BY <2>1, <2>2, <2>3
<1>2. p \notin Met(S)
  BY DEF Met
<1> QED
  BY <1>1, <1>2, FS_AddElement

LEMMA MetAlso ==
    ASSUME NEW S, NEW c \in C!Creatures, c \notin S, met \in [C!Creatures -> Nat],
           S \subseteq C!Creatures, IsFiniteSet(Met(S))
    PROVE  /\ IsFiniteSet(Met(S \cup {c}))
           /\ Cardinality(Met(S \cup {c})) = Cardinality(Met(S)) + met[c]
<1> DEFINE T == {c} \X (1..met[c])
<1>1. met[c] \in Nat
  OBVIOUS
<1>2. Met(S \cup {c}) = Met(S) \cup T
  <2>1. \A p \in T : p \in Met(S \cup {c})
    BY <1>1 DEF Met
  <2>2. \A p \in Met(S) : p \in Met(S \cup {c})
    BY DEF Met
  <2>3. \A p \in Met(S \cup {c}) : p \in Met(S) \cup T
    BY <1>1 DEF Met
  <2> QED
    BY <2>1, <2>2, <2>3
<1>3. Met(S) \cap T = {}
  BY DEF Met
<1>4. IsFiniteSet(T) /\ Cardinality(T) = met[c]
  <2>1. IsFiniteSet({c}) /\ Cardinality({c}) = 1
    BY FS_Singleton
  <2>2. IsFiniteSet(1..met[c]) /\ Cardinality(1..met[c]) = met[c]
    BY <1>1, FS_Interval
  <2>3. IsFiniteSet(T) /\ Cardinality(T) = Cardinality({c}) * Cardinality(1..met[c])
    BY <2>1, <2>2, FS_Product
  <2> QED
    BY <1>1, <2>1, <2>2, <2>3
<1>5. Cardinality({}) = 0 /\ Cardinality(Met(S)) \in Nat
  BY FS_EmptySet, FS_CardinalityType
<1> HIDE DEF T
<1>6. /\ IsFiniteSet(Met(S) \cup T)
      /\ Cardinality(Met(S) \cup T)
            = Cardinality(Met(S)) + Cardinality(T) - Cardinality(Met(S) \cap T)
  BY <1>4, FS_Union
<1>7. Cardinality(Met(S) \cap T) = 0
  BY <1>3, <1>5
<1>8. Cardinality(Met(S) \cup T) = Cardinality(Met(S)) + met[c]
  BY <1>1, <1>4, <1>5, <1>6, <1>7
<1> QED
  BY <1>2, <1>6, <1>8

LEMMA SameCrowd ==
    ASSUME crowd' = crowd
    PROVE  /\ C!Creatures' = C!Creatures /\ C!N' = C!N /\ C!Message' = C!Message
           /\ MateT' = MateT /\ BoxT' = BoxT
  BY DEF C!Creatures, C!N, C!Message, MateT, BoxT

LEMMA Kinds ==
    /\ C!Info.kind = "info" /\ C!End.kind = "end" /\ C!Info # C!End
    /\ \A m \in MateT : m.kind = "mate" /\ m # C!Info /\ m # C!End /\ m \in BoxT
    /\ C!Info \in BoxT /\ C!End \in BoxT
<1>1. C!Info.kind = "info" /\ C!End.kind = "end" /\ C!Info # C!End
  BY DEF C!Info, C!End
<1>2. \A m \in MateT : m.kind = "mate"
  BY DEF MateT
<1>3. \A m \in MateT : m # C!Info /\ m # C!End
  BY <1>1, <1>2
<1> QED
  BY <1>1, <1>2, <1>3 DEF BoxT

\* A box with a message, and perhaps the end behind it
LEMMA BoxFacts ==
    ASSUME NEW c
    PROVE  /\ \A m : /\ Before(m, c) # <<>> /\ Head(Before(m, c)) = m
                     /\ Tail(Before(m, c)) = EndOf(c)
                     /\ Before(m, c) = IF Ended(c) THEN Append(<<m>>, C!End) ELSE Append(<<>>, m)
           /\ EndOf(c) # <<>> => /\ Ended(c) /\ EndOf(c) = <<C!End>>
                                 /\ Head(EndOf(c)) = C!End /\ Tail(EndOf(c)) = <<>>
           /\ \A m \in MateT : Before(m, c) # EndOf(c)
<1>1. \A m : /\ Before(m, c) # <<>> /\ Head(Before(m, c)) = m
             /\ Tail(Before(m, c)) = EndOf(c)
             /\ Before(m, c) = IF Ended(c) THEN Append(<<m>>, C!End) ELSE Append(<<>>, m)
  BY Tuples DEF Before, EndOf
<1>2. EndOf(c) # <<>> => /\ Ended(c) /\ EndOf(c) = <<C!End>>
                         /\ Head(EndOf(c)) = C!End /\ Tail(EndOf(c)) = <<>>
  BY Tuples DEF EndOf
<1>3. \A m \in MateT : Before(m, c) # EndOf(c)
  BY <1>1, <1>2, Kinds
<1> QED
  BY <1>1, <1>2, <1>3

\* Who is told of a mate, by what is in the box
LEMMA MatedBy ==
    ASSUME NEW c \in C!Creatures
    PROVE  /\ box[c] = <<>> => c \notin Mated
           /\ box[c] = EndOf(c) => c \notin Mated
           /\ box[c] = Before(C!Info, c) => c \notin Mated
           /\ \A m \in MateT : box[c] = Before(m, c) => c \in Mated
  BY BoxFacts, Kinds DEF Mated

LEMMA MatedFinite ==
    ASSUME crowd \in Crowds
    PROVE  /\ IsFiniteSet(C!Creatures) /\ Cardinality(C!Creatures) = C!N
           /\ IsFiniteSet(Mated) /\ Cardinality(Mated) \in Nat
<1>1. IsFiniteSet(C!Creatures) /\ Cardinality(C!Creatures) = C!N
  BY CrowdIs, FS_Interval
<1>2. Mated \in SUBSET C!Creatures
  BY DEF Mated
<1> QED
  BY <1>1, <1>2, FS_Subset, FS_CardinalityType

\* Only the box of c changes.
LEMMA MatedChange ==
    ASSUME crowd \in Crowds, crowd' = crowd, NEW c \in C!Creatures,
           \A d \in C!Creatures \ {c} : box'[d] = box[d]
    PROVE  /\ (c \in Mated' <=> c \in Mated) => Mated' = Mated
           /\ c \in Mated /\ c \notin Mated' => Cardinality(Mated') + 1 = Cardinality(Mated)
           /\ c \notin Mated /\ c \in Mated' => Cardinality(Mated') = Cardinality(Mated) + 1
<1>1. \A d \in C!Creatures \ {c} : d \in Mated' <=> d \in Mated
  BY SameCrowd DEF Mated
<1>2. Mated \subseteq C!Creatures /\ Mated' \subseteq C!Creatures
  BY SameCrowd DEF Mated
<1>3. IsFiniteSet(Mated) /\ Cardinality(Mated) \in Nat
  BY MatedFinite
<1>4. ASSUME c \in Mated, c \notin Mated' PROVE Cardinality(Mated') + 1 = Cardinality(Mated)
  <2>1. Mated' = Mated \ {c}
    BY <1>1, <1>2, <1>4
  <2>2. Cardinality(Mated') = Cardinality(Mated) - 1
    BY <1>3, <1>4, <2>1, FS_RemoveElement
  <2> QED
    BY <1>3, <2>2
<1>5. ASSUME c \notin Mated, c \in Mated' PROVE Cardinality(Mated') = Cardinality(Mated) + 1
  <2>1. Mated' = Mated \cup {c}
    BY <1>1, <1>2, <1>5
  <2> QED
    BY <1>3, <1>5, <2>1, FS_AddElement
<1> QED
  BY <1>1, <1>2, <1>4, <1>5

\* What is said of the broker's phase
LEMMA SamePhase ==
    ASSUME UNCHANGED <<bpc, i>>
    PROVE  /\ \A c : (Told(c)' <=> Told(c)) /\ (Ended(c)' <=> Ended(c)) /\ EndOf(c)' = EndOf(c)
           /\ \A m, c : Before(m, c)' = Before(m, c)
           /\ Expected' = Expected
  BY DEF Told, Ended, EndOf, Before, Expected

\* A creature other than the one that moves
LEMMA BoxKeeps ==
    ASSUME crowd' = crowd, UNCHANGED <<bpc, i>>, NEW d,
           cpc'[d] = cpc[d], box'[d] = box[d], BoxOf(d)
    PROVE  BoxOf(d)'
<1>1. /\ Told(d)' <=> Told(d)
      /\ Ended(d)' <=> Ended(d)
      /\ EndOf(d)' = EndOf(d)
      /\ \A m : Before(m, d)' = Before(m, d)
      /\ MateT' = MateT
  BY SamePhase, SameCrowd
<1> QED
  BY <1>1 DEF BoxOf

LEMMA StagesKeep ==
    ASSUME Stages, UNCHANGED <<crowd, bpc, i, asked>> PROVE Stages'
  BY SameCrowd DEF Stages

LEMMA SumsKeep ==
    ASSUME Sums, UNCHANGED <<crowd, bpc, i, met>>, Mated' = Mated PROVE Sums'
<1>1. Met(C!Creatures)' = Met(C!Creatures)
  BY SameCrowd DEF Met
<1> QED
  BY <1>1, SamePhase DEF Sums

\* Nothing of c is with the broker.
Quiet(c) ==
    /\ \A n \in 1..Len(bbox) : bbox[n].who # c
    /\ \A n \in 1..Len(asked) : ~(bpc = "reply2" /\ n = 1) => asked[n].who # c

LEMMA QuietIs ==
    ASSUME Requests, Asking, NEW c,
           cpc[c] \in {"none", "info", "ask"} \/ (cpc[c] = "mate" /\ box[c] # EndOf(c))
    PROVE  Quiet(c)
  BY DEF Requests, Sent, Asking, Quiet, Waits

\* A quiet creature goes on.
LEMMA QuietMoves ==
    ASSUME ChamInv, style = "actors", NEW c \in C!Creatures, Quiet(c),
           cpc[c] # "end", cpc'[c] # "end",
           UNCHANGED <<style, crowd, bpc, i, asked, bbox, remaining, total_meetings>>,
           \A d \in C!Creatures \ {c} :
              cpc'[d] = cpc[d] /\ box'[d] = box[d] /\ met'[d] = met[d],
           ChamTypes', Sums', BoxOf(c)'
    PROVE  ChamInv'
<1>1. ActorsInv /\ ChamTypes /\ Stages
  BY DEF ChamInv
<1>2. C!Creatures' = C!Creatures /\ C!N' = C!N
  BY SameCrowd
<1>3. \A d \in C!Creatures : BoxOf(d)'
  BY <1>1, BoxKeeps DEF ActorsInv
<1>4. \A n \in 1..Len(bbox) : bbox[n].who \in C!Creatures \ {c}
  BY <1>1, MessageIs, ElementOfSeq DEF ChamTypes, Quiet
<1>5. \A n \in 1..Len(asked) : ~(bpc = "reply2" /\ n = 1) => asked[n].who \in C!Creatures \ {c}
  BY <1>1, MessageIs, ElementOfSeq DEF ChamTypes, Quiet
<1>6. \A d \in C!Creatures \ {c} : Waits(d)' <=> Waits(d)
  BY SamePhase DEF Waits
<1>7. Requests'
  BY <1>1, <1>4, <1>6 DEF ActorsInv, Requests, Sent
<1>8. Asking'
  BY <1>1, <1>5, <1>6 DEF ActorsInv, Asking
<1>9. Counts'
  <2>1. Counted' = Counted /\ c \notin Counted /\ Counted \subseteq C!Creatures
    BY <1>2 DEF Counted
  <2>2. Met(Counted)' = Met(Counted)
    BY <2>1 DEF Met
  <2> QED
    BY <1>1, <1>2, <1>4, <2>1, <2>2 DEF ActorsInv, Counts
<1>10. Stages'
  BY <1>1, StagesKeep
<1> QED
  BY <1>2, <1>3, <1>7, <1>8, <1>9, <1>10 DEF ChamInv, ActorsInv

LEMMA NotNext ==
    ASSUME ChamTypes, NEW c \in C!Creatures, Told(c) PROVE ~(bpc = "info" /\ c = i + 1)
<1>1. c \in Nat /\ i \in Nat
  BY CrowdIs DEF ChamTypes
<1> QED
  BY <1>1 DEF Told

\* Receiving and sending
LEMMA TakeTypes ==
    ASSUME ChamTypes, crowd' = crowd, NEW c \in C!Creatures, box[c] # <<>>,
           box' = [box EXCEPT ![c] = Tail(box[c])]
    PROVE  /\ box' \in [C!Creatures -> Seq(BoxT)]
           /\ \A d \in C!Creatures : Len(box'[d]) <= MailboxSize
<1>1. /\ Tail(box[c]) \in Seq(BoxT) /\ Len(Tail(box[c])) = Len(box[c]) - 1 /\ Len(box[c]) \in Nat
      /\ Len(box[c]) <= MailboxSize /\ MailboxSize \in Nat
  BY HeadTailProperties, CrowdIs DEF ChamTypes
<1>2. Len(Tail(box[c])) <= MailboxSize
  BY <1>1
<1> QED
  BY <1>1, <1>2 DEF ChamTypes

LEMMA PutTypes ==
    ASSUME ChamTypes, crowd' = crowd, NEW c \in C!Creatures, NEW m \in BoxT, C!SendTo(c, m)
    PROVE  /\ box' \in [C!Creatures -> Seq(BoxT)]
           /\ \A d \in C!Creatures : Len(box'[d]) <= MailboxSize
           /\ box'[c] = Append(box[c], m)
           /\ \A d \in C!Creatures \ {c} : box'[d] = box[d]
<1>1. box' = [box EXCEPT ![c] = Append(box[c], m)] /\ Len(box[c]) < MailboxSize
  BY DEF C!SendTo
<1>2. box[c] \in Seq(BoxT) /\ Len(box[c]) \in Nat /\ MailboxSize \in Nat
  BY CrowdIs DEF ChamTypes
<1>3. Append(box[c], m) \in Seq(BoxT) /\ Len(Append(box[c], m)) = Len(box[c]) + 1
  BY <1>2, AppendProperties
<1>4. Len(Append(box[c], m)) <= MailboxSize
  BY <1>1, <1>2, <1>3
<1> QED
  BY <1>1, <1>3, <1>4 DEF ChamTypes

\* The broker's mailbox with one more message, and without its first
LEMMA BrokerPut ==
    ASSUME ChamTypes, NEW m \in C!Message, Len(bbox) < MailboxSize, bbox' = Append(bbox, m)
    PROVE  /\ bbox' \in Seq(C!Message) /\ Len(bbox') <= MailboxSize
           /\ Len(bbox) \in Nat /\ Len(bbox') = Len(bbox) + 1
           /\ 1..Len(bbox') = 1..Len(bbox) \cup {Len(bbox) + 1}
           /\ \A n \in 1..Len(bbox) : bbox'[n] = bbox[n]
           /\ bbox'[Len(bbox) + 1] = m
<1>1. bbox \in Seq(C!Message) /\ Len(bbox) \in Nat /\ MailboxSize \in Nat
  BY CrowdIs DEF ChamTypes
<1>2. /\ bbox' \in Seq(C!Message) /\ Len(bbox') = Len(bbox) + 1
      /\ \A n \in 1..Len(bbox) : bbox'[n] = bbox[n]
      /\ bbox'[Len(bbox) + 1] = m
  BY <1>1, AppendProperties
<1> QED
  BY <1>1, <1>2

LEMMA BrokerTake ==
    ASSUME ChamTypes, bbox # <<>>, bbox' = Tail(bbox)
    PROVE  /\ bbox' \in Seq(C!Message) /\ Len(bbox') <= MailboxSize
           /\ Len(bbox) \in Nat /\ Len(bbox') = Len(bbox) - 1 /\ 1 \in 1..Len(bbox)
           /\ \A n \in 1..Len(bbox') : n + 1 \in 1..Len(bbox) /\ bbox'[n] = bbox[n + 1]
           /\ \A n \in 1..Len(bbox) : n # 1 => \E k \in 1..Len(bbox') : n = k + 1
           /\ Head(bbox) = bbox[1] /\ bbox[1] \in C!Message
<1>1. bbox \in Seq(C!Message) /\ Len(bbox) \in Nat \ {0} /\ MailboxSize \in Nat
      /\ Len(bbox) <= MailboxSize
  BY CrowdIs, EmptySeq DEF ChamTypes
<1>2. /\ bbox' \in Seq(C!Message) /\ Len(bbox') = Len(bbox) - 1
      /\ \A n \in 1..Len(bbox') : bbox'[n] = bbox[n + 1]
  BY <1>1, HeadTailProperties
<1>3. Head(bbox) = bbox[1] /\ bbox[1] \in C!Message
  BY <1>1, ElementOfSeq
<1>4. ASSUME NEW n \in 1..Len(bbox), n # 1 PROVE \E k \in 1..Len(bbox') : n = k + 1
  <2>1. n - 1 \in 1..Len(bbox') /\ n = (n - 1) + 1
    BY <1>1, <1>2, <1>4
  <2> QED
    BY <2>1
<1> QED
  BY <1>1, <1>2, <1>3, <1>4

LEMMA StartsKeeps ==
    ASSUME ChamInv, style = "actors", NEW c \in C!Creatures, C!CreatureStarts(c) PROVE ChamInv'
<1>1. ActorsInv /\ ChamTypes /\ Stages /\ Sums
  BY DEF ChamInv
<1>2. /\ cpc[c] = "info" /\ box[c] # <<>> /\ box' = [box EXCEPT ![c] = Tail(box[c])]
      /\ cpc' = [cpc EXCEPT ![c] = "ask"]
      /\ UNCHANGED <<style, crowd, col, met, self_met, bpc, i, asked, bbox, remaining,
                     total_meetings>>
  BY DEF C!CreatureStarts, C!Recv, C!CGoto, C!brokerVars
<1>3. Told(c) /\ box[c] = Before(C!Info, c)
  BY <1>1, <1>2 DEF ActorsInv, BoxOf
<1>4. /\ box'[c] = EndOf(c) /\ cpc'[c] = "ask"
      /\ \A d \in C!Creatures \ {c} : cpc'[d] = cpc[d] /\ box'[d] = box[d] /\ met'[d] = met[d]
  BY <1>1, <1>2, <1>3, BoxFacts DEF ChamTypes
<1>5. Quiet(c)
  BY <1>1, <1>2, QuietIs DEF ActorsInv
<1>6. c \notin Mated /\ c \notin Mated'
  <2>1. c \notin Mated
    BY <1>3, MatedBy
  <2>2. EndOf(c) = <<>> \/ Head(EndOf(c)).kind # "mate"
    BY BoxFacts, Kinds
  <2> QED
    BY <1>4, <2>1, <2>2 DEF Mated
<1>7. Sums'
  BY <1>1, <1>2, <1>4, <1>6, MatedChange, SumsKeep DEF ChamTypes
<1>8. ChamTypes'
  <2>1. cpc' \in [C!Creatures -> {"none", "info", "ask", "mate", "final", "end"}]
    BY <1>1, <1>2 DEF ChamTypes
  <2> QED
    BY <1>1, <1>2, <2>1, TakeTypes, SameCrowd DEF ChamTypes
<1>9. BoxOf(c)'
  BY <1>1, <1>2, <1>3, <1>4, SamePhase, NotNext DEF BoxOf
<1> QED
  BY <1>1, <1>2, <1>4, <1>5, <1>7, <1>8, <1>9, QuietMoves

\* A creature sends its request.
LEMMA AsksKeeps ==
    ASSUME ChamInv, style = "actors", NEW c \in C!Creatures, C!CreatureAsks(c) PROVE ChamInv'
<1>1. ActorsInv /\ ChamTypes /\ Stages /\ Sums
  BY DEF ChamInv
<1> DEFINE m == C!MeetRequest(c)
           last == Len(bbox) + 1
<1>2. /\ cpc[c] = "ask" /\ Len(bbox) < MailboxSize /\ bbox' = Append(bbox, m)
      /\ cpc' = [cpc EXCEPT ![c] = "mate"]
      /\ UNCHANGED <<style, crowd, col, met, self_met, box, bpc, i, asked, remaining,
                     total_meetings>>
  BY DEF C!CreatureAsks, C!SendBroker, C!CGoto
<1>3. m.who = c /\ ~m.finish /\ m \in C!Message
  <2>1. m = [finish |-> FALSE, who |-> c, col |-> col[c], count |-> 0]
    BY DEF C!MeetRequest
  <2>2. m \in [finish : {FALSE}, who : C!Creatures, col : 0..2, count : {0}]
    BY <1>1, <2>1 DEF ChamTypes
  <2> QED
    BY <2>1, <2>2 DEF C!Message
<1> HIDE DEF m
<1>4. /\ Len(bbox) \in Nat /\ 1..Len(bbox') = 1..Len(bbox) \cup {last}
      /\ \A n \in 1..Len(bbox) : bbox'[n] = bbox[n] /\ bbox'[last] = m
      /\ bbox'[last] = m
  BY <1>1, <1>2, <1>3, BrokerPut
<1>5. Told(c) /\ box[c] = EndOf(c) /\ Quiet(c)
  BY <1>1, <1>2, QuietIs DEF ActorsInv, BoxOf
<1>6. cpc'[c] = "mate" /\ \A d \in C!Creatures \ {c} : cpc'[d] = cpc[d]
  BY <1>1, <1>2 DEF ChamTypes
<1>7. C!Creatures' = C!Creatures /\ C!N' = C!N
  BY <1>2, SameCrowd
<1>8. \A d \in C!Creatures : BoxOf(d)'
  <2>1. BoxOf(c)'
    BY <1>1, <1>2, <1>5, <1>6, SamePhase, NotNext DEF BoxOf
  <2> QED
    BY <1>1, <1>2, <1>6, <2>1, BoxKeeps DEF ActorsInv
<1>9. \A n \in 1..Len(bbox) : bbox[n].who \in C!Creatures \ {c}
  BY <1>1, <1>5, MessageIs, ElementOfSeq DEF ChamTypes, Quiet
<1>10. \A n \in 1..Len(asked) : ~(bpc = "reply2" /\ n = 1) => asked[n].who \in C!Creatures \ {c}
  BY <1>1, <1>5, MessageIs, ElementOfSeq DEF ChamTypes, Quiet
<1>11. Waits(c)' /\ \A d \in C!Creatures \ {c} : Waits(d)' <=> Waits(d)
  BY <1>2, <1>5, <1>6, SamePhase DEF Waits
<1> HIDE DEF last
<1>12. Requests'
  <2>1. ASSUME NEW n \in 1..Len(bbox') PROVE Sent(bbox[n])'
    <3>1. CASE n = last
      BY <1>3, <1>4, <1>11, <3>1 DEF Sent
    <3>2. CASE n # last
      <4>1. n \in 1..Len(bbox) /\ bbox'[n] = bbox[n] /\ Sent(bbox[n])
        BY <1>1, <1>4, <3>2 DEF ActorsInv, Requests
      <4> QED
        BY <1>2, <1>6, <1>9, <1>11, <4>1 DEF Sent
    <3> QED
      BY <3>1, <3>2
  <2>2. \A k, n \in 1..Len(bbox') :
           k < n /\ bbox'[k].who = bbox'[n].who => ~bbox'[k].finish /\ bbox'[n].finish
    <3>1. ASSUME NEW k \in 1..Len(bbox'), NEW n \in 1..Len(bbox'),
                 k < n, bbox'[k].who = bbox'[n].who
          PROVE  k \in 1..Len(bbox) /\ n \in 1..Len(bbox)
      BY <1>3, <1>4, <1>9, <3>1 DEF last
    <3> QED
      BY <1>1, <1>4, <3>1 DEF ActorsInv, Requests
  <2> QED
    BY <2>1, <2>2 DEF Requests
<1>13. Asking'
  BY <1>1, <1>2, <1>3, <1>4, <1>10, <1>11 DEF ActorsInv, Asking
<1>14. Counts'
  <2>1. Counted' = Counted
    BY <1>2, <1>3, <1>4, <1>6, <1>7 DEF Counted
  <2>2. Met(Counted)' = Met(Counted)
    BY <1>2, <2>1 DEF Met
  <2>3. \A n \in 1..Len(bbox') : cpc'[bbox'[n].who] = "end" =>
           \E k \in 1..Len(bbox') : bbox'[k].who = bbox'[n].who /\ bbox'[k].finish
    <3>1. ASSUME NEW n \in 1..Len(bbox'), cpc'[bbox'[n].who] = "end"
          PROVE  \E k \in 1..Len(bbox') : bbox'[k].who = bbox'[n].who /\ bbox'[k].finish
      <4>1. n \in 1..Len(bbox) /\ bbox'[n] = bbox[n] /\ cpc[bbox[n].who] = "end"
        BY <1>3, <1>4, <1>6, <1>9, <3>1
      <4>2. PICK k \in 1..Len(bbox) : bbox[k].who = bbox[n].who /\ bbox[k].finish
        BY <1>1, <4>1 DEF ActorsInv, Counts
      <4> QED
        BY <1>4, <4>1, <4>2
    <3> QED
      BY <3>1
  <2> QED
    BY <1>1, <1>2, <1>7, <2>1, <2>2, <2>3 DEF ActorsInv, Counts
<1>15. ChamTypes'
  <2>1. cpc' \in [C!Creatures -> {"none", "info", "ask", "mate", "final", "end"}]
    BY <1>1, <1>2 DEF ChamTypes
  <2>2. bbox' \in Seq(C!Message) /\ Len(bbox') <= MailboxSize
    BY <1>1, <1>2, <1>3, BrokerPut
  <2> QED
    BY <1>1, <1>2, <2>1, <2>2, SameCrowd DEF ChamTypes
<1>16. Stages' /\ Sums'
  <2>1. Mated' = Mated
    BY <1>2, <1>7 DEF Mated
  <2> QED
    BY <1>1, <1>2, <2>1, StagesKeep, SumsKeep
<1> QED
  BY <1>2, <1>7, <1>8, <1>12, <1>13, <1>14, <1>15, <1>16 DEF ChamInv, ActorsInv

\* Once a creature has been ended, no request is in the broker's hands.
LEMMA EndedIs ==
    ASSUME Stages, NEW c, Ended(c)
    PROVE  Len(asked) = 0 /\ bpc \in {"finalize", "wait", "done"} /\ Told(c)
  BY DEF Stages, Ended, Told

\* A creature sends its final count.
LEMMA FinishesKeeps ==
    ASSUME ChamInv, style = "actors", NEW c \in C!Creatures, C!CreatureFinishes(c) PROVE ChamInv'
<1>1. ActorsInv /\ ChamTypes /\ Stages /\ Sums
  BY DEF ChamInv
<1> DEFINE m == C!FinalCount(c)
           last == Len(bbox) + 1
<1>2. /\ cpc[c] = "final" /\ Len(bbox) < MailboxSize /\ bbox' = Append(bbox, m)
      /\ cpc' = [cpc EXCEPT ![c] = "end"]
      /\ UNCHANGED <<style, crowd, col, met, self_met, box, bpc, i, asked, remaining,
                     total_meetings>>
  BY DEF C!CreatureFinishes, C!SendBroker, C!CGoto
<1>3. m.who = c /\ m.finish /\ m.count = met[c] /\ m \in C!Message
  <2>1. m = [finish |-> TRUE, who |-> c, col |-> 0, count |-> met[c]]
    BY DEF C!FinalCount
  <2>2. m \in [finish : {TRUE}, who : C!Creatures, col : {0}, count : Nat]
    BY <1>1, <2>1 DEF ChamTypes
  <2> QED
    BY <2>1, <2>2 DEF C!Message
<1> HIDE DEF m
<1>4. /\ Len(bbox) \in Nat /\ 1..Len(bbox') = 1..Len(bbox) \cup {last}
      /\ \A n \in 1..Len(bbox) : bbox'[n] = bbox[n]
      /\ bbox'[last] = m
  BY <1>1, <1>2, <1>3, BrokerPut
<1>5. Ended(c) /\ box[c] = <<>> /\ Len(asked) = 0 /\ Told(c)
  BY <1>1, <1>2, EndedIs DEF ActorsInv, BoxOf
<1>6. cpc'[c] = "end" /\ \A d \in C!Creatures \ {c} : cpc'[d] = cpc[d]
  BY <1>1, <1>2 DEF ChamTypes
<1>7. C!Creatures' = C!Creatures /\ C!N' = C!N
  BY <1>2, SameCrowd
<1>8. \A d \in C!Creatures : BoxOf(d)'
  <2>1. BoxOf(c)'
    BY <1>1, <1>2, <1>5, <1>6, SamePhase, NotNext DEF BoxOf
  <2> QED
    BY <1>1, <1>2, <1>6, <2>1, BoxKeeps DEF ActorsInv
<1>9. \A n \in 1..Len(bbox) :
         /\ bbox[n].who \in C!Creatures
         /\ bbox[n].who = c => ~bbox[n].finish
  <2>1. ASSUME NEW n \in 1..Len(bbox) PROVE bbox[n] \in C!Message /\ Sent(bbox[n])
    BY <1>1, ElementOfSeq DEF ActorsInv, Requests, ChamTypes
  <2> QED
    BY <1>2, <2>1, MessageIs DEF Sent
<1>10. \A d \in C!Creatures \ {c} : Waits(d)' <=> Waits(d)
  BY <1>2, <1>6, SamePhase DEF Waits
<1> HIDE DEF last
<1>11. Requests'
  <2>1. ASSUME NEW n \in 1..Len(bbox') PROVE Sent(bbox[n])'
    <3>1. CASE n = last
      BY <1>2, <1>3, <1>4, <1>6, <3>1 DEF Sent
    <3>2. CASE n # last
      <4>1. n \in 1..Len(bbox) /\ bbox'[n] = bbox[n] /\ Sent(bbox[n])
        BY <1>1, <1>4, <3>2 DEF ActorsInv, Requests
      <4>2. CASE bbox[n].who = c
        BY <1>6, <1>9, <4>1, <4>2 DEF Sent
      <4>3. CASE bbox[n].who # c
        BY <1>2, <1>6, <1>9, <1>10, <4>1, <4>3 DEF Sent
      <4> QED
        BY <4>2, <4>3
    <3> QED
      BY <3>1, <3>2
  <2>2. ASSUME NEW k \in 1..Len(bbox'), NEW n \in 1..Len(bbox'),
               k < n, bbox'[k].who = bbox'[n].who
        PROVE  ~bbox'[k].finish /\ bbox'[n].finish
    <3>1. k \in 1..Len(bbox) /\ (n = last \/ n \in 1..Len(bbox))
      BY <1>4, <2>2 DEF last
    <3>2. CASE n = last
      BY <1>3, <1>4, <1>9, <2>2, <3>1, <3>2
    <3>3. CASE n \in 1..Len(bbox)
      BY <1>1, <1>4, <2>2, <3>1, <3>3 DEF ActorsInv, Requests
    <3> QED
      BY <3>1, <3>2, <3>3
  <2> QED
    BY <2>1, <2>2 DEF Requests
<1>12. Asking'
  BY <1>2, <1>5 DEF Asking
<1>13. Counts'
  <2>1. Counted' = Counted
    <3>1. c \notin Counted /\ c \notin Counted'
      BY <1>2, <1>3, <1>4 DEF Counted
    <3>2. \A d \in C!Creatures \ {c} : d \in Counted' <=> d \in Counted
      BY <1>3, <1>4, <1>6, <1>7 DEF Counted
    <3> QED
      BY <1>7, <3>1, <3>2 DEF Counted
  <2>2. Met(Counted)' = Met(Counted)
    BY <1>2, <2>1 DEF Met
  <2>3. ASSUME NEW n \in 1..Len(bbox'), cpc'[bbox'[n].who] = "end"
        PROVE  \E k \in 1..Len(bbox') : bbox'[k].who = bbox'[n].who /\ bbox'[k].finish
    <3>1. CASE bbox'[n].who = c
      BY <1>3, <1>4, <3>1
    <3>2. CASE bbox'[n].who # c
      <4>1. n \in 1..Len(bbox) /\ bbox'[n] = bbox[n] /\ cpc[bbox[n].who] = "end"
        BY <1>3, <1>4, <1>6, <1>9, <2>3, <3>2
      <4>2. PICK k \in 1..Len(bbox) : bbox[k].who = bbox[n].who /\ bbox[k].finish
        BY <1>1, <4>1 DEF ActorsInv, Counts
      <4> QED
        BY <1>4, <4>1, <4>2
    <3> QED
      BY <3>1, <3>2
  <2> QED
    BY <1>1, <1>2, <1>7, <2>1, <2>2, <2>3 DEF ActorsInv, Counts
<1>14. ChamTypes'
  <2>1. cpc' \in [C!Creatures -> {"none", "info", "ask", "mate", "final", "end"}]
    BY <1>1, <1>2 DEF ChamTypes
  <2>2. bbox' \in Seq(C!Message) /\ Len(bbox') <= MailboxSize
    BY <1>1, <1>2, <1>3, BrokerPut
  <2> QED
    BY <1>1, <1>2, <2>1, <2>2, SameCrowd DEF ChamTypes
<1>15. Stages' /\ Sums'
  <2>1. Mated' = Mated
    BY <1>2, <1>7 DEF Mated
  <2> QED
    BY <1>1, <1>2, <2>1, StagesKeep, SumsKeep
<1> QED
  BY <1>2, <1>7, <1>8, <1>11, <1>12, <1>13, <1>14, <1>15 DEF ChamInv, ActorsInv

\* A creature that waits is ended; its request may still be in the mailbox.
LEMMA EndKeeps ==
    ASSUME ChamInv, style = "actors", NEW c \in C!Creatures, C!CreatureMates(c),
           box[c] = EndOf(c)
    PROVE  ChamInv'
<1>1. ActorsInv /\ ChamTypes /\ Stages /\ Sums
  BY DEF ChamInv
<1>2. /\ cpc[c] = "mate" /\ box[c] # <<>> /\ box' = [box EXCEPT ![c] = Tail(box[c])]
      /\ C!Body(c, Head(box[c]) = C!End, Head(box[c]))
      /\ UNCHANGED <<style, crowd, bpc, i, asked, bbox, remaining, total_meetings>>
  BY DEF C!CreatureMates, C!Recv, C!brokerVars
<1>3. Ended(c) /\ Head(box[c]) = C!End /\ Tail(box[c]) = <<>>
  BY <1>2, BoxFacts
<1>4. cpc' = [cpc EXCEPT ![c] = "final"] /\ UNCHANGED <<col, met, self_met>>
  BY <1>2, <1>3 DEF C!Body, C!CGoto
<1>5. /\ cpc'[c] = "final" /\ box'[c] = <<>>
      /\ \A d \in C!Creatures \ {c} : cpc'[d] = cpc[d] /\ box'[d] = box[d]
  BY <1>1, <1>2, <1>3, <1>4 DEF ChamTypes
<1>6. Len(asked) = 0 /\ Told(c)
  BY <1>1, <1>3, EndedIs
<1>7. C!Creatures' = C!Creatures /\ C!N' = C!N
  BY <1>2, SameCrowd
<1>8. \A d \in C!Creatures : BoxOf(d)'
  <2>1. BoxOf(c)'
    BY <1>1, <1>2, <1>3, <1>5, <1>6, SamePhase, NotNext DEF BoxOf
  <2> QED
    BY <1>1, <1>2, <1>5, <2>1, BoxKeeps DEF ActorsInv
<1>9. \A d \in C!Creatures \ {c} : Waits(d)' <=> Waits(d)
  BY <1>2, <1>5, SamePhase DEF Waits
<1>10. Requests'
  <2>1. ASSUME NEW n \in 1..Len(bbox) PROVE Sent(bbox[n])'
    <3>1. bbox[n].who \in C!Creatures /\ Sent(bbox[n])
      BY <1>1, ElementOfSeq, MessageIs DEF ActorsInv, Requests, ChamTypes
    <3>2. CASE bbox[n].who = c
      BY <1>2, <1>5, <3>1, <3>2 DEF Sent
    <3>3. CASE bbox[n].who # c
      BY <1>2, <1>4, <1>5, <1>9, <3>1, <3>3 DEF Sent
    <3> QED
      BY <3>2, <3>3
  <2> QED
    BY <1>1, <1>2, <2>1 DEF ActorsInv, Requests
<1>11. Asking'
  BY <1>2, <1>6 DEF Asking
<1>12. Counts'
  <2>1. Counted' = Counted
    BY <1>2, <1>5, <1>7 DEF Counted
  <2>2. Met(Counted)' = Met(Counted)
    BY <1>4, <2>1 DEF Met
  <2>3. \A n \in 1..Len(bbox) : cpc'[bbox[n].who] = "end" => cpc[bbox[n].who] = "end"
    <3>1. ASSUME NEW n \in 1..Len(bbox) PROVE bbox[n].who \in C!Creatures
      BY <1>1, ElementOfSeq, MessageIs DEF ChamTypes
    <3> QED
      BY <1>5, <3>1
  <2> QED
    BY <1>1, <1>2, <1>7, <2>1, <2>2, <2>3 DEF ActorsInv, Counts
<1>13. ChamTypes'
  <2>1. cpc' \in [C!Creatures -> {"none", "info", "ask", "mate", "final", "end"}]
    BY <1>1, <1>4 DEF ChamTypes
  <2> QED
    BY <1>1, <1>2, <1>4, <2>1, TakeTypes, SameCrowd DEF ChamTypes
<1>14. Stages' /\ Sums'
  <2>1. c \notin Mated /\ c \notin Mated'
    BY <1>3, <1>5, Kinds DEF Mated
  <2>2. Mated' = Mated
    BY <1>1, <1>2, <1>5, <2>1, MatedChange DEF ChamTypes
  <2> QED
    BY <1>1, <1>2, <1>4, <2>2, StagesKeep, SumsKeep
<1> QED
  BY <1>2, <1>7, <1>8, <1>10, <1>11, <1>12, <1>13, <1>14 DEF ChamInv, ActorsInv

\* What a meeting does to the counters of a creature
LEMMA MeetsTypes ==
    ASSUME ChamTypes, NEW c \in C!Creatures, NEW m, m.col \in 0..2, m.who # c, C!Meets(c, m)
    PROVE  /\ col' \in [C!Creatures -> 0..2]
           /\ met' \in [C!Creatures -> Nat] /\ met' = [met EXCEPT ![c] = @ + 1]
           /\ self_met' \in [C!Creatures -> {0}]
<1>1. /\ col' = [col EXCEPT ![c] = C!Complement(col[c], m.col)]
      /\ met' = [met EXCEPT ![c] = met[c] + 1] /\ self_met' = [self_met EXCEPT ![c] = self_met[c]]
  BY DEF C!Meets
<1>2. C!Complement(col[c], m.col) \in 0..2
  <2>1. PICK x \in 0..2 : x = col[c]
    BY DEF ChamTypes
  <2>2. PICK y \in 0..2 : y = m.col
    OBVIOUS
  <2> QED
    BY <2>1, <2>2 DEF C!Complement
<1> QED
  BY <1>1, <1>2 DEF ChamTypes

\* A creature learns of its mate.
LEMMA MateKeeps ==
    ASSUME ChamInv, style = "actors", NEW c \in C!Creatures, C!CreatureMates(c),
           NEW m \in MateT, m.who # c, box[c] = Before(m, c), Told(c)
    PROVE  ChamInv'
<1>1. ActorsInv /\ ChamTypes /\ Stages /\ Sums
  BY DEF ChamInv
<1>2. /\ cpc[c] = "mate" /\ box[c] # <<>> /\ box' = [box EXCEPT ![c] = Tail(box[c])]
      /\ C!Body(c, Head(box[c]) = C!End, Head(box[c]))
      /\ UNCHANGED <<style, crowd, bpc, i, asked, bbox, remaining, total_meetings>>
  BY DEF C!CreatureMates, C!Recv, C!brokerVars
<1>3. Head(box[c]) = m /\ Head(box[c]) # C!End /\ Tail(box[c]) = EndOf(c) /\ box[c] # EndOf(c)
  BY BoxFacts, Kinds
<1>4. cpc' = [cpc EXCEPT ![c] = "ask"] /\ C!Meets(c, m)
  BY <1>2, <1>3 DEF C!Body, C!CGoto
<1>5. /\ col' \in [C!Creatures -> 0..2]
      /\ met' \in [C!Creatures -> Nat] /\ met' = [met EXCEPT ![c] = @ + 1]
      /\ self_met' \in [C!Creatures -> {0}]
  <2>1. m.col \in 0..2
    BY DEF MateT
  <2> QED
    BY <1>1, <1>4, <2>1, MeetsTypes
<1>6. /\ cpc'[c] = "ask" /\ box'[c] = EndOf(c)
      /\ \A d \in C!Creatures \ {c} : cpc'[d] = cpc[d] /\ box'[d] = box[d] /\ met'[d] = met[d]
  BY <1>1, <1>2, <1>3, <1>4, <1>5 DEF ChamTypes
<1>7. Quiet(c)
  BY <1>1, <1>2, <1>3, QuietIs DEF ActorsInv
<1>8. BoxOf(c)'
  BY <1>1, <1>2, <1>6, SamePhase, NotNext DEF BoxOf
<1>9. ChamTypes'
  <2>1. cpc' \in [C!Creatures -> {"none", "info", "ask", "mate", "final", "end"}]
    BY <1>1, <1>4 DEF ChamTypes
  <2> QED
    BY <1>1, <1>2, <1>5, <2>1, TakeTypes, SameCrowd DEF ChamTypes
<1>10. Sums'
  <2>1. c \in Mated /\ c \notin Mated'
    <3>1. c \in Mated
      BY MatedBy
    <3>2. EndOf(c) = <<>> \/ Head(EndOf(c)).kind # "mate"
      BY BoxFacts, Kinds
    <3> QED
      BY <1>6, <3>1, <3>2 DEF Mated
  <2>2. Cardinality(Mated') + 1 = Cardinality(Mated)
    BY <1>1, <1>2, <1>6, <2>1, MatedChange DEF ChamTypes
  <2>3. /\ IsFiniteSet(Met(C!Creatures)')
        /\ Cardinality(Met(C!Creatures)') = Cardinality(Met(C!Creatures)) + 1
    <3>1. C!Creatures' = C!Creatures
      BY <1>2, SameCrowd
    <3> DEFINE S == C!Creatures
               after == {p \in S \X Nat : 1 <= p[2] /\ p[2] <= met'[p[1]]}
    <3>2. IsFiniteSet(after) /\ Cardinality(after) = Cardinality(Met(S)) + 1
      BY <1>1, <1>5, MetMore DEF ChamTypes, Sums, Met
    <3>3. Met(C!Creatures)' = after
      BY <3>1 DEF Met
    <3> QED
      BY <3>2, <3>3
  <2>4. Cardinality(Mated) \in Nat /\ Cardinality(Mated') \in Nat
        /\ Cardinality(Met(C!Creatures)) \in Nat
    <3>1. Mated' \subseteq C!Creatures
      BY <1>2, SameCrowd DEF Mated
    <3> QED
      BY <1>1, <3>1, MatedFinite, FS_Subset, FS_CardinalityType DEF ChamTypes, Sums
  <2> QED
    BY <1>1, <1>2, <2>2, <2>3, <2>4, SamePhase DEF Sums
<1> QED
  BY <1>1, <1>2, <1>6, <1>7, <1>8, <1>9, <1>10, QuietMoves

InMeeting == bpc \in {"first", "second", "reply1", "reply2"}

LEMMA PhaseIs ==
    ASSUME ChamTypes
    PROVE  /\ InMeeting => \A c : Told(c) /\ ~Ended(c) /\ EndOf(c) = <<>>
           /\ bpc \in {"fork", "info"} => \A c : ~Ended(c) /\ EndOf(c) = <<>>
  BY DEF InMeeting, Told, Ended, EndOf

\* All the broker's mailbox says is of others than c, which alone changes.
LEMMA BboxKeeps ==
    ASSUME ActorsInv, ChamTypes, NEW c \in C!Creatures,
           \A n \in 1..Len(bbox) : bbox[n].who # c,
           cpc[c] # "end", cpc'[c] # "end",
           UNCHANGED <<crowd, bbox, remaining, total_meetings, met>>,
           \A d \in C!Creatures \ {c} : cpc'[d] = cpc[d] /\ (Waits(d) => Waits(d)')
    PROVE  Requests' /\ Counts'
<1>1. C!Creatures' = C!Creatures /\ C!N' = C!N
  BY SameCrowd
<1>2. \A n \in 1..Len(bbox) : bbox[n].who \in C!Creatures \ {c}
  BY MessageIs, ElementOfSeq DEF ChamTypes
<1>3. Requests'
  BY <1>2 DEF ActorsInv, Requests, Sent
<1>4. Counted' = Counted
  BY <1>1 DEF Counted
<1>5. Met(Counted)' = Met(Counted)
  BY <1>4 DEF Met
<1>6. Counts'
  BY <1>1, <1>2, <1>4, <1>5 DEF ActorsInv, Counts
<1> QED
  BY <1>3, <1>6

\* A box of which nothing changes, nor the phase for its creature
LEMMA BoxStays ==
    ASSUME NEW d, cpc'[d] = cpc[d], box'[d] = box[d], Told(d)' <=> Told(d),
           Ended(d)' <=> Ended(d), MateT' = MateT,
           ~(bpc = "info" /\ d = i + 1), ~(bpc = "info" /\ d = i + 1)', BoxOf(d)
    PROVE  BoxOf(d)' /\ (Waits(d)' <=> Waits(d))
<1>1. EndOf(d)' = EndOf(d) /\ \A m : Before(m, d)' = Before(m, d)
  BY DEF EndOf, Before
<1>2. BoxOf(d)'
  BY <1>1 DEF BoxOf
<1> QED
  BY <1>1, <1>2 DEF Waits

LEMMA ForksKeeps ==
    ASSUME ChamInv, style = "actors", C!BrokerForks PROVE ChamInv'
<1>1. ActorsInv /\ ChamTypes /\ Stages /\ Sums
  BY DEF ChamInv
<1>c. PICK c : c = i + 1
  OBVIOUS
<1>2. /\ bpc = "fork" /\ i < C!N /\ cpc' = [cpc EXCEPT ![c] = "info"] /\ bpc' = "info"
      /\ UNCHANGED <<style, crowd, col, met, self_met, remaining, total_meetings,
                     i, box, asked, bbox>>
  BY <1>c DEF C!BrokerForks, C!CGoto, C!Keeping
<1>3. c \in C!Creatures /\ ~Told(c) /\ i \in Nat
  <2>1. C!N \in Nat /\ C!Creatures = 1..C!N /\ i \in Nat
    BY <1>1, CrowdIs DEF ChamTypes
  <2> QED
    BY <1>c, <1>2, <2>1 DEF Told
<1>4. \A d : /\ (Told(d)' <=> Told(d)) /\ ~Ended(d) /\ ~Ended(d)'
             /\ EndOf(d)' = EndOf(d)
  BY <1>2 DEF Told, Ended, EndOf
<1>5. \A m, d : Before(m, d)' = Before(m, d)
  BY <1>4 DEF Before
<1>6. BoxOf(c)
  BY <1>1, <1>3 DEF ActorsInv
<1>7. cpc[c] = "none" /\ box[c] = <<>>
  <2>1. cpc[c] \notin {"info", "ask", "mate", "final", "end"}
    BY <1>2, <1>3, <1>4, <1>6 DEF BoxOf
  <2> QED
    BY <1>1, <1>3, <1>6, <2>1 DEF ChamTypes, BoxOf
<1>8. cpc'[c] = "info" /\ \A d \in C!Creatures \ {c} : cpc'[d] = cpc[d]
  BY <1>1, <1>2, <1>3 DEF ChamTypes
<1>9. C!Creatures' = C!Creatures /\ C!N' = C!N /\ MateT' = MateT
  BY <1>2, SameCrowd
<1>10. \A d \in C!Creatures : BoxOf(d)'
  <2>1. BoxOf(c)'
    BY <1>c, <1>2, <1>3, <1>4, <1>7, <1>8 DEF BoxOf
  <2>2. ASSUME NEW d \in C!Creatures \ {c} PROVE BoxOf(d)'
    <3>1. d # i + 1
      BY <1>c
    <3>2. BoxOf(d)
      BY <1>1 DEF ActorsInv
    <3> QED
      BY <1>2, <1>4, <1>8, <1>9, <3>1, <3>2, BoxStays
  <2> QED
    BY <2>1, <2>2
<1>11. Quiet(c)
  BY <1>1, <1>7, QuietIs DEF ActorsInv
<1>12. \A d \in C!Creatures \ {c} : Waits(d)' <=> Waits(d)
  BY <1>2, <1>4, <1>8 DEF Waits
<1>13. Requests' /\ Counts'
  BY <1>1, <1>2, <1>3, <1>7, <1>8, <1>11, <1>12, BboxKeeps DEF Quiet
<1>14. Len(asked) = 0
  BY <1>1, <1>2 DEF Stages
<1>15. Asking'
  BY <1>2, <1>14 DEF Asking
<1>16. Stages'
  BY <1>1, <1>2, <1>9, <1>14 DEF Stages
<1>17. Sums'
  <2>1. Mated' = Mated /\ Met(C!Creatures)' = Met(C!Creatures) /\ Expected' = Expected
    BY <1>2, <1>9 DEF Mated, Met, Expected
  <2> QED
    BY <1>1, <2>1 DEF Sums
<1>18. ChamTypes'
  <2>1. cpc' \in [C!Creatures -> {"none", "info", "ask", "mate", "final", "end"}]
    BY <1>1, <1>2 DEF ChamTypes
  <2> QED
    BY <1>1, <1>2, <2>1, SameCrowd DEF ChamTypes
<1> QED
  BY <1>2, <1>9, <1>10, <1>13, <1>15, <1>16, <1>17, <1>18 DEF ChamInv, ActorsInv

LEMMA InformsKeeps ==
    ASSUME ChamInv, style = "actors", C!BrokerInforms PROVE ChamInv'
<1>1. ActorsInv /\ ChamTypes /\ Stages /\ Sums
  BY DEF ChamInv
<1>c. PICK c : c = i + 1
  OBVIOUS
<1>2. /\ bpc = "info" /\ C!SendTo(c, C!Info) /\ i' = c /\ bpc' = "fork"
      /\ UNCHANGED <<style, crowd, col, met, self_met, remaining, total_meetings,
                     cpc, asked, bbox>>
  BY <1>c DEF C!BrokerInforms, C!Keeping
<1>3. i \in Nat /\ i < C!N /\ c \in C!Creatures /\ ~Told(c)
  <2>1. C!N \in Nat /\ C!Creatures = 1..C!N /\ i \in Nat /\ i < C!N
    BY <1>1, <1>2, CrowdIs DEF ChamTypes, Stages
  <2> QED
    BY <1>c, <1>2, <2>1 DEF Told
<1>4. \A d \in C!Creatures : /\ Told(d)' <=> (Told(d) \/ d = c)
                             /\ ~Ended(d) /\ ~Ended(d)' /\ EndOf(d)' = EndOf(d)
  <2>1. C!Creatures \subseteq Nat
    BY <1>1, CrowdIs DEF ChamTypes
  <2> QED
    BY <1>c, <1>2, <1>3, <2>1 DEF Told, Ended, EndOf
<1>5. \A d \in C!Creatures : \A m : Before(m, d)' = Before(m, d)
  BY <1>4 DEF Before
<1>6. cpc[c] = "info" /\ box[c] = <<>>
  BY <1>c, <1>1, <1>2, <1>3 DEF ActorsInv, BoxOf
<1>7. /\ box' \in [C!Creatures -> Seq(BoxT)]
      /\ \A d \in C!Creatures : Len(box'[d]) <= MailboxSize
      /\ box'[c] = Append(box[c], C!Info)
      /\ \A d \in C!Creatures \ {c} : box'[d] = box[d]
  BY <1>1, <1>2, <1>3, PutTypes, Kinds
<1>8. box'[c] = Before(C!Info, c)'
  <2>1. Before(C!Info, c)' = <<C!Info>>
    BY <1>3, <1>4 DEF Before
  <2>2. Append(<<>>, C!Info) = <<C!Info>>
    BY Tuples
  <2> QED
    BY <1>6, <1>7, <2>1, <2>2
<1>9. C!Creatures' = C!Creatures /\ C!N' = C!N /\ MateT' = MateT
  BY <1>2, SameCrowd
<1>10. \A d \in C!Creatures : BoxOf(d)'
  <2>1. BoxOf(c)'
    <3>1. cpc'[c] = "info" /\ Told(c)' /\ bpc' = "fork"
      BY <1>2, <1>3, <1>4, <1>6
    <3> QED
      BY <1>8, <3>1 DEF BoxOf
  <2>2. ASSUME NEW d \in C!Creatures \ {c} PROVE BoxOf(d)'
    <3>1. d # i + 1
      BY <1>c
    <3>2. BoxOf(d)
      BY <1>1 DEF ActorsInv
    <3> QED
      BY <1>2, <1>4, <1>7, <1>9, <3>1, <3>2, BoxStays
  <2> QED
    BY <2>1, <2>2
<1>11. Quiet(c)
  BY <1>1, <1>6, QuietIs DEF ActorsInv
<1>12. \A d \in C!Creatures \ {c} : Waits(d)' <=> Waits(d)
  BY <1>2, <1>4, <1>7 DEF Waits
<1>13. Requests' /\ Counts'
  BY <1>1, <1>2, <1>3, <1>6, <1>11, <1>12, BboxKeeps DEF Quiet
<1>14. Len(asked) = 0
  BY <1>1, <1>2 DEF Stages
<1>15. Asking'
  BY <1>2, <1>14 DEF Asking
<1>16. Stages'
  <2>1. i' <= C!N
    BY <1>c, <1>1, <1>2, <1>3, CrowdIs DEF ChamTypes
  <2> QED
    BY <1>1, <1>2, <1>9, <1>14, <2>1 DEF Stages
<1>17. Sums'
  <2>1. c \notin Mated /\ c \notin Mated'
    BY <1>6, <1>7, Tuples, Kinds DEF Mated
  <2>2. Mated' = Mated
    BY <1>1, <1>2, <1>3, <1>7, <2>1, MatedChange DEF ChamTypes
  <2>3. Met(C!Creatures)' = Met(C!Creatures) /\ Expected' = Expected
    BY <1>2, <1>9 DEF Met, Expected
  <2> QED
    BY <1>1, <2>2, <2>3 DEF Sums
<1>18. ChamTypes'
  <2>1. i' \in Nat
    BY <1>c, <1>2, <1>3
  <2> QED
    BY <1>1, <1>2, <1>7, <2>1, SameCrowd DEF ChamTypes
<1> QED
  BY <1>2, <1>9, <1>10, <1>13, <1>15, <1>16, <1>17, <1>18 DEF ChamInv, ActorsInv

\* The broker's phase changes, and nobody's state with it.
LEMMA PhaseKeeps ==
    ASSUME ChamInv, style = "actors", UNCHANGED <<style, crowd, cpc, box, bbox, met,
                                                  remaining, total_meetings>>,
           \A d \in C!Creatures : Told(d) /\ Told(d)' /\ (Ended(d)' <=> Ended(d)),
           bpc # "info", bpc' # "info", bpc' = "done" => remaining = 0, Len(asked) = 0, Len(asked') = 0,
           ChamTypes', Stages', Expected' = Expected
    PROVE  ChamInv'
<1>1. ActorsInv /\ ChamTypes /\ Sums
  BY DEF ChamInv
<1>2. C!Creatures' = C!Creatures /\ C!N' = C!N /\ MateT' = MateT
  BY SameCrowd
<1>3. \A d \in C!Creatures : EndOf(d)' = EndOf(d) /\ \A m : Before(m, d)' = Before(m, d)
  BY DEF EndOf, Before
<1>4. ASSUME NEW d \in C!Creatures PROVE BoxOf(d)' /\ (Waits(d)' <=> Waits(d))
  <2>1. BoxOf(d)
    BY <1>1 DEF ActorsInv
  <2> QED
    BY <1>2, <1>3, <2>1 DEF BoxOf, Waits
<1>5. Requests'
  <2>1. \A n \in 1..Len(bbox) : bbox[n].who \in C!Creatures
    BY <1>1, MessageIs, ElementOfSeq DEF ChamTypes
  <2> QED
    BY <1>1, <1>4, <2>1 DEF ActorsInv, Requests, Sent
<1>6. Counts'
  <2>1. Counted' = Counted /\ Met(Counted)' = Met(Counted)
    BY <1>2 DEF Counted, Met
  <2> QED
    BY <1>1, <1>2, <2>1 DEF ActorsInv, Counts
<1>7. Sums'
  <2>1. Mated' = Mated /\ Met(C!Creatures)' = Met(C!Creatures)
    BY <1>2 DEF Mated, Met
  <2> QED
    BY <1>1, <2>1 DEF Sums
<1> QED
  BY <1>2, <1>4, <1>5, <1>6, <1>7 DEF ChamInv, ActorsInv, Asking

LEMMA BeginsKeeps ==
    ASSUME ChamInv, style = "actors", C!BrokerStarts PROVE ChamInv'
<1>1. ChamTypes /\ Stages
  BY DEF ChamInv
<1>2. /\ bpc = "fork" /\ i = C!N /\ i' = 0
      /\ bpc' = IF Meetings > 0 THEN "first" ELSE "finalize"
      /\ UNCHANGED <<style, crowd, col, met, self_met, remaining, total_meetings,
                     cpc, box, asked, bbox>>
  BY DEF C!BrokerStarts, C!Keeping
<1>3. C!N \in Nat /\ C!N >= 2 /\ C!Creatures = 1..C!N /\ Meetings \in Nat /\ C!N' = C!N
  BY <1>1, <1>2, CrowdIs, SameCrowd DEF ChamTypes
<1>4. \A d \in C!Creatures : Told(d) /\ Told(d)' /\ (Ended(d)' <=> Ended(d))
  BY <1>2, <1>3 DEF Told, Ended
<1>5. Len(asked) = 0 /\ Len(asked') = 0
  BY <1>1, <1>2 DEF Stages
<1>6. Stages'
  BY <1>1, <1>2, <1>3, <1>5 DEF Stages
<1>7. Expected' = Expected
  BY <1>2, <1>3 DEF Expected
<1>8. ChamTypes'
  BY <1>1, <1>2, SameCrowd DEF ChamTypes
<1> QED
  BY <1>2, <1>4, <1>5, <1>6, <1>7, <1>8, PhaseKeeps

LEMMA ReturnsKeeps ==
    ASSUME ChamInv, style = "actors", C!BrokerReturns PROVE ChamInv'
<1>1. ChamTypes /\ Stages
  BY DEF ChamInv
<1>2. /\ bpc = "wait" /\ bpc' = "done" /\ remaining = 0
      /\ UNCHANGED <<style, crowd, col, met, self_met, remaining, total_meetings,
                     cpc, box, i, asked, bbox>>
  BY DEF C!BrokerReturns, C!Keeping
<1>3. \A d \in C!Creatures : Told(d) /\ Told(d)' /\ (Ended(d)' <=> Ended(d))
  BY <1>2 DEF Told, Ended
<1>4. Len(asked) = 0 /\ Len(asked') = 0
  BY <1>1, <1>2 DEF Stages
<1>5. Stages'
  BY <1>1, <1>2, <1>4, SameCrowd DEF Stages
<1>6. Expected' = Expected
  BY <1>2 DEF Expected
<1>7. ChamTypes'
  BY <1>1, <1>2, SameCrowd DEF ChamTypes
<1> QED
  BY <1>2, <1>3, <1>4, <1>5, <1>6, <1>7, PhaseKeeps

\* As long as creatures meet, all requests are of creatures that wait.
LEMMA MeetingIs ==
    ASSUME ActorsInv, ChamTypes, InMeeting
    PROVE  /\ \A d \in C!Creatures : /\ cpc[d] \notin {"none", "final", "end"}
                                     /\ Told(d) /\ ~Ended(d) /\ EndOf(d) = <<>>
           /\ \A n \in 1..Len(bbox) : /\ bbox[n].who \in C!Creatures
                                      /\ ~bbox[n].finish /\ Waits(bbox[n].who)
           /\ \A m, n \in 1..Len(bbox) : m < n => bbox[m].who # bbox[n].who
           /\ Counted = {}
<1>1. ASSUME NEW d \in C!Creatures
      PROVE  /\ cpc[d] \notin {"none", "final", "end"}
             /\ Told(d) /\ ~Ended(d) /\ EndOf(d) = <<>>
  <2>1. Told(d) /\ ~Ended(d) /\ EndOf(d) = <<>>
    BY PhaseIs
  <2>2. BoxOf(d)
    BY DEF ActorsInv
  <2>3. cpc[d] # "none"
    BY <2>1, <2>2 DEF BoxOf
  <2>4. cpc[d] \notin {"final", "end"}
    BY <2>1, <2>2 DEF BoxOf
  <2> QED
    BY <2>1, <2>3, <2>4
<1>2. ASSUME NEW n \in 1..Len(bbox)
      PROVE  bbox[n].who \in C!Creatures /\ ~bbox[n].finish /\ Waits(bbox[n].who)
  <2>1. bbox[n].who \in C!Creatures /\ Sent(bbox[n])
    BY MessageIs, ElementOfSeq DEF ChamTypes, ActorsInv, Requests
  <2>2. cpc[bbox[n].who] \notin {"final", "end"}
    BY <1>1, <2>1
  <2> QED
    BY <2>1, <2>2 DEF Sent
<1>3. \A m, n \in 1..Len(bbox) : m < n => bbox[m].who # bbox[n].who
  BY <1>2 DEF ActorsInv, Requests
<1>4. Counted = {}
  BY <1>1 DEF Counted
<1> QED
  BY <1>1, <1>2, <1>3, <1>4

\* What the first message is, when it is taken
LEMMA RecvKeeps ==
    ASSUME ChamInv, style = "actors", C!BrokerRecv PROVE ChamInv'
<1>1. ActorsInv /\ ChamTypes /\ Stages /\ Sums
  BY DEF ChamInv
<1>2. /\ bpc \in {"first", "second"} /\ bbox # <<>>
      /\ asked' = Append(asked, Head(bbox)) /\ bbox' = Tail(bbox)
      /\ bpc' = IF bpc = "first" THEN "second" ELSE "reply1"
      /\ UNCHANGED <<style, crowd, col, met, self_met, remaining, total_meetings,
                     cpc, box, i>>
  BY DEF C!BrokerRecv, C!Keeping
<1>3. /\ bbox' \in Seq(C!Message) /\ Len(bbox') <= MailboxSize
      /\ Len(bbox) \in Nat /\ 1 \in 1..Len(bbox)
      /\ \A n \in 1..Len(bbox') : n + 1 \in 1..Len(bbox) /\ bbox'[n] = bbox[n + 1]
      /\ Head(bbox) = bbox[1] /\ bbox[1] \in C!Message
  BY <1>1, <1>2, BrokerTake
<1>4. PICK h \in C!Message : h = bbox[1]
  BY <1>3
<1>5. InMeeting /\ InMeeting'
  BY <1>2 DEF InMeeting
<1>6. /\ h.who \in C!Creatures /\ ~h.finish /\ Waits(h.who)
      /\ \A n \in 1..Len(bbox') : bbox'[n].who # h.who
  <2>1. h.who \in C!Creatures /\ ~h.finish /\ Waits(h.who)
    BY <1>1, <1>3, <1>4, <1>5, MeetingIs
  <2>2. ASSUME NEW n \in 1..Len(bbox') PROVE bbox'[n].who # h.who
    <3>1. n + 1 \in 1..Len(bbox) /\ bbox'[n] = bbox[n + 1] /\ 1 \in 1..Len(bbox)
      BY <1>3
    <3>2. 1 < n + 1
      OBVIOUS
    <3>3. bbox[1].who # bbox[n + 1].who
      BY <1>1, <1>5, <3>1, <3>2, MeetingIs
    <3> QED
      BY <1>4, <3>1, <3>3
  <2> QED
    BY <2>1, <2>2
<1>7. C!Creatures' = C!Creatures /\ C!N' = C!N /\ MateT' = MateT /\ C!Message' = C!Message
  BY <1>2, SameCrowd
<1>8. \A d \in C!Creatures : BoxOf(d)' /\ (Waits(d)' <=> Waits(d))
  <2>1. ASSUME NEW d \in C!Creatures PROVE BoxOf(d)' /\ (Waits(d)' <=> Waits(d))
    <3>1. /\ Told(d)' <=> Told(d)
          /\ Ended(d)' <=> Ended(d)
          /\ bpc # "info" /\ bpc' # "info"
      BY <1>2 DEF Told, Ended
    <3>2. BoxOf(d)
      BY <1>1 DEF ActorsInv
    <3> QED
      BY <1>2, <1>7, <3>1, <3>2, BoxStays
  <2> QED
    BY <2>1
<1>9. /\ asked \in Seq(C!Message) /\ Len(asked) \in Nat
      /\ asked' \in Seq(C!Message) /\ Len(asked') = Len(asked) + 1
      /\ \A n \in 1..Len(asked) : asked'[n] = asked[n]
      /\ asked'[Len(asked) + 1] = h
  BY <1>1, <1>2, <1>3, <1>4, AppendProperties DEF ChamTypes
<1>10. \A n \in 1..Len(asked) : /\ asked[n].who \in C!Creatures /\ Waits(asked[n].who)
                                /\ \A k \in 1..Len(bbox) : bbox[k].who # asked[n].who
  <2>1. \A n \in 1..Len(asked) : asked[n].who \in C!Creatures
    BY <1>9, MessageIs, ElementOfSeq
  <2> QED
    BY <1>1, <1>2, <2>1 DEF ActorsInv, Asking
<1>11. \A n \in 1..Len(asked') : n \in 1..Len(asked) \/ n = Len(asked) + 1
  BY <1>9
<1>12. Requests'
  <2>1. ASSUME NEW n \in 1..Len(bbox') PROVE Sent(bbox[n])' /\ ~bbox'[n].finish
    <3>1. n + 1 \in 1..Len(bbox) /\ bbox'[n] = bbox[n + 1]
      BY <1>3
    <3>2. /\ bbox[n + 1].who \in C!Creatures /\ ~bbox[n + 1].finish
          /\ Waits(bbox[n + 1].who)
      BY <1>1, <1>5, <3>1, MeetingIs
    <3> QED
      BY <1>8, <3>1, <3>2 DEF Sent
  <2>2. ASSUME NEW k \in 1..Len(bbox'), NEW n \in 1..Len(bbox'), k < n
        PROVE  bbox'[k].who # bbox'[n].who
    <3>1. /\ k + 1 \in 1..Len(bbox) /\ bbox'[k] = bbox[k + 1]
          /\ n + 1 \in 1..Len(bbox) /\ bbox'[n] = bbox[n + 1]
      BY <1>3
    <3>2. k + 1 < n + 1
      BY <2>2
    <3>3. bbox[k + 1].who # bbox[n + 1].who
      BY <1>1, <1>5, <3>1, <3>2, MeetingIs
    <3> QED
      BY <3>1, <3>3
  <2> QED
    BY <2>1, <2>2 DEF Requests
<1>13. Asking'
  <2>1. ASSUME NEW n \in 1..Len(asked')
        PROVE  /\ Waits(asked[n].who)'
               /\ \A k \in 1..Len(bbox') : bbox'[k].who # asked'[n].who
    <3>1. CASE n = Len(asked) + 1
      <4>1. asked'[n] = h
        BY <1>9, <3>1
      <4>2. Waits(h.who)'
        BY <1>6, <1>8
      <4> QED
        BY <1>6, <4>1, <4>2 DEF Waits
    <3>2. CASE n \in 1..Len(asked)
      <4>1. /\ asked'[n] = asked[n]
            /\ asked[n].who \in C!Creatures /\ Waits(asked[n].who)
            /\ \A k \in 1..Len(bbox) : bbox[k].who # asked[n].who
        BY <1>9, <1>10, <3>2
      <4>2. Waits(asked[n].who)'
        BY <1>8, <4>1 DEF Waits
      <4>3. \A k \in 1..Len(bbox') : bbox'[k].who # asked[n].who
        BY <1>3, <4>1
      <4> QED
        BY <4>1, <4>2, <4>3 DEF Waits
    <3> QED
      BY <1>11, <3>1, <3>2
  <2> QED
    BY <2>1 DEF Asking
<1>14. Counts'
  <2>1. Counted = {} /\ Counted' = {}
    <3>1. Counted = {} /\ \A d \in C!Creatures : cpc[d] # "end"
      BY <1>1, <1>5, MeetingIs
    <3> QED
      BY <1>2, <1>7, <3>1 DEF Counted
  <2>2. Met(Counted)' = Met(Counted)
    BY <1>2, <2>1 DEF Met
  <2>3. \A n \in 1..Len(bbox') : cpc'[bbox'[n].who] # "end"
    <3>1. ASSUME NEW n \in 1..Len(bbox') PROVE cpc'[bbox'[n].who] # "end"
      <4>1. n + 1 \in 1..Len(bbox) /\ bbox'[n] = bbox[n + 1]
        BY <1>3
      <4>2. bbox[n + 1].who \in C!Creatures
        BY <1>1, <1>5, <4>1, MeetingIs
      <4> QED
        BY <1>1, <1>2, <1>5, <4>1, <4>2, MeetingIs
    <3> QED
      BY <3>1
  <2> QED
    BY <1>1, <1>2, <1>7, <2>1, <2>2, <2>3 DEF ActorsInv, Counts
<1>15. Stages'
  <2>1. CASE bpc = "first"
    <3>1. Len(asked) = 0 /\ bpc' = "second" /\ i' = i /\ i < Meetings
      BY <1>1, <1>2, <2>1 DEF Stages
    <3>2. Len(asked') = 1 /\ asked'[1] = h
      BY <1>9, <3>1
    <3> QED
      BY <1>6, <3>1, <3>2 DEF Stages
  <2>2. CASE bpc = "second"
    <3>1. Len(asked) = 1 /\ bpc' = "reply1" /\ i' = i /\ i < Meetings /\ ~asked[1].finish
      BY <1>1, <1>2, <2>2 DEF Stages
    <3>2. Len(asked') = 2 /\ asked'[1] = asked[1] /\ asked'[2] = h
      BY <1>9, <3>1
    <3>3. h.who # asked[1].who
      BY <1>3, <1>4, <1>10, <3>1
    <3>4. \A n \in 1..2 : n = 1 \/ n = 2
      OBVIOUS
    <3> QED
      BY <1>6, <3>1, <3>2, <3>3, <3>4 DEF Stages
  <2> QED
    BY <1>2, <2>1, <2>2
<1>16. Sums'
  <2>1. Mated' = Mated /\ Met(C!Creatures)' = Met(C!Creatures)
    BY <1>2, <1>7 DEF Mated, Met
  <2>2. Expected' = Expected
    BY <1>2 DEF Expected
  <2> QED
    BY <1>1, <2>1, <2>2 DEF Sums
<1>17. ChamTypes'
  BY <1>1, <1>2, <1>3, <1>9, SameCrowd DEF ChamTypes
<1>18. bpc' # "done"
  BY <1>2
<1> QED
  BY <1>2, <1>7, <1>8, <1>12, <1>13, <1>14, <1>15, <1>16, <1>17, <1>18 DEF ChamInv, ActorsInv

\* The broker tells c, which waits, of its mate.
LEMMA ReplyKeeps ==
    ASSUME ChamInv, style = "actors", InMeeting, NEW c \in C!Creatures, NEW m \in MateT, m.who # c,
           Waits(c), \A n \in 1..Len(bbox) : bbox[n].who # c, C!SendTo(c, m),
           UNCHANGED <<style, crowd, col, met, self_met, remaining, total_meetings, cpc, bbox>>,
           i' \in Nat, bpc' \in {"first", "reply2", "finalize"},
           \A d \in C!Creatures : Told(d)' /\ ~Ended(d)',
           asked' \in Seq(C!Message), Stages', Expected' = Expected + 1, Expected \in Nat,
           \A n \in 1..Len(asked') : ~(bpc' = "reply2" /\ n = 1) =>
              n \in 1..Len(asked) /\ bpc = "reply1" /\ asked'[n] = asked[n] /\ asked[n].who # c
    PROVE  ChamInv'
<1>1. ActorsInv /\ ChamTypes /\ Stages /\ Sums
  BY DEF ChamInv
<1>2. C!Creatures' = C!Creatures /\ C!N' = C!N /\ MateT' = MateT /\ C!Message' = C!Message
  BY SameCrowd
<1>3. /\ box' \in [C!Creatures -> Seq(BoxT)]
      /\ \A d \in C!Creatures : Len(box'[d]) <= MailboxSize
      /\ box'[c] = Append(box[c], m)
      /\ \A d \in C!Creatures \ {c} : box'[d] = box[d]
  BY <1>1, PutTypes, Kinds
<1>4. \A d \in C!Creatures : Told(d) /\ ~Ended(d) /\ EndOf(d) = <<>> /\ EndOf(d)' = <<>>
  BY <1>1, MeetingIs DEF EndOf
<1>5. cpc[c] = "mate" /\ box[c] = <<>>
  BY <1>4 DEF Waits
<1>6. box'[c] = Before(m, c)' /\ box'[c] = <<m>>
  <2>1. Append(<<>>, m) = <<m>>
    BY Tuples
  <2>2. ~Ended(c)'
    OBVIOUS
  <2> QED
    BY <1>3, <1>5, <2>1, <2>2 DEF Before
<1>7. bpc # "info" /\ bpc' # "info" /\ bpc' # "done"
  BY DEF InMeeting
<1>8. \A d \in C!Creatures \ {c} : BoxOf(d)' /\ (Waits(d)' <=> Waits(d))
  <2>1. ASSUME NEW d \in C!Creatures \ {c} PROVE BoxOf(d)' /\ (Waits(d)' <=> Waits(d))
    <3>1. /\ Told(d)' <=> Told(d)
          /\ Ended(d)' <=> Ended(d)
      BY <1>4
    <3>2. BoxOf(d)
      BY <1>1 DEF ActorsInv
    <3> QED
      BY <1>2, <1>3, <1>7, <3>1, <3>2, BoxStays
  <2> QED
    BY <2>1
<1>9. BoxOf(c)'
  <2>1. cpc'[c] = "mate" /\ Told(c)' /\ bpc' # "info" /\ m \in MateT'
    BY <1>2, <1>5, <1>7
  <2> QED
    BY <1>6, <2>1 DEF BoxOf
<1>10. Requests' /\ Counts'
  BY <1>1, <1>5, <1>8, BboxKeeps
<1>11. Asking'
  <2>1. ASSUME NEW n \in 1..Len(asked'), ~(bpc' = "reply2" /\ n = 1)
        PROVE  /\ Waits(asked[n].who)'
               /\ \A k \in 1..Len(bbox') : bbox'[k].who # asked'[n].who
    <3>1. n \in 1..Len(asked) /\ bpc = "reply1" /\ asked'[n] = asked[n] /\ asked[n].who # c
      BY <2>1
    <3>2. /\ Waits(asked[n].who)
          /\ \A k \in 1..Len(bbox) : bbox[k].who # asked[n].who
      BY <1>1, <3>1 DEF ActorsInv, Asking
    <3>3. asked[n].who \in C!Creatures
      BY <1>1, <3>1, MessageIs, ElementOfSeq DEF ChamTypes
    <3>4. Waits(asked[n].who)'
      <4>1. PICK d \in C!Creatures \ {c} : d = asked[n].who
        BY <3>1, <3>3
      <4>2. cpc[d] = "mate" /\ box[d] = EndOf(d)
        BY <3>2, <4>1 DEF Waits
      <4>3. cpc'[d] = "mate" /\ box'[d] = EndOf(d)'
        BY <1>3, <1>4, <4>2
      <4>4. asked'[n].who = d
        BY <3>1, <4>1
      <4> QED
        BY <4>3, <4>4 DEF Waits, EndOf, Ended
    <3> QED
      BY <3>1, <3>2, <3>4
  <2> QED
    BY <2>1 DEF Asking
<1>12. Sums'
  <2>1. c \notin Mated /\ c \in Mated'
    <3>1. c \notin Mated
      BY <1>5 DEF Mated
    <3>2. box'[c] # <<>> /\ Head(box'[c]).kind = "mate"
      BY <1>6, Tuples, Kinds
    <3> QED
      BY <1>2, <3>1, <3>2 DEF Mated
  <2>2. Cardinality(Mated') = Cardinality(Mated) + 1
    BY <1>1, <1>3, <2>1, MatedChange DEF ChamTypes
  <2>3. Met(C!Creatures)' = Met(C!Creatures)
    BY <1>2 DEF Met
  <2>4. Cardinality(Mated) \in Nat /\ Cardinality(Met(C!Creatures)) \in Nat
    BY <1>1, MatedFinite, FS_CardinalityType DEF ChamTypes, Sums
  <2>5. PICK x \in Nat, y \in Nat : x = Cardinality(Mated) /\ y = Cardinality(Met(C!Creatures))
    BY <2>4
  <2>6. y + x = Expected
    BY <1>1, <2>5 DEF Sums
  <2>7. y + (x + 1) = Expected'
    <3>1. PICK e \in Nat : e = Expected
      OBVIOUS
    <3>2. y + x = e /\ Expected' = e + 1
      BY <2>6, <3>1
    <3>3. y + (x + 1) = e + 1
      BY ONLY x \in Nat, y \in Nat, e \in Nat, <3>2
    <3> QED
      BY <3>2, <3>3
  <2>8. IsFiniteSet(Met(C!Creatures)') /\ Cardinality(Met(C!Creatures)') = y
    BY <1>1, <2>3, <2>5 DEF Sums
  <2>9. Cardinality(Mated') = x + 1
    BY <2>2, <2>5
  <2> QED
    BY <2>7, <2>8, <2>9 DEF Sums
<1>13. ChamTypes'
  BY <1>1, <1>2, <1>3, SameCrowd DEF ChamTypes
<1>14. \A d \in C!Creatures : BoxOf(d)'
  BY <1>8, <1>9
<1> QED
  BY <1>2, <1>7, <1>10, <1>11, <1>12, <1>13, <1>14 DEF ChamInv, ActorsInv

LEMMA RepliesKeep ==
    ASSUME ChamInv, style = "actors", C!BrokerReplies PROVE ChamInv'
<1>1. ActorsInv /\ ChamTypes /\ Stages /\ Sums
  BY DEF ChamInv
<1>2. UNCHANGED <<style, crowd, col, met, self_met, remaining, total_meetings, cpc, bbox>>
  BY DEF C!BrokerReplies, C!Keeping
<1>3. bpc \in {"reply1", "reply2"}
  BY DEF C!BrokerReplies
<1>4. InMeeting /\ Len(asked) = 2 /\ i < Meetings /\ i \in Nat /\ Meetings \in Nat
  BY <1>1, <1>3, CrowdIs DEF Stages, InMeeting, ChamTypes
<1>5. /\ asked[1] \in C!Message /\ asked[2] \in C!Message
      /\ asked[1].who # asked[2].who
  <2>1. 1 \in 1..Len(asked) /\ 2 \in 1..Len(asked)
    BY <1>4
  <2> QED
    BY <1>1, <1>4, <2>1, ElementOfSeq DEF Stages, ChamTypes
<1>6. /\ C!Reply(1) \in MateT /\ C!Reply(1).who = asked[2].who
      /\ C!Reply(2) \in MateT /\ C!Reply(2).who = asked[1].who
  <2>1. C!Reply(1) = [kind |-> "mate", who |-> asked[2].who, col |-> asked[2].col]
    BY DEF C!Reply, C!Mate
  <2>2. C!Reply(2) = [kind |-> "mate", who |-> asked[1].who, col |-> asked[1].col]
    BY DEF C!Reply, C!Mate
  <2>3. /\ asked[1].who \in C!Creatures /\ asked[1].col \in 0..2
        /\ asked[2].who \in C!Creatures /\ asked[2].col \in 0..2
    BY <1>5, MessageIs
  <2> QED
    BY <2>1, <2>2, <2>3 DEF MateT
<1>7. \A n \in 1..2 : n = 1 \/ n = 2
  OBVIOUS
<1>8. C!Creatures' = C!Creatures /\ C!N' = C!N /\ C!N \in Nat /\ C!N >= 2 /\ C!Creatures = 1..C!N
  BY <1>1, <1>2, CrowdIs, SameCrowd DEF ChamTypes
<1>9. CASE bpc = "reply1"
  <2>1. /\ C!SendTo(asked[1].who, C!Reply(1)) /\ bpc' = "reply2" /\ i' = i /\ asked' = asked
    BY <1>9 DEF C!BrokerReplies
  <2>2. /\ asked[1].who \in C!Creatures /\ Waits(asked[1].who)
        /\ \A k \in 1..Len(bbox) : bbox[k].who # asked[1].who
    BY <1>1, <1>4, <1>5, <1>9, MessageIs DEF ActorsInv, Asking
  <2>3. Expected' = Expected + 1 /\ Expected \in Nat
    <3>1. Expected = 2 * i /\ Expected' = 2 * i + 1
      BY <1>9, <2>1 DEF Expected
    <3> QED
      BY <1>4, <3>1
  <2>4. \A d : Told(d)' /\ ~Ended(d)'
    BY <2>1 DEF Told, Ended
  <2>5. Stages'
    BY <1>1, <1>4, <1>9, <2>1 DEF Stages
  <2>6. asked' \in Seq(C!Message) /\ i' \in Nat /\ bpc' \in {"first", "reply2", "finalize"}
    BY <1>1, <2>1 DEF ChamTypes
  <2>7. \A n \in 1..Len(asked') : ~(bpc' = "reply2" /\ n = 1) =>
              /\ n \in 1..Len(asked) /\ bpc = "reply1" /\ asked'[n] = asked[n]
              /\ asked[n].who # asked[1].who
    BY <1>4, <1>5, <1>7, <1>9, <2>1
  <2> QED
    BY <1>2, <1>4, <1>5, <1>6, <2>1, <2>2, <2>3, <2>4, <2>5, <2>6, <2>7, ReplyKeeps
<1>10. CASE bpc = "reply2"
  <2>1. /\ C!SendTo(asked[2].who, C!Reply(2))
        /\ bpc' = (IF C!MeetingsLeft THEN "first" ELSE "finalize")
        /\ i' = (IF C!MeetingsLeft THEN i + 1 ELSE 0)
        /\ asked' = <<>>
    BY <1>10 DEF C!BrokerReplies
  <2>2. /\ asked[2].who \in C!Creatures /\ Waits(asked[2].who)
        /\ \A k \in 1..Len(bbox) : bbox[k].who # asked[2].who
    BY <1>1, <1>4, <1>5, <1>10, MessageIs DEF ActorsInv, Asking
  <2>3. \/ C!MeetingsLeft /\ i + 1 < Meetings /\ bpc' = "first" /\ i' = i + 1
        \/ ~C!MeetingsLeft /\ i + 1 = Meetings /\ bpc' = "finalize" /\ i' = 0
    BY <1>4, <2>1 DEF C!MeetingsLeft
  <2>4. Expected' = Expected + 1 /\ Expected \in Nat
    <3>1. Expected = 2 * i + 1
      BY <1>10 DEF Expected
    <3>2. \/ i' = i + 1 /\ Expected' = 2 * i'
          \/ i + 1 = Meetings /\ Expected' = 2 * Meetings
      BY <2>3 DEF Expected
    <3> QED
      BY <1>4, <3>1, <3>2
  <2>5. \A d \in C!Creatures : Told(d)' /\ ~Ended(d)'
    BY <1>8, <2>3 DEF Told, Ended
  <2>6. Len(asked') = 0
    BY <2>1
  <2>7. Stages'
    BY <1>4, <1>8, <2>3, <2>6 DEF Stages
  <2>8. asked' \in Seq(C!Message) /\ i' \in Nat /\ bpc' \in {"first", "reply2", "finalize"}
    BY <1>4, <2>1, <2>3
  <2>9. \A n \in 1..Len(asked') : FALSE
    BY <2>6
  <2> QED
    BY <1>2, <1>4, <1>5, <1>6, <2>1, <2>2, <2>4, <2>5, <2>7, <2>8, <2>9, ReplyKeeps
<1> QED
  BY <1>3, <1>9, <1>10

\* The broker tells the next creature that the meetings are over.
LEMMA FinalizesKeeps ==
    ASSUME ChamInv, style = "actors", C!BrokerFinalizes PROVE ChamInv'
<1>1. ActorsInv /\ ChamTypes /\ Stages /\ Sums
  BY DEF ChamInv
<1>c. PICK c : c = i + 1
  OBVIOUS
<1>2. /\ bpc = "finalize" /\ C!SendTo(c, C!End) /\ i' = c
      /\ bpc' = IF c < C!N THEN "finalize" ELSE "wait"
      /\ UNCHANGED <<style, crowd, col, met, self_met, remaining, total_meetings,
                     cpc, asked, bbox>>
  BY <1>c DEF C!BrokerFinalizes, C!Keeping
<1>3. /\ C!N \in Nat /\ C!Creatures = 1..C!N /\ i \in Nat /\ i < C!N /\ c \in C!Creatures
      /\ \/ c < C!N /\ bpc' = "finalize"
         \/ c = C!N /\ bpc' = "wait"
  <2>1. C!N \in Nat /\ C!Creatures = 1..C!N /\ i \in Nat /\ i < C!N
    BY <1>1, <1>2, CrowdIs DEF ChamTypes, Stages
  <2> QED
    BY <1>c, <1>2, <2>1
<1>4. C!Creatures' = C!Creatures /\ C!N' = C!N /\ MateT' = MateT
  BY <1>2, SameCrowd
<1>5. \A d \in C!Creatures : Told(d) /\ Told(d)' /\ (Ended(d)' <=> (Ended(d) \/ d = c))
  <2>1. ASSUME NEW d \in C!Creatures PROVE Ended(d)' <=> (Ended(d) \/ d = c)
    <3>1. d \in Nat /\ d <= C!N /\ (d <= c <=> (d <= i \/ d = c))
      BY <1>c, <1>3
    <3>2. Ended(d) <=> d <= i
      BY <1>2 DEF Ended
    <3>3. Ended(d)' <=> d <= c
      BY <1>2, <1>3, <3>1 DEF Ended
    <3> QED
      BY <3>1, <3>2, <3>3
  <2>2. \A d : Told(d) /\ Told(d)'
    BY <1>2, <1>3 DEF Told
  <2> QED
    BY <2>1, <2>2
<1>6. /\ box' \in [C!Creatures -> Seq(BoxT)]
      /\ \A d \in C!Creatures : Len(box'[d]) <= MailboxSize
      /\ box'[c] = Append(box[c], C!End)
      /\ \A d \in C!Creatures \ {c} : box'[d] = box[d]
  BY <1>1, <1>2, <1>3, PutTypes, Kinds
<1>7. ~Ended(c) /\ Ended(c)'
  <2>1. ~(c <= i)
    BY <1>c, <1>3
  <2> QED
    BY <1>2, <1>3, <1>5, <2>1 DEF Ended
<1>8. BoxOf(c) /\ EndOf(c) = <<>> /\ EndOf(c)' = <<C!End>>
      /\ \A m : Before(m, c) = <<m>> /\ Before(m, c)' = <<m, C!End>>
  BY <1>1, <1>3, <1>7 DEF ActorsInv, EndOf, Before
<1>9. bpc # "info" /\ bpc' # "info" /\ bpc' # "done"
  BY <1>2, <1>3
<1>10. /\ box[c] = EndOf(c) => box'[c] = EndOf(c)'
       /\ \A m : box[c] = Before(m, c) => box'[c] = Before(m, c)'
  <2>1. Append(<<>>, C!End) = <<C!End>> /\ \A m : Append(<<m>>, C!End) = <<m, C!End>>
    BY Tuples
  <2>2. box[c] = EndOf(c) => box'[c] = EndOf(c)'
    BY <1>6, <1>8, <2>1
  <2>3. ASSUME NEW m, box[c] = Before(m, c) PROVE box'[c] = Before(m, c)'
    BY <1>6, <1>8, <2>1, <2>3
  <2> QED
    BY <2>2, <2>3
<1>11. BoxOf(c)' /\ (Waits(c) => Waits(c)')
  <2>1. cpc'[c] = cpc[c] /\ Told(c) /\ Told(c)'
    BY <1>2, <1>3, <1>5
  <2>2. cpc[c] # "none"
    BY <1>8, <2>1 DEF BoxOf
  <2>3. cpc[c] = "info" => box'[c] = Before(C!Info, c)'
    BY <1>8, <1>10, <2>1 DEF BoxOf
  <2>4. cpc[c] = "ask" => box'[c] = EndOf(c)'
    BY <1>8, <1>10, <2>1 DEF BoxOf
  <2>5. cpc[c] = "mate" => \/ box'[c] = EndOf(c)'
                           \/ \E m \in MateT : m.who # c /\ box'[c] = Before(m, c)'
    BY <1>8, <1>10, <2>1 DEF BoxOf
  <2>6. cpc[c] \notin {"final", "end"}
    BY <1>7, <1>8 DEF BoxOf
  <2>7. BoxOf(c)'
    BY <1>4, <1>9, <2>1, <2>2, <2>3, <2>4, <2>5, <2>6 DEF BoxOf
  <2> QED
    BY <1>10, <2>1, <2>7 DEF Waits
<1>12. \A d \in C!Creatures : BoxOf(d)' /\ (Waits(d) => Waits(d)')
  <2>1. ASSUME NEW d \in C!Creatures \ {c} PROVE BoxOf(d)' /\ (Waits(d)' <=> Waits(d))
    <3>1. /\ Told(d)' <=> Told(d)
          /\ Ended(d)' <=> Ended(d)
      BY <1>5
    <3>2. BoxOf(d)
      BY <1>1 DEF ActorsInv
    <3> QED
      BY <1>2, <1>4, <1>6, <1>9, <3>1, <3>2, BoxStays
  <2> QED
    BY <1>11, <2>1
<1>13. Requests'
  <2>1. ASSUME NEW n \in 1..Len(bbox) PROVE Sent(bbox[n])'
    <3>1. bbox[n].who \in C!Creatures /\ Sent(bbox[n])
      BY <1>1, MessageIs, ElementOfSeq DEF ChamTypes, ActorsInv, Requests
    <3> QED
      BY <1>2, <1>12, <3>1 DEF Sent
  <2> QED
    BY <1>1, <1>2, <2>1 DEF ActorsInv, Requests
<1>14. Counts'
  <2>1. Counted' = Counted /\ Met(Counted)' = Met(Counted)
    BY <1>2, <1>4 DEF Counted, Met
  <2> QED
    BY <1>1, <1>2, <1>4, <2>1 DEF ActorsInv, Counts
<1>15. Len(asked) = 0
  BY <1>1, <1>2 DEF Stages
<1>16. Asking'
  BY <1>2, <1>15 DEF Asking
<1>17. Stages'
  BY <1>2, <1>3, <1>4, <1>15 DEF Stages
<1>18. Sums'
  <2>1. c \in Mated' <=> c \in Mated
    <3>1. CASE box[c] = EndOf(c)
      <4>1. box[c] = <<>> /\ Head(box'[c]) = C!End
        BY <1>6, <1>8, <1>10, <3>1, Tuples
      <4> QED
        BY <4>1, Kinds DEF Mated
    <3>2. ASSUME NEW m, box[c] = Before(m, c)
          PROVE  c \in Mated' <=> c \in Mated
      <4>1. /\ box[c] # <<>> /\ Head(box[c]) = m
            /\ box'[c] # <<>> /\ Head(box'[c]) = m
        BY <1>8, <1>10, <3>2, Tuples
      <4> QED
        BY <1>4, <4>1 DEF Mated
    <3>3. box[c] = EndOf(c) \/ \E m : box[c] = Before(m, c)
      <4>1. cpc[c] \in {"none", "info", "ask", "mate", "final", "end"} /\ Told(c)
        BY <1>1, <1>3, <1>5 DEF ChamTypes
      <4> QED
        BY <1>7, <1>8, <4>1 DEF BoxOf
    <3> QED
      BY <3>1, <3>2, <3>3
  <2>2. Mated' = Mated
    BY <1>1, <1>2, <1>3, <1>6, <2>1, MatedChange DEF ChamTypes
  <2>3. Met(C!Creatures)' = Met(C!Creatures) /\ Expected' = Expected
    BY <1>2, <1>3, <1>4 DEF Met, Expected
  <2> QED
    BY <1>1, <2>2, <2>3 DEF Sums
<1>19. ChamTypes'
  <2>1. i' \in Nat
    BY <1>2, <1>3
  <2>2. bpc' \in {"fork", "info", "first", "second", "reply1", "reply2",
                  "finalize", "wait", "done"}
    BY <1>3
  <2> QED
    BY <1>1, <1>2, <1>6, <2>1, <2>2, SameCrowd DEF ChamTypes
<1> QED
  BY <1>2, <1>4, <1>9, <1>12, <1>13, <1>14, <1>16, <1>17, <1>18, <1>19 DEF ChamInv, ActorsInv

\* The broker takes a final count, or drops a request.
LEMMA WaitsKeeps ==
    ASSUME ChamInv, style = "actors", C!BrokerWaits PROVE ChamInv'
<1>1. ActorsInv /\ ChamTypes /\ Stages /\ Sums
  BY DEF ChamInv
<1>2. /\ bpc = "wait" /\ remaining > 0 /\ bbox # <<>> /\ bbox' = Tail(bbox)
      /\ UNCHANGED <<style, crowd, col, met, self_met, cpc, box, bpc, i, asked>>
  BY DEF C!BrokerWaits, C!creatureVars
<1>3. /\ bbox' \in Seq(C!Message) /\ Len(bbox') <= MailboxSize
      /\ Len(bbox) \in Nat /\ Len(bbox') = Len(bbox) - 1 /\ 1 \in 1..Len(bbox)
      /\ \A n \in 1..Len(bbox') : n + 1 \in 1..Len(bbox) /\ bbox'[n] = bbox[n + 1]
      /\ \A n \in 1..Len(bbox) : n # 1 => \E k \in 1..Len(bbox') : n = k + 1
      /\ Head(bbox) = bbox[1] /\ bbox[1] \in C!Message
  BY <1>1, <1>2, BrokerTake
<1>4. PICK h \in C!Message : h = bbox[1]
  BY <1>3
<1>5. PICK c \in C!Creatures : c = h.who
  BY <1>4, MessageIs
<1>6. C!Creatures' = C!Creatures /\ C!N' = C!N /\ MateT' = MateT /\ C!Message' = C!Message
  BY <1>2, SameCrowd
<1>7. \A d \in C!Creatures : BoxOf(d)'
  BY <1>1, <1>2, BoxKeeps DEF ActorsInv
<1>8. \A d : Waits(d)' <=> Waits(d)
  BY <1>2, SamePhase DEF Waits
<1>9. \A n \in 1..Len(bbox') : Sent(bbox[n])'
  <2>1. ASSUME NEW n \in 1..Len(bbox') PROVE Sent(bbox[n])'
    <3>1. n + 1 \in 1..Len(bbox) /\ bbox'[n] = bbox[n + 1]
      BY <1>3
    <3>2. Sent(bbox[n + 1])
      BY <1>1, <3>1 DEF ActorsInv, Requests
    <3> QED
      BY <1>2, <1>8, <3>1, <3>2 DEF Sent
  <2> QED
    BY <2>1
<1>10. Requests'
  <2>1. ASSUME NEW k \in 1..Len(bbox'), NEW n \in 1..Len(bbox'),
               k < n, bbox'[k].who = bbox'[n].who
        PROVE  ~bbox'[k].finish /\ bbox'[n].finish
    <3>1. /\ k + 1 \in 1..Len(bbox) /\ bbox'[k] = bbox[k + 1]
          /\ n + 1 \in 1..Len(bbox) /\ bbox'[n] = bbox[n + 1]
      BY <1>3
    <3>2. k + 1 < n + 1
      BY <2>1
    <3> QED
      BY <1>1, <2>1, <3>1, <3>2 DEF ActorsInv, Requests
  <2> QED
    BY <1>9, <2>1 DEF Requests
<1>11. Len(asked) = 0
  BY <1>1, <1>2 DEF Stages
<1>12. Asking'
  BY <1>2, <1>11 DEF Asking
<1>13. Stages' /\ Sums'
  <2>1. Mated' = Mated
    BY <1>2, <1>6 DEF Mated
  <2> QED
    BY <1>1, <1>2, <2>1, StagesKeep, SumsKeep
\* Nothing of the others is taken.
<1>14. \A d \in C!Creatures \ {c} : d \in Counted' <=> d \in Counted
  <2>1. ASSUME NEW d \in C!Creatures \ {c}, d \in Counted PROVE d \in Counted'
    <3>1. \A n \in 1..Len(bbox) : bbox[n].who # d
      BY <2>1 DEF Counted
    <3> QED
      BY <1>2, <1>3, <1>6, <2>1, <3>1 DEF Counted
  <2>2. ASSUME NEW d \in C!Creatures \ {c}, d \in Counted' PROVE d \in Counted
    <3>1. \A n \in 1..Len(bbox') : bbox'[n].who # d
      BY <2>2 DEF Counted
    <3>2. ASSUME NEW n \in 1..Len(bbox) PROVE bbox[n].who # d
      <4>1. CASE n = 1
        BY <1>4, <1>5, <4>1
      <4>2. CASE n # 1
        <5>1. PICK k \in 1..Len(bbox') : n = k + 1
          BY <1>3, <4>2
        <5> QED
          BY <1>3, <3>1, <5>1
      <4> QED
        BY <4>1, <4>2
    <3> QED
      BY <1>2, <2>2, <3>2 DEF Counted
  <2> QED
    BY <2>1, <2>2
<1>15. Counted \subseteq C!Creatures /\ Counted' \subseteq C!Creatures /\ c \notin Counted
  BY <1>3, <1>4, <1>5, <1>6 DEF Counted
<1>16. /\ IsFiniteSet(Counted) /\ Cardinality(Counted) \in Nat
       /\ IsFiniteSet(Met(Counted)) /\ Cardinality(Met(Counted)) \in Nat
  <2>1. IsFiniteSet(C!Creatures)
    BY <1>1, MatedFinite DEF ChamTypes
  <2>2. Met(Counted) \subseteq Met(C!Creatures) /\ IsFiniteSet(Met(C!Creatures))
    BY <1>1, <1>15 DEF Met, Sums
  <2> QED
    BY <1>15, <2>1, <2>2, FS_Subset, FS_CardinalityType
<1>17. remaining \in Nat /\ remaining <= C!N /\ C!N \in Nat /\ total_meetings \in Nat
  BY <1>1, CrowdIs DEF ChamTypes
<1>18. /\ remaining + Cardinality(Counted) = C!N
       /\ total_meetings = Cardinality(Met(Counted))
       /\ \A n \in 1..Len(bbox) : cpc[bbox[n].who] = "end" =>
             \E k \in 1..Len(bbox) : bbox[k].who = bbox[n].who /\ bbox[k].finish
  BY <1>1 DEF ActorsInv, Counts
\* A final count that is not the one taken is still there.
<1>19. ASSUME NEW n \in 1..Len(bbox'), cpc'[bbox'[n].who] = "end",
              ~h.finish \/ bbox'[n].who # c
       PROVE  \E k \in 1..Len(bbox') : bbox'[k].who = bbox'[n].who /\ bbox'[k].finish
  <2>1. n + 1 \in 1..Len(bbox) /\ bbox'[n] = bbox[n + 1] /\ cpc[bbox[n + 1].who] = "end"
    BY <1>2, <1>3, <1>19
  <2>2. PICK k \in 1..Len(bbox) : bbox[k].who = bbox[n + 1].who /\ bbox[k].finish
    BY <1>18, <2>1
  <2>3. k # 1
    BY <1>4, <1>5, <1>19, <2>1, <2>2
  <2>4. PICK j \in 1..Len(bbox') : k = j + 1
    BY <1>3, <2>3
  <2> QED
    BY <1>3, <2>1, <2>2, <2>4
<1>20. CASE h.finish
  <2>1. remaining' = remaining - 1 /\ total_meetings' = total_meetings + h.count
    BY <1>3, <1>4, <1>20 DEF C!BrokerWaits
  <2>2. cpc[c] = "end" /\ h.count = met[c]
    BY <1>1, <1>3, <1>4, <1>5, <1>20 DEF ActorsInv, Requests, Sent
  <2>3. \A n \in 1..Len(bbox') : bbox'[n].who # c
    <3>1. ASSUME NEW n \in 1..Len(bbox') PROVE bbox'[n].who # c
      <4>1. n + 1 \in 1..Len(bbox) /\ bbox'[n] = bbox[n + 1] /\ 1 < n + 1
        BY <1>3
      <4>2. bbox[1].who # bbox[n + 1].who
        BY <1>1, <1>3, <1>4, <1>20, <4>1 DEF ActorsInv, Requests
      <4> QED
        BY <1>4, <1>5, <4>1, <4>2
    <3> QED
      BY <3>1
  <2>4. c \in Counted'
    BY <1>2, <1>6, <2>2, <2>3 DEF Counted
  <2>5. Counted' = Counted \cup {c}
    BY <1>14, <1>15, <2>4
  <2>6. Cardinality(Counted') = Cardinality(Counted) + 1
    BY <1>15, <1>16, <2>5, FS_AddElement
  <2>7. Cardinality(Met(Counted \cup {c})) = Cardinality(Met(Counted)) + met[c]
    BY <1>1, <1>15, <1>16, MetAlso DEF ChamTypes
  <2>8. Met(Counted)' = Met(Counted \cup {c})
    BY <1>2, <2>5 DEF Met
  <2>9. Counts'
    <3>1. remaining' + Cardinality(Counted') = C!N'
      BY <1>6, <1>16, <1>17, <1>18, <2>1, <2>6
    <3>2. total_meetings' = Cardinality(Met(Counted)')
      BY <1>18, <2>1, <2>2, <2>7, <2>8
    <3>3. \A n \in 1..Len(bbox') : cpc'[bbox'[n].who] = "end" =>
             \E k \in 1..Len(bbox') : bbox'[k].who = bbox'[n].who /\ bbox'[k].finish
      BY <1>19, <2>3
    <3> QED
      BY <3>1, <3>2, <3>3 DEF Counts
  <2>10. ChamTypes'
    <3>1. remaining' \in 0..C!N
      BY <1>2, <1>17, <2>1
    <3>2. met[c] \in Nat
      BY <1>1 DEF ChamTypes
    <3>3. total_meetings' \in Nat
      BY <1>17, <2>1, <2>2, <3>2
    <3> QED
      BY <1>1, <1>2, <1>3, <3>1, <3>3, SameCrowd DEF ChamTypes
  <2> QED
    BY <1>2, <1>6, <1>7, <1>10, <1>12, <1>13, <2>9, <2>10 DEF ChamInv, ActorsInv
<1>21. CASE ~h.finish
  <2>1. remaining' = remaining /\ total_meetings' = total_meetings
    BY <1>3, <1>4, <1>21 DEF C!BrokerWaits
  <2>2. c \notin Counted'
    <3>1. CASE cpc[c] = "end"
      <4>1. PICK k \in 1..Len(bbox) : bbox[k].who = bbox[1].who /\ bbox[k].finish
        BY <1>3, <1>4, <1>5, <1>18, <3>1
      <4>2. k # 1
        BY <1>4, <1>21, <4>1
      <4>3. PICK j \in 1..Len(bbox') : k = j + 1
        BY <1>3, <4>2
      <4>4. bbox'[j].who = c
        BY <1>3, <1>4, <1>5, <4>1, <4>3
      <4> QED
        BY <4>4 DEF Counted
    <3>2. CASE cpc[c] # "end"
      BY <1>2, <3>2 DEF Counted
    <3> QED
      BY <3>1, <3>2
  <2>3. Counted' = Counted
    BY <1>14, <1>15, <2>2
  <2>4. Met(Counted)' = Met(Counted)
    BY <1>2, <2>3 DEF Met
  <2>5. Counts'
    BY <1>6, <1>18, <1>19, <1>21, <2>1, <2>3, <2>4 DEF Counts
  <2>6. ChamTypes'
    BY <1>1, <1>2, <1>3, <2>1, SameCrowd DEF ChamTypes
  <2> QED
    BY <1>2, <1>6, <1>7, <1>10, <1>12, <1>13, <2>5, <2>6 DEF ChamInv, ActorsInv
<1> QED
  <2>1. h.finish \in BOOLEAN
    BY MessageIs, Zenon
  <2> QED
    BY <1>20, <1>21, <2>1, Zenon

\* Neighbours have different remainders.
LEMMA NextApart ==
    ASSUME NEW n \in Nat, n >= 2, NEW x \in Nat
    PROVE  /\ x % n \in 0..(n - 1) /\ (x + 1) % n \in 0..(n - 1)
           /\ x % n # (x + 1) % n
<1> DEFINE p == x \div n
           q == (x + 1) \div n
<1>1. /\ p \in Int /\ q \in Int /\ x = n * p + (x % n) /\ x + 1 = n * q + ((x + 1) % n)
      /\ x % n \in 0..(n - 1) /\ (x + 1) % n \in 0..(n - 1)
  OBVIOUS
<1> HIDE DEF p, q
<1>2. ASSUME x % n = (x + 1) % n PROVE FALSE
  <2>1. 1 = n * (q - p) /\ q - p \in Int
    BY <1>1, <1>2
  <2>2. CASE q - p <= 0
    BY <2>1, <2>2
  <2>3. CASE q - p >= 1
    BY <2>1, <2>3
  <2> QED
    BY <2>1, <2>2, <2>3
<1> QED
  BY <1>1, <1>2

LEMMA PairIs ==
    ASSUME crowd \in Crowds, i \in Nat
    PROVE  /\ C!Next2(1) \in C!Creatures /\ C!Next2(2) \in C!Creatures
           /\ C!Next2(1) # C!Next2(2)
<1>1. C!N \in Nat /\ C!N >= 2 /\ C!Creatures = 1..C!N
  BY CrowdIs
<1>2. PICK n \in Nat : n = C!N
  BY <1>1
<1>3. PICK x \in Nat : x = 2 * i
  OBVIOUS
<1>4. C!Next2(1) = (x % n) + 1 /\ C!Next2(2) = ((x + 1) % n) + 1
  <2>1. 2 * i + 1 - 1 = x /\ 2 * i + 2 - 1 = x + 1
    BY <1>3
  <2> QED
    BY <1>2, <2>1 DEF C!Next2
<1>5. /\ x % n \in 0..(n - 1) /\ (x + 1) % n \in 0..(n - 1)
      /\ x % n # (x + 1) % n
  BY <1>1, <1>2, NextApart
<1>6. PICK a \in 0..(n - 1), b \in 0..(n - 1) : a = x % n /\ b = (x + 1) % n
  BY <1>5
<1>7. a # b /\ C!Next2(1) = a + 1 /\ C!Next2(2) = b + 1
  BY <1>4, <1>5, <1>6
<1>8. a + 1 \in 1..n /\ b + 1 \in 1..n /\ a + 1 # b + 1
  BY <1>2, <1>6, <1>7
<1> QED
  BY <1>1, <1>2, <1>7, <1>8

LEMMA NoneIs ==
    /\ \A k \in Nat : 1..(k - k) = {}
    /\ Met({}) = {} /\ Cardinality({}) = 0 /\ IsFiniteSet({})
<1>1. \A k \in Nat : k - k = 0
  OBVIOUS
<1>2. 1..0 = {}
  OBVIOUS
<1> QED
  BY <1>1, <1>2, FS_EmptySet DEF Met

\* In the direct style nobody has mail.
LEMMA NoMail ==
    ASSUME DirectInv, NEW c \in C!Creatures PROVE box[c] = <<>> /\ Mated = {}
  BY DEF DirectInv, Mated

LEMMA DirectStartsKeeps ==
    ASSUME ChamInv, style = "direct", C!DirectStarts PROVE ChamInv'
<1>1. DirectInv /\ ChamTypes /\ Stages /\ Sums
  BY DEF ChamInv
<1>2. /\ bpc = "fork" /\ cpc' = [c \in C!Creatures |-> "ask"]
      /\ bpc' = IF Meetings > 0 THEN "first" ELSE "finalize"
      /\ UNCHANGED <<style, crowd, col, met, self_met, remaining, total_meetings,
                     box, i, asked, bbox>>
  BY DEF C!DirectStarts, C!Keeping
<1>3. C!N \in Nat /\ C!N >= 2 /\ Meetings \in Nat /\ C!N' = C!N /\ C!Creatures' = C!Creatures
  BY <1>1, <1>2, CrowdIs, SameCrowd DEF ChamTypes
<1>4. i = 0 /\ remaining = C!N
  BY <1>1, <1>2 DEF DirectInv
<1>5. /\ \/ Meetings > 0 /\ bpc' = "first"
         \/ Meetings = 0 /\ bpc' = "finalize"
  BY <1>2, <1>3
<1>6. Len(asked) = 0
  BY <1>1, <1>2 DEF Stages
<1>7. Stages'
  BY <1>2, <1>3, <1>4, <1>5, <1>6 DEF Stages
<1>8. Sums'
  <2>1. Mated' = Mated /\ Met(C!Creatures)' = Met(C!Creatures)
    BY <1>2, <1>3 DEF Mated, Met
  <2>2. Expected = 0 /\ Expected' = 0
    <3>1. Expected = 0
      BY <1>2 DEF Expected
    <3>2. Expected' = 0
      BY <1>2, <1>4, <1>5 DEF Expected
    <3> QED
      BY <3>1, <3>2
  <2> QED
    BY <1>1, <2>1, <2>2 DEF Sums
<1>9. ChamTypes'
  <2>1. cpc' \in [C!Creatures -> {"none", "info", "ask", "mate", "final", "end"}]
    BY <1>2
  <2>2. bpc' \in {"first", "finalize"}
    BY <1>5
  <2> QED
    BY <1>1, <1>2, <2>1, <2>2, SameCrowd DEF ChamTypes
<1>10. DirectInv'
  <2>1. remaining' = C!N - i'
    BY <1>2, <1>3, <1>4
  <2>2. total_meetings' = Cardinality(Met(1..(C!N - remaining)))'
    BY <1>1, <1>2, <1>3 DEF DirectInv, Met
  <2>3. box' = [c \in C!Creatures |-> <<>>]' /\ bbox' = <<>>
    BY <1>1, <1>2, <1>3 DEF DirectInv
  <2> QED
    BY <1>2, <1>3, <1>4, <1>5, <2>1, <2>2, <2>3 DEF DirectInv
<1> QED
  BY <1>2, <1>7, <1>8, <1>9, <1>10 DEF ChamInv

LEMMA DirectReadsKeeps ==
    ASSUME ChamInv, style = "direct", C!DirectReads PROVE ChamInv'
<1>1. DirectInv /\ ChamTypes /\ Stages /\ Sums
  BY DEF ChamInv
<1> DEFINE a == C!Next2(1)
           b == C!Next2(2)
<1>2. /\ bpc = "first" /\ bpc' = "reply1"
      /\ asked' = <<C!MeetRequest(a), C!MeetRequest(b)>>
      /\ UNCHANGED <<style, crowd, col, met, self_met, remaining, total_meetings,
                     cpc, box, i, bbox>>
  BY DEF C!DirectReads, C!Keeping
<1>3. a \in C!Creatures /\ b \in C!Creatures /\ a # b /\ a' = a /\ b' = b
  <2>1. a' = a /\ b' = b
    BY <1>2, SameCrowd DEF C!Next2
  <2> QED
    BY <1>1, <2>1, PairIs DEF ChamTypes
<1>4. C!N' = C!N /\ C!Creatures' = C!Creatures /\ C!Message' = C!Message
  BY <1>2, SameCrowd
<1> HIDE DEF a, b
<1>5. \A c \in C!Creatures : /\ C!MeetRequest(c) \in C!Message
                             /\ C!MeetRequest(c).who = c /\ ~C!MeetRequest(c).finish
  <2>1. ASSUME NEW c \in C!Creatures
        PROVE  /\ C!MeetRequest(c) \in C!Message
               /\ C!MeetRequest(c).who = c /\ ~C!MeetRequest(c).finish
    <3>1. C!MeetRequest(c) = [finish |-> FALSE, who |-> c, col |-> col[c], count |-> 0]
      BY DEF C!MeetRequest
    <3>2. C!MeetRequest(c) \in [finish : {FALSE}, who : C!Creatures, col : 0..2, count : {0}]
      BY <1>1, <3>1 DEF ChamTypes
    <3> QED
      BY <3>1, <3>2 DEF C!Message
  <2> QED
    BY <2>1
<1>6. PICK r \in C!Message, s \in C!Message :
         /\ r = C!MeetRequest(a) /\ s = C!MeetRequest(b)
         /\ r.who = a /\ s.who = b /\ ~r.finish /\ ~s.finish
  BY <1>3, <1>5
<1>7. asked' = <<r, s>> /\ asked' \in Seq(C!Message) /\ Len(asked') = 2
      /\ asked'[1] = r /\ asked'[2] = s
  BY <1>2, <1>6
<1>8. Stages'
  <2>1. i < Meetings
    BY <1>1, <1>2 DEF Stages
  <2>2. \A n \in 1..2 : n = 1 \/ n = 2
    OBVIOUS
  <2> QED
    BY <1>2, <1>3, <1>6, <1>7, <2>1, <2>2 DEF Stages
<1>9. Sums'
  <2>1. Mated' = Mated /\ Met(C!Creatures)' = Met(C!Creatures)
    BY <1>2, <1>4 DEF Mated, Met
  <2>2. Expected' = Expected
    BY <1>2 DEF Expected
  <2> QED
    BY <1>1, <2>1, <2>2 DEF Sums
<1>10. ChamTypes'
  BY <1>1, <1>2, <1>7, SameCrowd DEF ChamTypes
<1>11. DirectInv'
  <2>1. total_meetings' = Cardinality(Met(1..(C!N - remaining)))' /\ remaining = C!N
    BY <1>1, <1>2, <1>4 DEF DirectInv, Met
  <2>2. box' = [c \in C!Creatures |-> <<>>]' /\ bbox' = <<>>
    BY <1>1, <1>2, <1>4 DEF DirectInv
  <2>3. asked'[1].who = C!Next2(1)' /\ asked'[2].who = C!Next2(2)'
    BY <1>3, <1>6, <1>7 DEF a, b
  <2> QED
    BY <1>2, <1>4, <2>1, <2>2, <2>3 DEF DirectInv
<1> QED
  BY <1>2, <1>8, <1>9, <1>10, <1>11 DEF ChamInv

\* Main resumes one of the two that meet.
LEMMA DirectMeets ==
    ASSUME ChamInv, style = "direct", InMeeting, bpc # "first", NEW c \in C!Creatures,
           NEW m \in MateT, m.who # c, C!Body(c, FALSE, m),
           UNCHANGED <<style, crowd, box, bbox, remaining, total_meetings>>,
           i' \in Nat, bpc' \in {"first", "reply2", "finalize"}, asked' \in Seq(C!Message),
           bpc' = "reply2" => asked' = asked /\ i' = i,
           bpc' = "finalize" => i' = 0, Stages', Expected' = Expected + 1, Expected \in Nat
    PROVE  ChamInv'
<1>1. DirectInv /\ ChamTypes /\ Stages /\ Sums
  BY DEF ChamInv
<1>2. cpc' = [cpc EXCEPT ![c] = "ask"] /\ C!Meets(c, m)
  BY DEF C!Body, C!CGoto
<1>3. /\ col' \in [C!Creatures -> 0..2]
      /\ met' \in [C!Creatures -> Nat] /\ met' = [met EXCEPT ![c] = @ + 1]
      /\ self_met' \in [C!Creatures -> {0}]
  <2>1. m.col \in 0..2
    BY DEF MateT
  <2> QED
    BY <1>1, <1>2, <2>1, MeetsTypes
<1>4. C!N' = C!N /\ C!Creatures' = C!Creatures /\ C!Message' = C!Message /\ C!N \in Nat
  BY <1>1, SameCrowd, CrowdIs DEF ChamTypes
<1>5. Sums'
  <2>1. Mated = {} /\ Mated' = {}
    BY <1>1, <1>4, NoMail DEF Mated
  <2>2. /\ IsFiniteSet(Met(C!Creatures)')
        /\ Cardinality(Met(C!Creatures)') = Cardinality(Met(C!Creatures)) + 1
    <3> DEFINE S == C!Creatures
               after == {p \in S \X Nat : 1 <= p[2] /\ p[2] <= met'[p[1]]}
    <3>1. IsFiniteSet(after) /\ Cardinality(after) = Cardinality(Met(S)) + 1
      BY <1>1, <1>3, MetMore DEF ChamTypes, Sums, Met
    <3>2. Met(C!Creatures)' = after
      BY <1>4 DEF Met
    <3> QED
      BY <3>1, <3>2
  <2>3. Cardinality(Mated) = 0 /\ Cardinality(Mated') = 0
    BY <2>1, NoneIs
  <2>4. PICK x \in Nat : x = Cardinality(Met(C!Creatures))
    BY <1>1, FS_CardinalityType DEF Sums
  <2>5. PICK e \in Nat : e = Expected
    OBVIOUS
  <2>6. Expected' = e + 1
    BY <2>5
  <2>7. x + 0 = e
    BY <1>1, <2>3, <2>4, <2>5 DEF Sums
  <2>8. (x + 1) + 0 = e + 1
    BY ONLY x \in Nat, e \in Nat, <2>7
  <2> QED
    BY <2>2, <2>3, <2>4, <2>6, <2>8 DEF Sums
<1>6. ChamTypes'
  <2>1. cpc' \in [C!Creatures -> {"none", "info", "ask", "mate", "final", "end"}]
    BY <1>1, <1>2 DEF ChamTypes
  <2> QED
    BY <1>1, <1>3, <2>1, SameCrowd DEF ChamTypes
<1>7. DirectInv'
  <2>1. remaining = C!N
    BY <1>1 DEF DirectInv, InMeeting
  <2>2. total_meetings' = Cardinality(Met(1..(C!N - remaining)))'
    <3>1. 1..(C!N - remaining) = {} /\ 1..(C!N' - remaining') = {}
      BY <1>4, <2>1, NoneIs
    <3>2. Met({})' = {} /\ Met({}) = {}
      BY DEF Met
    <3>3. Met(1..(C!N - remaining))' = {}
      BY <3>1 DEF Met
    <3> QED
      BY <1>1, <3>1, <3>2, <3>3 DEF DirectInv
  <2>3. box' = [d \in C!Creatures |-> <<>>]' /\ bbox' = <<>>
    BY <1>1, <1>4 DEF DirectInv
  <2>4. bpc' = "reply2" => asked'[1].who = C!Next2(1)' /\ asked'[2].who = C!Next2(2)'
    <3>1. ASSUME bpc' = "reply2" PROVE asked'[1].who = C!Next2(1)' /\ asked'[2].who = C!Next2(2)'
      <4>1. asked' = asked /\ C!Next2(1)' = C!Next2(1) /\ C!Next2(2)' = C!Next2(2)
        BY <1>4, <3>1 DEF C!Next2
      <4>2. bpc \in {"second", "reply1", "reply2"} /\ bpc # "second"
        BY <1>1 DEF InMeeting, DirectInv
      <4> QED
        BY <1>1, <4>1, <4>2 DEF DirectInv
    <3> QED
      BY <3>1
  <2>5. bpc' = "finalize" => remaining' = C!N' - i'
    BY <1>4, <2>1
  <2> QED
    BY <1>4, <2>1, <2>2, <2>3, <2>4, <2>5 DEF DirectInv
<1> QED
  BY <1>5, <1>6, <1>7 DEF ChamInv

LEMMA DirectResumesKeeps ==
    ASSUME ChamInv, style = "direct", C!DirectResumes PROVE ChamInv'
<1>1. DirectInv /\ ChamTypes /\ Stages /\ Sums
  BY DEF ChamInv
<1>2. UNCHANGED <<style, crowd, box, bbox, remaining, total_meetings>>
  BY DEF C!DirectResumes
<1>3. bpc \in {"reply1", "reply2"}
  BY DEF C!DirectResumes
<1>4. /\ InMeeting /\ bpc # "first" /\ Len(asked) = 2 /\ i < Meetings /\ i \in Nat
      /\ Meetings \in Nat
  BY <1>1, <1>3, CrowdIs DEF Stages, InMeeting, ChamTypes
<1>5. /\ asked[1] \in C!Message /\ asked[2] \in C!Message
      /\ asked[1].who # asked[2].who
      /\ C!Next2(1) = asked[1].who /\ C!Next2(2) = asked[2].who
  <2>1. 1 \in 1..Len(asked) /\ 2 \in 1..Len(asked)
    BY <1>4
  <2> QED
    BY <1>1, <1>3, <1>4, <2>1, ElementOfSeq DEF Stages, ChamTypes, DirectInv
<1>6. asked[1].who \in C!Creatures /\ asked[2].who \in C!Creatures
  BY <1>5, MessageIs
<1>7. /\ C!Reply(1) \in MateT /\ C!Reply(1).who = asked[2].who
      /\ C!Reply(2) \in MateT /\ C!Reply(2).who = asked[1].who
  <2>1. C!Reply(1) = [kind |-> "mate", who |-> asked[2].who, col |-> asked[2].col]
    BY DEF C!Reply, C!Mate
  <2>2. C!Reply(2) = [kind |-> "mate", who |-> asked[1].who, col |-> asked[1].col]
    BY DEF C!Reply, C!Mate
  <2>3. /\ asked[1].who \in C!Creatures /\ asked[1].col \in 0..2
        /\ asked[2].who \in C!Creatures /\ asked[2].col \in 0..2
    BY <1>5, MessageIs
  <2> QED
    BY <2>1, <2>2, <2>3 DEF MateT
<1>8. C!N' = C!N /\ C!N \in Nat /\ C!N >= 2
  BY <1>1, <1>2, CrowdIs, SameCrowd DEF ChamTypes
<1>9. CASE bpc = "reply1"
  <2>1. /\ C!Body(asked[1].who, FALSE, C!Reply(1)) /\ bpc' = "reply2" /\ i' = i /\ asked' = asked
    BY <1>5, <1>9 DEF C!DirectResumes
  <2>2. Expected' = Expected + 1 /\ Expected \in Nat
    <3>1. Expected = 2 * i /\ Expected' = 2 * i + 1
      BY <1>9, <2>1 DEF Expected
    <3> QED
      BY <1>4, <3>1
  <2>3. Stages'
    BY <1>1, <1>4, <1>9, <2>1 DEF Stages
  <2>4. asked' \in Seq(C!Message)
    BY <1>1, <2>1 DEF ChamTypes
  <2> QED
    BY <1>2, <1>4, <1>5, <1>6, <1>7, <1>9, <2>1, <2>2, <2>3, <2>4, DirectMeets
<1>10. CASE bpc = "reply2"
  <2>1. /\ C!Body(asked[2].who, FALSE, C!Reply(2))
        /\ bpc' = (IF C!MeetingsLeft THEN "first" ELSE "finalize")
        /\ i' = (IF C!MeetingsLeft THEN i + 1 ELSE 0)
        /\ asked' = <<>>
    BY <1>5, <1>10 DEF C!DirectResumes
  <2>2. \/ C!MeetingsLeft /\ i + 1 < Meetings /\ bpc' = "first" /\ i' = i + 1
        \/ ~C!MeetingsLeft /\ i + 1 = Meetings /\ bpc' = "finalize" /\ i' = 0
    BY <1>4, <2>1 DEF C!MeetingsLeft
  <2>3. Expected' = Expected + 1 /\ Expected \in Nat
    <3>1. Expected = 2 * i + 1
      BY <1>10 DEF Expected
    <3>2. \/ i' = i + 1 /\ Expected' = 2 * i'
          \/ i + 1 = Meetings /\ Expected' = 2 * Meetings
      BY <2>2 DEF Expected
    <3> QED
      BY <1>4, <3>1, <3>2
  <2>4. Len(asked') = 0 /\ asked' \in Seq(C!Message)
    BY <2>1
  <2>5. Stages'
    BY <1>4, <1>8, <2>2, <2>4 DEF Stages
  <2>6. i' \in Nat /\ bpc' \in {"first", "reply2", "finalize"} /\ bpc' # "reply2"
        /\ (bpc' = "finalize" => i' = 0)
    BY <1>4, <2>2
  <2> QED
    BY <1>2, <1>4, <1>5, <1>6, <1>7, <2>1, <2>3, <2>4, <2>5, <2>6, DirectMeets
<1> QED
  BY <1>3, <1>9, <1>10

LEMMA DirectCollectsKeeps ==
    ASSUME ChamInv, style = "direct", C!DirectCollects PROVE ChamInv'
<1>1. DirectInv /\ ChamTypes /\ Stages /\ Sums
  BY DEF ChamInv
<1>c. PICK c : c = i + 1
  OBVIOUS
<1>2. /\ bpc = "finalize" /\ remaining > 0 /\ C!Body(c, TRUE, C!End) /\ i' = c
      /\ remaining' = remaining - 1 /\ total_meetings' = total_meetings + met[c]
      /\ bpc' = IF remaining = 1 THEN "done" ELSE "finalize"
      /\ UNCHANGED <<style, crowd, box, asked, bbox>>
  BY <1>c DEF C!DirectCollects
<1>3. cpc' = [cpc EXCEPT ![c] = "final"] /\ UNCHANGED <<col, met, self_met>>
  BY <1>2 DEF C!Body, C!CGoto
<1>4. /\ C!N \in Nat /\ C!Creatures = 1..C!N /\ i \in Nat /\ i < C!N
      /\ remaining = C!N - i /\ total_meetings \in Nat
      /\ C!N' = C!N /\ C!Creatures' = C!Creatures
  BY <1>1, <1>2, CrowdIs, SameCrowd DEF ChamTypes, Stages, DirectInv
<1>5. PICK k \in Nat : k = C!N
  BY <1>4
<1>6. /\ c \in 1..k /\ c \in Nat /\ c = i + 1 /\ i \in Nat
      /\ remaining' = k - c /\ k - remaining = i /\ k - remaining' = c
      /\ \/ bpc' = "done" /\ c = k
         \/ bpc' = "finalize" /\ c < k
  <2>1. remaining = k - i /\ i < k /\ i \in Nat
    BY <1>4, <1>5
  <2> QED
    BY <1>c, <1>2, <2>1
<1>7. c \notin 1..i /\ 1..c = (1..i) \cup {c} /\ 1..i \subseteq 1..k
  BY <1>6
<1>8. Stages'
  <2>1. Len(asked') = 0
    BY <1>1, <1>2 DEF Stages
  <2> QED
    BY <1>2, <1>4, <1>5, <1>6, <2>1 DEF Stages
<1>9. Sums'
  <2>1. Mated' = Mated /\ Met(C!Creatures)' = Met(C!Creatures)
    BY <1>2, <1>3, <1>4 DEF Mated, Met
  <2>2. Expected' = Expected
    BY <1>2, <1>6 DEF Expected
  <2> QED
    BY <1>1, <2>1, <2>2 DEF Sums
<1>10. met[c] \in Nat
  BY <1>1, <1>4, <1>5, <1>6 DEF ChamTypes
<1>11. ChamTypes'
  <2>1. cpc' \in [C!Creatures -> {"none", "info", "ask", "mate", "final", "end"}]
    BY <1>1, <1>3 DEF ChamTypes
  <2>2. remaining' \in 0..k /\ i' \in Nat /\ bpc' \in {"finalize", "done"}
    BY <1>2, <1>5, <1>6
  <2>3. total_meetings' \in Nat
    BY <1>2, <1>4, <1>10
  <2> QED
    BY <1>1, <1>2, <1>3, <1>5, <2>1, <2>2, <2>3, SameCrowd DEF ChamTypes
<1>12. DirectInv'
  <2>1. total_meetings = Cardinality(Met(1..i))
    BY <1>1, <1>5, <1>6 DEF DirectInv
  <2>2. IsFiniteSet(Met(1..i))
    <3>1. Met(1..i) \subseteq Met(C!Creatures) /\ IsFiniteSet(Met(C!Creatures))
      BY <1>1, <1>4, <1>5, <1>7 DEF Met, Sums
    <3> QED
      BY <3>1, FS_Subset
  <2>3. Cardinality(Met((1..i) \cup {c})) = Cardinality(Met(1..i)) + met[c]
    <3>1. PICK S : S = 1..i
      OBVIOUS
    <3>2. c \in C!Creatures /\ c \notin S /\ S \subseteq C!Creatures /\ IsFiniteSet(Met(S))
      BY <1>4, <1>5, <1>6, <1>7, <2>2, <3>1
    <3>3. Cardinality(Met(S \cup {c})) = Cardinality(Met(S)) + met[c]
      BY <1>1, <3>2, MetAlso DEF ChamTypes
    <3> QED
      BY <3>1, <3>3
  <2>4. Met(1..(C!N - remaining))' = Met((1..i) \cup {c})
    <3>1. 1..(C!N' - remaining') = (1..i) \cup {c}
      BY <1>4, <1>5, <1>6, <1>7
    <3> QED
      BY <1>3, <3>1 DEF Met
  <2>5. total_meetings' = Cardinality(Met(1..(C!N - remaining)))'
    BY <1>2, <2>1, <2>3, <2>4
  <2>6. box' = [d \in C!Creatures |-> <<>>]' /\ bbox' = <<>>
    BY <1>1, <1>2, <1>4 DEF DirectInv
  <2>7. remaining' = C!N' - i' /\ bpc' \in {"finalize", "done"}
    BY <1>2, <1>4, <1>5, <1>6
  <2> QED
    BY <2>5, <2>6, <2>7 DEF DirectInv
<1> QED
  BY <1>2, <1>8, <1>9, <1>11, <1>12 DEF ChamInv

LEMMA ChamInit == C!Init => ChamInv
<1> SUFFICES ASSUME C!Init PROVE ChamInv
  OBVIOUS
<1>1. /\ style \in {"actors", "direct"} /\ crowd \in Crowds
      /\ cpc = [c \in C!Creatures |-> "none"] /\ col = crowd
      /\ met = [c \in C!Creatures |-> 0] /\ self_met = [c \in C!Creatures |-> 0]
      /\ box = [c \in C!Creatures |-> <<>>]
      /\ bpc = "fork" /\ i = 0 /\ asked = <<>> /\ bbox = <<>>
      /\ remaining = C!N /\ total_meetings = 0
  BY DEF C!Init
<1>2. /\ C!N \in Nat /\ C!N >= 2 /\ C!Creatures = 1..C!N /\ MailboxSize \in Nat
      /\ crowd \in [C!Creatures -> 0..2]
  BY <1>1, CrowdIs
<1>3. Len(asked) = 0 /\ Len(bbox) = 0
  BY <1>1
<1>4. ChamTypes
  <2>1. <<>> \in Seq(BoxT) /\ <<>> \in Seq(C!Message) /\ Len(<<>>) = 0
    OBVIOUS
  <2> QED
    BY <1>1, <1>2, <2>1 DEF ChamTypes
<1>5. Stages
  BY <1>1, <1>2, <1>3 DEF Stages
<1>6. Mated = {} /\ Met(C!Creatures) = {} /\ Counted = {}
  BY <1>1 DEF Mated, Met, Counted
<1>7. IsFiniteSet({}) /\ Cardinality({}) = 0
  BY FS_EmptySet
<1>8. Sums
  <2>1. Expected = 0
    BY <1>1 DEF Expected
  <2> QED
    BY <1>6, <1>7, <2>1 DEF Sums
<1>9. Met({}) = {}
  BY DEF Met
<1>10. ActorsInv
  <2>1. ASSUME NEW c \in C!Creatures PROVE BoxOf(c)
    <3>1. cpc[c] = "none" /\ box[c] = <<>> /\ ~(c <= 0)
      BY <1>1, <1>2
    <3> QED
      BY <1>1, <3>1 DEF BoxOf, Told
  <2>2. Requests /\ Asking
    BY <1>3 DEF Requests, Asking
  <2>3. Counts
    <3>1. Cardinality(Counted) = 0 /\ Cardinality(Met(Counted)) = 0
      BY <1>6, <1>7, <1>9
    <3>2. remaining + 0 = C!N
      BY <1>1, <1>2
    <3>3. \A n \in 1..Len(bbox) : FALSE
      BY <1>3
    <3> QED
      BY <1>1, <3>1, <3>2, <3>3 DEF Counts
  <2> QED
    BY <1>1, <2>1, <2>2, <2>3 DEF ActorsInv
<1>11. DirectInv
  <2>1. 1..(C!N - remaining) = {}
    BY <1>1, <1>2, NoneIs
  <2> QED
    BY <1>1, <1>7, <1>9, <2>1 DEF DirectInv
<1> QED
  BY <1>4, <1>5, <1>8, <1>10, <1>11 DEF ChamInv

LEMMA ActorsNext ==
    ASSUME ChamInv, style = "actors", C!Next PROVE ChamInv'
<1>1. CASE C!Broker
  <2>1. ~C!DirectStarts /\ ~C!DirectReads /\ ~C!DirectResumes /\ ~C!DirectCollects
    BY DEF C!DirectStarts, C!DirectReads, C!DirectResumes, C!DirectCollects
  <2>2. \/ C!BrokerForks \/ C!BrokerInforms \/ C!BrokerStarts \/ C!BrokerRecv
        \/ C!BrokerReplies \/ C!BrokerFinalizes \/ C!BrokerWaits \/ C!BrokerReturns
    BY <1>1, <2>1, Zenon DEF C!Broker
  <2> QED
    BY <2>2, ForksKeeps, InformsKeeps, BeginsKeeps, RecvKeeps, RepliesKeep,
       FinalizesKeeps, WaitsKeeps, ReturnsKeeps, Zenon
<1>2. ASSUME NEW c \in C!Creatures, C!Creature(c) PROVE ChamInv'
  <2>1. CASE C!CreatureMates(c)
    <3>1. BoxOf(c) /\ cpc[c] = "mate"
      BY <2>1 DEF ChamInv, ActorsInv, C!CreatureMates
    <3>2. /\ Told(c)
          /\ \/ box[c] = EndOf(c)
             \/ \E m \in MateT : m.who # c /\ box[c] = Before(m, c)
      BY <3>1 DEF BoxOf
    <3> QED
      BY <2>1, <3>2, EndKeeps, MateKeeps
  <2>2. CASE C!CreatureStarts(c) \/ C!CreatureAsks(c) \/ C!CreatureFinishes(c)
    BY <2>2, StartsKeeps, AsksKeeps, FinishesKeeps, Zenon
  <2> QED
    BY <1>2, <2>1, <2>2, Zenon DEF C!Creature
<1> QED
  BY <1>1, <1>2, Zenon DEF C!Next

LEMMA DirectNext ==
    ASSUME ChamInv, style = "direct", C!Next PROVE ChamInv'
<1>1. DirectInv
  BY DEF ChamInv
<1>2. CASE C!Broker
  <2>1. ~C!BrokerForks /\ ~C!BrokerStarts /\ ~C!BrokerRecv
        /\ ~C!BrokerReplies /\ ~C!BrokerFinalizes /\ ~C!BrokerWaits
    BY DEF C!BrokerForks, C!BrokerStarts, C!BrokerRecv, C!BrokerReplies,
           C!BrokerFinalizes, C!BrokerWaits
  <2>2. ~C!BrokerInforms /\ ~C!BrokerReturns
    BY <1>1 DEF DirectInv, C!BrokerInforms, C!BrokerReturns
  <2>3. C!DirectStarts \/ C!DirectReads \/ C!DirectResumes \/ C!DirectCollects
    BY <1>2, <2>1, <2>2, Zenon DEF C!Broker
  <2> QED
    BY <2>3, DirectStartsKeeps, DirectReadsKeeps, DirectResumesKeeps, DirectCollectsKeeps, Zenon
<1>3. ASSUME NEW c \in C!Creatures PROVE ~C!Creature(c)
  <2>1. ~C!CreatureStarts(c) /\ ~C!CreatureMates(c)
    BY <1>1, NoMail DEF C!CreatureStarts, C!CreatureMates, C!Recv
  <2>2. ~C!CreatureAsks(c) /\ ~C!CreatureFinishes(c)
    BY DEF C!CreatureAsks, C!CreatureFinishes
  <2> QED
    BY <2>1, <2>2, Zenon DEF C!Creature
<1> QED
  BY <1>2, <1>3, Zenon DEF C!Next

LEMMA ChamNext ==
    ASSUME ChamInv, C!Next PROVE ChamInv'
<1>1. style = "actors" \/ style = "direct"
  BY DEF ChamInv, ChamTypes
<1> QED
  BY <1>1, ActorsNext, DirectNext

LEMMA ChamStutters ==
    ASSUME ChamInv, UNCHANGED chameneosVars PROVE ChamInv'
<1>1. UNCHANGED <<style, crowd, cpc, col, met, self_met, box, bpc, i, asked, bbox,
                  remaining, total_meetings>>
  BY DEF chameneosVars
<1>2. C!Creatures' = C!Creatures /\ C!N' = C!N /\ C!Message' = C!Message
      /\ MateT' = MateT /\ BoxT' = BoxT
  BY <1>1, SameCrowd
<1>3. ChamTypes'
  BY <1>1, <1>2 DEF ChamInv, ChamTypes
<1>4. Stages'
  BY <1>1, StagesKeep DEF ChamInv
<1>5. Mated' = Mated /\ Counted' = Counted /\ \A S : Met(S)' = Met(S)
  BY <1>1, <1>2 DEF Mated, Counted, Met
<1>6. Sums'
  BY <1>1, <1>5, SumsKeep DEF ChamInv
<1>7. ASSUME style = "actors" PROVE ActorsInv'
  <2>1. ActorsInv
    BY <1>7 DEF ChamInv
  <2>2. \A c \in C!Creatures : BoxOf(c)'
    BY <1>1, <2>1, BoxKeeps DEF ActorsInv
  <2>3. \A c : Waits(c)' <=> Waits(c)
    BY <1>1, SamePhase DEF Waits
  <2>4. Requests'
    BY <1>1, <2>1, <2>3 DEF ActorsInv, Requests, Sent
  <2>5. Asking'
    BY <1>1, <2>1, <2>3 DEF ActorsInv, Asking
  <2>6. Met(Counted)' = Met(Counted)
    BY <1>1, <1>5 DEF Met
  <2>7. Counts'
    BY <1>1, <1>2, <1>5, <2>1, <2>6 DEF ActorsInv, Counts
  <2> QED
    BY <1>1, <1>2, <2>1, <2>2, <2>4, <2>5, <2>7 DEF ActorsInv
<1>8. ASSUME style = "direct" PROVE DirectInv'
  <2>1. DirectInv
    BY <1>8 DEF ChamInv
  <2>2. Met(1..(C!N - remaining))' = Met(1..(C!N - remaining))
    BY <1>1, <1>2 DEF Met
  <2>3. C!Next2(1)' = C!Next2(1) /\ C!Next2(2)' = C!Next2(2)
    BY <1>1, <1>2 DEF C!Next2
  <2> QED
    BY <1>1, <1>2, <2>1, <2>2, <2>3 DEF DirectInv
<1> QED
  BY <1>1, <1>3, <1>4, <1>6, <1>7, <1>8 DEF ChamInv

\* All is counted in the end.
LEMMA ChamEnds ==
    ASSUME ChamInv, bpc = "done" PROVE C!MeetingsCountTwice
<1>1. ChamTypes /\ Stages /\ Sums
  BY DEF ChamInv
<1>2. /\ C!N \in Nat /\ C!Creatures = 1..C!N /\ Meetings \in Nat
      /\ IsFiniteSet(C!Creatures) /\ Cardinality(C!Creatures) = C!N
  BY <1>1, CrowdIs, MatedFinite DEF ChamTypes
<1>3. /\ Cardinality(Met(C!Creatures)) + Cardinality(Mated) = 2 * Meetings
      /\ Cardinality(Met(C!Creatures)) \in Nat
  BY <1>1, FS_CardinalityType DEF Sums, Expected
<1>4. SUFFICES /\ total_meetings = Cardinality(Met(C!Creatures)) /\ bbox = <<>>
               /\ \A c \in C!Creatures : box[c] = <<>>
  <2>1. ASSUME \A c \in C!Creatures : box[c] = <<>> PROVE Mated = {}
    BY <2>1 DEF Mated
  <2>2. Cardinality({}) = 0
    BY FS_EmptySet
  <2> QED
    BY <1>3, <2>1, <2>2 DEF C!MeetingsCountTwice
<1>5. CASE style = "actors"
  <2>1. ActorsInv /\ remaining = 0
    BY <1>5 DEF ChamInv, ActorsInv
  <2>2. Counted \subseteq C!Creatures
    BY DEF Counted
  <2>3. IsFiniteSet(Counted) /\ Cardinality(Counted) \in Nat
    BY <1>2, <2>2, FS_Subset, FS_CardinalityType
  <2>4. Cardinality(Counted) = C!N /\ total_meetings = Cardinality(Met(Counted))
    BY <1>2, <2>1, <2>3 DEF ActorsInv, Counts
  <2>5. Counted = C!Creatures
    BY <1>2, <2>2, <2>4, FS_Subset
  <2>6. \A c \in C!Creatures : cpc[c] = "end" /\ \A n \in 1..Len(bbox) : bbox[n].who # c
    BY <2>5 DEF Counted
  <2>7. \A c \in C!Creatures : box[c] = <<>>
    BY <2>1, <2>6 DEF ActorsInv, BoxOf
  <2>8. bbox = <<>>
    <3>1. bbox \in Seq(C!Message) /\ Len(bbox) \in Nat
      BY <1>1 DEF ChamTypes
    <3>2. CASE Len(bbox) = 0
      BY <3>1, <3>2, EmptySeq
    <3>3. CASE Len(bbox) # 0
      <4>1. 1 \in 1..Len(bbox)
        BY <3>1, <3>3
      <4>2. bbox[1].who \in C!Creatures
        BY <3>1, <4>1, ElementOfSeq, MessageIs
      <4> QED
        BY <2>6, <4>1, <4>2
    <3> QED
      BY <3>2, <3>3
  <2> QED
    BY <2>4, <2>5, <2>7, <2>8
<1>6. CASE style = "direct"
  <2>1. DirectInv
    BY <1>6 DEF ChamInv
  <2>2. 1..(C!N - remaining) = C!Creatures
    <3>1. PICK k \in Nat : k = C!N
      BY <1>2
    <3>2. i = k /\ remaining = k - i
      BY <1>1, <2>1, <3>1 DEF Stages, DirectInv
    <3>3. k - remaining = k
      BY <3>2
    <3> QED
      BY <1>2, <3>1, <3>3
  <2>3. total_meetings = Cardinality(Met(C!Creatures)) /\ bbox = <<>>
    BY <2>1, <2>2 DEF DirectInv
  <2> QED
    BY <2>1, <2>3, NoMail
<1> QED
  BY <1>1, <1>5, <1>6 DEF ChamTypes

LEMMA ChamResults ==
    ASSUME ChamInv
    PROVE  /\ C!TypeOK /\ C!NoneFinishesEarly
           /\ C!NobodyMeetsItself /\ C!MeetingsCountTwice
<1>1. ChamTypes /\ Stages
  BY DEF ChamInv
<1>2. Meetings \in Nat /\ C!N \in Nat /\ i \in Nat
  BY <1>1, CrowdIs DEF ChamTypes
<1>3. i \in 0..(Meetings + C!N)
  <2>1. bpc \in {"fork", "info", "finalize", "wait", "done"} => i <= C!N
    BY <1>1, <1>2 DEF Stages
  <2>2. bpc \in {"first", "second", "reply1", "reply2"} => i <= Meetings
    BY <1>1, <1>2 DEF Stages
  <2>3. i <= C!N \/ i <= Meetings
    BY <1>1, <2>1, <2>2 DEF ChamTypes
  <2> QED
    BY <1>2, <2>3
<1>4. Len(asked) <= 2
  BY <1>1 DEF Stages
<1>5. \A n \in DOMAIN asked : ~asked[n].finish
  <2>1. asked \in Seq(C!Message)
    BY <1>1 DEF ChamTypes
  <2>2. DOMAIN asked = 1..Len(asked)
    BY <2>1
  <2> QED
    BY <1>1, <2>2 DEF Stages
<1>6. self_met \in [C!Creatures -> Nat] /\ \A c \in C!Creatures : self_met[c] = 0
  BY <1>1 DEF ChamTypes
<1>7. C!TypeOK
  BY <1>1, <1>3, <1>4, <1>6 DEF ChamTypes, C!TypeOK
<1>8. C!MeetingsCountTwice
  BY ChamEnds DEF C!MeetingsCountTwice
<1> QED
  BY <1>5, <1>6, <1>7, <1>8 DEF C!NoneFinishesEarly, C!NobodyMeetsItself

----------------------------------------------------------------------------
(* Part 4: the programs together.                                          *)

\* What is known of the program that runs
ProgramsInv ==
    /\ program \in {"http", "chameneos", "lookup"}
    /\ program = "http" => DescriptorInv /\ DataInv /\ HttpTypes
    /\ program = "chameneos" => ChamInv
    /\ program = "lookup" => LookupInv

LEMMA ProgramsConstants == HttpServerAssumption
  BY ProgramsAssumption

LEMMA ProgramsStart == ProgramsInit => ProgramsInv
<1>1. HttpServerAssumption /\ Init => DescriptorInv /\ DataInv /\ HttpTypes
  BY DescriptorInit, DataInit, HttpTypesInit
<1>2. ASSUME program = "http", Init PROVE ProgramsInv
  BY <1>1, <1>2, ProgramsConstants DEF ProgramsInv
<1>3. ASSUME program = "chameneos", C!Init PROVE ProgramsInv
  BY <1>3, ChamInit DEF ProgramsInv
<1>4. ASSUME program = "lookup", L!Init PROVE ProgramsInv
  BY <1>4, LookupInit DEF ProgramsInv
<1> QED
  BY <1>2, <1>3, <1>4 DEF ProgramsInit

LEMMA HttpKeeps ==
    ASSUME DescriptorInv, DataInv, HttpTypes, [Next]_vars
    PROVE  (DescriptorInv /\ DataInv /\ HttpTypes)'
  BY ProgramsConstants, DescriptorStep, DataStep, HttpTypesStep

LEMMA ProgramsStep ==
    ASSUME ProgramsInv, [HttpStep \/ ChameneosStep \/ LookupStep]_programsVars
    PROVE  ProgramsInv'
<1>1. ASSUME HttpStep PROVE ProgramsInv'
  <2>1. program = "http" /\ program' = "http" /\ Next
    BY <1>1 DEF HttpStep
  <2> QED
    BY <2>1, HttpKeeps DEF ProgramsInv
<1>2. ASSUME ChameneosStep PROVE ProgramsInv'
  <2>1. program = "chameneos" /\ program' = "chameneos" /\ C!Next
    BY <1>2 DEF ChameneosStep
  <2> QED
    BY <2>1, ChamNext DEF ProgramsInv
<1>3. ASSUME LookupStep PROVE ProgramsInv'
  <2>1. program = "lookup" /\ program' = "lookup" /\ L!Next
    BY <1>3 DEF LookupStep
  <2> QED
    BY <2>1, LookupNext DEF ProgramsInv
<1>4. ASSUME UNCHANGED programsVars PROVE ProgramsInv'
  <2>1. UNCHANGED <<program, httpVars, chameneosVars, lookupVars>>
    BY <1>4 DEF programsVars
  <2>2. UNCHANGED vars
    BY <2>1 DEF httpVars, vars, listenerVars, kernelVars, taskVars
  <2>3. UNCHANGED L!vars
    BY <2>1 DEF lookupVars, L!vars, L!queueVars, L!counts
  <2> QED
    BY <2>1, <2>2, <2>3, HttpKeeps, ChamStutters, LookupStutters DEF ProgramsInv
<1> QED
  BY <1>1, <1>2, <1>3, <1>4

LEMMA ProgramsAlways == ProgramsSpec => []ProgramsInv
<1> QED
  BY ProgramsStart, ProgramsStep, PTL DEF ProgramsSpec

\* No buffer of the server and no mailbox is filled beyond its size, no ring
\* beyond its capacity, no search leaves its array and no loop counter its
\* loop (connection_fun, broker_fn, cc_queue, bs_coro).
THEOREM ProgramsTypeCorrectness == ProgramsSpec => []ProgramTypeOK
<1>1. ProgramsInv => ProgramTypeOK
  <2> SUFFICES ASSUME ProgramsInv PROVE ProgramTypeOK
    OBVIOUS
  <2>1. CASE program = "http"
    BY <2>1, ProgramsConstants, HttpTypeOK DEF ProgramsInv, ProgramTypeOK
  <2>2. CASE program = "chameneos"
    BY <2>2, ChamResults DEF ProgramsInv, ProgramTypeOK
  <2>3. CASE program = "lookup"
    BY <2>3, LookupResults DEF ProgramsInv, ProgramTypeOK
  <2> QED
    BY <2>1, <2>2, <2>3 DEF ProgramsInv
<1> QED
  BY <1>1, ProgramsAlways, PTL

\* A search never leaves its key behind and is counted once, whatever the
\* number of streams, and the ring holds the searches that run when it has a
\* place for each stream (SeffMultiLookup, SeffEffectMultiLookup); nobody
\* meets itself or ends early, and at the end each meeting counted for two and
\* no message is left (broker_fn).
THEOREM ProgramsAreRight == ProgramsSpec => []ResultsAreRight
<1>1. ProgramsInv => ResultsAreRight
  BY ChamResults, LookupResults DEF ProgramsInv, ResultsAreRight
<1> QED
  BY <1>1, ProgramsAlways, PTL
==============================================================================
