----------------------------- MODULE HttpServer -----------------------------
(***************************************************************************)
(* The HTTP server of src/bench/http_server_bench on src/utils/net.c: a    *)
(* listener task that forks one task per connection, each waiting for its  *)
(* descriptor with scheff_poll.  A step is one system call, or one failed  *)
(* one and the look at errno.  Between two attempts a task is parked; the  *)
(* scheduler asks poll until it answers.                                   *)
(*                                                                         *)
(* The kernel's sockets and the clients are external: a client connects,   *)
(* sends the pieces of requests, makes room by reading, closes ("fin") or  *)
(* resets ("rst"); a reset is reported by one call and then the socket is  *)
(* "dead".  The system may shut the listening socket, which is "down" then.*)
(* Signals are left out, the SIGPIPE of a send to a dead socket among them.*)
(* A request is any number of "more" pieces and one that ends it, "root"   *)
(* or "other" by its path; "bad" is a piece that does not parse.  A        *)
(* response is a sequence of pieces.                                       *)
(***************************************************************************)
EXTENDS Integers, Sequences, FiniteSets, SequencesExt

CONSTANTS
    Fds,            \* descriptors the process may have
    NULL,
    Addresses,      \* how many getaddrinfo returns
    Backlog,        \* connections the kernel holds for the listener
    BufSize,        \* BUF_SIZE, in pieces
    SndBuf,         \* pieces the kernel's send buffer holds
    MaxClients,     \* bound: connections of all clients
    MaxPieces       \* bound: pieces sent by all clients

Stdin == 0          \* open when the program starts, and not a socket

HttpServerAssumption ==
    /\ Fds \subseteq Nat /\ Stdin \in Fds /\ NULL \notin Fds
    /\ Addresses \in Nat /\ Backlog \in Nat /\ BufSize \in Nat \ {0}
    /\ SndBuf \in Nat \ {0} /\ MaxClients \in Nat /\ MaxPieces \in Nat

VARIABLES
    lpc, lfd, address,  \* the listener: where it is, socket_fd, and p
    kind,       \* fd -> "free", "foreign", "socket", "listening", "down"
                \* or "conn"
    pending,    \* connections not accepted yet
    life,       \* fd -> "up", "fin", "rst" or "dead"
    rx, room,   \* fd -> pieces to receive, and room in the send buffer
    pc,         \* fd -> where the tasks forked with conn_fd = fd are
    buf,        \* fd -> the pieces in msg_buffer
    response, total,    \* fd -> arguments of await_send_all
    sent, answers,      \* fd -> pieces sent, and responses asked for
    clients, pieces     \* bounds: connections and pieces so far

listenerVars == <<lpc, lfd, address, kind, pending>>
kernelVars == <<life, rx, room>>
taskVars == <<pc, buf, response, total, sent, answers>>
vars == <<listenerVars, kernelVars, taskVars, clients, pieces>>

Pieces == {"more", "root", "other", "bad"}
TaskLabels == {"recv", "recv_poll", "recv_again", "send", "send_poll",
               "send_again", "close"}

TypeOK ==
    /\ lpc \in {"resolve", "socket", "bind", "listen", "accept",
                "accept_poll", "accept_again", "close", "gone"}
    /\ lfd \in Fds \cup {NULL} /\ address \in 1..(Addresses + 1)
    /\ kind \in [Fds -> {"free", "foreign", "socket", "listening", "down",
                         "conn"}]
    /\ pending \in 0..Backlog
    /\ life \in [Fds -> {"up", "fin", "rst", "dead"}]
    /\ rx \in [Fds -> Seq(Pieces)]
    /\ room \in [Fds -> 0..SndBuf]
    /\ pc \in [Fds -> SUBSET TaskLabels]
    /\ buf \in [Fds -> Seq({"more"})]
    /\ \A fd \in Fds : Len(buf[fd]) < BufSize
    /\ \A fd \in Fds : total[fd] \in 0..Len(response[fd])

Init ==
    /\ lpc = "resolve" /\ lfd = NULL /\ address = 1
    /\ kind = [fd \in Fds |-> IF fd = Stdin THEN "foreign" ELSE "free"]
    /\ pending = 0
    /\ life = [fd \in Fds |-> IF fd = Stdin THEN "dead" ELSE "up"]
    /\ rx = [fd \in Fds |-> <<>>]
    /\ room = [fd \in Fds |-> SndBuf]
    /\ pc = [fd \in Fds |-> {}]
    /\ buf = [fd \in Fds |-> <<>>]
    /\ response = [fd \in Fds |-> <<>>]
    /\ total = [fd \in Fds |-> 0]
    /\ sent = [fd \in Fds |-> <<>>] /\ answers = [fd \in Fds |-> <<>>]
    /\ clients = 0 /\ pieces = 0

\* The kernel hands out the lowest descriptor that is free.
Lowest(fd) == kind[fd] = "free" /\ \A f \in Fds : kind[f] = "free" => fd <= f

----------------------------------------------------------------------------
(* listen_tcp_socket                                                       *)

ListenerOnly == UNCHANGED <<kernelVars, taskVars, clients, pieces>>

\* The next address, or failure.
TryAddress(n) ==
    /\ address' = n
    /\ lpc' = IF n <= Addresses THEN "socket" ELSE "gone"

GetAddrInfo ==
    /\ lpc = "resolve"
    /\ TryAddress(1) \/ (lpc' = "gone" /\ UNCHANGED address)
    /\ UNCHANGED <<lfd, kind, pending>> /\ ListenerOnly

Socket ==
    /\ lpc = "socket"
    /\ \/ \E fd \in Fds :
            /\ Lowest(fd)
            /\ kind' = [kind EXCEPT ![fd] = "socket"]
            /\ lfd' = fd
            /\ lpc' = "bind" /\ UNCHANGED address
       \/ TryAddress(address + 1) /\ UNCHANGED <<lfd, kind>>
    /\ UNCHANGED pending /\ ListenerOnly

\* Mutation: the socket that could not be bound is not closed.
BindLeaking ==
    /\ lpc = "bind"
    /\ \/ lpc' = "listen" /\ address' = 1
       \/ TryAddress(address + 1)
    /\ UNCHANGED <<kind, lfd, pending>> /\ ListenerOnly

\* Out of the loop p is not used any more.
Bind ==
    /\ lpc = "bind"
    /\ \/ lpc' = "listen" /\ address' = 1 /\ UNCHANGED <<kind, lfd>>
       \/ /\ TryAddress(address + 1)
          /\ kind' = [kind EXCEPT ![lfd] = "free"] /\ lfd' = NULL
    /\ UNCHANGED pending /\ ListenerOnly

Listen ==
    /\ lpc = "listen"
    /\ \/ /\ kind' = [kind EXCEPT ![lfd] = "listening"]
          /\ lpc' = "accept" /\ UNCHANGED lfd
       \/ /\ kind' = [kind EXCEPT ![lfd] = "free"] /\ lfd' = NULL
          /\ lpc' = "gone"
    /\ UNCHANGED <<address, pending>> /\ ListenerOnly

----------------------------------------------------------------------------
(* listener_fun and await_accept4.  Whatever stops accept4, other than     *)
(* that nothing is there the first time, ends the listener for good.       *)

\* scheff_fork(connection_fun, connection_fd)
Accept ==
    /\ lpc \in {"accept", "accept_again"}
    /\ pending > 0
    /\ \E fd \in Fds :
          /\ Lowest(fd)
          /\ kind' = [kind EXCEPT ![fd] = "conn"]
          /\ pc' = [pc EXCEPT ![fd] = @ \cup {"recv"}]
    /\ pending' = pending - 1
    /\ lpc' = "accept"
    /\ UNCHANGED <<lfd, address, kernelVars, buf, response, total, sent,
                   answers, clients, pieces>>

\* EAGAIN, or any other error, with connections pending or without: no
\* descriptor left, a connection aborted, a socket that is down.
AcceptFails ==
    /\ lpc \in {"accept", "accept_again"}
    /\ \/ lpc' = "close"
       \/ /\ lpc = "accept" /\ kind[lfd] = "listening" /\ pending = 0
          /\ lpc' = "accept_poll"
    /\ UNCHANGED <<lfd, address, kind, pending>> /\ ListenerOnly

\* poll reports POLLIN, or an error alone (-1).  On a hang-up await_accept4
\* returns 0, which listener_fun takes for a connection: it forks a task on
\* Stdin.
AcceptPoll ==
    /\ lpc = "accept_poll"
    /\ \/ pending > 0 /\ lpc' = "accept_again" /\ UNCHANGED pc
       \/ kind[lfd] = "listening" /\ lpc' = "close" /\ UNCHANGED pc
       \/ /\ kind[lfd] = "down"
          /\ pc' = [pc EXCEPT ![Stdin] = @ \cup {"recv"}]
          /\ lpc' = "accept"
    /\ UNCHANGED <<lfd, address, kind, pending, kernelVars, buf, response,
                   total, sent, answers, clients, pieces>>

CloseListener ==
    /\ lpc = "close"
    /\ kind' = [kind EXCEPT ![lfd] = "free"]
    /\ lfd' = NULL /\ pending' = 0 /\ lpc' = "gone"
    /\ UNCHANGED address /\ ListenerOnly

----------------------------------------------------------------------------
(* connection_fun: a task forked with conn_fd = fd.                        *)

Goto(fd, from, to) == pc' = [pc EXCEPT ![fd] = (@ \ {from}) \cup {to}]
Others == UNCHANGED <<listenerVars, clients, pieces>>
Reported(fd) ==
    life' = [life EXCEPT ![fd] = IF @ = "rst" THEN "dead" ELSE @]

\* poll of one descriptor: what it reports of this event and of POLLHUP
Readable(fd) == rx[fd] # <<>> \/ life[fd] # "up"
Writable(fd) == room[fd] > 0 \/ life[fd] \in {"rst", "dead"}
HungUp(fd) == life[fd] \in {"rst", "dead"}

\* phr_parse_request: where the request ends, 0 when it is incomplete
EndOfRequest(b) == SelectInSeq(b, LAMBDA p : p # "more")

\* build_response: a header, and the text for "/" (not for "/prof" nor for a
\* path that is not found).  The buffer has room for either.
BuildResponse(path) ==
    IF path = "root" THEN <<"header", "text">> ELSE <<"header">>

\* Received pieces, all that there is room for.
Chunk(fd) ==
    SubSeq(rx[fd], 1, IF Len(rx[fd]) <= BufSize - Len(buf[fd])
                      THEN Len(rx[fd]) ELSE BufSize - Len(buf[fd]))

\* A request that is complete is answered; one that is malformed or does not
\* fit is dropped, with whatever else is in the buffer, and the task goes on.
Parse(fd, from, b) ==
    LET end == EndOfRequest(b)
    IN  IF end # 0 /\ b[end] # "bad"
        THEN /\ response' = [response EXCEPT ![fd] = BuildResponse(b[end])]
             /\ answers' = [answers EXCEPT ![fd] = @ \o BuildResponse(b[end])]
             /\ total' = [total EXCEPT ![fd] = 0]
             /\ buf' = [buf EXCEPT ![fd] = <<>>]
             /\ Goto(fd, from, "send")
        ELSE /\ buf' = [buf EXCEPT ![fd] =
                           IF end # 0 \/ Len(b) = BufSize THEN <<>> ELSE b]
             /\ Goto(fd, from, "recv")
             /\ UNCHANGED <<response, answers, total>>

Receive(fd, from) ==
    /\ from \in pc[fd] \cap {"recv", "recv_again"}
    /\ rx[fd] # <<>>
    /\ rx' = [rx EXCEPT ![fd] =
                 SubSeq(@, Len(Chunk(fd)) + 1, Len(@))]
    /\ Parse(fd, from, buf[fd] \o Chunk(fd))
    /\ UNCHANGED <<life, room, sent>> /\ Others

\* Nothing to receive: wait the first time, else give up.
ReceiveNothing(fd, from) ==
    /\ from \in pc[fd] \cap {"recv", "recv_again"}
    /\ rx[fd] = <<>>
    /\ Goto(fd, from, IF life[fd] = "up" /\ from = "recv" THEN "recv_poll"
                      ELSE "close")
    /\ Reported(fd)
    /\ UNCHANGED <<rx, room, buf, response, total, sent, answers>> /\ Others

ReceivePoll(fd) ==
    /\ "recv_poll" \in pc[fd]
    /\ Readable(fd)
    /\ Goto(fd, "recv_poll", IF HungUp(fd) THEN "close" ELSE "recv_again")
    /\ UNCHANGED <<kernelVars, buf, response, total, sent, answers>> /\ Others

\* Mutation: the rest is sent from the start of the response.
RestFromStart(fd) == SubSeq(response[fd], 1, Len(response[fd]) - total[fd])

Rest(fd) == SubSeq(response[fd], total[fd] + 1, Len(response[fd]))

\* The end of await_send_all and its locals.
Forget(fd) ==
    /\ response' = [response EXCEPT ![fd] = <<>>]
    /\ total' = [total EXCEPT ![fd] = 0]

\* await_send_all; connection_fun ignores what it returns.
Send(fd, from) ==
    LET n == IF Len(Rest(fd)) <= room[fd] THEN Len(Rest(fd)) ELSE room[fd]
    IN  /\ from \in pc[fd] \cap {"send", "send_again"}
        /\ ~HungUp(fd) /\ room[fd] > 0
        /\ room' = [room EXCEPT ![fd] = @ - n]
        /\ sent' = [sent EXCEPT ![fd] = @ \o SubSeq(Rest(fd), 1, n)]
        /\ IF n = Len(Rest(fd)) THEN Goto(fd, from, "recv") /\ Forget(fd)
           ELSE /\ Goto(fd, from, "send")
                /\ total' = [total EXCEPT ![fd] = @ + n]
                /\ UNCHANGED response
        /\ UNCHANGED <<life, rx, buf, answers>> /\ Others

\* Mutation: await_send_all tries again whatever the error is.
AfterSendErrorRetry == "send"

AfterSendError == "recv"

\* No room: wait the first time; else, and on a broken connection, -1.
SendNothing(fd, from) ==
    /\ from \in pc[fd] \cap {"send", "send_again"}
    /\ HungUp(fd) \/ room[fd] = 0
    /\ IF from = "send" /\ ~HungUp(fd)
       THEN Goto(fd, from, "send_poll") /\ UNCHANGED <<response, total>>
       ELSE Goto(fd, from, AfterSendError) /\ Forget(fd)
    /\ Reported(fd)
    /\ UNCHANGED <<rx, room, buf, sent, answers>> /\ Others

\* await_send returns 0 on a hang-up, and await_send_all goes around.
SendPoll(fd) ==
    /\ "send_poll" \in pc[fd]
    /\ Writable(fd)
    /\ Goto(fd, "send_poll", IF HungUp(fd) THEN "send" ELSE "send_again")
    /\ UNCHANGED <<kernelVars, buf, response, total, sent, answers>> /\ Others

\* close, and the end of the task: the kernel forgets the connection.
Close(fd) ==
    /\ "close" \in pc[fd]
    /\ pc' = [pc EXCEPT ![fd] = @ \ {"close"}]
    /\ kind' = [kind EXCEPT ![fd] = "free"]
    /\ life' = [life EXCEPT ![fd] = "up"]
    /\ rx' = [rx EXCEPT ![fd] = <<>>]
    /\ room' = [room EXCEPT ![fd] = SndBuf]
    /\ buf' = [buf EXCEPT ![fd] = <<>>]
    /\ sent' = [sent EXCEPT ![fd] = <<>>]
    /\ answers' = [answers EXCEPT ![fd] = <<>>]
    /\ UNCHANGED <<lpc, lfd, address, pending, response, total, clients,
                   pieces>>

----------------------------------------------------------------------------
(* The system and the clients.                                             *)

\* shutdown of the listening socket: what was pending is gone.
ListenerShut ==
    /\ lfd # NULL /\ kind[lfd] = "listening"
    /\ kind' = [kind EXCEPT ![lfd] = "down"]
    /\ pending' = 0
    /\ UNCHANGED <<lpc, lfd, address>> /\ ListenerOnly

Connect ==
    /\ clients < MaxClients /\ pending < Backlog
    /\ \E fd \in Fds : kind[fd] = "listening"
    /\ clients' = clients + 1 /\ pending' = pending + 1
    /\ UNCHANGED <<lpc, lfd, address, kind, kernelVars, taskVars, pieces>>

ClientActs(fd) ==
    /\ kind[fd] = "conn"
    /\ \/ /\ life[fd] = "up" /\ pieces < MaxPieces
          /\ \E p \in Pieces : rx' = [rx EXCEPT ![fd] = Append(@, p)]
          /\ pieces' = pieces + 1
          /\ UNCHANGED <<life, room>>
       \/ /\ life[fd] \in {"up", "fin"} /\ room[fd] < SndBuf
          /\ room' = [room EXCEPT ![fd] = @ + 1]
          /\ UNCHANGED <<life, rx, pieces>>
       \/ /\ life[fd] = "up"
          /\ life' = [life EXCEPT ![fd] = "fin"]
          /\ UNCHANGED <<rx, room, pieces>>
       \/ /\ life[fd] \in {"up", "fin"}
          /\ life' = [life EXCEPT ![fd] = "rst"]
          /\ UNCHANGED <<rx, room, pieces>>
    /\ UNCHANGED <<listenerVars, taskVars, clients>>

Listener ==
    GetAddrInfo \/ Socket \/ Bind \/ Listen \/ Accept \/ AcceptFails
    \/ AcceptPoll \/ CloseListener

Connection(fd) ==
    \/ \E from \in pc[fd] : Receive(fd, from) \/ ReceiveNothing(fd, from)
                            \/ Send(fd, from) \/ SendNothing(fd, from)
    \/ ReceivePoll(fd) \/ SendPoll(fd) \/ Close(fd)

Next ==
    \/ Listener \/ (\E fd \in Fds : Connection(fd) \/ ClientActs(fd))
    \/ Connect \/ ListenerShut

Spec == Init /\ [][Next]_vars

\* Each task is run, or its condition asked, again and again.
Fairness == WF_vars(Listener) /\ \A fd \in Fds : WF_vars(Connection(fd))

----------------------------------------------------------------------------
(* Properties.                                                             *)

\* Every descriptor that is open is in the hands of one task, and a task has
\* an open one: none leaks on a path that fails, none is closed twice, and no
\* task goes on with a descriptor that has been closed or given to another.
\* Stdin is not among them: the listener gives it to a task, which closes it,
\* when the listening socket hangs up (AcceptPoll).
DescriptorsAreOwned ==
    \A fd \in Fds \ {Stdin} :
        CASE kind[fd] = "free" -> pc[fd] = {} /\ lfd # fd
          [] kind[fd] = "conn" -> Cardinality(pc[fd]) = 1 /\ lfd # fd
          [] OTHER -> pc[fd] = {} /\ lfd = fd

\* However the kernel splits the sends, a client sees the responses to the
\* requests in order and whole; only a broken connection ends in the middle.
ResponsesAreWhole ==
    \A fd \in Fds : kind[fd] = "conn" =>
        /\ IsPrefix(sent[fd], answers[fd])
        /\ life[fd] # "dead" /\ pc[fd] \cap {"recv", "recv_poll", "close"} # {}
               => sent[fd] = answers[fd]

\* A connection that the client has reset is closed in the end, wherever its
\* task was waiting.
ResetsAreReclaimed ==
    \A fd \in Fds : kind[fd] = "conn" /\ HungUp(fd) ~> kind[fd] = "free"
=============================================================================
