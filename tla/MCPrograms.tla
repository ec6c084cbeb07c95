----------------------------- MODULE MCPrograms -----------------------------
(***************************************************************************)
(* Three of the benchmark programs, for TLC: an execution runs one of      *)
(* them, and what the others would use stays as it is.                     *)
(***************************************************************************)
EXTENDS HttpServer

CONSTANTS
    Crowds, Meetings, MailboxSize,  \* of Chameneos; its Capacity is MailboxSize
    Arrays, Keys, NLookups, Streams, RingSize   \* of MultiLookup, likewise

VARIABLES
    program,    \* "http", "chameneos" or "lookup"
    style, crowd, cpc, col, met, self_met, box, bpc, i, asked, bbox,
    remaining, total_meetings,
    input, at, next_arg, limit, coros, start, size, live, search,
    found_count, not_found_count

C == INSTANCE Chameneos WITH Capacity <- MailboxSize
L == INSTANCE MultiLookup WITH Capacity <- RingSize

ASSUME ProgramsAssumption ==
       /\ HttpServerAssumption
       /\ C!ChameneosAssumption
       /\ L!MultiLookupAssumption

httpVars == <<lpc, lfd, address, kind, pending, life, rx, room, pc, buf,
              response, total, sent, answers, clients, pieces>>
chameneosVars == <<style, crowd, cpc, col, met, self_met, box, bpc, i, asked,
                   bbox, remaining, total_meetings>>
lookupVars == <<input, at, next_arg, limit, coros, start, size, live, search,
                found_count, not_found_count>>
programsVars == <<program, httpVars, chameneosVars, lookupVars>>

HttpAbsent ==
    /\ lpc = "absent"
    /\ kind = [fd \in Fds |-> "free"]
    /\ pc = [fd \in Fds |-> {}]
    /\ lfd = NULL /\ address = NULL /\ pending = NULL /\ life = NULL
    /\ rx = NULL /\ room = NULL /\ buf = NULL /\ response = NULL
    /\ total = NULL /\ sent = NULL /\ answers = NULL /\ clients = NULL
    /\ pieces = NULL
ChameneosAbsent ==
    /\ bpc = "absent"
    /\ crowd = <<>>
    /\ style = NULL /\ cpc = NULL /\ col = NULL /\ met = NULL
    /\ self_met = NULL /\ box = NULL /\ i = NULL /\ asked = NULL
    /\ bbox = NULL /\ remaining = NULL /\ total_meetings = NULL
LookupAbsent ==
    /\ at = "absent"
    /\ input = NULL /\ next_arg = NULL /\ limit = NULL /\ coros = NULL
    /\ start = NULL /\ size = NULL /\ live = NULL /\ search = NULL
    /\ found_count = NULL /\ not_found_count = NULL

ProgramsInit ==
    \/ program = "http" /\ Init /\ ChameneosAbsent /\ LookupAbsent
    \/ program = "chameneos" /\ C!Init /\ HttpAbsent /\ LookupAbsent
    \/ program = "lookup" /\ L!Init /\ HttpAbsent /\ ChameneosAbsent

HttpStep ==
    /\ program = "http" /\ Next
    /\ UNCHANGED <<program, chameneosVars, lookupVars>>
ChameneosStep ==
    /\ program = "chameneos" /\ C!Next
    /\ UNCHANGED <<program, httpVars, lookupVars>>
LookupStep ==
    /\ program = "lookup" /\ L!Next
    /\ UNCHANGED <<program, httpVars, chameneosVars>>

ProgramsSpec ==
    /\ ProgramsInit
    /\ [][HttpStep \/ ChameneosStep \/ LookupStep]_programsVars
    /\ Fairness /\ C!Fairness /\ L!Fairness

----------------------------------------------------------------------------
\* Every variable of the program that runs keeps its type: no buffer, mailbox
\* or interval of a search goes past its end.
ProgramTypeOK ==
    CASE program = "http" -> TypeOK
      [] program = "chameneos" -> C!TypeOK
      [] program = "lookup" -> L!TypeOK

\* The searches count what is in the array while they take turns, on a ring
\* that neither loses one nor runs empty unless it has fewer places than there
\* are streams; the chameneos meet two by two.
ResultsAreRight ==
    /\ program = "lookup" =>
          L!KeyStaysInside /\ L!RingHoldsTheLive /\ L!CountsAreRight
    /\ program = "chameneos" =>
          C!NoneFinishesEarly /\ C!NobodyMeetsItself /\ C!MeetingsCountTwice

\* Both programs end: no creature and no broker waits for ever for a message
\* or for room, and every search gets its turns.  Only with streams that do
\* not fit the ring may the lookups crash.
ProgramsEnd ==
    <>(program = "http" \/ bpc = "done" \/ at = "done"
       \/ (at = "crashed" /\ ~L!StreamsFit))

----------------------------------------------------------------------------
SmallCrowds == {<<0, 1, 2>>, <<1, 0, 1>>}
SmallArrays == {<<>>, <<1>>, <<1, 3>>, <<1, 3, 5>>, <<1, 1, 2, 3>>}
=============================================================================
