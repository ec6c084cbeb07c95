---------------------------- MODULE MultiLookup ----------------------------
(***************************************************************************)
(* Interleaved binary searches (src/bench/prefetching_lookups_bench): each *)
(* lookup is a coroutine that suspends before it reads an element, and a   *)
(* ring of coroutines keeps up to `streams` of them going.                 *)
(*                                                                         *)
(* Three programs: "seff", where the coroutine yields -1 and reads for     *)
(* itself; "multi", where it performs deref and the loop reads for it when *)
(* the coroutine's turn comes again; "single", where it performs deref and *)
(* the lookups come one after the other, for which a ring of one stands.   *)
(* A step is one iteration of the loop that resumes coroutines.  The       *)
(* coroutine of lookup i is i.                                             *)
(***************************************************************************)
EXTENDS Integers, Sequences, FiniteSets

CONSTANTS
    Arrays,     \* sorted sequences v
    Keys,       \* of the lookups
    NLookups,   \* lookups_size
    Streams,    \* values of the command line's streams, an atoi that nobody
                \* compares with Capacity (negative ones are left out)
    Capacity,   \* capacity of coro_queue, 256 in the code
    NULL

MultiLookupAssumption ==
    /\ NLookups \in Nat
    /\ Capacity \in Nat \ {0}
    /\ Streams \subseteq Nat
    /\ NULL \notin 1..NLookups
    /\ Keys \subseteq Int
    /\ \A v \in Arrays :
          /\ v \in Seq(Int)
          /\ \A m, n \in DOMAIN v : m <= n => v[m] <= v[n]

Searches == 1..NLookups

VARIABLES
    input,      \* [style, v, lookups, streams]
    at,         \* "fill", "turn", "finish", "done" or "crashed"
    next_arg, limit,
    coros, start, size,     \* the fields of the coro_queue
    live,       \* coroutines that exist
    search,     \* coroutine -> its locals, and whether it waits for *addr
    found_count, not_found_count

queueVars == <<coros, start, size>>
counts == <<found_count, not_found_count>>
vars == <<input, at, next_arg, limit, queueVars, live, search, counts>>

TypeOK ==
    /\ at \in {"fill", "turn", "finish", "done", "crashed"}
    /\ next_arg \in 0..NLookups
    /\ limit \in 0..input.streams
    /\ coros \in [0..(Capacity - 1) -> Searches \cup {NULL}]
    /\ start \in 0..(Capacity - 1)
    /\ size \in 0..Capacity
    /\ live \in SUBSET Searches
    /\ \A i \in Searches : search[i].first + search[i].len <= Len(input.v)
    /\ found_count \in Nat /\ not_found_count \in Nat

\* args and coro_queue_init; "single" needs one stream.
Init ==
    /\ input \in [style : {"seff", "multi", "single"}, v : Arrays,
                  lookups : [Searches -> Keys], streams : Streams]
    /\ input.style = "single" => input.streams = 1
    /\ at = "fill"
    /\ next_arg = 0
    /\ limit = input.streams
    /\ coros = [n \in 0..(Capacity - 1) |-> NULL]
    /\ start = 0 /\ size = 0
    /\ live = {}
    /\ search = [i \in Searches |-> [first |-> 0, len |-> Len(input.v),
                                     waits |-> FALSE]]
    /\ found_count = 0 /\ not_found_count = 0

----------------------------------------------------------------------------
(* coro_queue                                                              *)

\* Mutation: the start of the ring is forgotten.
WriteLocOfSize(begin, n) == n % Capacity

WriteLoc(begin, n) == (begin + n) % Capacity

\* A full queue refuses, and no caller looks at the answer.
Enqueue(begin, n, i) ==
    IF n = Capacity THEN UNCHANGED coros /\ size' = n
    ELSE /\ coros' = [coros EXCEPT ![WriteLoc(begin, n)] = i]
         /\ size' = n + 1

Front == IF size <= 0 THEN NULL ELSE coros[start]
AfterFront == (start + 1) % Capacity

----------------------------------------------------------------------------
(* The coroutines.                                                         *)

\* Mutation: the middle stays in the upper half, for ever when it is alone.
NarrowKeepingMiddle(s, x, val) ==
    IF x < val THEN [s EXCEPT !.first = @ + s.len \div 2,
                              !.len = @ - s.len \div 2]
    ELSE [s EXCEPT !.len = @ \div 2]

Narrow(s, x, val) ==
    IF x < val THEN [s EXCEPT !.first = @ + s.len \div 2 + 1,
                              !.len = @ - s.len \div 2 - 1]
    ELSE [s EXCEPT !.len = @ \div 2]

Suspended(s) == [result |-> -1, s |-> [s EXCEPT !.waits = TRUE]]
Returned(s, found) == [result |-> found, s |-> [s EXCEPT !.waits = FALSE]]
LoopHead(s) == IF s.len > 0 THEN Suspended(s) ELSE Returned(s, 0)

\* SeffBinarySearch and SeffEffectBinarySearch from one suspension to the
\* next: -1 for a suspension, else the answer.  The element read is the one
\* in the middle, by the coroutine or by the loop that resumes it.
Run(i) ==
    LET s == search[i]
        x == input.v[s.first + s.len \div 2 + 1]
    IN  IF ~s.waits THEN LoopHead(s)
        ELSE IF x = input.lookups[i]
        THEN Returned(Narrow(s, x, input.lookups[i]), 1)
        ELSE LoopHead(Narrow(s, x, input.lookups[i]))

----------------------------------------------------------------------------
(* The loops.                                                              *)

\* The inner loop of the first phase starts a coroutine.
Fill ==
    /\ at = "fill"
    /\ next_arg < NLookups /\ limit > 0
    /\ limit' = limit - 1
    /\ next_arg' = next_arg + 1
    /\ live' = live \cup {next_arg'}
    /\ Enqueue(start, size, next_arg')
    /\ UNCHANGED <<input, at, start, search, counts>>

\* "seff" goes on with the ring until a coroutine is done, "multi" as long as
\* no stream is left; with one lookup at a time they are the same.  Without
\* lookups the loop is not entered.
Filled ==
    /\ at = "fill"
    /\ ~(next_arg < NLookups /\ limit > 0)
    /\ at' = IF NLookups > 0 /\ (input.style = "seff" \/ limit = 0)
             THEN "turn" ELSE "finish"
    /\ UNCHANGED <<input, next_arg, limit, queueVars, live, search, counts>>

\* Where the loop is after a coroutine is done: the "turn" of the last
\* arguments ends the first phase.
AfterDone ==
    IF at = "turn" THEN IF next_arg < NLookups THEN "fill" ELSE "finish"
    ELSE "finish"

\* Put the coroutine back or count its answer.
ResumeFront(i, r) ==
    /\ search' = [search EXCEPT ![i] = r.s]
    /\ start' = AfterFront
    /\ IF r.result = -1
       THEN /\ Enqueue(AfterFront, size - 1, i)
            /\ UNCHANGED <<at, live, limit, counts>>
       ELSE /\ size' = size - 1
            /\ found_count' = found_count + r.result
            /\ not_found_count' = not_found_count + 1 - r.result
            /\ live' = live \ {i}
            /\ limit' = limit + 1
            /\ at' = AfterDone
            /\ UNCHANGED coros

\* Dequeue and resume; an empty queue hands out NULL, and that is resumed too.
Turn ==
    /\ at = "turn" \/ (at = "finish" /\ limit < input.streams)
    /\ IF Front = NULL
       THEN /\ at' = "crashed"
            /\ UNCHANGED <<limit, queueVars, live, search, counts>>
       ELSE ResumeFront(Front, Run(Front))
    /\ UNCHANGED <<input, next_arg>>

Finish ==
    /\ at = "finish" /\ limit = input.streams
    /\ at' = "done"
    /\ UNCHANGED <<input, next_arg, limit, queueVars, live, search, counts>>

Next == Fill \/ Filled \/ Turn \/ Finish

Spec == Init /\ [][Next]_vars
Fairness == WF_vars(Next)

----------------------------------------------------------------------------
(* Properties.                                                             *)

IsFound(i) == \E n \in DOMAIN input.v : input.v[n] = input.lookups[i]

\* However the searches take turns, each keeps its own interval: a key that
\* is in the array stays inside the part its coroutine has still to look at.
KeyStaysInside ==
    \A i \in live :
        IsFound(i) =>
            \E n \in 1..search[i].len :
                input.v[search[i].first + n] = input.lookups[i]

StreamsFit == input.streams \in 1..Capacity

\* The loop knows how many coroutines the ring holds without asking it: with
\* a number of streams that fits, it never takes one from an empty ring, and
\* none is dropped by a full one.
RingHoldsTheLive ==
    StreamsFit =>
        /\ at # "crashed"
        /\ live = {coros[WriteLoc(start, n)] : n \in 0..(size - 1)}
        /\ size = Cardinality(live) /\ size = input.streams - limit

\* Whatever the number of streams: if the loops end, the lookups that are
\* counted as found are those that are in the array, and the others are
\* counted as not found (the check for "BUG:").
CountsAreRight ==
    at = "done" =>
        /\ found_count = Cardinality({i \in Searches : IsFound(i)})
        /\ found_count + not_found_count = NLookups
=============================================================================
