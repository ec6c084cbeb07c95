------------------------------ MODULE MCSkynet ------------------------------
(***************************************************************************)
(* The five programs of the skynet benchmark, for TLC: an execution runs   *)
(* one of them, and what the others would use stays as it is.              *)
(***************************************************************************)
EXTENDS Promises

CONSTANTS
    TicketSlots,        \* of Async
    Branchings, Depths  \* of SkynetSeq

VARIABLES
    program,    \* "async", "promises" or "seq"
    build, apc, acur, avictim, held, aqueue, abuffer, aremaining, task,
    future,
    shape, at, chain, total

A == INSTANCE Async WITH
        Builds <- {"cl", "tk"}, Blocks <- Tasks,
        pc <- apc, cur <- acur, victim <- avictim, queue <- aqueue,
        buffer <- abuffer, remaining <- aremaining
SQ == INSTANCE SkynetSeq

ASSUME SkynetAssumption ==
       /\ A!AsyncAssumption
       /\ PromisesAssumption
       /\ SQ!SkynetSeqAssumption

asyncVars == <<build, apc, acur, avictim, held, aqueue, abuffer, aremaining,
               task, future>>
seqVars == <<shape, at, chain, total>>
skynetVars == <<program, asyncVars, allVars, seqVars>>

Absent == [w \in 0..1 |-> "absent"]
AsyncAbsent ==
    /\ apc = Absent
    /\ build = NULL /\ acur = NULL /\ avictim = NULL /\ held = NULL
    /\ aqueue = NULL /\ abuffer = NULL /\ aremaining = NULL /\ task = NULL
    /\ future = NULL
PromisesAbsent ==
    /\ pc = Absent
    /\ cur = NULL /\ victim = NULL /\ wakers = NULL /\ resume = NULL
    /\ queue = NULL /\ buffer = NULL /\ remaining = NULL /\ allocated = NULL
    /\ finished = NULL /\ polling = NULL /\ asleep = {} /\ requests = NULL
    /\ scheduled = NULL /\ style = NULL /\ prog = NULL /\ promise = NULL
SeqAbsent ==
    /\ at = "absent"
    /\ shape = NULL /\ chain = NULL /\ total = NULL

SkynetInit ==
    \/ program = "async" /\ A!Init /\ PromisesAbsent /\ SeqAbsent
    \/ program = "promises" /\ PromisesInit /\ AsyncAbsent /\ SeqAbsent
    \/ program = "seq" /\ SQ!Init /\ AsyncAbsent /\ PromisesAbsent

AsyncStep == A!Next /\ UNCHANGED <<program, allVars, seqVars>>
PromisesStep == PromisesNext /\ UNCHANGED <<program, asyncVars, seqVars>>
SeqStep == SQ!Next /\ UNCHANGED <<program, asyncVars, allVars>>

SkynetNext == AsyncStep \/ PromisesStep \/ SeqStep

SkynetSpec ==
    /\ SkynetInit /\ [][SkynetNext]_skynetVars
    /\ A!Fairness /\ PromisesFairness /\ SQ!Fairness

----------------------------------------------------------------------------
\* Every variable of the program that runs keeps its type.
ProgramTypeOK ==
    CASE program = "async" -> A!TypeOK
      [] program = "promises" -> TypeOK
      [] program = "seq" -> SQ!TypeOK

\* Async's property, where only the root's frame holds futures, so that their
\* memory is not reused: the lock of a future is held by one worker at a time.
FutureLocks == program = "async" => A!FutureLocks

\* Async's property: a task that awaits is resumed after its future was
\* fulfilled.
AwaitedIsReady == program = "async" => A!AwaitedIsReady

\* Each program ends with the sum of the leaves.
TotalIsRight ==
    CASE program = "async" -> A!TotalIsRight
      [] program = "promises" -> PromisesTotal
      [] program = "seq" -> SQ!SeqTotal

\* The benchmark always ends: no task is left waiting for ever.
RunReturns ==
    <>(apc[0] = "done" \/ pc[0] = "done" \/ at = "done")
=============================================================================
