------------------------------ MODULE SegStack ------------------------------
(***************************************************************************)
(* Segmented stacks: src/src/mem/seff_mem_segmented.c and .S, the stack    *)
(* part of src/src/seff.c and src/asm/seff.S, and the syscall wrappers of  *)
(* src/src/seff.h, on one thread.                                          *)
(*                                                                         *)
(* A coroutine's stack is a doubly linked list of segments.  The prologue  *)
(* of a function compares rsp with the stack top in %fs:0x70 and calls     *)
(* __morestack when its frame does not fit; __morestack enters the next    *)
(* segment and, after the function, goes back to the previous one.         *)
(*                                                                         *)
(* An address is a segment and an offset in bytes from the start of its    *)
(* data, which malloc and the size of the header align to 16.  Padding     *)
(* bytes of the header lie right below the data, and its fields below      *)
(* those.  The thread's own stack is segment NULL, whose stack top is 0:   *)
(* everything fits there.                                                  *)
(* Which coroutine is current, and which are captured with it, is the      *)
(* subject of module Seff: here chain is the chain that runs, outermost    *)
(* first, and captured[k] the one that resuming k brings back.             *)
(***************************************************************************)
EXTENDS Integers, Sequences, FiniteSets

CONSTANTS
    Coroutines,         \* addresses of seff_coroutine_t blocks
    Segments,           \* addresses of seff_stack_segment_t blocks
    NULL,
    Frames,             \* frame sizes of the functions called
    Params,             \* sizes of parameters passed on the stack
    InitialSize,        \* frame_size of seff_coroutine_init_sized
    MinSegment,         \* min_segment_size
    SyscallSegment,     \* syscall_segment_size
    SmallFrame,         \* frames below this size are not compared: 256
    Padding,            \* padding in a segment's header: 128
    RedZone,            \* bytes below rsp that belong to a function: 128
    MaxCalls            \* bound: calls in progress of a coroutine

\* Addresses and the pair that a switch saves and restores.
AddrT == [seg : Segments \cup {NULL}, off : Int]
ContextT == [rsp : AddrT, top : AddrT]

ASSUME SegStackAssumption ==
    /\ NULL \notin Coroutines \cup Segments \cup Nat \cup AddrT \cup ContextT
    /\ IsFiniteSet(Segments)
    /\ Frames \subseteq Nat
    /\ Params \subseteq Nat
    /\ InitialSize \in Nat /\ MinSegment \in Nat /\ SyscallSegment \in Nat
    /\ SmallFrame \in Nat /\ Padding \in Nat /\ RedZone \in Nat
    /\ MaxCalls \in Nat

VARIABLES
    state,      \* coroutine -> "none", or what the client may do with it
    frame_ptr,  \* coroutine -> frame_ptr
    rp,         \* coroutine -> resume_point: [rsp, top]
    captured,   \* coroutine -> the chain its resume point brings back
    calls,      \* coroutine -> its calls in progress
    size, prev, next,   \* segment -> fields; size is NULL when it is free
    chain,      \* the coroutines that run
    regs,       \* [rsp, top]: rsp and %fs:0x70
    wrapped     \* _seff_paused_coroutine_stack(_top), or NULL outside

coVars  == <<state, frame_ptr, rp, captured, calls>>
segVars == <<size, prev, next>>
vars == <<coVars, segVars, chain, regs, wrapped>>

Addr(s, off) == [seg |-> s, off |-> off]
System == [rsp |-> Addr(NULL, 0), top |-> Addr(NULL, 0)]

States == {"none", "paused", "running", "finished", "abandoned"}

TypeOK ==
    /\ state \in [Coroutines -> States]
    /\ frame_ptr \in [Coroutines -> Segments \cup {NULL}]
    /\ \A k \in Coroutines : state[k] # "none" => frame_ptr[k] # NULL
    /\ rp \in [Coroutines -> ContextT]
    /\ captured \in [Coroutines -> Seq(Coroutines)]
    /\ calls \in [Coroutines -> Seq([frame : Nat, back : AddrT \cup {NULL}])]
    /\ size \in [Segments -> Nat \cup {NULL}]
    /\ prev \in [Segments -> Segments \cup {NULL}]
    /\ next \in [Segments -> Segments \cup {NULL}]
    /\ chain \in Seq(Coroutines)
    /\ regs \in ContextT
    /\ wrapped \in ContextT \cup {NULL}

\* A thread after seff_mem_thread_init.
Init ==
    /\ state     = [k \in Coroutines |-> "none"]
    /\ frame_ptr = [k \in Coroutines |-> NULL]
    /\ rp        = [k \in Coroutines |-> System]
    /\ captured  = [k \in Coroutines |-> <<>>]
    /\ calls     = [k \in Coroutines |-> <<>>]
    /\ size      = [s \in Segments |-> NULL]
    /\ prev      = [s \in Segments |-> NULL]
    /\ next      = [s \in Segments |-> NULL]
    /\ chain     = <<>>
    /\ regs      = System
    /\ wrapped   = NULL

Me == IF chain = <<>> THEN NULL ELSE chain[Len(chain)]

\* The stack is aligned to 16 bytes.
Aligned(n) == n - (n % 16)

----------------------------------------------------------------------------
(* Creation and release.                                                   *)

\* seff_coroutine_init_sized, with 16 bytes for coroutine_prelude
New(k, s) ==
    /\ state[k] = "none" /\ size[s] = NULL
    /\ size' = [size EXCEPT ![s] = InitialSize + 16]
    /\ prev' = [prev EXCEPT ![s] = NULL]
    /\ next' = [next EXCEPT ![s] = NULL]
    /\ frame_ptr' = [frame_ptr EXCEPT ![k] = s]
    /\ rp' = [rp EXCEPT ![k] = [rsp |-> Addr(s, Aligned(InitialSize + 16)),
                                top |-> Addr(s, 0)]]
    /\ state'    = [state EXCEPT ![k] = "paused"]
    /\ captured' = [captured EXCEPT ![k] = <<k>>]
    /\ calls'    = [calls EXCEPT ![k] = <<>>]
    /\ UNCHANGED <<chain, regs, wrapped>>

\* n steps along a field, stopping at the last segment
Along(field, s, n) ==
    LET at[i \in 0..n] ==
            IF i = 0 THEN s
            ELSE IF field[at[i - 1]] = NULL THEN at[i - 1]
            ELSE field[at[i - 1]]
    IN  at[n]

\* The two loops of seff_coroutine_release: back to the first segment, then
\* free one after the other.
Released(k) ==
    LET N == Cardinality(Segments)
        first == Along(prev, frame_ptr[k], N)
    IN  {Along(next, first, n) : n \in 0..N}

\* seff_coroutine_delete.  What was captured with k will never run again.
Delete(k) ==
    /\ state[k] \in {"paused", "finished", "abandoned"}
    /\ LET inner == IF state[k] = "paused"
                    THEN {captured[k][i] : i \in 2..Len(captured[k])} ELSE {}
       IN  state' = [j \in Coroutines |->
                        IF j = k THEN "none"
                        ELSE IF j \in inner THEN "abandoned" ELSE state[j]]
    /\ size' = [s \in Segments |-> IF s \in Released(k) THEN NULL ELSE size[s]]
    /\ UNCHANGED <<frame_ptr, rp, captured, calls, prev, next, chain, regs,
                   wrapped>>

----------------------------------------------------------------------------
(* The switches.                                                           *)

Resume(k) ==
    /\ state[k] = "paused" /\ wrapped = NULL
    /\ rp' = [rp EXCEPT ![k] = regs]
    /\ regs' = rp[k]
    /\ chain' = chain \o captured[k]
    /\ state' = [state EXCEPT ![k] = "running"]
    /\ UNCHANGED <<frame_ptr, captured, calls, segVars, wrapped>>

\* seff_yield to the handler chain[i]
Yield(i) ==
    /\ wrapped = NULL
    /\ LET k == chain[i]
       IN  /\ rp' = [rp EXCEPT ![k] = regs]
           /\ regs' = rp[k]
           /\ captured' = [captured EXCEPT ![k] = SubSeq(chain, i, Len(chain))]
           /\ state' = [state EXCEPT ![k] = "paused"]
    /\ chain' = SubSeq(chain, 1, i - 1)
    /\ UNCHANGED <<frame_ptr, calls, segVars, wrapped>>

\* seff_exit to the handler chain[i], which takes frame_ptr as it stands; a
\* start function that returns exits its own coroutine.
Exit(i) ==
    /\ wrapped = NULL
    /\ regs' = rp[chain[i]]
    /\ state' = [k \in Coroutines |->
                    IF k = chain[i] THEN "finished"
                    ELSE IF \E j \in (i + 1)..Len(chain) : chain[j] = k
                    THEN "abandoned" ELSE state[k]]
    /\ chain' = SubSeq(chain, 1, i - 1)
    /\ UNCHANGED <<frame_ptr, rp, captured, calls, segVars, wrapped>>

----------------------------------------------------------------------------
(* Calls.                                                                  *)

PushCall(frame, back) ==
    calls' = [calls EXCEPT ![Me] = Append(@, [frame |-> frame, back |-> back])]

CanCall == Me # NULL /\ wrapped = NULL /\ Len(calls[Me]) < MaxCalls

\* What a function asks for, one that calls code without prologues (nonsplit)
\* for that code too.
Need(frame, nonsplit) == IF nonsplit THEN frame + SyscallSegment ELSE frame

\* A prologue runs with the return address pushed.  clang's compares rsp as it
\* is when the frame is small, and is strict; that of a nonsplit function goes
\* to __morestack_non_split, which its call has pushed another address for.
Fits(frame, nonsplit) ==
    /\ regs.rsp.seg = regs.top.seg
    /\ \/ nonsplit /\ regs.rsp.off - 16 - Need(frame, TRUE) >= regs.top.off
       \/ /\ ~nonsplit
          /\ regs.rsp.off - 8 - (IF frame < SmallFrame THEN 0 ELSE frame)
                > regs.top.off

\* The function runs where it is.
CallInPlace(frame, nonsplit) ==
    /\ CanCall
    /\ Fits(frame, nonsplit)
    /\ regs' = [regs EXCEPT !.rsp.off = @ - 8 - frame]
    /\ PushCall(frame, NULL)
    /\ UNCHANGED <<state, frame_ptr, rp, captured, segVars, chain, wrapped>>

\* Mutation: the parameters are left out of the comparison.
NextFitsFrame(s, need, params) == next[s] # NULL /\ size[next[s]] >= need

NextFits(s, need, params) == next[s] # NULL /\ size[next[s]] >= need + params

\* Mutation: the rest of the list is not linked behind the new segment.
EnterNewUnlinked(s, n) ==
    /\ size[n] = NULL
    /\ prev' = [prev EXCEPT ![n] = s]
    /\ next' = [next EXCEPT ![s] = n, ![n] = NULL]

\* init_segment and LINK, at the end of the list or between two segments
EnterNew(s, n) ==
    /\ size[n] = NULL
    /\ prev' = [m \in Segments |-> IF m = n THEN s
                                   ELSE IF m = next[s] THEN n ELSE prev[m]]
    /\ next' = [next EXCEPT ![s] = n, ![n] = next[s]]

\* seff_mem_allocate_frame and the way into the new frame: aligning the stack
\* moves the stack top, which __morestack derives from it, with it.
Enter(frame, params, n) ==
    LET newSize == size'[n]
        stack   == Aligned(newSize - params)
    IN  /\ frame_ptr' = [frame_ptr EXCEPT ![Me] = n]
        /\ regs' = [rsp |-> Addr(n, stack - 8 - frame),
                    top |-> Addr(n, stack - (newSize - params))]
        /\ PushCall(frame, regs.rsp)
        /\ UNCHANGED <<state, rp, captured, chain, wrapped>>

\* __morestack
CallMoreStack(frame, nonsplit, params) ==
    /\ CanCall
    /\ ~Fits(frame, nonsplit)
    /\ LET s == frame_ptr[Me]
           need == Need(frame, nonsplit)
       IN  \/ /\ NextFits(s, need, params)
              /\ UNCHANGED segVars
              /\ Enter(frame, params, next[s])
           \/ /\ ~NextFits(s, need, params)
              /\ \E n \in Segments :
                    /\ EnterNew(s, n)
                    /\ size' = [size EXCEPT ![n] =
                                   IF need + params < MinSegment
                                   THEN MinSegment ELSE need + params]
                    /\ Enter(frame, params, n)

Call ==
    \E frame \in Frames, params \in Params, nonsplit \in BOOLEAN :
        CallInPlace(frame, nonsplit) \/ CallMoreStack(frame, nonsplit, params)

LastCall == calls[Me][Len(calls[Me])]

\* Mutation: the stack top of the segment that was left stays.
ReleasedTopKept == regs.top

\* seff_mem_release_frame: whatever the stack top was there before, it is now
\* the start of the segment.
ReleasedTop == Addr(prev[frame_ptr[Me]], 0)

\* Mutation: a function called in place returns through __morestack too.
CallReturnsReleasing ==
    /\ Me # NULL /\ wrapped = NULL /\ calls[Me] # <<>>
    /\ calls' = [calls EXCEPT ![Me] = SubSeq(@, 1, Len(@) - 1)]
    /\ regs' = [rsp |-> LastCall.back, top |-> ReleasedTop]
    /\ frame_ptr' = [frame_ptr EXCEPT ![Me] = prev[@]]
    /\ UNCHANGED <<state, rp, captured, segVars, chain, wrapped>>

CallReturns ==
    /\ Me # NULL /\ wrapped = NULL /\ calls[Me] # <<>>
    /\ calls' = [calls EXCEPT ![Me] = SubSeq(@, 1, Len(@) - 1)]
    /\ IF LastCall.back = NULL
       THEN /\ regs' = [regs EXCEPT !.rsp.off = @ + LastCall.frame + 8]
            /\ UNCHANGED frame_ptr
       ELSE /\ regs' = [rsp |-> LastCall.back, top |-> ReleasedTop]
            /\ frame_ptr' = [frame_ptr EXCEPT ![Me] = prev[@]]
    /\ UNCHANGED <<state, rp, captured, segVars, chain, wrapped>>

----------------------------------------------------------------------------
(* MAKE_SYSCALL_WRAPPER: on a coroutine, the call runs on the system stack *)
(* with a stack top of 0.                                                  *)

EnterWrapper ==
    /\ Me # NULL /\ wrapped = NULL
    /\ wrapped' = regs
    /\ regs' = System
    /\ UNCHANGED <<coVars, segVars, chain>>

LeaveWrapper ==
    /\ wrapped # NULL
    /\ regs' = wrapped
    /\ wrapped' = NULL
    /\ UNCHANGED <<coVars, segVars, chain>>

Next ==
    \/ \E k \in Coroutines, s \in Segments : New(k, s)
    \/ \E k \in Coroutines : Delete(k) \/ Resume(k)
    \/ \E i \in DOMAIN chain : Yield(i) \/ Exit(i)
    \/ Call \/ CallReturns \/ EnterWrapper \/ LeaveWrapper

Spec == Init /\ [][Next]_vars

----------------------------------------------------------------------------
(* Properties.                                                             *)

\* The coroutine whose stack a context belongs to has frame_ptr at the
\* segment that rsp and the stack top are in.
ContextOf(c, k) ==
    /\ c.rsp.seg = IF k = NULL THEN NULL ELSE frame_ptr[k]
    /\ c.top.seg = c.rsp.seg

\* The segment in use, the stack top and rsp move together: in the context
\* that runs, in the one each coroutine of a chain will go back to when the
\* one it resumed yields or exits, and in the one a paused coroutine will go
\* on with.  Else a prologue would compare addresses of different segments,
\* and __morestack would grow the stack from the wrong one.
StackTopIsOfSegmentInUse ==
    LET BehindEach(c) ==
            \A i \in DOMAIN c : i > 1 => ContextOf(rp[c[i]], c[i - 1])
    IN  /\ ContextOf(IF wrapped = NULL THEN regs ELSE wrapped, Me)
        /\ chain # <<>> => ContextOf(rp[chain[1]], NULL)
        /\ BehindEach(chain)
        /\ \A k \in Coroutines :
              state[k] = "paused" =>
                  /\ ContextOf(rp[k], captured[k][Len(captured[k])])
                  /\ BehindEach(captured[k])

\* The contexts that run or will go on.
LiveContexts ==
    {regs} \cup
    {rp[k] : k \in {j \in Coroutines : state[j] \in {"paused", "running"}}}

Reaches(depth) == \A c \in LiveContexts : c.rsp.seg # NULL => c.rsp.off >= -depth

\* A function that __morestack enters starts a return address below a stack
\* that was aligned down by up to 15 bytes, so that its frame ends up to 23
\* below the data; a small frame is not compared at all, and the stack top may
\* be 15 bytes low.
Overhang == SmallFrame + 23

\* However calls, alignment, reused segments and switches add up, no frame
\* reaches further below the data of its segment ("in theory this could cause
\* problems because it means the stack frame will have LESS available space
\* than advertised").
FramesFit == Reaches(Overhang)

\* "Padding to allow __morestack to run and to host the red zone mandated by
\* the x64 ABI": the red zone of a function stays off the header's fields.
RedZoneFits == Reaches(Padding - RedZone)

Existing == {k \in Coroutines : state[k] # "none"}

\* The segments that exist are those that deleting the coroutines would free,
\* each with one of them: growing, returning and growing again differently,
\* exiting from the middle of calls, loses none and shares none.
SegmentsAccountedFor ==
    /\ {s \in Segments : size[s] # NULL} =
          UNION {Released(k) : k \in Existing}
    /\ \A j \in Existing : \A k \in Existing \ {j} :
          Released(j) \cap Released(k) = {}
=============================================================================
