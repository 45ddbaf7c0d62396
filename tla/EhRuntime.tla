----------------------------- MODULE EhRuntime ------------------------------
(* libsupcxx/src/eh_throw.cc, eh_catch.cc, eh_terminate.cc and the end of    *)
(* eh_personality.cc: the C++ exception runtime.  It keeps a chain of caught *)
(* exceptions, threaded through headers that lie in front of the exception   *)
(* objects, and a count of the exceptions on their way to a handler.         *)
(*                                                                           *)
(* The program is the stack of the regions it is in (frames): the compiler   *)
(* emits calls of the runtime as regions are entered and left, normally or   *)
(* by an exception.  Whether a handler matches is left open.  The unwinder   *)
(* of libgcc is external: its first phase picks the frame that will handle   *)
(* the exception, its second phase unwinds to it.                            *)
EXTENDS Integers, Sequences, FiniteSets

CONSTANTS
  Primary,        \* the blocks __cxa_allocate_exception can return
  Foreign,        \* exceptions of another language's runtime
  NULL,           \* the null pointer
  MaxDepth,       \* bound on the nesting of regions
  MaxExcess,      \* bound on the rethrows of foreign exceptions: each leaves
                  \* uncaughtExceptions one too high for good
  NestedRethrow   \* may "throw;" name an exception that is already in flight:
                  \* in a destructor run because that exception was rethrown

ASSUME EhAssumption ==
  /\ NULL \notin Primary \cup Foreign
  /\ Primary \cap Foreign = {}
  /\ MaxDepth \in Nat /\ MaxExcess \in Nat
  /\ NestedRethrow \in BOOLEAN

VARIABLES
  frames,         \* the regions the program is in, innermost last
  fly,            \* the exception being unwound at this moment, or NULL
  dead,           \* "no", or why std::terminate was called
  rt,             \* the runtime: globals.caughtExceptions (caught),
                  \* globals.uncaughtExceptions (uncaught), the headers (hdr)
  clean           \* history: no exception got a block with an old handlerCount

vars == <<frames, fly, dead, rt, clean>>

Exc == Primary \cup Foreign

\* The regions: a try block; a catch block; a local object with a destructor;
\* that destructor, run because of exc; the constructor of the object of a
\* throw expression; a function with an exception specification; and in
\* __cxa_call_unexpected the call of the handler and the catch around it.
Kinds == {"try", "catch", "obj", "cleanup", "construct", "spec", "utry", "ucatch"}

Frame  == [kind : Kinds, exc : Exc \cup {NULL}]
Header == [state : {"free", "raw", "alive"}, count : Int,
           next : Exc \cup {NULL}, ref : Int, target : Nat]

IsGxx(x) == x \in Primary            \* __is_gxx_exception_class

Region(k, x) == [kind |-> k, exc |-> x]
Top == frames[Len(frames)]
Below == SubSeq(frames, 1, Len(frames) - 1)
Running == fly = NULL /\ dead = "no"
-----------------------------------------------------------------------------
(* __cxa_begin_catch, __cxa_end_catch, _Unwind_DeleteException: r is the     *)
(* state of the runtime, the result the state after the call.                *)

\* Mutant: a rethrown exception is counted as if it were caught afresh.
Recount_ForgetsSign(c) == c + 1

\* The handler count after one more handler caught the exception.
Recount(c) == IF c < 0 THEN -c + 1 ELSE c + 1

\* Mutant: an exception that heads the chain is pushed again.
BeginCatch_PushesAgain(r, x) ==
  IF ~IsGxx(x) THEN [r EXCEPT !.caught = x]
  ELSE [caught |-> x, uncaught |-> r.uncaught - 1,
        hdr |-> [r.hdr EXCEPT ![x].count = Recount(@), ![x].next = r.caught]]

\* Mutant: the exception stays counted as uncaught.
BeginCatch_StillUncaught(r, x) ==
  IF ~IsGxx(x) THEN [r EXCEPT !.caught = x]
  ELSE [caught |-> x, uncaught |-> r.uncaught,
        hdr |-> [r.hdr EXCEPT ![x].count = Recount(@),
                              ![x].next = IF x = r.caught THEN @ ELSE r.caught]]

BeginCatch(r, x) ==
  IF ~IsGxx(x) THEN [r EXCEPT !.caught = x]
  ELSE [caught |-> x, uncaught |-> r.uncaught - 1,
        hdr |-> [r.hdr EXCEPT ![x].count = Recount(@),
                              ![x].next = IF x = r.caught THEN @ ELSE r.caught]]

\* A foreign exception cannot be stacked: begin_catch itself terminates.
CannotStack(r, x) == ~IsGxx(x) /\ r.caught # NULL

\* __gxx_exception_cleanup.  The block goes back with its contents: nothing
\* clears the header.  The exceptionDestructor that runs before (eh_throw.cc:46)
\* is user code and left out: it finds the header off the chain.
Delete(h, x) == [h EXCEPT ![x].ref = @ - 1,
                          ![x].state = IF h[x].ref = 1 THEN "free" ELSE @]

\* Mutant: the object of a rethrown exception goes with its first handler.
EndCatch_IgnoresRethrow(r) ==
  IF r.caught = NULL THEN r
  ELSE IF ~IsGxx(r.caught)
    THEN [r EXCEPT !.caught = NULL, !.hdr = Delete(@, r.caught)]
  ELSE LET c == r.hdr[r.caught].count IN
    IF c \in {-1, 1}
      THEN [r EXCEPT !.caught = r.hdr[r.caught].next, !.hdr = Delete(@, r.caught)]
    ELSE [r EXCEPT !.hdr[r.caught].count = IF c < 0 THEN c + 1 ELSE c - 1]

\* Mutant: a rethrown exception stays on the chain when its last handler ends.
EndCatch_KeepsLink(r) ==
  IF r.caught = NULL THEN r
  ELSE IF ~IsGxx(r.caught)
    THEN [r EXCEPT !.caught = NULL, !.hdr = Delete(@, r.caught)]
  ELSE LET c == r.hdr[r.caught].count IN
    IF c = 1
      THEN [r EXCEPT !.caught = r.hdr[r.caught].next, !.hdr = Delete(@, r.caught)]
    ELSE [r EXCEPT !.hdr[r.caught].count = IF c < 0 THEN c + 1 ELSE c - 1]

EndCatch(r) ==
  IF r.caught = NULL THEN r
  ELSE IF ~IsGxx(r.caught)
    THEN [r EXCEPT !.caught = NULL, !.hdr = Delete(@, r.caught)]
  ELSE LET c == r.hdr[r.caught].count IN
    IF c = 1
      THEN [r EXCEPT !.caught = r.hdr[r.caught].next, !.hdr = Delete(@, r.caught)]
    ELSE [r EXCEPT !.hdr[r.caught].count = IF c < 0 THEN c + 1 ELSE c - 1,
                   !.caught = IF c = -1 THEN r.hdr[@].next ELSE @]

\* "A bug in the exception handling library or compiler": end_catch finds an
\* exception that no handler has caught, and terminates.
EndCatchBug(r) ==
  r.caught # NULL /\ IsGxx(r.caught) /\ r.hdr[r.caught].count = 0
-----------------------------------------------------------------------------
(* The unwinder and the landing pads it enters.                              *)

\* The frames the first phase may stop at; 0 stands for the end of the stack.
\* A destructor run by the unwinder lets nothing out, and the catch around the
\* unexpected handler takes everything: neither is passed.
Targets(fs) ==
  LET stops == {i \in 1..Len(fs) : fs[i].kind \in {"cleanup", "utry"}} \cup {0}
      last  == CHOOSE i \in stops : \A j \in stops : j <= i
  IN  {last} \cup {i \in last + 1 .. Len(fs) : fs[i].kind \in {"try", "spec"}}

Terminate(why) == dead' = why /\ fly' = NULL

\* _Unwind_RaiseException, with the frames fs and the runtime r: a handler is
\* found, or the call returns and the thrower does begin_catch and terminate.
Raise(x, fs, r) ==
  /\ frames' = fs
  /\ \E t \in Targets(fs) :
       IF t = 0
         THEN rt' = (IF CannotStack(r, x) THEN r ELSE BeginCatch(r, x))
              /\ Terminate("unhandled")
         ELSE rt' = [r EXCEPT !.hdr[x].target = t] /\ fly' = x /\ UNCHANGED dead

Unwinding == fly # NULL /\ dead = "no"
AtTarget  == Len(frames) = rt.hdr[fly].target

\* What the unwinder noted of its target has served its purpose.
Arrived == [rt EXCEPT !.hdr[fly].target = 0]

\* The second phase reached the handler: a catch block, the code for a violated
\* exception specification, or nothing at all for a destructor.
LandInHandler ==
  /\ Unwinding /\ AtTarget
  /\ Top.kind \in {"try", "utry"}
  /\ IF CannotStack(rt, fly)
       THEN Terminate("stacked foreign") /\ UNCHANGED <<frames, rt>>
       ELSE /\ rt' = BeginCatch(Arrived, fly)
            /\ frames' = Append(Below, Region(IF Top.kind = "try" THEN "catch"
                                              ELSE "ucatch", fly))
            /\ fly' = NULL /\ UNCHANGED dead
  /\ UNCHANGED clean

LandInSpec ==
  /\ Unwinding /\ AtTarget
  /\ Top.kind = "spec"
  /\ IF IsGxx(fly)
       THEN /\ rt' = BeginCatch(Arrived, fly)
            /\ frames' = Below \o <<Region("catch", fly), Region("utry", NULL)>>
            /\ fly' = NULL /\ UNCHANGED dead
       ELSE Terminate("unexpected") /\ UNCHANGED <<frames, rt>>
  /\ UNCHANGED clean

LandInDestructor ==
  /\ Unwinding /\ AtTarget
  /\ Top.kind = "cleanup"
  /\ rt' = IF IsGxx(fly) THEN BeginCatch(rt, fly) ELSE rt
  /\ Terminate("thrown by destructor")
  /\ UNCHANGED <<frames, clean>>

\* A frame above the handler is left: a catch block ends, a half constructed
\* exception is freed, the destructor of an object starts to run.
UnwindPast ==
  /\ Unwinding /\ ~AtTarget
  /\ \/ /\ Top.kind \in {"try", "spec"}
        /\ frames' = Below
        /\ UNCHANGED <<fly, dead, rt>>
     \/ /\ Top.kind \in {"catch", "ucatch"}
        /\ frames' = Below
        /\ rt' = EndCatch(rt)
        /\ IF EndCatchBug(rt) THEN Terminate("bug") ELSE UNCHANGED <<fly, dead>>
     \/ /\ Top.kind = "construct"
        /\ frames' = Below
        /\ rt' = [rt EXCEPT !.hdr[Top.exc].state = "free"]
        /\ UNCHANGED <<fly, dead>>
     \/ /\ Top.kind = "obj"
        /\ frames' = Append(Below, Region("cleanup", fly))
        /\ fly' = NULL
        /\ UNCHANGED <<dead, rt>>
  /\ UNCHANGED clean
-----------------------------------------------------------------------------
(* The program.                                                              *)

MayNest == Running /\ Len(frames) < MaxDepth
           /\ (frames # <<>> => Top.kind # "ucatch")

Enter ==
  /\ MayNest
  /\ \E k \in {"try", "obj", "spec"} : frames' = Append(frames, Region(k, NULL))
  /\ UNCHANGED <<fly, dead, rt, clean>>

\* The region ends normally (the destructor of an object is ordinary code then).
Leave ==
  /\ Running /\ frames # <<>>
  /\ Top.kind \in {"try", "obj", "spec"}
  /\ frames' = Below
  /\ UNCHANGED <<fly, dead, rt, clean>>

\* The end of a catch block.
LeaveHandler ==
  /\ Running /\ frames # <<>>
  /\ Top.kind = "catch"
  /\ frames' = Below
  /\ rt' = EndCatch(rt)
  /\ IF EndCatchBug(rt) THEN Terminate("bug") ELSE UNCHANGED <<fly, dead>>
  /\ UNCHANGED clean

\* The destructor is done: _Unwind_Resume goes on to the frame picked before.
Resume ==
  /\ Running /\ frames # <<>>
  /\ Top.kind = "cleanup"
  /\ frames' = Below
  /\ fly' = Top.exc
  /\ UNCHANGED <<dead, rt, clean>>

\* throw E, and the std::bad_exception() of __cxa_call_unexpected (in "ucatch"):
\* __cxa_allocate_exception, then the constructor of E's object.  The
\* count field holds what the last exception in the block left there, or 0 when
\* the memory is fresh or served another purpose since.
Allocate ==
  /\ Running
  /\ Len(frames) <= MaxDepth
  /\ \/ \E x \in Primary : \E old \in {rt.hdr[x].count, 0} :
          /\ rt.hdr[x].state = "free"
          /\ rt' = [rt EXCEPT !.hdr[x].state = "raw", !.hdr[x].count = old]
          /\ frames' = Append(frames, Region("construct", x))
          /\ clean' = (clean /\ old = 0)
          /\ UNCHANGED <<fly, dead>>
     \/ /\ \A x \in Primary : rt.hdr[x].state # "free"
        /\ Terminate("no memory")
        /\ UNCHANGED <<frames, rt, clean>>

\* __cxa_throw; __cxa_init_primary_exception leaves count and next alone.
Throw ==
  /\ Running /\ frames # <<>>
  /\ Top.kind = "construct"
  /\ LET x == Top.exc
         h == [rt.hdr EXCEPT ![x].state = "alive", ![x].ref = 1]
     IN  Raise(x, Below, [rt EXCEPT !.uncaught = @ + 1, !.hdr = h])
  /\ UNCHANGED clean

\* Another language's runtime raises an exception through C++ frames.
RaiseForeign ==
  /\ Running
  /\ frames # <<>> => Top.kind # "ucatch"
  /\ \E x \in Foreign :
       /\ rt.hdr[x].state = "free"
       /\ Raise(x, frames, [rt EXCEPT !.hdr[x].state = "alive", !.hdr[x].ref = 1])
  /\ UNCHANGED clean

InFlight(x) ==
  \/ fly = x
  \/ \E i \in 1..Len(frames) : frames[i] = Region("cleanup", x)

\* By how much uncaughtExceptions exceeds the C++ exceptions in flight.
Excess == rt.uncaught - Cardinality({x \in Primary : InFlight(x)})

\* Mutant: the count is not negated.
MarkRethrown_Forgotten(r) == r

\* Tell end_catch this is a rethrow.
MarkRethrown(r) ==
  IF IsGxx(r.caught) THEN [r EXCEPT !.hdr[r.caught].count = -@]
  ELSE [r EXCEPT !.caught = NULL]

\* throw; anywhere while a handler is active: __cxa_rethrow.
Rethrow ==
  /\ Running
  /\ rt.caught \in Foreign => Excess < MaxExcess
  /\ rt.caught # NULL => rt.hdr[rt.caught].count <= MaxDepth
  /\ InFlight(rt.caught) => NestedRethrow
  /\ LET r == [rt EXCEPT !.uncaught = @ + 1] IN
       IF rt.caught = NULL
         THEN rt' = r /\ Terminate("nothing to rethrow") /\ UNCHANGED frames
         ELSE Raise(rt.caught, frames, MarkRethrown(r))
  /\ UNCHANGED clean

\* The unexpected handler returned, or what it threw is not allowed either.
UnexpectedFails ==
  /\ Running /\ frames # <<>>
  /\ Top.kind \in {"utry", "ucatch"}
  /\ Terminate("unexpected")
  /\ UNCHANGED <<frames, rt, clean>>
-----------------------------------------------------------------------------
Init ==
  /\ frames = <<>> /\ fly = NULL /\ dead = "no" /\ clean = TRUE
  /\ rt = [caught |-> NULL, uncaught |-> 0,
           hdr |-> [x \in Exc |-> [state |-> "free", count |-> 0, next |-> NULL,
                                   ref |-> 0, target |-> 0]]]

Unwind == LandInHandler \/ LandInSpec \/ LandInDestructor \/ UnwindPast

Program == Enter \/ Leave \/ LeaveHandler \/ Resume \/ Allocate \/ Throw
           \/ RaiseForeign \/ Rethrow \/ UnexpectedFails

Next == Unwind \/ Program

Spec == Init /\ [][Next]_vars
-----------------------------------------------------------------------------
TypeOK ==
  /\ frames \in Seq(Frame)
  /\ fly \in Exc \cup {NULL}
  /\ dead \in {"no", "unhandled", "stacked foreign", "unexpected", "bug", "no memory",
               "thrown by destructor", "nothing to rethrow"}
  /\ rt \in [caught : Exc \cup {NULL}, uncaught : Nat, hdr : [Exc -> Header]]
  /\ clean \in BOOLEAN

HandlerFrames == {i \in 1..Len(frames) : frames[i].kind \in {"catch", "ucatch"}}
HandlersOf(x) == {i \in HandlerFrames : frames[i].exc = x}
CleanupsOf(x) == {i \in 1..Len(frames) : frames[i] = Region("cleanup", x)}

CountIsHandlers ==
  \A x \in Primary : rt.hdr[x].state = "alive" =>
    rt.hdr[x].count = IF InFlight(x) THEN -Cardinality(HandlersOf(x))
                      ELSE Cardinality(HandlersOf(x))

Last(S) == CHOOSE i \in S : \A j \in S : j <= i

ChainIsHandlers ==
  LET H == {i \in HandlerFrames : IsGxx(frames[i].exc)}
  IN  /\ IF H = {} THEN ~IsGxx(rt.caught) ELSE rt.caught = frames[Last(H)].exc
      /\ \A i \in H :
           LET x == frames[i].exc
               L == {j \in H : j < i}
           IN  IF L = {} THEN ~IsGxx(rt.hdr[x].next)
               ELSE frames[Last(L)].exc \in {x, rt.hdr[x].next}

LivesWhileNeeded ==
  \A x \in Primary : rt.hdr[x].state = "alive" <=> InFlight(x) \/ HandlersOf(x) # {}

\* handlerCount is the number of handlers that have caught the exception,
\* negated while it is rethrown (unwind-cxx.h:60-62): whatever throws, catches,
\* rethrows and destructors come between.
CountCorrect == TypeOK /\ (clean /\ dead = "no" => CountIsHandlers)

\* The chain from caughtExceptions lists the C++ exceptions that have a handler,
\* the innermost first, so that "throw;" and end_catch mean the right one; a
\* foreign exception can only be its last link (eh_catch.cc:60-80).
ChainCorrect == clean /\ dead = "no" => ChainIsHandlers

\* An exception object lives exactly as long as something needs it: it is on
\* its way to a handler or has one that has not ended (eh_catch.cc:108-121).
LifetimeCorrect == clean /\ dead = "no" => LivesWhileNeeded

\* eh_catch.cc:117, "Handling for this exception is complete. Destroy the
\* object.": no object outlives its last handler, in whatever memory it was put.
DestroyedWhenHandled ==
  dead = "no" =>
    \A x \in Primary : rt.hdr[x].state = "alive" => InFlight(x) \/ HandlersOf(x) # {}

\* uncaught_exception(): the count of uncaught exceptions follows the C++
\* exceptions in flight, one up with a throw or rethrow, one down when a handler
\* starts.  Only the rethrow of a foreign exception, which no handler takes back,
\* leaves it one higher.  With the counts of old exceptions an exception can be
\* destroyed in flight and its block be thrown again; three blocks suffice.
UncaughtFollowsFlights ==
  [][clean /\ dead' = "no" =>
       \/ Excess' = Excess
       \/ rt.caught \in Foreign /\ fly' = rt.caught /\ Excess' = Excess + 1]_vars

\* end_catch never finds an exception that no handler has caught, what it calls
\* "a bug in the exception handling library or compiler" (eh_catch.cc:122-124).
\* With the counts of old exceptions it can: three blocks suffice.
NeverABug == clean => dead # "bug"
=============================================================================
