----------------------------- MODULE Allocation -----------------------------
(* libruncxx/eh_alloc.cc with the operators new and delete and set_new_handler *)
(* of libsupcxx/src: everything in the runtime that calls malloc and free.   *)
(* Of these two only the contract is used, module Allocator, which may refuse *)
(* any request; module Heap implements it.                                   *)
(*                                                                           *)
(* The program is the stack of its calls: user code (main, or the installed  *)
(* new_handler), an operator new in its loop, a throw expression.  Of the    *)
(* exception runtime there is what decides when an exception is freed: the   *)
(* chain of caught exceptions, and in each header a handlerCount that nobody *)
(* clears when the memory is used again.  User code does not rethrow here;   *)
(* module EhRuntime has that, and the rest.                                  *)
EXTENDS Integers, Sequences, FiniteSets, Functions

CONSTANTS
  Arena, ALIGN,   \* the memory of the allocator, see module Allocator
  Sizes,          \* what user code asks new for
  HEADER,         \* sizeof(__cxa_refcounted_exception)
  BAD_ALLOC,      \* sizeof(std::bad_alloc)
  Thrown,         \* the sizes of the other exception objects
  OBJ_SIZE, NUM_OBJS,     \* of the emergency pool: 1024 and 8 in the code
  Garbage,        \* what malloc's memory may hold where no exception was before
  MaxCalls,       \* bound on the depth of the stack
  MaxExceptions   \* bound on the exceptions user code throws on top of others

ASSUME AllocationAssumption ==
  /\ Sizes \subseteq Nat /\ Thrown \subseteq Nat
  /\ {HEADER, BAD_ALLOC, ALIGN} \subseteq Nat \ {0}
  /\ OBJ_SIZE \in Nat /\ NUM_OBJS \in Nat /\ Arena \subseteq Nat
  /\ Garbage \subseteq Int
  /\ MaxCalls \in Nat /\ MaxExceptions \in Nat

VARIABLES
  live, ret,      \* the allocator's: its live blocks, the last result of malloc
  pool,           \* emergencyAllocated
  count,          \* the handlerCount of each header, in memory in use or not
  chain,          \* globals.caughtExceptions and what it links, its head last
  handler,        \* is a new_handler installed?
  calls,          \* the stack of calls, innermost last
  handlers,       \* the exceptions of the active handlers, innermost last
  mine,           \* the blocks that user code got from new
  fly,            \* the exception that is being unwound, with its target
  dead,           \* "no", or why std::terminate was called
  clean           \* history: each header began with a handlerCount of 0

memory  == <<live, ret, pool>>
runtime == <<count, chain>>
vars == <<memory, runtime, handler, calls, handlers, mine, fly, dead, clean>>

Allocs == (Sizes \ {0}) \cup {1} \cup {HEADER + s : s \in Thrown \cup {BAD_ALLOC}}
A == INSTANCE Allocator WITH Requests <- Allocs

Slots == 1..NUM_OBJS
Block == [ptr : Arena, size : Allocs]

\* An exception object with its header: in a block of the heap or in a slot of
\* the pool.
InBlock(b, bad) == [in |-> "heap", block |-> b, slot |-> 0, bad |-> bad]
InSlot(i, bad)  == [in |-> "pool", block |-> [ptr |-> 0, size |-> 0], slot |-> i, bad |-> bad]
NoFlight == [to |-> 0, exc |-> <<>>]

\* Where a header may be, and where that of e is.
Places == (Arena \X {0}) \cup ({0} \X Slots)
At(e)  == <<e.block.ptr, e.slot>>

\* User code, operator new, and the evaluation of a throw expression.  A call
\* knows how many handlers were active when it began; the others are its own.
User == [run |-> "user", base |-> Len(handlers), size |-> 0, flag |-> FALSE]
New(n, nothrow)  == [run |-> "new", base |-> Len(handlers), size |-> n, flag |-> nothrow]
Throwing(n, bad) == [run |-> "throw", base |-> Len(handlers), size |-> n, flag |-> bad]

Top     == calls[Len(calls)]
Below   == SubSeq(calls, 1, Len(calls) - 1)
Running == dead = "no" /\ fly = NoFlight
InUser  == Running /\ Top.run = "user"
Handles == Len(handlers) > Top.base

Last(s)  == s[Len(s)]
Front(s) == SubSeq(s, 1, Len(s) - 1)

\* The exceptions that the program still needs, and those that have memory.
InUse == Range(handlers) \cup Range(fly.exc)
Kept  == Range(chain) \cup Range(fly.exc)

Terminate(why) == dead' = why /\ fly' = NoFlight
-----------------------------------------------------------------------------
Init ==
  /\ A!Init
  /\ pool = [i \in Slots |-> FALSE]
  /\ count = [p \in Places |-> 0] /\ chain = <<>>
  /\ handler = FALSE
  /\ handlers = <<>> /\ calls = <<User>>
  /\ mine = {} /\ fly = NoFlight /\ dead = "no" /\ clean = TRUE

(* User code: main or the new_handler.                                       *)

\* "malloc (0) is unpredictable; avoid it."
NewSize(n) == IF n = 0 THEN 1 ELSE n

\* operator new, operator new[], and the nothrow forms of both.
CallNew ==
  /\ InUser /\ Len(calls) < MaxCalls
  /\ \E n \in Sizes, nothrow \in BOOLEAN :
       calls' = Append(calls, New(NewSize(n), nothrow))
  /\ UNCHANGED <<memory, runtime, handler, handlers, mine, fly, dead, clean>>

\* free; what it does to the heap with a pointer that malloc did not return, or
\* that was freed before, is anybody's guess.
Free(b) == IF b \in live THEN A!Release(b) ELSE live' \in SUBSET live /\ UNCHANGED ret

\* The operators delete.
Delete ==
  /\ InUser
  /\ \E b \in mine : Free(b) /\ mine' = mine \ {b}
  /\ UNCHANGED <<pool, runtime, handler, calls, handlers, fly, dead, clean>>

SetNewHandler ==
  /\ InUser
  /\ handler' = ~handler
  /\ UNCHANGED <<memory, runtime, calls, handlers, mine, fly, dead, clean>>

\* throw, of a bad_alloc or of anything else.
CallThrow ==
  /\ InUser /\ Cardinality(InUse) < MaxExceptions
  /\ \/ calls' = Append(calls, Throwing(HEADER + BAD_ALLOC, TRUE))
     \/ \E n \in Thrown : calls' = Append(calls, Throwing(HEADER + n, FALSE))
  /\ UNCHANGED <<memory, runtime, handler, handlers, mine, fly, dead, clean>>

\* The new_handler returns to the loop of operator new.
HandlerReturns ==
  /\ InUser /\ Len(calls) > 1 /\ ~Handles
  /\ calls' = Below
  /\ UNCHANGED <<memory, runtime, handler, handlers, mine, fly, dead, clean>>
-----------------------------------------------------------------------------
(* operator new                                                              *)

NewSucceeds ==
  /\ Running /\ Top.run = "new"
  /\ A!Grant(Top.size)
  /\ mine' = mine \cup (live' \ live)
  /\ calls' = Below
  /\ UNCHANGED <<pool, runtime, handler, handlers, fly, dead, clean>>

\* The stack after malloc refused a request of operator new: the handler is
\* called, or a bad_alloc thrown, or a null pointer returned.
AfterRefusal(cs) ==
  IF handler THEN Append(cs, User)
  ELSE IF cs[Len(cs)].flag THEN SubSeq(cs, 1, Len(cs) - 1)
  ELSE Append(cs, Throwing(HEADER + BAD_ALLOC, TRUE))

NewRefused ==
  /\ Running /\ Top.run = "new"
  /\ handler => Len(calls) < MaxCalls
  /\ A!Refuse
  /\ calls' = AfterRefusal(calls)
  /\ UNCHANGED <<pool, runtime, handler, handlers, mine, fly, dead, clean>>
-----------------------------------------------------------------------------
(* Exceptions                                                                *)

\* The nothrow forms of new let nothing out: the innermost one, or 0.
Barrier ==
  LET B == {i \in DOMAIN calls : calls[i].run = "new" /\ calls[i].flag}
  IN  IF B = {} THEN 0 ELSE CHOOSE i \in B : \A j \in B : j <= i

\* The calls that may catch an exception; 0 for none, which means terminate.
Targets(bad) ==
  {i \in DOMAIN calls : i > Barrier /\ calls[i].run = "user"}
    \cup {IF bad THEN Barrier ELSE 0}

\* The thrower has its memory, with the old handlerCount in it, which nothing
\* in eh_throw.cc sets; the throw expression is finished.
Raise(e, old) ==
  /\ count' = [count EXCEPT ![At(e)] = old]
  /\ clean' = (clean /\ old = 0)
  /\ calls' = Below
  /\ \E t \in Targets(e.bad) :
       IF t = 0 THEN dead' = "uncaught" /\ fly' = [to |-> 0, exc |-> <<e>>]
       ELSE fly' = [to |-> t, exc |-> <<e>>] /\ UNCHANGED dead

MarkSlot(p, i) == [p EXCEPT ![i] = TRUE]

\* Mutant: the whole pool is given up when one slot is in use.
FirstFree_OnlyFirst(i) == i = 1 /\ ~pool[i]

FirstFree(i) == ~pool[i] /\ \A j \in 1..i - 1 : pool[j]

FitsPool(n) == n <= OBJ_SIZE

\* __cxa_allocate_exception and __cxa_throw.  A block of the heap holds what the
\* last exception there left, or something else.
ThrowFromHeap ==
  /\ Running /\ Top.run = "throw"
  /\ A!Grant(Top.size)
  /\ \E b \in live' \ live :
       LET e == InBlock(b, Top.flag)
       IN  \E old \in {count[At(e)]} \cup Garbage : Raise(e, old)
  /\ UNCHANGED <<pool, chain, handler, handlers, mine>>

\* The pool serves nothing else; it is zero until it is used.
ThrowFromPool ==
  /\ Running /\ Top.run = "throw"
  /\ A!Refuse
  /\ FitsPool(Top.size)
  /\ \E i \in Slots : LET e == InSlot(i, Top.flag)
                      IN  /\ FirstFree(i)
                          /\ pool' = MarkSlot(pool, i)
                          /\ Raise(e, count[At(e)])
  /\ UNCHANGED <<chain, handler, handlers, mine>>

ThrowFails ==
  /\ Running /\ Top.run = "throw"
  /\ A!Refuse
  /\ ~FitsPool(Top.size) \/ \A i \in Slots : ~FirstFree(i)
  /\ Terminate(IF FitsPool(Top.size) THEN "pool empty" ELSE "no memory")
  /\ UNCHANGED <<pool, runtime, handler, calls, handlers, mine, clean>>

\* Mutant: the slot stays marked.
ClearSlot_Forgotten(p, e) == p

ClearSlot(p, e) == IF e.in = "pool" THEN [p EXCEPT ![e.slot] = FALSE] ELSE p

\* Mutant: what lies in the pool is given to free as well.
GivesBack_Always(e) == TRUE

\* The memory of e came from malloc and goes back with free.
GivesBack(e) == e.in = "heap"

\* __cxa_free_exception
FreeException(e) ==
  /\ IF GivesBack(e) THEN Free(e.block) ELSE UNCHANGED <<live, ret>>
  /\ pool' = ClearSlot(pool, e)

\* The handler count after one more handler caught the exception.
Recount(c) == IF c < 0 THEN -c + 1 ELSE c + 1

\* __cxa_begin_catch: the counts with e caught once more.  The chain gets e as
\* its new head, since an exception that is not rethrown is not in it yet.
Begun(e) == [count EXCEPT ![At(e)] = Recount(@)]

\* Mutant: the count is looked at before it is decremented.
IsHandled_Late(c) == c = 0

\* This end_catch is the last one for an exception with this count.
IsHandled(c) == c = 1

\* __cxa_end_catch with this chain and these counts: it always takes the head of
\* the chain.  A handler is active, so there is one.  The count of an exception
\* that is freed stays in its memory: eh_catch.cc:120 returns before storing 0.
CxaEndCatch(ch, ct) ==
  IF IsHandled(ct[At(Last(ch))])
    THEN chain' = Front(ch) /\ count' = ct /\ FreeException(Last(ch))
    ELSE /\ chain' = ch /\ count' = [ct EXCEPT ![At(Last(ch))] = @ - 1]
         /\ UNCHANGED memory

\* The innermost handler of user code is done with its exception.
EndCatch ==
  /\ InUser /\ Handles
  /\ CxaEndCatch(chain, count)
  /\ handlers' = Front(handlers)
  /\ UNCHANGED <<handler, calls, mine, fly, dead, clean>>

Unwinding == dead = "no" /\ fly # NoFlight

\* A call above the target is left, its handlers first; and handlers of the
\* target when the try block that catches is outside of them.
UnwindPast ==
  /\ Unwinding
  /\ Len(calls) > fly.to \/ Handles
  /\ IF Handles
       THEN CxaEndCatch(chain, count) /\ handlers' = Front(handlers) /\ UNCHANGED calls
       ELSE calls' = Below /\ UNCHANGED <<memory, runtime, handlers>>
  /\ UNCHANGED <<handler, mine, fly, dead, clean>>

\* A handler of user code takes the exception, ...
Land ==
  /\ Unwinding /\ Len(calls) = fly.to /\ Top.run = "user"
  /\ chain' = chain \o fly.exc /\ count' = Begun(fly.exc[1])
  /\ handlers' = handlers \o fly.exc
  /\ fly' = NoFlight
  /\ UNCHANGED <<memory, handler, calls, mine, dead, clean>>

\* ... or the handler of the nothrow form, which returns a null pointer.
LandInNothrow ==
  /\ Unwinding /\ Len(calls) = fly.to /\ Top.run = "new"
  /\ CxaEndCatch(chain \o fly.exc, Begun(fly.exc[1]))
  /\ calls' = Below
  /\ fly' = NoFlight
  /\ UNCHANGED <<handler, handlers, mine, dead, clean>>

Next ==
  \/ CallNew \/ Delete \/ SetNewHandler \/ CallThrow \/ HandlerReturns
  \/ NewSucceeds \/ NewRefused
  \/ ThrowFromHeap \/ ThrowFromPool \/ ThrowFails \/ EndCatch
  \/ UnwindPast \/ Land \/ LandInNothrow

Spec == Init /\ [][Next]_vars
-----------------------------------------------------------------------------
(* Properties                                                                *)

Exception == {InBlock(b, bad) : b \in Block, bad \in BOOLEAN}
               \cup {InSlot(i, bad) : i \in Slots, bad \in BOOLEAN}

\* The type of the state; in particular malloc is never asked for 0 bytes.
TypeOK ==
  /\ live \subseteq Block /\ ret \in Arena \cup {0} /\ mine \subseteq Block
  /\ pool \in [Slots -> BOOLEAN] /\ handler \in BOOLEAN /\ clean \in BOOLEAN
  /\ count \in [Places -> Int]
  /\ \A i \in DOMAIN calls :
       /\ calls[i].run \in {"user", "new", "throw"}
       /\ calls[i].size \in IF calls[i].run = "user" THEN {0} ELSE Allocs
       /\ calls[i].base \in 0..Len(handlers)
  /\ Range(chain) \cup InUse \subseteq Exception
  /\ fly.to \in 0..Len(calls)
  /\ dead \in {"no", "uncaught", "pool empty", "no memory"}

NoRepeats(s) == \A i, j \in DOMAIN s : s[i] = s[j] => i = j
InPool(X)    == {e \in X : e.in = "pool"}
BlocksOf(X)  == {e.block : e \in X \ InPool(X)}
SlotsOf(X)   == {e.slot : e \in InPool(X)}

\* Whatever fails, is thrown or unwound past, and whatever count a header began
\* with: every block that malloc handed out has one owner, the program or an
\* exception that the runtime has on its chain or in flight, every marked slot
\* of the pool holds one such exception, and an exception whose handler is
\* active is among them: its memory is not freed under the handler, although
\* end_catch may take another exception for it (eh_alloc.cc, eh_catch.cc:107).
OneOwner ==
  /\ TypeOK
  /\ live = mine \cup BlocksOf(Kept)
  /\ \A e \in Kept : e.block \notin mine
  /\ \A e, f \in Kept : e # f => e.block # f.block \/ e.slot # f.slot
  /\ {i \in Slots : pool[i]} = SlotsOf(Kept)
  /\ Range(handlers) \subseteq Range(chain)
  /\ Range(fly.exc) \cap Range(chain) = {}
  /\ NoRepeats(chain) /\ NoRepeats(handlers)

\* eh_catch.cc:117, "Handling for this exception is complete": as long as every
\* header began with a count of 0, nothing leaks, whatever is thrown, caught and
\* unwound past: blocks and slots belong to the program, to active handlers or
\* to the exception in flight.  With old counts it does leak (PoolHasRoom).
NothingLeaks ==
  clean => /\ live = mine \cup BlocksOf(InUse)
           /\ {i \in Slots : pool[i]} = SlotsOf(InUse)

\* A throw of what fits a slot ends the program for want of memory only when all
\* NUM_OBJS slots hold exceptions of the runtime, and, if every header began with
\* a count of 0, exceptions that have not been handled yet (eh_alloc.cc:53-64).
PoolServes ==
  dead = "pool empty" =>
    /\ Cardinality(InPool(Kept)) = NUM_OBJS
    /\ clean => Cardinality(InPool(InUse)) = NUM_OBJS

\* eh_alloc.cc:32, "We therefore stash some memory so that we always have enough
\* to at least throw std::bad_alloc": whatever was thrown before, a throw of what
\* fits a slot fails only while all slots hold exceptions not handled yet.  The
\* code does not do this: a slot is lost when its second exception is handled,
\* so no run checks it.
PoolHasRoom ==
  dead = "pool empty" => Cardinality(InPool(InUse)) = NUM_OBJS

\* The calls of malloc and free from eh_alloc.cc, new_op.cc and the others stay
\* within the contract of the allocator: every free is of a live block.
AllocatorSpec == A!Spec
=============================================================================
