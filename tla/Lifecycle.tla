----------------------------- MODULE Lifecycle ------------------------------
(* libruncxx/guard.cc, dtors.cc and exit.cc, driven by the start-up code of  *)
(* boot/*/crt0.S: the life of the objects with static storage duration.      *)
(*                                                                           *)
(* The program is the stack of the functions it is in.  User code (main, a   *)
(* constructor, a destructor, a function given to atexit) may at any moment  *)
(* reach the declaration of a local static, throw, exit or return.  What the *)
(* compiler emits around these (calls of the guards, of __cxa_atexit after a *)
(* construction, of __cxa_guard_abort in a landing pad) is external.         *)
EXTENDS Integers, Sequences, FiniteSets

CONSTANTS
  Globals,       \* the sequence of the global objects, in the order of .ctors
  Statics,       \* the local statics
  Functions,     \* functions the program passes to atexit
  MaxDtors       \* GLIBCXX_NUM_GLOBAL_DTORS, 100 in the code

GlobalSet == {Globals[i] : i \in 1..Len(Globals)}
Objects   == GlobalSet \cup Statics

ASSUME LifecycleAssumption ==
  /\ Globals \in Seq(GlobalSet)
  /\ \A i, j \in 1..Len(Globals) : Globals[i] = Globals[j] => i = j
  /\ GlobalSet \cap Statics = {} /\ Objects \cap Functions = {}
  /\ MaxDtors \in Nat

VARIABLES
  stack,    \* the activations, innermost last
  guard,    \* of each local static: done (bit 0x01), pending (bit 0x0100)
  dtors,    \* the table dtors[0 .. numDtors-1], as a sequence
  obj,      \* the state of each object
  halted,   \* "no", or how the system stopped
  built     \* history: the objects constructed, in the order of completion,
            \* each with what became of its destructor

vars == <<stack, guard, dtors, obj, halted, built>>

\* _init at the n-th global object; __cxa_finalize(nullptr) at index n, called
\* by _fini (of = "fini") or by exit(); user code.
Activation ==
  [run : {"init"}, of : {"start"}, n : 1..Len(Globals) + 1]
    \cup [run : {"finalize"}, of : {"fini", "exit"}, n : 0..MaxDtors]
    \cup [run : {"main"}, of : {"start"}, n : {0}]
    \cup [run : {"ctor"}, of : Objects, n : {0}]
    \cup [run : {"dtor"}, of : Objects \cup Functions, n : {0}]

Act(run, of, n) == [run |-> run, of |-> of, n |-> n]
Top == stack[Len(stack)]
IsUser(a) == a.run \in {"main", "ctor", "dtor"}
InUserCode == halted = "no" /\ IsUser(Top)
Finalizing == \E i \in DOMAIN stack : stack[i].run = "finalize"
Building(x) == \E i \in DOMAIN stack : stack[i] = Act("ctor", x, 0)

Push(a)    == stack' = Append(stack, a)
Pop        == SubSeq(stack, 1, Len(stack) - 1)
Replace(a) == stack' = Append(Pop, a)
-----------------------------------------------------------------------------
(* The guards of the local statics.                                          *)

\* Mutant: a second caller is let in while the first one is initialising.
Acquires_Recursively(g) == ~g.done

\* Mutant: an initialised object is initialised again.
Acquires_Again(g) == ~g.pending \/ g.done

\* __cxa_guard_acquire returns 1 ...
Acquires(g) == ~g.done /\ ~g.pending

\* ... or throws recursive_init_error.
Recurses(g) == ~g.done /\ g.pending

\* __cxa_guard_acquire sets the second byte, __cxa_guard_release the first.
\* Nothing clears either: __cxa_guard_abort has no body.
Acquired(g) == [g EXCEPT !.pending = TRUE]
Released(g) == [g EXCEPT !.done = TRUE]
Aborted(g)  == g
-----------------------------------------------------------------------------
(* The table of destructors.                                                 *)

\* Mutant: a new entry goes to the front.
Register_Front(t, d) == IF Len(t) = MaxDtors THEN t ELSE <<d>> \o t

\* __cxa_atexit.  The callers ignore its result: what does not fit is lost.
Register(t, d) == IF Len(t) = MaxDtors THEN t ELSE Append(t, d)

\* What becomes of a destructor that is registered now.
Fate == IF Len(dtors) = MaxDtors THEN "dropped"
        ELSE IF Finalizing THEN "late" ELSE "kept"

\* Mutant: the loop stops before the first entry.
NextIndex_StopsEarly(i) == IF i = 2 THEN 0 ELSE i - 1

\* Mutant: the loop does not advance.
NextIndex_Stuck(i) == i

\* The index of the loop of __cxa_finalize(nullptr), counted from 1 here:
\* 0 ends the loop.
NextIndex(i) == i - 1
-----------------------------------------------------------------------------
Init ==
  /\ stack = <<Act("init", "start", 1)>>
  /\ guard = [x \in Statics |-> [done |-> FALSE, pending |-> FALSE]]
  /\ dtors = <<>>
  /\ obj = [x \in Objects |-> "none"]
  /\ halted = "no"
  /\ built = <<>>

\* _init calls the constructor of the next global object, ...
ConstructGlobal ==
  /\ halted = "no" /\ Top.run = "init" /\ Top.n <= Len(Globals)
  /\ LET x == Globals[Top.n] IN
       /\ stack' = Pop \o <<Act("init", "start", Top.n + 1), Act("ctor", x, 0)>>
       /\ obj' = [obj EXCEPT ![x] = "building"]
  /\ UNCHANGED <<guard, dtors, halted, built>>

\* ... then the start-up code calls main.
StartMain ==
  /\ halted = "no" /\ Top.run = "init" /\ Top.n = Len(Globals) + 1
  /\ Replace(Act("main", "start", 0))
  /\ UNCHANGED <<guard, dtors, obj, halted, built>>

\* User code reaches the declaration of x, which has to be initialised.
EnterStatic(x) ==
  /\ InUserCode /\ Acquires(guard[x])
  /\ guard' = [guard EXCEPT ![x] = Acquired(@)]
  /\ obj' = [obj EXCEPT ![x] = "building"]
  /\ Push(Act("ctor", x, 0))
  /\ UNCHANGED <<dtors, halted, built>>

\* A constructor returns: the guard is released, the destructor registered.
FinishCtor ==
  /\ halted = "no" /\ Top.run = "ctor"
  /\ LET x == Top.of IN
       /\ obj' = [obj EXCEPT ![x] = "alive"]
       /\ guard' = IF x \in Statics THEN [guard EXCEPT ![x] = Released(@)]
                   ELSE guard
       /\ dtors' = Register(dtors, x)
       /\ built' = Append(built, [of |-> x, fate |-> Fate])
  /\ stack' = Pop
  /\ UNCHANGED halted

\* The activations an exception may unwind to: user code with nothing but
\* constructors above it.  A destructor and exit() are noexcept, and there is
\* no handler below main or a global constructor.
Catchers == {k \in DOMAIN stack : /\ IsUser(stack[k])
                                  /\ \A j \in k + 1 .. Len(stack) : stack[j].run = "ctor"}

\* Control goes to the handler in stack[k]; the constructors above it are left
\* through their landing pads.
UnwindTo(k) ==
  LET left == {stack[j].of : j \in k + 1 .. Len(stack)} IN
    /\ stack' = SubSeq(stack, 1, k)
    /\ obj' = [x \in Objects |-> IF x \in left THEN "none" ELSE obj[x]]
    /\ guard' = [x \in Statics |-> IF x \in left THEN Aborted(guard[x]) ELSE guard[x]]
    /\ UNCHANGED <<dtors, halted, built>>

\* User code throws, and some function it was called from catches.
Throw == InUserCode /\ \E k \in Catchers \ {Len(stack)} : UnwindTo(k)

\* User code throws and nothing catches, or calls terminate or abort.
Die ==
  /\ InUserCode
  /\ halted' = "terminate"
  /\ UNCHANGED <<stack, guard, dtors, obj, built>>

\* User code reaches the declaration of x while x is thought to be under
\* initialisation: recursive_init_error.
RecursiveInit(x) ==
  /\ InUserCode /\ Recurses(guard[x])
  /\ \/ \E k \in Catchers : UnwindTo(k)
     \/ halted' = "terminate" /\ UNCHANGED <<stack, guard, dtors, obj, built>>

\* atexit
AtExit(f) ==
  /\ InUserCode /\ Len(dtors) < MaxDtors
  /\ dtors' = Register(dtors, f)
  /\ UNCHANGED <<stack, guard, obj, halted, built>>

\* main returns, and _fini calls __cxa_finalize(nullptr).
ReturnFromMain ==
  /\ halted = "no" /\ Top.run = "main"
  /\ Replace(Act("finalize", "fini", Len(dtors)))
  /\ UNCHANGED <<guard, dtors, obj, halted, built>>

\* exit().  The language leaves a call from a destructor undefined.
Exit ==
  /\ InUserCode /\ ~Finalizing
  /\ Push(Act("finalize", "exit", Len(dtors)))
  /\ UNCHANGED <<guard, dtors, obj, halted, built>>

\* The loop of __cxa_finalize(nullptr) calls the next destructor, ...
CallDtor ==
  /\ halted = "no" /\ Top.run = "finalize" /\ Top.n > 0
  /\ LET d == dtors[Top.n] IN
       /\ stack' = Pop \o <<[Top EXCEPT !.n = NextIndex(@)], Act("dtor", d, 0)>>
       /\ obj' = IF d \in Objects THEN [obj EXCEPT ![d] = "dying"] ELSE obj
  /\ UNCHANGED <<guard, dtors, halted, built>>

\* ... which returns.
FinishDtor ==
  /\ halted = "no" /\ Top.run = "dtor"
  /\ obj' = IF Top.of \in Objects THEN [obj EXCEPT ![Top.of] = "gone"] ELSE obj
  /\ stack' = Pop
  /\ UNCHANGED <<guard, dtors, halted, built>>

\* After the loop the table is emptied and the caller stops the machine.
FinishFinalize ==
  /\ halted = "no" /\ Top.run = "finalize" /\ Top.n = 0
  /\ dtors' = <<>>
  /\ halted' = IF Top.of = "fini" THEN "hlt" ELSE "abort"
  /\ stack' = Pop
  /\ UNCHANGED <<guard, obj, built>>

Runtime == ConstructGlobal \/ StartMain \/ CallDtor \/ FinishFinalize
Return  == FinishCtor \/ FinishDtor \/ ReturnFromMain

Next ==
  \/ Runtime \/ Return \/ Throw \/ Die \/ Exit
  \/ \E x \in Statics : EnterStatic(x) \/ RecursiveInit(x)
  \/ \E f \in Functions : AtExit(f)

\* The machine executes the next instruction of the runtime, and user code
\* comes to its return unless it leaves in another way.
Fairness == WF_vars(Runtime) /\ WF_vars(Return)

Spec == Init /\ [][Next]_vars /\ Fairness
-----------------------------------------------------------------------------
(* Properties                                                                *)

\* The type of the state; in particular the table of dtors.cc never holds more
\* than GLIBCXX_NUM_GLOBAL_DTORS entries.
TypeOK ==
  /\ stack \in Seq(Activation)
  /\ guard \in [Statics -> [done : BOOLEAN, pending : BOOLEAN]]
  /\ dtors \in Seq(Objects \cup Functions) /\ Len(dtors) <= MaxDtors
  /\ obj \in [Objects -> {"none", "building", "alive", "dying", "gone"}]
  /\ halted \in {"no", "terminate", "hlt", "abort"}
  /\ built \in Seq([of : Objects, fate : {"kept", "late", "dropped"}])

\* guard.cc: whatever mixture of recursion, exceptions and exit() the program
\* goes through, an object is under construction in at most one activation;
\* exactly then it is incomplete; a local static that its guard lets the
\* program use has been constructed; and one that is not constructed yet and
\* not under construction was abandoned by an exception or never reached.
GuardsProtect ==
  /\ TypeOK
  /\ \A i, j \in DOMAIN stack :
       stack[i].run = "ctor" /\ stack[j] = stack[i] => i = j
  /\ \A x \in Objects : halted = "no" => (obj[x] = "building" <=> Building(x))
  /\ \A x \in Statics : guard[x].done <=> obj[x] \in {"alive", "dying", "gone"}
  /\ \A x \in Statics : obj[x] = "building" => guard[x].pending

\* dtors.cc, exit.cc: while an object is being destroyed, every object whose
\* construction was complete before that of the first was complete is still
\* intact, so that a destructor may use what the constructor used.
BuiltFirstDiesLast ==
  \A i, j \in DOMAIN built :
    i < j /\ obj[built[j].of] = "dying" => obj[built[i].of] = "alive"

\* dtors.cc: when the machine stops after main or exit(), every object whose
\* destructor got into the table before the finalization began is destroyed.
KeptAreDestroyed ==
  halted \in {"hlt", "abort"} =>
    \A i \in DOMAIN built : built[i].fate = "kept" => obj[built[i].of] = "gone"

\* An object is constructed at most once and destroyed at most once, and only
\* after its construction: also when an exception abandons an initialisation,
\* and when exit() is called in the middle of one.
OneLife ==
  [][\A x \in Objects :
       obj'[x] # obj[x] =>
         <<obj[x], obj'[x]>> \in {<<"none", "building">>, <<"building", "none">>,
                                  <<"building", "alive">>, <<"alive", "dying">>,
                                  <<"dying", "gone">>}]_vars

\* exit.cc and crt0.S: a finalization that has begun ends, with the machine
\* stopped, although destructors may register more destructors.
ShutdownEnds == Finalizing ~> halted # "no"

\* cxxabi.h: "We use the second byte of the guard variable to remember that
\* we're in the middle of an initialization": the byte is set, with the object
\* not initialised, only while the initialisation runs.
SecondByteMeansRunning ==
  halted = "no" => \A x \in Statics : Recurses(guard[x]) => Building(x)

\* dtors.cc: "If we get a nullptr here, we call all of the destructors": when
\* the finalization is over no object that found room in the table is left.
AllDestructorsCalled ==
  halted \in {"hlt", "abort"} =>
    \A i \in DOMAIN built : built[i].fate # "dropped" => obj[built[i].of] = "gone"
=============================================================================
