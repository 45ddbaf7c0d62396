-------------------------- MODULE Lifecycle_proofs --------------------------
(* Proofs about the life of the static objects of module Lifecycle. *)
EXTENDS Lifecycle, SequenceTheorems, TLAPS

-----------------------------------------------------------------------------
(* The inductive invariant: what ties the stack, the guards, the table and   *)
(* the history to the state of the objects.                                  *)

Final(i) == stack[i].run = "finalize"
Born == {"alive", "dying", "gone"}

\* The shape of the stack: _init or main at the bottom, one finalization, the
\* destructors above it, each object at work in one activation.
Bottom == halted = "no" => stack # <<>> /\ stack[1].run \notin {"ctor", "dtor"}
MainBelow == \A i \in DOMAIN stack : stack[i].run \in {"init", "main"} => i = 1
OneFinal == \A i, j \in DOMAIN stack : Final(i) /\ Final(j) => i = j
DtorAbove == \A i \in DOMAIN stack :
  stack[i].run = "dtor" => \E f \in 1 .. i - 1 : Final(f)
Once == \A i, j \in DOMAIN stack :
  stack[i].run \in {"ctor", "dtor"} /\ stack[i].of \in Objects /\ stack[j] = stack[i]
    => i = j
Shape == Bottom /\ MainBelow /\ OneFinal /\ DtorAbove /\ Once

\* Objects are being built and destroyed exactly where the stack says so.
AtWork == \A i \in DOMAIN stack :
  /\ stack[i].run = "ctor" => obj[stack[i].of] = "building"
  /\ stack[i].run = "dtor" /\ stack[i].of \in Objects => obj[stack[i].of] = "dying"
Worked == \A x \in Objects :
  /\ obj[x] = "building" => Building(x)
  /\ obj[x] = "dying" => \E i \in DOMAIN stack : stack[i] = Act("dtor", x, 0)
GuardTells == \A x \in Statics :
  /\ guard[x].done <=> obj[x] \in Born
  /\ obj[x] = "building" => guard[x].pending
Untouched == \A i \in DOMAIN stack :
  stack[i].run = "init" => \A m \in stack[i].n .. Len(Globals) : obj[Globals[m]] = "none"
Lives == AtWork /\ Worked /\ GuardTells /\ Untouched

\* The table holds each object once; below the index of the loop it is alive.
InTable == \A f \in DOMAIN stack : Final(f) => stack[f].n <= Len(dtors)
TableOnce == \A k \in DOMAIN dtors : dtors[k] \in Objects =>
  /\ obj[dtors[k]] \in Born
  /\ \A l \in DOMAIN dtors : dtors[l] = dtors[k] => l = k
Called(k) == \E f \in DOMAIN stack : Final(f) /\ k > stack[f].n
TableAlive == \A k \in DOMAIN dtors :
  dtors[k] \in Objects /\ ~Called(k) => obj[dtors[k]] = "alive"
Table == InTable /\ TableOnce /\ TableAlive

\* The table has the order of the history; what died was called from it.
BuiltOnce == \A p \in DOMAIN built :
  /\ obj[built[p].of] \in Born
  /\ \A q \in DOMAIN built : built[q].of = built[p].of => q = p
SameOrder == \A p, q \in DOMAIN built : \A k, l \in DOMAIN dtors :
  built[p].of = dtors[k] /\ built[q].of = dtors[l] /\ p < q => k < l
CalledFrom == halted = "no" =>
  \A p \in DOMAIN built : obj[built[p].of] \in {"dying", "gone"} =>
    \E k \in DOMAIN dtors : Called(k) /\ dtors[k] = built[p].of
KeptInTable == halted = "no" =>
  \A p \in DOMAIN built : built[p].fate = "kept" =>
    \E k \in DOMAIN dtors : /\ dtors[k] = built[p].of
                            /\ Called(k) => obj[dtors[k]] \in {"dying", "gone"}
History == BuiltOnce /\ SameOrder /\ CalledFrom /\ KeptInTable

LifeInv == /\ TypeOK /\ Shape /\ Lives /\ Table /\ History
           /\ BuiltFirstDiesLast /\ KeptAreDestroyed

-----------------------------------------------------------------------------
(* Sequences and activations. *)

\* A sequence with an element more.
LEMMA PushFacts ==
  ASSUME NEW S, NEW s \in Seq(S), NEW a \in S
  PROVE  /\ Append(s, a) \in Seq(S)
         /\ Len(Append(s, a)) = Len(s) + 1
         /\ DOMAIN Append(s, a) = 1 .. Len(s) + 1
         /\ \A i \in 1 .. Len(s) : Append(s, a)[i] = s[i]
         /\ Append(s, a)[Len(s) + 1] = a
BY AppendProperties, LenProperties

\* The first n elements of a sequence.
LEMMA PrefixFacts ==
  ASSUME NEW S, NEW s \in Seq(S), NEW n \in 0 .. Len(s)
  PROVE  /\ SubSeq(s, 1, n) \in Seq(S)
         /\ Len(SubSeq(s, 1, n)) = n
         /\ DOMAIN SubSeq(s, 1, n) = 1 .. n
         /\ \A i \in 1 .. n : SubSeq(s, 1, n)[i] = s[i]
<1>1. Len(s) \in Nat
  BY LenProperties
<1>2. SubSeq(s, 1, n) \in Seq(S) /\ Len(SubSeq(s, 1, n)) = n
      /\ \A i \in 1 .. n : SubSeq(s, 1, n)[i] = s[i]
  BY <1>1, SubSeqProperties
<1> QED BY <1>2, LenProperties

\* The members of Activation, by what runs.
LEMMA ActFacts ==
  ASSUME NEW a \in Activation
  PROVE  /\ a = Act(a.run, a.of, a.n)
         /\ a.n \in Int
         /\ a.run \in {"init", "finalize", "main", "ctor", "dtor"}
         /\ a.run = "init" => a.n \in 1 .. Len(Globals) + 1 /\ a.of = "start"
         /\ a.run = "finalize" => a.n \in 0 .. MaxDtors /\ a.of \in {"fini", "exit"}
         /\ a.run = "ctor" => a.n = 0 /\ a.of \in Objects
         /\ a.run = "dtor" => a.n = 0 /\ a.of \in Objects \cup Functions
<1>1. Len(Globals) \in Nat /\ MaxDtors \in Nat
  BY LifecycleAssumption, LenProperties
<1> QED BY <1>1 DEF Activation, Act

\* The stack while the machine runs.
LEMMA TopFacts ==
  ASSUME TypeOK, Bottom, halted = "no"
  PROVE  /\ stack \in Seq(Activation)
         /\ Len(stack) \in Nat \ {0}
         /\ DOMAIN stack = 1 .. Len(stack)
         /\ Top \in Activation /\ Top = stack[Len(stack)]
         /\ \A i \in 1 .. Len(stack) : stack[i] \in Activation
<1>1. stack \in Seq(Activation) /\ stack # <<>>
  BY DEF TypeOK, Bottom
<1>2. Len(stack) \in Nat \ {0} /\ DOMAIN stack = 1 .. Len(stack)
  BY <1>1, LenProperties, EmptySeq
<1>3. \A i \in 1 .. Len(stack) : stack[i] \in Activation
  BY <1>1, ElementOfSeq
<1> QED BY <1>1, <1>2, <1>3 DEF Top

\* The table, the history and the objects.
LEMMA TableFacts ==
  ASSUME TypeOK
  PROVE  /\ Len(dtors) \in Nat /\ DOMAIN dtors = 1 .. Len(dtors)
         /\ \A k \in DOMAIN dtors : dtors[k] \in Objects \cup Functions
         /\ Len(built) \in Nat /\ DOMAIN built = 1 .. Len(built)
         /\ \A p \in DOMAIN built :
              /\ built[p].of \in Objects
              /\ built[p].fate \in {"kept", "late", "dropped"}
         /\ \A x \in Objects : obj[x] \in {"none", "building", "alive", "dying", "gone"}
<1>1. dtors \in Seq(Objects \cup Functions)
      /\ built \in Seq([of : Objects, fate : {"kept", "late", "dropped"}])
  BY DEF TypeOK
<1>2. \A k \in 1 .. Len(dtors) : dtors[k] \in Objects \cup Functions
  BY <1>1, ElementOfSeq
<1>3. \A p \in 1 .. Len(built) : built[p] \in [of : Objects, fate : {"kept", "late", "dropped"}]
  BY <1>1, ElementOfSeq
<1>4. /\ Len(dtors) \in Nat /\ DOMAIN dtors = 1 .. Len(dtors)
      /\ Len(built) \in Nat /\ DOMAIN built = 1 .. Len(built)
  BY <1>1, LenProperties
<1>5. \A x \in Objects : obj[x] \in {"none", "building", "alive", "dying", "gone"}
  BY DEF TypeOK
<1> QED BY <1>2, <1>3, <1>4, <1>5

\* The global objects are numbered once, and none of them is local.
LEMMA GlobalFacts ==
  /\ Len(Globals) \in Nat
  /\ \A m \in 1 .. Len(Globals) : Globals[m] \in Objects /\ Globals[m] \notin Statics
  /\ \A i, j \in 1 .. Len(Globals) : Globals[i] = Globals[j] => i = j
BY LifecycleAssumption, LenProperties DEF GlobalSet, Objects

\* The last element replaced by two.
Swapped(s, a, b) == SubSeq(s, 1, Len(s) - 1) \o <<a, b>>
LEMMA SwapFacts ==
  ASSUME NEW S, NEW s \in Seq(S), s # <<>>, NEW a \in S, NEW b \in S
  PROVE  /\ Swapped(s, a, b) \in Seq(S)
         /\ Len(Swapped(s, a, b)) = Len(s) + 1
         /\ DOMAIN Swapped(s, a, b) = 1 .. Len(s) + 1
         /\ \A i \in 1 .. Len(s) - 1 : Swapped(s, a, b)[i] = s[i]
         /\ Swapped(s, a, b)[Len(s)] = a
         /\ Swapped(s, a, b)[Len(s) + 1] = b
<1> DEFINE pop == SubSeq(s, 1, Len(s) - 1)
           u == Swapped(s, a, b)
<1>1. Len(s) \in Nat \ {0}
  BY EmptySeq, LenProperties
<1>2. /\ pop \in Seq(S) /\ Len(pop) = Len(s) - 1
      /\ \A i \in 1 .. Len(s) - 1 : pop[i] = s[i]
  <2>1. Len(s) - 1 \in 0 .. Len(s)
    BY <1>1
  <2> QED BY <2>1, PrefixFacts
<1>3. <<a, b>> \in Seq(S) /\ Len(<<a, b>>) = 2
  OBVIOUS
<1>4. u = pop \o <<a, b>>
  BY DEF Swapped
<1> HIDE DEF pop, u
<1>5. /\ u \in Seq(S) /\ Len(u) = Len(pop) + 2
      /\ \A i \in 1 .. Len(pop) + 2 : u[i] = IF i <= Len(pop) THEN pop[i]
                                          ELSE <<a, b>>[i - Len(pop)]
  BY <1>2, <1>3, <1>4, ConcatProperties
<1>6. u[Len(s)] = a /\ u[Len(s) + 1] = b
  <2> DEFINE q == <<a, b>>
  <2>1. q[1] = a /\ q[2] = b
    OBVIOUS
  <2>2. \A i \in 1 .. Len(pop) + 2 : u[i] = IF i <= Len(pop) THEN pop[i] ELSE q[i - Len(pop)]
    BY <1>5
  <2> HIDE DEF q
  <2>3. /\ Len(s) \in 1 .. Len(pop) + 2 /\ ~(Len(s) <= Len(pop)) /\ Len(s) - Len(pop) = 1
        /\ Len(s) + 1 \in 1 .. Len(pop) + 2 /\ ~(Len(s) + 1 <= Len(pop))
        /\ (Len(s) + 1) - Len(pop) = 2
    BY <1>1, <1>2
  <2> QED BY <2>1, <2>2, <2>3
<1>7. \A i \in 1 .. Len(s) - 1 : u[i] = s[i]
  BY <1>1, <1>2, <1>5
<1>8. Len(u) = Len(s) + 1 /\ DOMAIN u = 1 .. Len(s) + 1
  BY <1>1, <1>2, <1>5, LenProperties
<1> QED BY <1>5, <1>6, <1>7, <1>8 DEF u

-----------------------------------------------------------------------------
(* One lemma per action. *)

\* An action that touches neither the table nor the finalization, and no object
\* that was built, keeps what relates them.
LEMMA QuietFacts ==
  ASSUME LifeInv, UNCHANGED <<dtors, halted, built>>,
         \A i \in DOMAIN stack : Final(i) => i \in DOMAIN stack' /\ stack'[i] = stack[i],
         \A i \in DOMAIN stack' : Final(i)' => i \in DOMAIN stack /\ stack'[i] = stack[i],
         \A x \in Objects : obj[x] \in Born => obj'[x] = obj[x]
  PROVE  Table' /\ History' /\ BuiltFirstDiesLast' /\ KeptAreDestroyed'
<1> USE DEF LifeInv
<1>1. \A k \in DOMAIN dtors : Called(k)' <=> Called(k)
  BY DEF Called, Final
<1>2. \A p \in DOMAIN built : obj'[built[p].of] = obj[built[p].of]
  BY TableFacts DEF History, BuiltOnce
<1>3. \A k \in DOMAIN dtors : dtors[k] \in Objects => obj'[dtors[k]] = obj[dtors[k]]
  BY DEF Table, TableOnce
<1>a. Table'
  <2>1. InTable'
    BY DEF Table, InTable, Final
  <2>2. TableOnce' /\ TableAlive'
    BY <1>1, <1>3 DEF Table, TableOnce, TableAlive
  <2> QED BY <2>1, <2>2 DEF Table
<1>b. History'
  <2>1. BuiltOnce' /\ SameOrder'
    BY <1>2 DEF History, BuiltOnce, SameOrder
  <2>2. CalledFrom'
    BY <1>1, <1>2 DEF History, CalledFrom
  <2>3. KeptInTable'
    BY <1>1, <1>2 DEF History, KeptInTable
  <2> QED BY <2>1, <2>2, <2>3 DEF History
<1>c. BuiltFirstDiesLast' /\ KeptAreDestroyed'
  BY <1>2 DEF BuiltFirstDiesLast, KeptAreDestroyed
<1> QED BY <1>a, <1>b, <1>c

\* The declaration of a local static is reached.
LEMMA EnterStaticInv ==
  ASSUME LifeInv, NEW x \in Statics, EnterStatic(x)
  PROVE  LifeInv'
<1> DEFINE n == Len(stack)
<1> USE DEF LifeInv
<1>1. /\ stack \in Seq(Activation) /\ n \in Nat \ {0} /\ DOMAIN stack = 1 .. n
      /\ \A i \in 1 .. n : stack[i] \in Activation
  BY TopFacts DEF EnterStatic, InUserCode, Shape
<1>2. x \in Objects /\ obj[x] = "none" /\ x \notin GlobalSet
  BY LifecycleAssumption DEF EnterStatic, Acquires, Lives, GuardTells, TypeOK, Objects, Born
<1>3. Act("ctor", x, 0) \in Activation
  BY <1>2 DEF Act, Activation
<1>4. /\ stack' \in Seq(Activation) /\ Len(stack') = n + 1 /\ DOMAIN stack' = 1 .. n + 1
      /\ \A i \in 1 .. n : stack'[i] = stack[i]
      /\ stack'[n + 1] = Act("ctor", x, 0)
  BY <1>1, <1>3, PushFacts DEF EnterStatic, Push
<1>5. /\ obj' \in [Objects -> {"none", "building", "alive", "dying", "gone"}]
      /\ obj'[x] = "building" /\ \A y \in Objects : y # x => obj'[y] = obj[y]
  BY <1>2 DEF EnterStatic, TypeOK
<1>6. /\ guard' \in [Statics -> [done : BOOLEAN, pending : BOOLEAN]]
      /\ guard'[x] = [done |-> FALSE, pending |-> TRUE]
      /\ \A y \in Statics : y # x => guard'[y] = guard[y]
  BY <1>2 DEF EnterStatic, TypeOK, Acquired, Acquires
<1>7. halted = "no" /\ UNCHANGED <<dtors, halted, built>>
  BY DEF EnterStatic, InUserCode
<1> HIDE DEF n
<1>a. TypeOK'
  BY <1>4, <1>5, <1>6, <1>7 DEF TypeOK
<1>b. Shape'
  <2>1. Bottom' /\ MainBelow' /\ OneFinal' /\ DtorAbove'
    BY <1>1, <1>4, <1>7 DEF Shape, Bottom, MainBelow, OneFinal, DtorAbove, Final, Act
  <2>2. Once'
    BY <1>1, <1>2, <1>4 DEF Shape, Once, Lives, AtWork, Act
  <2> QED BY <2>1, <2>2 DEF Shape
<1>c. Lives'
  <2>1. AtWork'
    BY <1>1, <1>2, <1>4, <1>5, ActFacts DEF Lives, AtWork, Act
  <2>2. Worked'
    BY <1>1, <1>2, <1>4, <1>5 DEF Lives, Worked, Building
  <2>3. GuardTells'
    BY <1>2, <1>5, <1>6 DEF Lives, GuardTells, Born, Objects
  <2>4. Untouched'
    <3>1. \A i \in 1 .. n : stack[i].run = "init" => stack[i].n \in 1 .. Len(Globals) + 1
      BY <1>1, ActFacts
    <3>2. \A i \in DOMAIN stack' : stack'[i].run = "init" => i \in 1 .. n
      BY <1>1, <1>4 DEF Act
    <3>3. \A i \in 1 .. n : stack[i].run = "init" =>
            \A m \in stack[i].n .. Len(Globals) : obj'[Globals[m]] = obj[Globals[m]]
      BY <1>2, <1>5, <3>1, GlobalFacts
    <3> QED BY <1>1, <1>4, <3>2, <3>3 DEF Lives, Untouched
  <2> QED BY <2>1, <2>2, <2>3, <2>4 DEF Lives
<1>d. Table' /\ History' /\ BuiltFirstDiesLast' /\ KeptAreDestroyed'
  BY <1>1, <1>2, <1>4, <1>5, <1>7, QuietFacts DEF Final, Act, Born
<1> QED BY <1>a, <1>b, <1>c, <1>d

\* _init goes on to the next global object, ...
LEMMA ConstructGlobalInv ==
  ASSUME LifeInv, ConstructGlobal
  PROVE  LifeInv'
<1> DEFINE n == Len(stack)
           x == Globals[Top.n]
<1> USE DEF LifeInv
<1>1. /\ stack \in Seq(Activation) /\ n \in Nat \ {0} /\ DOMAIN stack = 1 .. n
      /\ \A i \in 1 .. n : stack[i] \in Activation
      /\ Top = stack[n] /\ Top \in Activation
  BY TopFacts DEF ConstructGlobal, Shape
<1>2. n = 1 /\ Top.run = "init" /\ Top.n \in 1 .. Len(Globals)
  <2>1. Top.run = "init" /\ Top.n <= Len(Globals)
    BY DEF ConstructGlobal
  <2>2. Top.n \in 1 .. Len(Globals) + 1
    BY <1>1, <2>1, ActFacts
  <2> QED BY <1>1, <2>1, <2>2, GlobalFacts DEF Shape, MainBelow
<1>3. x \in Objects /\ x \notin Statics /\ obj[x] = "none"
  BY <1>1, <1>2, GlobalFacts DEF Lives, Untouched
<1>4. stack' = <<Act("init", "start", Top.n + 1), Act("ctor", x, 0)>>
  <2>1. Pop = <<>>
    BY <1>1, <1>2 DEF Pop
  <2> QED BY <2>1 DEF ConstructGlobal
<1>5. /\ obj' \in [Objects -> {"none", "building", "alive", "dying", "gone"}]
      /\ obj'[x] = "building" /\ \A y \in Objects : y # x => obj'[y] = obj[y]
  BY <1>3 DEF ConstructGlobal, TypeOK
<1>6. halted = "no" /\ UNCHANGED <<guard, dtors, halted, built>>
  BY DEF ConstructGlobal
<1>7. Top.n + 1 \in 1 .. Len(Globals) + 1
  BY <1>2, GlobalFacts
<1> HIDE DEF n, x
<1>a. TypeOK'
  <2>1. Act("init", "start", Top.n + 1) \in Activation /\ Act("ctor", x, 0) \in Activation
    BY <1>3, <1>7 DEF Act, Activation
  <2> QED BY <1>4, <1>5, <1>6, <2>1 DEF TypeOK
<1>b. Shape'
  BY <1>4, <1>6 DEF Shape, Bottom, MainBelow, OneFinal, DtorAbove, Once, Final, Act
<1>c. Lives'
  <2>1. AtWork'
    BY <1>4, <1>5 DEF AtWork, Act
  <2>2. Worked'
    BY <1>1, <1>2, <1>4, <1>5 DEF Lives, Worked, Building, Act
  <2>3. GuardTells'
    BY <1>3, <1>5, <1>6 DEF Lives, GuardTells, Born, Objects
  <2>4. Untouched'
    <3>1. \A m \in Top.n + 1 .. Len(Globals) : m \in 1 .. Len(Globals) /\ m # Top.n /\ m \in Top.n .. Len(Globals)
      BY <1>2, GlobalFacts
    <3>2. \A m \in Top.n + 1 .. Len(Globals) : Globals[m] \in Objects /\ Globals[m] # x
      BY <1>2, <3>1, GlobalFacts DEF x
    <3>3. \A m \in Top.n + 1 .. Len(Globals) : obj'[Globals[m]] = "none"
      BY <1>1, <1>2, <1>5, <3>1, <3>2 DEF Lives, Untouched
    <3> QED BY <1>4, <3>3 DEF Untouched, Act
  <2> QED BY <2>1, <2>2, <2>3, <2>4 DEF Lives
<1>d. Table' /\ History' /\ BuiltFirstDiesLast' /\ KeptAreDestroyed'
  BY <1>1, <1>2, <1>3, <1>4, <1>5, <1>6, QuietFacts DEF Final, Act, Born
<1> QED BY <1>a, <1>b, <1>c, <1>d

\* ... and main is called when they are all constructed.
LEMMA StartMainInv ==
  ASSUME LifeInv, StartMain
  PROVE  LifeInv'
<1> DEFINE n == Len(stack)
<1> USE DEF LifeInv
<1>1. /\ stack \in Seq(Activation) /\ n \in Nat \ {0} /\ DOMAIN stack = 1 .. n
      /\ \A i \in 1 .. n : stack[i] \in Activation
      /\ Top = stack[n] /\ Top \in Activation
  BY TopFacts DEF StartMain, Shape
<1>2. n = 1 /\ Top.run = "init"
  BY <1>1 DEF StartMain, Shape, MainBelow
<1>3. stack' = <<Act("main", "start", 0)>>
  <2>1. Pop = <<>>
    BY <1>1, <1>2 DEF Pop
  <2> QED BY <2>1 DEF StartMain, Replace
<1>4. halted = "no" /\ UNCHANGED <<obj, guard, dtors, halted, built>>
  BY DEF StartMain
<1> HIDE DEF n
<1>a. TypeOK'
  <2>1. Act("main", "start", 0) \in Activation
    BY DEF Act, Activation
  <2> QED BY <1>3, <1>4, <2>1 DEF TypeOK
<1>b. Shape'
  BY <1>3, <1>4 DEF Shape, Bottom, MainBelow, OneFinal, DtorAbove, Once, Final, Act
<1>c. Lives'
  <2>1. AtWork' /\ Untouched'
    BY <1>3 DEF AtWork, Untouched, Act
  <2>2. Worked'
    BY <1>1, <1>2, <1>3, <1>4 DEF Lives, Worked, Building, Act
  <2>3. GuardTells'
    BY <1>4 DEF Lives, GuardTells
  <2> QED BY <2>1, <2>2, <2>3 DEF Lives
<1>d. Table' /\ History' /\ BuiltFirstDiesLast' /\ KeptAreDestroyed'
  BY <1>1, <1>2, <1>3, <1>4, QuietFacts DEF Final, Act
<1> QED BY <1>a, <1>b, <1>c, <1>d

\* An exception leaves the constructors above the handler.
LEMMA UnwindInv ==
  ASSUME LifeInv, InUserCode, NEW k \in Catchers, UnwindTo(k)
  PROVE  LifeInv'
<1> DEFINE n == Len(stack)
           left == {stack[j].of : j \in k + 1 .. Len(stack)}
<1> USE DEF LifeInv
<1>1. /\ stack \in Seq(Activation) /\ n \in Nat \ {0} /\ DOMAIN stack = 1 .. n
      /\ \A i \in 1 .. n : stack[i] \in Activation
  BY TopFacts DEF InUserCode, Shape
<1>2. k \in 1 .. n /\ \A j \in k + 1 .. n : stack[j].run = "ctor"
  BY <1>1 DEF Catchers
<1>3. /\ stack' \in Seq(Activation) /\ Len(stack') = k /\ DOMAIN stack' = 1 .. k
      /\ \A i \in 1 .. k : stack'[i] = stack[i]
  BY <1>1, <1>2, PrefixFacts DEF UnwindTo
<1>4. \A j \in k + 1 .. n : j \in 1 .. n /\ stack[j] = Act("ctor", stack[j].of, 0)
                            /\ stack[j].of \in Objects /\ obj[stack[j].of] = "building"
  <2>1. \A j \in k + 1 .. n : j \in 1 .. n
    BY <1>1, <1>2
  <2> QED BY <1>1, <1>2, <2>1, ActFacts DEF Lives, AtWork
<1>5. /\ obj' \in [Objects -> {"none", "building", "alive", "dying", "gone"}]
      /\ \A y \in Objects : /\ y \in left => obj'[y] = "none" /\ obj[y] = "building"
                            /\ y \notin left => obj'[y] = obj[y]
  BY <1>4 DEF UnwindTo, TypeOK
<1>6. guard' \in [Statics -> [done : BOOLEAN, pending : BOOLEAN]]
      /\ \A y \in Statics : guard'[y] = guard[y]
  BY DEF UnwindTo, TypeOK, Aborted
<1>7. halted = "no" /\ UNCHANGED <<dtors, halted, built>>
  BY DEF UnwindTo, InUserCode
<1>8. \A j \in k + 1 .. n : stack[j].of \in left
  OBVIOUS
<1>9. \A y \in left : \E j \in k + 1 .. n : y = stack[j].of
  OBVIOUS
<1> HIDE DEF n, left
<1>a. TypeOK'
  BY <1>3, <1>5, <1>6, <1>7 DEF TypeOK
<1>b. Shape'
  BY <1>1, <1>2, <1>3, <1>7 DEF Shape, Bottom, MainBelow, OneFinal, DtorAbove, Once, Final
<1>c. Lives'
  <2>1. AtWork'
    <3>1. \A i \in 1 .. k : stack[i].run = "ctor" => stack[i].of \notin left
      <4> SUFFICES ASSUME NEW i \in 1 .. k, stack[i].run = "ctor", stack[i].of \in left
                   PROVE  FALSE
        OBVIOUS
      <4>1. PICK j \in k + 1 .. n : stack[i].of = stack[j].of
        BY <1>9
      <4>2. i \in 1 .. n /\ stack[i] = stack[j] /\ stack[i].of \in Objects /\ j \in 1 .. n
        BY <1>1, <1>2, <1>4, <4>1, ActFacts
      <4> QED BY <1>1, <1>2, <4>2 DEF Shape, Once
    <3>2. \A i \in 1 .. k : i \in 1 .. n /\ (stack[i].run = "ctor" => stack[i].of \in Objects)
      BY <1>1, <1>2, ActFacts
    <3> QED BY <1>1, <1>3, <1>5, <3>1, <3>2 DEF Lives, AtWork
  <2>2. Worked'
    <3> SUFFICES ASSUME NEW x \in Objects, x \notin left
                 PROVE  /\ obj'[x] = "building" => Building(x)'
                        /\ obj'[x] = "dying" => \E i \in DOMAIN stack' : stack'[i] = Act("dtor", x, 0)
      BY <1>5 DEF Worked
    <3>1. \A i \in 1 .. n : stack[i] \in {Act("ctor", x, 0), Act("dtor", x, 0)} => i \in 1 .. k
      BY <1>1, <1>2, <1>4, <1>8 DEF Act
    <3> QED BY <1>1, <1>3, <1>5, <3>1 DEF Lives, Worked, Building
  <2>3. GuardTells'
    BY <1>5, <1>6 DEF Lives, GuardTells, Born, Objects
  <2>4. Untouched'
    <3>1. \A i \in 1 .. k : i \in 1 .. n /\ (stack[i].run = "init" => stack[i].n \in 1 .. Len(Globals) + 1)
      BY <1>1, <1>2, ActFacts
    <3>2. \A m \in 1 .. Len(Globals) : obj[Globals[m]] = "none" => obj'[Globals[m]] = "none"
      BY <1>5, GlobalFacts
    <3> QED BY <1>1, <1>3, <3>1, <3>2, GlobalFacts DEF Lives, Untouched
  <2> QED BY <2>1, <2>2, <2>3, <2>4 DEF Lives
<1>d. Table' /\ History' /\ BuiltFirstDiesLast' /\ KeptAreDestroyed'
  <2>1. \A i \in 1 .. n : Final(i) => i \in 1 .. k
    BY <1>1, <1>2 DEF Final
  <2> QED BY <1>1, <1>2, <1>3, <1>5, <1>7, <2>1, QuietFacts DEF Final, Born
<1> QED BY <1>a, <1>b, <1>c, <1>d

\* A constructor returns.
LEMMA FinishCtorInv ==
  ASSUME LifeInv, FinishCtor
  PROVE  LifeInv'
<1> DEFINE n == Len(stack)
           x == Top.of
           t == Len(dtors)
           b == Len(built)
<1> USE DEF LifeInv
<1>1. /\ stack \in Seq(Activation) /\ n \in Nat \ {0} /\ DOMAIN stack = 1 .. n
      /\ \A i \in 1 .. n : stack[i] \in Activation
      /\ Top = stack[n] /\ Top \in Activation
  BY TopFacts DEF FinishCtor, Shape
<1>2. Top = Act("ctor", x, 0) /\ Top.run = "ctor" /\ x \in Objects /\ obj[x] = "building" /\ n > 1
  <2>1. Top.run = "ctor" /\ stack[1].run # "ctor"
    BY DEF FinishCtor, Shape, Bottom
  <2>2. n # 1 /\ Top = Act("ctor", x, 0) /\ x \in Objects
    BY <1>1, <2>1, ActFacts
  <2> QED BY <1>1, <2>1, <2>2 DEF Lives, AtWork
<1>3. /\ stack' \in Seq(Activation) /\ Len(stack') = n - 1 /\ DOMAIN stack' = 1 .. n - 1
      /\ \A i \in 1 .. n - 1 : i \in 1 .. n /\ stack'[i] = stack[i]
  BY <1>1, PrefixFacts DEF FinishCtor, Pop
<1>4. /\ obj' \in [Objects -> {"none", "building", "alive", "dying", "gone"}]
      /\ obj'[x] = "alive" /\ \A y \in Objects : y # x => obj'[y] = obj[y]
  BY <1>2 DEF FinishCtor, TypeOK
<1>5. /\ guard' \in [Statics -> [done : BOOLEAN, pending : BOOLEAN]]
      /\ x \in Statics => guard'[x].done
      /\ \A y \in Statics : y # x => guard'[y] = guard[y]
  BY DEF FinishCtor, TypeOK, Released
<1>6. halted = "no" /\ halted' = "no"
  BY DEF FinishCtor
<1>7. /\ dtors' \in Seq(Objects \cup Functions) /\ DOMAIN dtors = 1 .. t /\ t \in Nat /\ t <= MaxDtors
      /\ \/ t = MaxDtors /\ dtors' = dtors
         \/ /\ t # MaxDtors /\ Len(dtors') = t + 1 /\ DOMAIN dtors' = 1 .. t + 1
            /\ \A k \in 1 .. t : dtors'[k] = dtors[k]
            /\ dtors'[t + 1] = x
  <2>1. dtors \in Seq(Objects \cup Functions) /\ x \in Objects \cup Functions /\ t <= MaxDtors
    BY <1>2 DEF TypeOK
  <2>2. dtors' = IF t = MaxDtors THEN dtors ELSE Append(dtors, x)
    BY DEF FinishCtor, Register
  <2>3. CASE t = MaxDtors
    BY <2>1, <2>2, <2>3, TableFacts
  <2>4. CASE t # MaxDtors
    <3>1. dtors' = Append(dtors, x)
      BY <2>2, <2>4
    <3>2. /\ dtors' \in Seq(Objects \cup Functions) /\ Len(dtors') = t + 1
          /\ DOMAIN dtors' = 1 .. t + 1 /\ dtors'[t + 1] = x
          /\ \A k \in 1 .. t : dtors'[k] = dtors[k]
      BY <2>1, <3>1, PushFacts
    <3> QED BY <2>1, <2>4, <3>2, TableFacts
  <2> QED BY <2>3, <2>4
<1>8. /\ built' \in Seq([of : Objects, fate : {"kept", "late", "dropped"}])
      /\ DOMAIN built = 1 .. b /\ b \in Nat /\ DOMAIN built' = 1 .. b + 1
      /\ \A p \in 1 .. b : built'[p] = built[p]
      /\ built'[b + 1] = [of |-> x, fate |-> Fate]
  <2>1. built \in Seq([of : Objects, fate : {"kept", "late", "dropped"}])
    BY DEF TypeOK
  <2>2. [of |-> x, fate |-> Fate] \in [of : Objects, fate : {"kept", "late", "dropped"}]
    BY <1>2 DEF Fate
  <2>3. built' = Append(built, [of |-> x, fate |-> Fate])
    BY DEF FinishCtor
  <2> QED BY <2>1, <2>2, <2>3, TableFacts, PushFacts
<1>9. /\ \A k \in 1 .. t : dtors[k] # x
      /\ \A p \in 1 .. b : built[p].of # x
  BY <1>2, <1>7, <1>8 DEF Table, TableOnce, History, BuiltOnce, Born
<1>10. /\ \A k \in 1 .. t : dtors[k] \in Objects => obj'[dtors[k]] = obj[dtors[k]]
       /\ \A p \in 1 .. b : built[p].of \in Objects /\ obj'[built[p].of] = obj[built[p].of]
  BY <1>4, <1>7, <1>8, <1>9, TableFacts
<1>11. \A i \in 1 .. n : Final(i) => i \in 1 .. n - 1
  BY <1>1, <1>2 DEF Final
<1>12. \A k \in Int : Called(k)' <=> Called(k)
  BY <1>1, <1>3, <1>11 DEF Called, Final
<1>13. \A f \in 1 .. n : Final(f) => stack[f].n \in Nat /\ stack[f].n <= t
  <2>1. \A f \in 1 .. n : Final(f) => stack[f].n \in 0 .. MaxDtors
    BY <1>1, ActFacts DEF Final
  <2> QED BY <1>1, <2>1, LifecycleAssumption DEF Table, InTable
<1>14. /\ stack[n].run = "ctor" /\ stack[n].of = x /\ n \in 1 .. n
       /\ \A i \in 1 .. n - 1 : i # n
       /\ \A i \in 1 .. n : i # n => i \in 1 .. n - 1
  <2>1. stack[n].run = "ctor" /\ stack[n].of = x
    BY <1>1, <1>2
  <2>2. n \in Nat \ {0}
    BY <1>1
  <2> HIDE DEF n, x
  <2>3. /\ n \in 1 .. n
        /\ \A i \in 1 .. n - 1 : i # n
        /\ \A i \in 1 .. n : i # n => i \in 1 .. n - 1
    BY <2>2
  <2> QED BY <2>1, <2>3
<1>15. \A k \in 1 .. t : k \in DOMAIN dtors' /\ dtors'[k] = dtors[k]
  BY <1>7
<1>16. \A k \in DOMAIN dtors' : k \in Int /\ (k \in 1 .. t \/ (k = t + 1 /\ dtors'[k] = x /\ t # MaxDtors))
  BY <1>7
<1> HIDE DEF n, x, t, b
<1>a. TypeOK'
  BY <1>3, <1>4, <1>5, <1>6, <1>7, <1>8, LifecycleAssumption DEF TypeOK
<1>b. Shape'
  <2>1. Bottom' /\ MainBelow' /\ OneFinal' /\ Once'
    BY <1>1, <1>2, <1>3, <1>6 DEF Shape, Bottom, MainBelow, OneFinal, Once, Final
  <2>2. DtorAbove'
    BY <1>1, <1>3 DEF Shape, DtorAbove, Final
  <2> QED BY <2>1, <2>2 DEF Shape
<1>c. Lives'
  <2>1. AtWork'
    <3>1. \A i \in 1 .. n - 1 : stack[i].run \in {"ctor", "dtor"} => stack[i].of # x
      <4> SUFFICES ASSUME NEW i \in 1 .. n - 1, stack[i].run \in {"ctor", "dtor"}, stack[i].of = x
                   PROVE  FALSE
        OBVIOUS
      <4>1. stack[i].run = "ctor"
        BY <1>1, <1>2, <1>3 DEF Lives, AtWork
      <4>2. stack[i] = stack[n]
        BY <1>1, <1>2, <1>3, <4>1, ActFacts DEF Act
      <4> QED BY <1>1, <1>2, <1>3, <1>14, <4>1, <4>2 DEF Shape, Once
    <3>2. \A i \in 1 .. n - 1 : stack[i].run = "ctor" => stack[i].of \in Objects
      BY <1>1, <1>3, ActFacts
    <3> QED BY <1>1, <1>3, <1>4, <3>1, <3>2 DEF Lives, AtWork
  <2>2. Worked'
    <3> SUFFICES ASSUME NEW y \in Objects, y # x
                 PROVE  /\ obj'[y] = "building" => Building(y)'
                        /\ obj'[y] = "dying" => \E i \in DOMAIN stack' : stack'[i] = Act("dtor", y, 0)
      BY <1>4 DEF Worked
    <3>1. \A i \in 1 .. n : stack[i] \in {Act("ctor", y, 0), Act("dtor", y, 0)} => i \in 1 .. n - 1
      BY <1>14 DEF Act
    <3> QED BY <1>1, <1>3, <1>4, <3>1 DEF Lives, Worked, Building
  <2>3. GuardTells'
    BY <1>4, <1>5 DEF Lives, GuardTells, Born, Objects
  <2>4. Untouched'
    <3>1. \A i \in 1 .. n - 1 : stack[i].run = "init" => stack[i].n \in 1 .. Len(Globals) + 1
      BY <1>1, <1>3, ActFacts
    <3>2. \A m \in 1 .. Len(Globals) : obj[Globals[m]] = "none" => obj'[Globals[m]] = "none"
      BY <1>2, <1>4, GlobalFacts
    <3> QED BY <1>1, <1>3, <3>1, <3>2, GlobalFacts DEF Lives, Untouched
  <2> QED BY <2>1, <2>2, <2>3, <2>4 DEF Lives
<1>d. Table'
  <2>1. InTable'
    BY <1>1, <1>3, <1>7, <1>13, TableFacts DEF InTable, Final
  <2>2. TableOnce'
    BY <1>4, <1>7, <1>9, <1>10 DEF Table, TableOnce, Born
  <2>3. TableAlive'
    BY <1>4, <1>7, <1>10, <1>12 DEF Table, TableAlive
  <2> QED BY <2>1, <2>2, <2>3 DEF Table
<1>e. History'
  <2>1. BuiltOnce'
    BY <1>4, <1>8, <1>9, <1>10 DEF History, BuiltOnce, Born
  <2>2. SameOrder'
    <3> SUFFICES ASSUME NEW p \in 1 .. b + 1, NEW q \in 1 .. b + 1, p < q,
                        NEW k \in DOMAIN dtors', NEW l \in DOMAIN dtors',
                        built'[p].of = dtors'[k], built'[q].of = dtors'[l]
                 PROVE  k < l
      BY <1>8 DEF SameOrder
    <3>1. p \in 1 .. b /\ built'[p] = built[p] /\ k \in 1 .. t /\ dtors'[k] = dtors[k]
      BY <1>8, <1>9, <1>15, <1>16
    <3>2. CASE q \in 1 .. b
      <4>1. l \in 1 .. t /\ dtors'[l] = dtors[l] /\ built'[q] = built[q]
        BY <1>8, <1>9, <1>15, <1>16, <3>2
      <4> QED BY <1>7, <1>8, <3>1, <3>2, <4>1 DEF History, SameOrder
    <3>3. CASE q = b + 1
      <4>1. dtors'[l] = x
        BY <1>8, <3>3
      <4>2. l \notin 1 .. t
        BY <1>9, <1>15, <4>1
      <4> QED BY <1>7, <1>16, <3>1, <4>2
    <3> QED BY <1>8, <3>2, <3>3
  <2>3. CalledFrom'
    <3> SUFFICES ASSUME NEW p \in 1 .. b + 1, obj'[built'[p].of] \in {"dying", "gone"}
                 PROVE  \E k \in DOMAIN dtors' : Called(k)' /\ dtors'[k] = built'[p].of
      BY <1>8 DEF CalledFrom
    <3>1. p \in 1 .. b /\ built'[p] = built[p] /\ obj[built[p].of] \in {"dying", "gone"}
      BY <1>4, <1>8, <1>10
    <3>2. PICK k \in 1 .. t : Called(k) /\ dtors[k] = built[p].of
      BY <1>6, <1>7, <1>8, <3>1 DEF History, CalledFrom
    <3> QED BY <1>12, <1>15, <3>1, <3>2
  <2>4. KeptInTable'
    <3> SUFFICES ASSUME NEW p \in 1 .. b + 1, built'[p].fate = "kept"
                 PROVE  \E k \in DOMAIN dtors' :
                          /\ dtors'[k] = built'[p].of
                          /\ Called(k)' => obj'[dtors'[k]] \in {"dying", "gone"}
      BY <1>8 DEF KeptInTable
    <3>1. CASE p \in 1 .. b
      <4>1. PICK k \in 1 .. t : /\ dtors[k] = built[p].of
                                /\ Called(k) => obj[dtors[k]] \in {"dying", "gone"}
        BY <1>6, <1>7, <1>8, <3>1 DEF History, KeptInTable
      <4>2. Called(k)' => Called(k)
        BY <1>7, <1>12
      <4>3. k \in DOMAIN dtors' /\ dtors'[k] = dtors[k] /\ built'[p] = built[p]
        BY <1>8, <1>15, <3>1
      <4>4. obj'[dtors[k]] = obj[dtors[k]]
        <5>1. dtors[k] = built[p].of
          BY <4>1
        <5>2. obj'[built[p].of] = obj[built[p].of]
          BY <1>10, <3>1
        <5> QED BY <5>1, <5>2
      <4> QED BY <4>1, <4>2, <4>3, <4>4
    <3>2. CASE p = b + 1
      <4>1. built'[p].of = x /\ Fate = "kept"
        BY <1>8, <3>2
      <4>2. t # MaxDtors /\ ~Called(t + 1)
        BY <4>1 DEF Fate, Finalizing, Called, Final, t
      <4>3. t + 1 \in DOMAIN dtors' /\ dtors'[t + 1] = x
        BY <1>7, <4>2
      <4> QED BY <1>7, <1>12, <4>1, <4>2, <4>3
    <3> QED BY <1>8, <3>1, <3>2
  <2> QED BY <2>1, <2>2, <2>3, <2>4 DEF History
<1>f. BuiltFirstDiesLast' /\ KeptAreDestroyed'
  BY <1>4, <1>6, <1>8, <1>10 DEF BuiltFirstDiesLast, KeptAreDestroyed
<1> QED BY <1>a, <1>b, <1>c, <1>d, <1>e, <1>f

\* The program dies.
LEMMA DieInv ==
  ASSUME LifeInv, halted' = "terminate", UNCHANGED <<stack, guard, dtors, obj, built>>
  PROVE  LifeInv'
<1> USE DEF LifeInv
<1>1. TypeOK'
  BY DEF TypeOK
<1>2. Shape' /\ Lives'
  BY DEF Shape, Bottom, MainBelow, OneFinal, DtorAbove, Once, Final,
         Lives, AtWork, Worked, Building, GuardTells, Untouched
<1>3. Table'
  BY DEF Table, InTable, TableOnce, TableAlive, Called, Final
<1>4. History'
  BY DEF History, BuiltOnce, SameOrder, CalledFrom, KeptInTable
<1>5. BuiltFirstDiesLast' /\ KeptAreDestroyed'
  BY DEF BuiltFirstDiesLast, KeptAreDestroyed
<1> QED BY <1>1, <1>2, <1>3, <1>4, <1>5

\* A function is given to atexit.
LEMMA AtExitInv ==
  ASSUME LifeInv, NEW f \in Functions, AtExit(f)
  PROVE  LifeInv'
<1> DEFINE t == Len(dtors)
<1> USE DEF LifeInv
<1>1. /\ dtors' \in Seq(Objects \cup Functions) /\ t \in Nat /\ t < MaxDtors /\ Len(dtors') = t + 1
      /\ DOMAIN dtors = 1 .. t /\ DOMAIN dtors' = 1 .. t + 1
      /\ \A k \in 1 .. t : dtors'[k] = dtors[k]
      /\ dtors'[t + 1] = f /\ f \notin Objects
  <2>1. dtors \in Seq(Objects \cup Functions) /\ f \in Objects \cup Functions
    BY DEF TypeOK
  <2>2. t \in Nat /\ t < MaxDtors /\ MaxDtors \in Nat
    BY TableFacts, LifecycleAssumption DEF AtExit
  <2>3. dtors' = Append(dtors, f)
    BY <2>2 DEF AtExit, Register
  <2> QED BY <2>1, <2>2, <2>3, TableFacts, PushFacts, LifecycleAssumption
<1>2. halted = "no" /\ UNCHANGED <<stack, guard, obj, halted, built>>
  BY DEF AtExit, InUserCode
<1>3. \A k \in 1 .. t + 1 : dtors'[k] \in Objects => k \in 1 .. t /\ dtors'[k] = dtors[k]
  BY <1>1
<1>4. \A k \in 1 .. t + 1 : k \in 1 .. t + 1 /\ (Called(k)' <=> Called(k))
  BY <1>2 DEF Called, Final
<1>5. \A k \in 1 .. t : k \in 1 .. t + 1
  BY <1>1
<1>6. \A g \in DOMAIN stack : Final(g) => stack[g].n \in Int
  <2>1. \A g \in DOMAIN stack : stack[g] \in Activation
    BY <1>2, TopFacts DEF Shape
  <2> QED BY <2>1, ActFacts
<1> HIDE DEF t
<1>a. TypeOK'
  BY <1>1, <1>2, LifecycleAssumption DEF TypeOK
<1>b. Shape' /\ Lives'
  BY <1>2 DEF Shape, Bottom, MainBelow, OneFinal, DtorAbove, Once, Final,
              Lives, AtWork, Worked, Building, GuardTells, Untouched
<1>c. Table'
  <2>1. InTable'
    BY <1>1, <1>2, <1>6 DEF Table, InTable, Final, t
  <2>2. TableOnce'
    BY <1>1, <1>2, <1>3 DEF Table, TableOnce
  <2>3. TableAlive'
    BY <1>1, <1>2, <1>3, <1>4 DEF Table, TableAlive
  <2> QED BY <2>1, <2>2, <2>3 DEF Table
<1>d. History'
  <2>1. BuiltOnce'
    BY <1>2 DEF History, BuiltOnce
  <2>2. SameOrder'
    <3>1. \A p \in DOMAIN built : built[p].of \in Objects
      BY TableFacts
    <3> QED BY <1>1, <1>2, <1>3, <3>1 DEF History, SameOrder
  <2>3. CalledFrom' /\ KeptInTable'
    BY <1>1, <1>2, <1>4, <1>5 DEF History, CalledFrom, KeptInTable
  <2> QED BY <2>1, <2>2, <2>3 DEF History
<1>e. BuiltFirstDiesLast' /\ KeptAreDestroyed'
  BY <1>2 DEF BuiltFirstDiesLast, KeptAreDestroyed
<1> QED BY <1>a, <1>b, <1>c, <1>d, <1>e

\* The finalization begins with the whole table ahead of it.
LEMMA FinalizeFacts ==
  ASSUME LifeInv, halted = "no", UNCHANGED <<dtors, obj, halted, built>>,
         \A i \in DOMAIN stack : ~Final(i),
         \A i \in DOMAIN stack' : Final(i)' => stack'[i].n = Len(dtors)
  PROVE  Table' /\ History' /\ BuiltFirstDiesLast' /\ KeptAreDestroyed'
<1> USE DEF LifeInv
<1>1. Len(dtors) \in Nat /\ DOMAIN dtors = 1 .. Len(dtors)
  BY TableFacts
<1>2. \A k \in DOMAIN dtors : ~Called(k) /\ ~Called(k)'
  BY <1>1 DEF Called
<1>a. Table'
  <2>1. InTable'
    BY <1>1 DEF InTable
  <2>2. TableOnce' /\ TableAlive'
    BY <1>2 DEF Table, TableOnce, TableAlive
  <2> QED BY <2>1, <2>2 DEF Table
<1>b. History'
  BY <1>2 DEF History, BuiltOnce, SameOrder, CalledFrom, KeptInTable
<1>c. BuiltFirstDiesLast' /\ KeptAreDestroyed'
  BY DEF BuiltFirstDiesLast, KeptAreDestroyed
<1> QED BY <1>a, <1>b, <1>c

\* main returns.
LEMMA ReturnFromMainInv ==
  ASSUME LifeInv, ReturnFromMain
  PROVE  LifeInv'
<1> DEFINE n == Len(stack)
           a == Act("finalize", "fini", Len(dtors))
<1> USE DEF LifeInv
<1>1. /\ stack \in Seq(Activation) /\ n \in Nat \ {0} /\ DOMAIN stack = 1 .. n
      /\ Top = stack[n]
  BY TopFacts DEF ReturnFromMain, Shape
<1>2. n = 1 /\ Top.run = "main"
  BY <1>1 DEF ReturnFromMain, Shape, MainBelow
<1>3. stack' = <<a>>
  <2>1. Pop = <<>>
    BY <1>1, <1>2 DEF Pop
  <2> QED BY <2>1 DEF ReturnFromMain, Replace
<1>4. halted = "no" /\ UNCHANGED <<obj, guard, dtors, halted, built>>
  BY DEF ReturnFromMain
<1> HIDE DEF n
<1>a. TypeOK'
  <2>1. Len(dtors) \in 0 .. MaxDtors
    BY TableFacts, LifecycleAssumption DEF TypeOK
  <2>2. a \in Activation
    BY <2>1 DEF Act, Activation
  <2> HIDE DEF a
  <2> QED BY <1>3, <1>4, <2>2 DEF TypeOK
<1>b. Shape'
  BY <1>3, <1>4 DEF Shape, Bottom, MainBelow, OneFinal, DtorAbove, Once, Final, Act
<1>c. Lives'
  <2>1. AtWork' /\ Untouched'
    BY <1>3 DEF AtWork, Untouched, Act
  <2>2. Worked'
    BY <1>1, <1>2, <1>3, <1>4 DEF Lives, Worked, Building, Act
  <2>3. GuardTells'
    BY <1>4 DEF Lives, GuardTells
  <2> QED BY <2>1, <2>2, <2>3 DEF Lives
<1>d. Table' /\ History' /\ BuiltFirstDiesLast' /\ KeptAreDestroyed'
  <2>1. \A i \in DOMAIN stack' : Final(i)' => stack'[i].n = Len(dtors)
    BY <1>3 DEF Act
  <2>2. \A i \in DOMAIN stack : ~Final(i)
    BY <1>1, <1>2 DEF Final
  <2> QED BY <1>4, <2>1, <2>2, FinalizeFacts
<1> QED BY <1>a, <1>b, <1>c, <1>d

\* exit() is called.
LEMMA ExitInv ==
  ASSUME LifeInv, Exit
  PROVE  LifeInv'
<1> DEFINE n == Len(stack)
           a == Act("finalize", "exit", Len(dtors))
<1> USE DEF LifeInv
<1>1. /\ stack \in Seq(Activation) /\ n \in Nat \ {0} /\ DOMAIN stack = 1 .. n
      /\ \A i \in 1 .. n : stack[i] \in Activation
  BY TopFacts DEF Exit, InUserCode, Shape
<1>2. a \in Activation /\ a.run = "finalize" /\ a.n = Len(dtors)
  <2>1. Len(dtors) \in 0 .. MaxDtors
    BY TableFacts, LifecycleAssumption DEF TypeOK
  <2> QED BY <2>1 DEF Act, Activation
<1> HIDE DEF a
<1>3. /\ stack' \in Seq(Activation) /\ Len(stack') = n + 1 /\ DOMAIN stack' = 1 .. n + 1
      /\ \A i \in 1 .. n : stack'[i] = stack[i]
      /\ stack'[n + 1] = a
  BY <1>1, <1>2, PushFacts DEF Exit, Push, a
<1>4. halted = "no" /\ UNCHANGED <<obj, guard, dtors, halted, built>>
  BY DEF Exit, InUserCode
<1>5. \A i \in 1 .. n : ~Final(i)
  BY <1>1 DEF Exit, Finalizing, Final
<1>6. \A i \in 1 .. n + 1 : i \in 1 .. n \/ i = n + 1
  BY <1>1
<1>7. \A i \in 1 .. n : i \in 1 .. n + 1
  BY <1>1
<1> HIDE DEF n
<1>a. TypeOK'
  BY <1>3, <1>4 DEF TypeOK
<1>b. Shape'
  <2>1. Bottom'
    BY <1>1, <1>3, <1>4 DEF Shape, Bottom
  <2>2. MainBelow' /\ OneFinal' /\ Once'
    BY <1>1, <1>2, <1>3, <1>5, <1>6 DEF Shape, MainBelow, OneFinal, Once, Final
  <2>3. DtorAbove'
    <3>1. \A i \in 1 .. n : stack[i].run # "dtor"
      <4> SUFFICES ASSUME NEW i \in 1 .. n, stack[i].run = "dtor"
                   PROVE  FALSE
        OBVIOUS
      <4>1. PICK f \in 1 .. i - 1 : Final(f)
        BY <1>1 DEF Shape, DtorAbove
      <4> QED BY <1>1, <1>5, <4>1
    <3> QED BY <1>2, <1>3, <1>6, <3>1 DEF DtorAbove
  <2> QED BY <2>1, <2>2, <2>3 DEF Shape
<1>c. Lives'
  <2>1. AtWork' /\ Untouched'
    BY <1>1, <1>2, <1>3, <1>4, <1>6 DEF Lives, AtWork, Untouched
  <2>2. Worked'
    BY <1>1, <1>3, <1>4, <1>7 DEF Lives, Worked, Building
  <2>3. GuardTells'
    BY <1>4 DEF Lives, GuardTells
  <2> QED BY <2>1, <2>2, <2>3 DEF Lives
<1>d. Table' /\ History' /\ BuiltFirstDiesLast' /\ KeptAreDestroyed'
  <2>1. \A i \in DOMAIN stack' : Final(i)' => stack'[i].n = Len(dtors)
    BY <1>2, <1>3, <1>5, <1>6 DEF Final
  <2>2. \A i \in DOMAIN stack : ~Final(i)
    BY <1>1, <1>5
  <2> QED BY <1>4, <2>1, <2>2, FinalizeFacts
<1> QED BY <1>a, <1>b, <1>c, <1>d

\* The stack when the loop of the finalization has the control.
LEMMA LoopFacts ==
  ASSUME LifeInv, halted = "no", Top.run = "finalize"
  PROVE  /\ \A i \in 1 .. Len(stack) : Final(i) <=> i = Len(stack)
         /\ \A i \in 1 .. Len(stack) : stack[i].run # "dtor"
         /\ Top.n \in 0 .. Len(dtors)
         /\ \A k \in Int : Called(k) <=> k > Top.n
         /\ \A x \in Objects : obj[x] # "dying"
<1> DEFINE n == Len(stack)
<1> USE DEF LifeInv
<1>1. /\ n \in Nat \ {0} /\ DOMAIN stack = 1 .. n
      /\ Top = stack[n] /\ Top \in Activation
  BY TopFacts DEF Shape
<1>2. n \in 1 .. n /\ Final(n)
  BY <1>1 DEF Final
<1> HIDE DEF n
<1>3. \A i \in 1 .. n : Final(i) <=> i = n
  BY <1>1, <1>2 DEF Shape, OneFinal
<1>4. \A i \in 1 .. n : stack[i].run # "dtor"
  <2> SUFFICES ASSUME NEW i \in 1 .. n, stack[i].run = "dtor"
               PROVE  FALSE
    OBVIOUS
  <2>1. PICK f \in 1 .. i - 1 : Final(f)
    BY <1>1 DEF Shape, DtorAbove
  <2>2. f \in 1 .. n /\ f # n
    BY <1>1
  <2> QED BY <1>3, <2>1, <2>2
<1>5. Top.n \in 0 .. Len(dtors)
  <2>1. Top.n \in 0 .. MaxDtors
    BY <1>1, ActFacts
  <2> QED BY <1>1, <1>2, <2>1, TableFacts, LifecycleAssumption DEF Table, InTable
<1>6. \A k \in Int : Called(k) <=> k > Top.n
  BY <1>1, <1>2, <1>3 DEF Called
<1>7. \A x \in Objects : obj[x] # "dying"
  <2> SUFFICES ASSUME NEW x \in Objects, obj[x] = "dying"
               PROVE  FALSE
    OBVIOUS
  <2>1. PICK i \in 1 .. n : stack[i] = Act("dtor", x, 0)
    BY <1>1 DEF Lives, Worked
  <2> QED BY <1>4, <2>1 DEF Act
<1> QED BY <1>3, <1>4, <1>5, <1>6, <1>7 DEF n

\* The loop calls the next destructor.
LEMMA CallDtorInv ==
  ASSUME LifeInv, CallDtor
  PROVE  LifeInv'
<1> DEFINE n == Len(stack)
           m == Top.n
           d == dtors[m]
           a == [Top EXCEPT !.n = m - 1]
           c == Act("dtor", d, 0)
<1> USE DEF LifeInv
<1>1. /\ stack \in Seq(Activation) /\ stack # <<>> /\ n \in Nat \ {0} /\ DOMAIN stack = 1 .. n
      /\ \A i \in 1 .. n : stack[i] \in Activation
      /\ Top = stack[n] /\ Top \in Activation
  BY TopFacts DEF CallDtor, Shape, Bottom
<1>2. /\ halted = "no" /\ Top.run = "finalize" /\ m > 0 /\ m \in Int
      /\ m \in DOMAIN dtors /\ m - 1 \in 0 .. MaxDtors /\ m <= Len(dtors)
  <2>1. halted = "no" /\ Top.run = "finalize" /\ m > 0
    BY DEF CallDtor
  <2>2. m \in 0 .. Len(dtors) /\ Len(dtors) <= MaxDtors
    BY <2>1, LoopFacts DEF TypeOK
  <2> QED BY <2>1, <2>2, TableFacts, LifecycleAssumption
<1>3. d \in Objects \cup Functions /\ (d \in Objects => obj[d] = "alive" /\ d \notin Functions)
  <2>1. ~Called(m)
    BY <1>2, LoopFacts
  <2> QED BY <1>2, <2>1, TableFacts, LifecycleAssumption DEF Table, TableAlive
<1>4. /\ a \in Activation /\ a.run = "finalize" /\ a.n = m - 1
      /\ c \in Activation /\ c.run = "dtor" /\ c.of = d
  <2>1. Top = Act("finalize", Top.of, m) /\ Top.of \in {"fini", "exit"}
    BY <1>1, <1>2, ActFacts
  <2>2. a = Act("finalize", Top.of, m - 1)
    BY <2>1 DEF Act
  <2> QED BY <1>2, <1>3, <2>1, <2>2 DEF Act, Activation
<1>5. stack' = SubSeq(stack, 1, n - 1) \o <<a, c>>
  BY DEF CallDtor, NextIndex, Pop
<1>6. /\ obj' \in [Objects -> {"none", "building", "alive", "dying", "gone"}]
      /\ d \in Objects => obj'[d] = "dying"
      /\ \A y \in Objects : y # d => obj'[y] = obj[y]
  BY <1>3 DEF CallDtor, TypeOK
<1>7. UNCHANGED <<guard, dtors, halted, built>>
  BY DEF CallDtor
<1> HIDE DEF n, m, d, a, c
<1>8. /\ stack' \in Seq(Activation) /\ Len(stack') = n + 1 /\ DOMAIN stack' = 1 .. n + 1
      /\ \A i \in 1 .. n - 1 : stack'[i] = stack[i]
      /\ stack'[n] = a /\ stack'[n + 1] = c
  <2>1. stack' = Swapped(stack, a, c)
    BY <1>5 DEF n, Swapped
  <2>2. /\ stack' \in Seq(Activation) /\ Len(stack') = Len(stack) + 1
        /\ DOMAIN stack' = 1 .. Len(stack) + 1
        /\ \A i \in 1 .. Len(stack) - 1 : stack'[i] = stack[i]
        /\ stack'[Len(stack)] = a /\ stack'[Len(stack) + 1] = c
    <3>1. /\ stack \in Seq(Activation) /\ stack # <<>>
          /\ a \in Activation /\ c \in Activation
      BY <1>1, <1>4
    <3> DEFINE w == Swapped(stack, a, c)
    <3>2. w \in Seq(Activation)
      BY <3>1, SwapFacts
    <3>3. Len(w) = Len(stack) + 1
      BY <3>1, SwapFacts
    <3>4. DOMAIN w = 1 .. Len(stack) + 1
      BY <3>1, SwapFacts
    <3>5. \A i \in 1 .. Len(stack) - 1 : w[i] = stack[i]
      BY <3>1, SwapFacts
    <3>6. w[Len(stack)] = a /\ w[Len(stack) + 1] = c
      BY <3>1, SwapFacts
    <3> HIDE DEF w
    <3> QED BY <2>1, <3>2, <3>3, <3>4, <3>5, <3>6 DEF w
  <2> QED BY <2>2 DEF n
<1>9. /\ \A i \in 1 .. n + 1 : i \in 1 .. n - 1 \/ i = n \/ i = n + 1
      /\ \A i \in 1 .. n - 1 : i \in 1 .. n /\ i \in 1 .. n + 1 /\ i # n
      /\ \A i \in 1 .. n : i \in 1 .. n - 1 \/ i = n
      /\ n \in 1 .. n /\ n \in 1 .. n + 1 /\ n + 1 \in 1 .. n + 1
  BY <1>1
<1>10. /\ \A i \in 1 .. n : Final(i) <=> i = n
       /\ \A i \in 1 .. n : stack[i].run # "dtor"
       /\ \A k \in Int : Called(k) <=> k > m
       /\ \A x \in Objects : obj[x] # "dying"
  BY <1>2, LoopFacts DEF n, m
<1>11. \A i \in 1 .. n + 1 : Final(i)' <=> i = n
  BY <1>4, <1>8, <1>9, <1>10 DEF Final
<1>12. \A k \in Int : Called(k)' <=> k > m - 1
  BY <1>4, <1>8, <1>9, <1>11 DEF Called
<1>13. \A k \in DOMAIN dtors : k \in Int
  BY TableFacts
<1>a. TypeOK'
  BY <1>6, <1>7, <1>8 DEF TypeOK
<1>b. Shape'
  <2>1. Bottom'
    <3>1. stack' # <<>>
      BY <1>1, <1>8
    <3>2. stack'[1].run \notin {"ctor", "dtor"}
      <4>1. CASE n = 1
        BY <1>4, <1>8, <4>1
      <4>2. CASE n # 1
        <5>1. 1 \in 1 .. n - 1
          BY <1>1, <4>2
        <5> QED BY <1>2, <1>8, <5>1 DEF Shape, Bottom
      <4> QED BY <4>1, <4>2
    <3> QED BY <3>1, <3>2 DEF Bottom
  <2>2. MainBelow'
    BY <1>1, <1>4, <1>8, <1>9 DEF Shape, MainBelow
  <2>3. OneFinal'
    BY <1>8, <1>11 DEF OneFinal
  <2>4. DtorAbove'
    <3>1. \A i \in 1 .. n + 1 : stack'[i].run = "dtor" => i = n + 1
      BY <1>4, <1>8, <1>9, <1>10
    <3>2. n \in 1 .. (n + 1) - 1 /\ stack'[n].run = "finalize"
      BY <1>1, <1>4, <1>8
    <3> QED BY <1>8, <3>1, <3>2 DEF DtorAbove, Final
  <2>5. Once'
    BY <1>1, <1>4, <1>8, <1>9, <1>10 DEF Shape, Once
  <2> QED BY <2>1, <2>2, <2>3, <2>4, <2>5 DEF Shape
<1>c. Lives'
  <2>1. AtWork'
    <3>1. \A i \in 1 .. n - 1 : stack[i].run = "ctor" =>
            stack[i].of \in Objects /\ stack[i].of # d
      BY <1>1, <1>3, <1>9, ActFacts DEF Lives, AtWork
    <3> QED BY <1>1, <1>3, <1>4, <1>6, <1>8, <1>9, <1>10, <3>1 DEF Lives, AtWork
  <2>2. Worked'
    <3> SUFFICES ASSUME NEW y \in Objects
                 PROVE  /\ obj'[y] = "building" => Building(y)'
                        /\ obj'[y] = "dying" => \E i \in DOMAIN stack' : stack'[i] = Act("dtor", y, 0)
      BY DEF Worked
    <3>1. CASE y = d
      BY <1>6, <1>8, <1>9, <3>1 DEF c
    <3>2. CASE y # d
      <4>1. obj'[y] = obj[y] /\ obj[y] # "dying"
        BY <1>6, <1>10, <3>2
      <4>2. ASSUME obj[y] = "building" PROVE Building(y)'
        <5>1. PICK i \in 1 .. n : stack[i] = Act("ctor", y, 0)
          BY <1>1, <4>2 DEF Lives, Worked, Building
        <5>2. i \in 1 .. n - 1
          BY <1>1, <1>2, <1>9, <5>1 DEF Act
        <5> QED BY <1>8, <1>9, <5>1, <5>2 DEF Building
      <4> QED BY <4>1, <4>2
    <3> QED BY <3>1, <3>2
  <2>3. GuardTells'
    BY <1>3, <1>6, <1>7 DEF Lives, GuardTells, Born, Objects
  <2>4. Untouched'
    <3>1. \A i \in 1 .. n - 1 : stack[i].run = "init" => stack[i].n \in 1 .. Len(Globals) + 1
      BY <1>1, <1>9, ActFacts
    <3>2. \A g \in 1 .. Len(Globals) : obj[Globals[g]] = "none" => obj'[Globals[g]] = "none"
      BY <1>3, <1>6, GlobalFacts
    <3>3. \A i \in 1 .. n + 1 : stack'[i].run = "init" =>
            /\ i \in 1 .. n - 1 /\ i \in 1 .. n /\ stack'[i] = stack[i]
            /\ stack[i].n \in 1 .. Len(Globals) + 1
      BY <1>4, <1>8, <1>9, <3>1
    <3> QED BY <1>1, <1>8, <3>2, <3>3, GlobalFacts DEF Lives, Untouched
  <2> QED BY <2>1, <2>2, <2>3, <2>4 DEF Lives
<1>d. Table'
  <2>1. InTable'
    BY <1>2, <1>4, <1>7, <1>8, <1>11, TableFacts DEF InTable
  <2>2. TableOnce'
    BY <1>3, <1>6, <1>7 DEF Table, TableOnce, Born
  <2>3. TableAlive'
    <3> SUFFICES ASSUME NEW k \in DOMAIN dtors, dtors[k] \in Objects, ~Called(k)'
                 PROVE  obj'[dtors[k]] = "alive"
      BY <1>7 DEF TableAlive
    <3>1. k # m /\ ~Called(k)
      BY <1>2, <1>10, <1>12, <1>13
    <3>2. dtors[k] # d
      BY <1>2, <3>1 DEF Table, TableOnce, d
    <3> QED BY <1>6, <3>1, <3>2 DEF Table, TableAlive
  <2> QED BY <2>1, <2>2, <2>3 DEF Table
<1>14. \A p \in DOMAIN built : built[p].of \in Objects
  BY TableFacts
<1>e. History'
  <2>1. BuiltOnce' /\ SameOrder'
    BY <1>3, <1>6, <1>7, <1>14 DEF History, BuiltOnce, SameOrder, Born
  <2>2. CalledFrom'
    <3> SUFFICES ASSUME NEW p \in DOMAIN built, obj'[built[p].of] \in {"dying", "gone"}
                 PROVE  \E k \in DOMAIN dtors : Called(k)' /\ dtors[k] = built[p].of
      BY <1>7 DEF CalledFrom
    <3>1. CASE built[p].of = d
      BY <1>2, <1>12, <3>1 DEF d
    <3>2. CASE built[p].of # d
      <4>1. PICK k \in DOMAIN dtors : Called(k) /\ dtors[k] = built[p].of
        BY <1>2, <1>6, <1>14, <3>2 DEF History, CalledFrom
      <4>2. Called(k)'
        BY <1>2, <1>10, <1>12, <1>13, <4>1
      <4> QED BY <4>1, <4>2
    <3> QED BY <3>1, <3>2
  <2>3. KeptInTable'
    <3> SUFFICES ASSUME NEW p \in DOMAIN built, built[p].fate = "kept"
                 PROVE  \E k \in DOMAIN dtors :
                          /\ dtors[k] = built[p].of
                          /\ Called(k)' => obj'[dtors[k]] \in {"dying", "gone"}
      BY <1>7 DEF KeptInTable
    <3>1. PICK k \in DOMAIN dtors :
                 /\ dtors[k] = built[p].of
                 /\ Called(k) => obj[dtors[k]] \in {"dying", "gone"}
      BY <1>2 DEF History, KeptInTable
    <3>2. dtors[k] \in Objects
      BY <1>14, <3>1
    <3>3. CASE dtors[k] = d
      BY <1>6, <3>1, <3>2, <3>3
    <3>4. CASE dtors[k] # d
      <4>1. k # m
        BY <3>4 DEF d
      <4>2. Called(k)' => Called(k)
        BY <1>2, <1>10, <1>12, <1>13, <4>1
      <4> QED BY <1>6, <3>1, <3>2, <3>4, <4>2
    <3> QED BY <3>3, <3>4
  <2> QED BY <2>1, <2>2, <2>3 DEF History
<1>f. BuiltFirstDiesLast'
  <2> SUFFICES ASSUME NEW i \in DOMAIN built, NEW j \in DOMAIN built,
                      i < j, obj'[built[j].of] = "dying"
               PROVE  obj'[built[i].of] = "alive"
    BY <1>7 DEF BuiltFirstDiesLast
  <2>1. built[j].of = d
    BY <1>6, <1>10, <1>14
  <2>2. built[i].of # d /\ obj'[built[i].of] = obj[built[i].of]
    <3>1. i # j
      BY TableFacts
    <3> QED BY <1>6, <1>14, <2>1, <3>1 DEF History, BuiltOnce
  <2>3. obj[built[i].of] \notin {"dying", "gone"}
    <3> SUFFICES ASSUME obj[built[i].of] \in {"dying", "gone"}
                 PROVE  FALSE
      OBVIOUS
    <3>1. PICK k \in DOMAIN dtors : Called(k) /\ dtors[k] = built[i].of
      BY <1>2 DEF History, CalledFrom
    <3>2. k < m
      BY <1>2, <2>1, <3>1 DEF History, SameOrder, d
    <3>3. k > m
      BY <1>10, <1>13, <3>1
    <3> QED BY <1>2, <1>13, <3>2, <3>3
  <2> QED BY <2>2, <2>3 DEF History, BuiltOnce, Born
<1>g. KeptAreDestroyed'
  BY <1>2, <1>7 DEF KeptAreDestroyed
<1> QED BY <1>a, <1>b, <1>c, <1>d, <1>e, <1>f, <1>g

\* The destructor returns.
LEMMA FinishDtorInv ==
  ASSUME LifeInv, FinishDtor
  PROVE  LifeInv'
<1> DEFINE n == Len(stack)
           x == Top.of
<1> USE DEF LifeInv
<1>1. /\ stack \in Seq(Activation) /\ n \in Nat \ {0} /\ DOMAIN stack = 1 .. n
      /\ \A i \in 1 .. n : stack[i] \in Activation
      /\ Top = stack[n] /\ Top \in Activation
  BY TopFacts DEF FinishDtor, Shape
<1>2. /\ Top = Act("dtor", x, 0) /\ Top.run = "dtor" /\ n # 1
      /\ x \in Objects => obj[x] = "dying"
  <2>1. halted = "no" /\ Top.run = "dtor" /\ stack[1].run # "dtor"
    BY DEF FinishDtor, Shape, Bottom
  <2>2. n # 1 /\ Top = Act("dtor", x, 0)
    BY <1>1, <2>1, ActFacts
  <2> QED BY <1>1, <2>1, <2>2 DEF Lives, AtWork
<1>3. /\ stack' \in Seq(Activation) /\ Len(stack') = n - 1 /\ DOMAIN stack' = 1 .. n - 1
      /\ \A i \in 1 .. n - 1 : stack'[i] = stack[i]
  BY <1>1, PrefixFacts DEF FinishDtor, Pop
<1>4. /\ obj' \in [Objects -> {"none", "building", "alive", "dying", "gone"}]
      /\ x \in Objects => obj'[x] = "gone"
      /\ \A y \in Objects : y # x => obj'[y] = obj[y]
  BY DEF FinishDtor, TypeOK
<1>5. halted = "no" /\ UNCHANGED <<guard, dtors, halted, built>>
  BY DEF FinishDtor
<1>6. stack[n].run = "dtor" /\ stack[n].of = x
  BY <1>1, <1>2
<1> HIDE DEF n, x
<1>7. /\ \A i \in 1 .. n - 1 : i \in 1 .. n /\ i # n
      /\ \A i \in 1 .. n : i \in 1 .. n - 1 \/ i = n
      /\ n \in 1 .. n /\ 1 \in 1 .. n - 1
  BY <1>1, <1>2
<1>8. \A i \in 1 .. n - 1 : Final(i)' <=> Final(i)
  BY <1>3 DEF Final
<1>9. ~Final(n)
  BY <1>6 DEF Final
<1>10. \A k \in Int : Called(k)' <=> Called(k)
  BY <1>1, <1>3, <1>7, <1>8, <1>9 DEF Called
<1>11. /\ \A k \in DOMAIN dtors : k \in Int /\ dtors[k] \in Objects \cup Functions
       /\ \A p \in DOMAIN built : built[p].of \in Objects
  BY TableFacts
<1>a. TypeOK'
  BY <1>3, <1>4, <1>5 DEF TypeOK
<1>b. Shape'
  <2>1. Bottom' /\ MainBelow' /\ OneFinal' /\ Once'
    BY <1>1, <1>3, <1>5, <1>7, <1>8 DEF Shape, Bottom, MainBelow, OneFinal, Once
  <2>2. DtorAbove'
    <3> SUFFICES ASSUME NEW i \in 1 .. n - 1, stack[i].run = "dtor"
                 PROVE  \E f \in 1 .. i - 1 : Final(f)'
      BY <1>3 DEF DtorAbove
    <3>1. PICK f \in 1 .. i - 1 : Final(f)
      BY <1>1, <1>7 DEF Shape, DtorAbove
    <3>2. f \in 1 .. n - 1
      BY <1>1
    <3> QED BY <1>8, <3>1, <3>2
  <2> QED BY <2>1, <2>2 DEF Shape
<1>c. Lives'
  <2>1. AtWork'
    <3>1. \A i \in 1 .. n - 1 : /\ stack[i].run = "ctor" => stack[i].of \in Objects
                                /\ stack[i].run = "dtor" => stack[i] = Act("dtor", stack[i].of, 0)
      BY <1>1, <1>7, ActFacts
    <3>2. \A i \in 1 .. n - 1 : stack[i].run = "ctor" => stack[i].of # x
      BY <1>1, <1>2, <1>7, <3>1 DEF Lives, AtWork
    <3>3. \A i \in 1 .. n - 1 : stack[i].run = "dtor" /\ stack[i].of \in Objects => stack[i].of # x
      <4> SUFFICES ASSUME NEW i \in 1 .. n - 1, stack[i].run = "dtor", stack[i].of \in Objects,
                          stack[i].of = x
                   PROVE  FALSE
        OBVIOUS
      <4>1. stack[i] = stack[n] /\ i \in 1 .. n /\ i # n
        BY <1>1, <1>2, <1>7, <3>1
      <4> QED BY <1>1, <1>7, <4>1 DEF Shape, Once
    <3> QED BY <1>1, <1>3, <1>4, <1>7, <3>1, <3>2, <3>3 DEF Lives, AtWork
  <2>2. Worked'
    <3> SUFFICES ASSUME NEW y \in Objects, y # x
                 PROVE  /\ obj'[y] = "building" => Building(y)'
                        /\ obj'[y] = "dying" => \E i \in DOMAIN stack' : stack'[i] = Act("dtor", y, 0)
      BY <1>4 DEF Worked
    <3>1. \A i \in 1 .. n : stack[i] \in {Act("ctor", y, 0), Act("dtor", y, 0)} => i \in 1 .. n - 1
      BY <1>6, <1>7 DEF Act
    <3> QED BY <1>1, <1>3, <1>4, <3>1 DEF Lives, Worked, Building
  <2>3. GuardTells'
    BY <1>2, <1>4, <1>5 DEF Lives, GuardTells, Born, Objects
  <2>4. Untouched'
    <3>1. \A i \in 1 .. n - 1 : stack[i].run = "init" => stack[i].n \in 1 .. Len(Globals) + 1
      BY <1>1, <1>7, ActFacts
    <3>2. \A m \in 1 .. Len(Globals) : obj[Globals[m]] = "none" => obj'[Globals[m]] = "none"
      BY <1>2, <1>4, GlobalFacts
    <3> QED BY <1>1, <1>3, <1>7, <3>1, <3>2, GlobalFacts DEF Lives, Untouched
  <2> QED BY <2>1, <2>2, <2>3, <2>4 DEF Lives
<1>d. Table'
  <2>1. InTable'
    BY <1>1, <1>3, <1>5, <1>7, <1>8 DEF Table, InTable
  <2>2. TableOnce'
    BY <1>2, <1>4, <1>5 DEF Table, TableOnce, Born
  <2>3. TableAlive'
    BY <1>2, <1>4, <1>5, <1>10, <1>11 DEF Table, TableAlive
  <2> QED BY <2>1, <2>2, <2>3 DEF Table
<1>e. History'
  <2>1. BuiltOnce' /\ SameOrder'
    BY <1>2, <1>4, <1>5, <1>11 DEF History, BuiltOnce, SameOrder, Born
  <2>2. CalledFrom'
    BY <1>2, <1>4, <1>5, <1>10, <1>11 DEF History, CalledFrom
  <2>3. KeptInTable'
    <3> SUFFICES ASSUME NEW p \in DOMAIN built, built[p].fate = "kept"
                 PROVE  \E k \in DOMAIN dtors :
                          /\ dtors[k] = built[p].of
                          /\ Called(k)' => obj'[dtors[k]] \in {"dying", "gone"}
      BY <1>5 DEF KeptInTable
    <3>1. PICK k \in DOMAIN dtors :
                 /\ dtors[k] = built[p].of
                 /\ Called(k) => obj[dtors[k]] \in {"dying", "gone"}
      BY <1>5 DEF History, KeptInTable
    <3> QED BY <1>4, <1>10, <1>11, <3>1
  <2> QED BY <2>1, <2>2, <2>3 DEF History
<1>f. BuiltFirstDiesLast' /\ KeptAreDestroyed'
  BY <1>2, <1>4, <1>5, <1>11 DEF BuiltFirstDiesLast, KeptAreDestroyed
<1> QED BY <1>a, <1>b, <1>c, <1>d, <1>e, <1>f

\* The loop is over.
LEMMA FinishFinalizeInv ==
  ASSUME LifeInv, FinishFinalize
  PROVE  LifeInv'
<1> DEFINE n == Len(stack)
<1> USE DEF LifeInv
<1>1. /\ stack \in Seq(Activation) /\ n \in Nat \ {0} /\ DOMAIN stack = 1 .. n
      /\ Top = stack[n]
  BY TopFacts DEF FinishFinalize, Shape
<1>2. halted = "no" /\ Top.run = "finalize" /\ Top.n = 0
  BY DEF FinishFinalize
<1>3. /\ stack' \in Seq(Activation) /\ Len(stack') = n - 1 /\ DOMAIN stack' = 1 .. n - 1
      /\ \A i \in 1 .. n - 1 : stack'[i] = stack[i]
  BY <1>1, PrefixFacts DEF FinishFinalize, Pop
<1>4. dtors' = <<>> /\ halted' \in {"hlt", "abort"} /\ UNCHANGED <<obj, guard, built>>
  BY DEF FinishFinalize
<1>5. /\ \A i \in 1 .. n : Final(i) <=> i = n
      /\ \A i \in 1 .. n : stack[i].run # "dtor"
      /\ \A k \in Int : Called(k) <=> k > 0
      /\ \A x \in Objects : obj[x] # "dying"
  BY <1>2, LoopFacts
<1> HIDE DEF n
<1>6. /\ \A i \in 1 .. n - 1 : i \in 1 .. n /\ i # n
      /\ \A i \in 1 .. n : i \in 1 .. n - 1 \/ i = n
      /\ n \in 1 .. n
  BY <1>1
<1>7. \A i \in 1 .. n - 1 : ~Final(i)'
  BY <1>3, <1>5, <1>6 DEF Final
<1>a. TypeOK'
  <2>1. dtors' \in Seq(Objects \cup Functions) /\ Len(dtors') = 0
    BY <1>4
  <2> QED BY <1>3, <1>4, <2>1, LifecycleAssumption DEF TypeOK
<1>b. Shape'
  BY <1>1, <1>3, <1>4, <1>5, <1>6, <1>7
     DEF Shape, Bottom, MainBelow, OneFinal, DtorAbove, Once
<1>c. Lives'
  <2>1. AtWork' /\ Untouched' /\ GuardTells'
    BY <1>1, <1>3, <1>4, <1>6 DEF Lives, AtWork, Untouched, GuardTells
  <2>2. Worked'
    <3>1. \A y \in Objects : \A i \in 1 .. n : stack[i] = Act("ctor", y, 0) => i \in 1 .. n - 1
      BY <1>1, <1>2, <1>6 DEF Act
    <3> QED BY <1>1, <1>3, <1>4, <1>5, <1>6, <3>1 DEF Lives, Worked, Building
  <2> QED BY <2>1, <2>2 DEF Lives
<1>d. Table'
  BY <1>3, <1>4, <1>7 DEF Table, InTable, TableOnce, TableAlive
<1>e. History'
  BY <1>4 DEF History, BuiltOnce, SameOrder, CalledFrom, KeptInTable
<1>f. BuiltFirstDiesLast'
  BY <1>4 DEF BuiltFirstDiesLast
<1>g. KeptAreDestroyed'
  <2> SUFFICES ASSUME NEW p \in DOMAIN built, built[p].fate = "kept"
               PROVE  obj[built[p].of] = "gone"
    BY <1>4 DEF KeptAreDestroyed
  <2>1. PICK k \in DOMAIN dtors :
               /\ dtors[k] = built[p].of
               /\ Called(k) => obj[dtors[k]] \in {"dying", "gone"}
    BY <1>2 DEF History, KeptInTable
  <2>2. k \in Int /\ k > 0 /\ built[p].of \in Objects
    BY TableFacts
  <2> QED BY <1>5, <2>1, <2>2
<1> QED BY <1>a, <1>b, <1>c, <1>d, <1>e, <1>f, <1>g

-----------------------------------------------------------------------------
(* The theorems. *)

LEMMA InitInv ==
  ASSUME Init
  PROVE  LifeInv
<1> DEFINE a == Act("init", "start", 1)
<1>1. Len(Globals) \in Nat
  BY GlobalFacts
<1>2. stack = <<a>> /\ a \in Activation /\ a.run = "init" /\ a.n = 1
  BY <1>1 DEF Init, Act, Activation
<1>3. /\ dtors = <<>> /\ built = <<>> /\ halted = "no"
      /\ obj = [x \in Objects |-> "none"]
      /\ guard = [x \in Statics |-> [done |-> FALSE, pending |-> FALSE]]
  BY DEF Init
<1> HIDE DEF a
<1>a. TypeOK
  BY <1>2, <1>3, LifecycleAssumption DEF TypeOK
<1>b. Shape
  BY <1>2, <1>3 DEF Shape, Bottom, MainBelow, OneFinal, DtorAbove, Once, Final
<1>c. Lives
  <2>1. AtWork /\ Worked
    BY <1>2, <1>3 DEF AtWork, Worked
  <2>2. GuardTells
    BY <1>3 DEF GuardTells, Objects, Born
  <2>3. Untouched
    BY <1>2, <1>3, GlobalFacts DEF Untouched
  <2> QED BY <2>1, <2>2, <2>3 DEF Lives
<1>d. Table
  BY <1>2, <1>3 DEF Table, InTable, TableOnce, TableAlive, Final
<1>e. History
  BY <1>3 DEF History, BuiltOnce, SameOrder, CalledFrom, KeptInTable
<1>f. BuiltFirstDiesLast /\ KeptAreDestroyed
  BY <1>3 DEF BuiltFirstDiesLast, KeptAreDestroyed
<1> QED BY <1>a, <1>b, <1>c, <1>d, <1>e, <1>f DEF LifeInv

LEMMA StutterInv ==
  ASSUME LifeInv, UNCHANGED vars
  PROVE  LifeInv'
<1> USE DEF LifeInv, vars
<1>1. TypeOK'
  BY DEF TypeOK
<1>2. Shape' /\ Lives'
  BY DEF Shape, Bottom, MainBelow, OneFinal, DtorAbove, Once, Final,
         Lives, AtWork, Worked, Building, GuardTells, Untouched
<1>3. Table'
  BY DEF Table, InTable, TableOnce, TableAlive, Called, Final
<1>4. History'
  BY DEF History, BuiltOnce, SameOrder, CalledFrom, KeptInTable, Called, Final
<1>5. BuiltFirstDiesLast' /\ KeptAreDestroyed'
  BY DEF BuiltFirstDiesLast, KeptAreDestroyed
<1> QED BY <1>1, <1>2, <1>3, <1>4, <1>5

LEMMA NextInv ==
  ASSUME LifeInv, [Next]_vars
  PROVE  LifeInv'
<1>1. CASE Runtime
  BY <1>1, ConstructGlobalInv, StartMainInv, CallDtorInv, FinishFinalizeInv DEF Runtime
<1>2. CASE Return
  BY <1>2, FinishCtorInv, FinishDtorInv, ReturnFromMainInv DEF Return
<1>3. CASE Throw
  BY <1>3, UnwindInv DEF Throw
<1>4. CASE Die
  BY <1>4, DieInv DEF Die
<1>5. CASE Exit
  BY <1>5, ExitInv
<1>6. ASSUME NEW x \in Statics, EnterStatic(x)
      PROVE  LifeInv'
  BY <1>6, EnterStaticInv
<1>7. ASSUME NEW x \in Statics, RecursiveInit(x)
      PROVE  LifeInv'
  BY <1>7, UnwindInv, DieInv DEF RecursiveInit
<1>8. ASSUME NEW f \in Functions, AtExit(f)
      PROVE  LifeInv'
  BY <1>8, AtExitInv
<1>9. CASE UNCHANGED vars
  BY <1>9, StutterInv
<1> QED BY <1>1, <1>2, <1>3, <1>4, <1>5, <1>6, <1>7, <1>8, <1>9 DEF Next

\* guard.cc, dtors.cc, exit.cc: the invariant holds for every number of objects,
\* every size of the table and every program.
THEOREM LifecycleInvariant == Spec => []LifeInv
<1>1. Init => LifeInv
  BY InitInv
<1>2. LifeInv /\ [Next]_vars => LifeInv'
  BY NextInv
<1> QED BY <1>1, <1>2, PTL DEF Spec

\* guard.cc: an object is under construction in at most one activation, and a
\* guard lets the program use an object exactly when it was constructed.
THEOREM GuardsHold == Spec => []GuardsProtect
<1>1. LifeInv => GuardsProtect
  <2> SUFFICES ASSUME LifeInv PROVE GuardsProtect
    OBVIOUS
  <2> USE DEF LifeInv
  <2>1. stack \in Seq(Activation) /\ DOMAIN stack = 1 .. Len(stack)
    BY LenProperties DEF TypeOK
  <2>2. \A i \in DOMAIN stack : stack[i] \in Activation
    BY <2>1, ElementOfSeq
  <2>3. \A i, j \in DOMAIN stack : stack[i].run = "ctor" /\ stack[j] = stack[i] => i = j
    BY <2>2, ActFacts DEF Shape, Once
  <2>4. \A x \in Objects : obj[x] = "building" <=> Building(x)
    BY DEF Lives, AtWork, Worked, Building, Act
  <2> QED BY <2>3, <2>4 DEF GuardsProtect, Lives, GuardTells, Born
<1> QED BY <1>1, LifecycleInvariant, PTL

\* dtors.cc: objects are destroyed in the reverse order of their completion.
THEOREM ReverseOrder == Spec => []BuiltFirstDiesLast
<1>1. LifeInv => BuiltFirstDiesLast
  BY DEF LifeInv
<1> QED BY <1>1, LifecycleInvariant, PTL

\* dtors.cc: what got into the table before the finalization is destroyed when
\* the machine stops.
THEOREM KeptDestroyed == Spec => []KeptAreDestroyed
<1>1. LifeInv => KeptAreDestroyed
  BY DEF LifeInv
<1> QED BY <1>1, LifecycleInvariant, PTL

\* guard.cc, dtors.cc: an object lives once.
THEOREM LivesOnce == Spec => OneLife
<1> DEFINE Passes(x) == obj'[x] # obj[x] =>
             <<obj[x], obj'[x]>> \in {<<"none", "building">>, <<"building", "none">>,
                                      <<"building", "alive">>, <<"alive", "dying">>,
                                      <<"dying", "gone">>}
           Step == \A x \in Objects : Passes(x)
<1>1. ASSUME LifeInv, [Next]_vars
      PROVE  Step
  <2> USE <1>1 DEF LifeInv
  <2>0. obj \in [Objects -> {"none", "building", "alive", "dying", "gone"}]
    BY DEF TypeOK
  <2>1. ASSUME halted = "no"
        PROVE  /\ Top \in Activation /\ Len(stack) \in DOMAIN stack /\ Top = stack[Len(stack)]
               /\ DOMAIN stack = 1 .. Len(stack) /\ Len(stack) \in Nat
               /\ \A i \in DOMAIN stack : stack[i] \in Activation
    BY <2>1, TopFacts DEF Shape
  <2>2. CASE ConstructGlobal
    <3>1. obj[Globals[Top.n]] = "none"
      <4>1. Top.n \in Top.n .. Len(Globals) /\ Top.run = "init"
        BY <2>1, <2>2, ActFacts, GlobalFacts DEF ConstructGlobal
      <4> QED BY <2>1, <2>2, <4>1 DEF ConstructGlobal, Lives, Untouched
    <3> QED BY <2>0, <2>2, <3>1 DEF ConstructGlobal
  <2>3. CASE CallDtor
    <3>1. dtors[Top.n] \in Objects => obj[dtors[Top.n]] = "alive"
      <4>1. halted = "no" /\ Top.run = "finalize" /\ Top.n > 0
        BY <2>3 DEF CallDtor
      <4>2. Top.n \in DOMAIN dtors /\ ~Called(Top.n)
        BY <4>1, LoopFacts, TableFacts
      <4> QED BY <4>2 DEF Table, TableAlive
    <3> QED BY <2>0, <2>3, <3>1 DEF CallDtor
  <2>4. CASE FinishCtor
    <3>1. obj[Top.of] = "building"
      BY <2>1, <2>4 DEF FinishCtor, Lives, AtWork
    <3> QED BY <2>0, <2>4, <3>1 DEF FinishCtor
  <2>5. CASE FinishDtor
    <3>1. Top.of \in Objects => obj[Top.of] = "dying"
      BY <2>1, <2>5 DEF FinishDtor, Lives, AtWork
    <3> QED BY <2>0, <2>5, <3>1 DEF FinishDtor
  <2>6. ASSUME NEW k \in Catchers, InUserCode, UnwindTo(k)
        PROVE  Step
    <3>1. halted = "no"
      BY <2>6 DEF InUserCode
    <3>2. \A j \in k + 1 .. Len(stack) : obj[stack[j].of] = "building"
      <4>1. k \in 1 .. Len(stack) /\ \A j \in k + 1 .. Len(stack) : stack[j].run = "ctor"
        BY <2>1, <2>6, <3>1 DEF Catchers
      <4>2. \A j \in k + 1 .. Len(stack) : j \in DOMAIN stack
        BY <2>1, <3>1, <4>1
      <4> QED BY <4>1, <4>2 DEF Lives, AtWork
    <3> QED BY <2>0, <2>6, <3>2 DEF UnwindTo
  <2>7. ASSUME NEW x \in Statics, EnterStatic(x)
        PROVE  Step
    <3>1. x \in Objects /\ obj[x] = "none"
      BY <2>0, <2>7 DEF EnterStatic, Acquires, Lives, GuardTells, Born, Objects
    <3> QED BY <2>0, <2>7, <3>1 DEF EnterStatic
  <2>8. CASE UNCHANGED obj
    BY <2>8
  <2> HIDE DEF Step
  <2>9. CASE Runtime
    BY <2>2, <2>3, <2>8, <2>9 DEF Runtime, StartMain, FinishFinalize
  <2>10. CASE Return
    BY <2>4, <2>5, <2>8, <2>10 DEF Return, ReturnFromMain
  <2>11. CASE Throw
    BY <2>6, <2>11 DEF Throw
  <2>12. CASE Die \/ Exit \/ UNCHANGED vars \/ \E f \in Functions : AtExit(f)
    BY <2>8, <2>12 DEF Die, Exit, AtExit, vars
  <2>13. CASE \E x \in Statics : EnterStatic(x) \/ RecursiveInit(x)
    BY <2>6, <2>7, <2>8, <2>13 DEF RecursiveInit
  <2> QED BY <2>9, <2>10, <2>11, <2>12, <2>13 DEF Next
<1>2. LifeInv /\ [Next]_vars => [Step]_vars
  BY <1>1
<1>3. Spec => [][Step]_vars
  BY <1>2, LifecycleInvariant, PTL DEF Spec
<1> QED BY <1>3 DEF OneLife
=============================================================================
