-------------------------- MODULE EhRuntime_proofs --------------------------
(* Proofs about the counts, the chain and the lifetimes of module EhRuntime. *)
EXTENDS EhRuntime, FiniteSetTheorems,
        SequenceTheorems, WellFoundedInduction, TLAPS

-----------------------------------------------------------------------------
(* Sets of numbers, and sequences that are used as stacks.                   *)

\* A set of numbers that is not empty has a least one.
LEMMA HasLeast ==
  ASSUME NEW T \in SUBSET Nat, T # {}
  PROVE  \E m \in T : \A n \in T : m <= n
<1>1. PICK m \in T : \A n \in T : <<n, m>> \notin OpToRel(<, Nat)
  BY NatLessThanWellFounded, WFMin
<1>2. \A n \in T : ~(n < m)
  BY <1>1 DEF OpToRel
<1> QED BY <1>2

\* A set of indices that is not empty has a greatest one.
LEMMA HasGreatest ==
  ASSUME NEW n \in Nat, NEW T \in SUBSET (1 .. n), T # {}
  PROVE  \E m \in T : \A i \in T : i <= m
<1> DEFINE U == {u \in 0 .. n : n - u \in T}
<1>1. \A i \in T : n - i \in U
  OBVIOUS
<1>2. PICK i \in T : TRUE
  OBVIOUS
<1>3. n - i \in U
  BY <1>1
<1>4. U \subseteq 0 .. n
  OBVIOUS
<1>5. PICK u \in U : \A v \in U : u <= v
  <2> HIDE DEF U
  <2>1. U \in SUBSET Nat /\ U # {}
    BY <1>3, <1>4
  <2> QED BY <2>1, HasLeast
<1> QED BY <1>1, <1>5

\* A sequence with an element more.
LEMMA Pushed ==
  ASSUME NEW S, NEW s \in Seq(S), NEW a \in S
  PROVE  /\ Append(s, a) \in Seq(S) /\ Append(s, a) # <<>>
         /\ Len(s) \in Nat /\ DOMAIN s = 1 .. Len(s)
         /\ Len(Append(s, a)) = Len(s) + 1
         /\ DOMAIN Append(s, a) = 1 .. Len(s) + 1
         /\ \A i \in 1 .. Len(s) : Append(s, a)[i] = s[i] /\ s[i] \in S
         /\ Append(s, a)[Len(s) + 1] = a
BY AppendProperties, LenProperties, ElementOfSeq

\* The first elements of a sequence.
LEMMA Prefix ==
  ASSUME NEW S, NEW s \in Seq(S), NEW n \in 0 .. Len(s)
  PROVE  /\ SubSeq(s, 1, n) \in Seq(S)
         /\ Len(SubSeq(s, 1, n)) = n
         /\ DOMAIN SubSeq(s, 1, n) = 1 .. n
         /\ \A i \in 1 .. n : SubSeq(s, 1, n)[i] = s[i]
BY LenProperties, SubSeqProperties

\* The prefixes of a sequence with an element more.
LEMMA PrefixOfPushed ==
  ASSUME NEW S, NEW s \in Seq(S), NEW a \in S, NEW n \in 0 .. Len(s)
  PROVE  SubSeq(Append(s, a), 1, n) = SubSeq(s, 1, n) /\ SubSeq(s, 1, Len(s)) = s
<1>1. <<a>> \in Seq(S) /\ Len(s) \in Nat
  BY LenProperties
<1>2. Append(s, a) = s \o <<a>>
  BY AppendIsConcat
<1>3. SubSeq(s \o <<a>>, 1, n) = SubSeq(s, 1, n)
  BY <1>1, SubSeqOfConcat1
<1> QED BY <1>2, <1>3, SubSeqFull

\* A sequence is what lies below its last element, with that element.
LEMMA LastPushed ==
  ASSUME NEW S, NEW s \in Seq(S), s # <<>>
  PROVE  LET b == SubSeq(s, 1, Len(s) - 1)
         IN  /\ b \in Seq(S) /\ s[Len(s)] \in S
             /\ Len(s) \in Nat \ {0} /\ Len(b) = Len(s) - 1
             /\ s = Append(b, s[Len(s)])
             /\ b # <<>> => b[1] = s[1]
<1>1. PICK t \in Seq(S), a \in S : s = Append(t, a)
  BY SequenceEmptyOrAppend
<1>2. /\ Len(t) \in Nat /\ Len(s) = Len(t) + 1 /\ s[Len(s)] = a
      /\ \A i \in 1 .. Len(t) : s[i] = t[i]
  BY <1>1, Pushed
<1>3. SubSeq(s, 1, Len(s) - 1) = t
  BY <1>1, <1>2, PrefixOfPushed
<1>4. t # <<>> => Len(t) # 0
  BY EmptySeq
<1> QED BY <1>1, <1>2, <1>3, <1>4

-----------------------------------------------------------------------------
(* The inductive invariant.  Its parts speak of any stack of frames fs and   *)
(* any headers h, so that they can be followed as the stack grows.           *)

Catches(f, x) == f.kind \in {"catch", "ucatch"} /\ f.exc = x

\* The handlers of x; those of any C++ exception; whose the innermost is.
HandlersIn(fs, x) == {i \in DOMAIN fs : Catches(fs[i], x)}
Handled(fs, x) == HandlersIn(fs, x) # {}
GxxIn(fs) == {i \in DOMAIN fs : Catches(fs[i], fs[i].exc) /\ IsGxx(fs[i].exc)}
Innermost(fs) == IF GxxIn(fs) = {} THEN NULL ELSE fs[Last(GxxIn(fs))].exc

\* The exceptions that wait for a destructor, and those being constructed.
Waits(f, x) == f.kind = "cleanup" /\ f.exc = x
Waiting(fs, x) == \E i \in DOMAIN fs : Waits(fs[i], x)
Built(fs, x) == \E i \in DOMAIN fs : fs[i].kind = "construct" /\ fs[i].exc = x
Flies(fs, y, x) == x = y \/ Waiting(fs, x)

\* The C++ exceptions among those that wait, each time they do.
WaitsIn(fs) == {i \in DOMAIN fs : fs[i].kind = "cleanup" /\ IsGxx(fs[i].exc)}

\* What a frame refers to.
Named(f) == /\ f.kind \in {"catch", "ucatch", "cleanup"} => f.exc \in Exc
            /\ f.kind = "construct" => f.exc \in Primary
AllNamed(fs) == \A i \in DOMAIN fs : Named(fs[i])

\* The count of uncaught exceptions does not run below zero.
Covered(fs, y, r) ==
  r.uncaught >= Cardinality(WaitsIn(fs)) + (IF IsGxx(y) THEN 1 ELSE 0)

\* What a frame f may be on the stack b, with the headers h.
\* An exception waits once, and its unwinding ends below.
WaitsOnce(b, f, h) ==
  f.kind = "cleanup" => ~Waiting(b, f.exc) /\ h[f.exc].target \in 1 .. Len(b)

\* An exception is constructed once.
BuiltOnce(b, f) == f.kind = "construct" => ~Built(b, f.exc)

\* Handlers of one exception are not interrupted by others, none of its handlers
\* begins while it waits, and it waits above its innermost handler.
Follows(b, x) == IsGxx(x) /\ Handled(b, x) => Innermost(b) = x
InOrder(b, f) ==
  /\ f.kind \in {"catch", "ucatch"} => Follows(b, f.exc) /\ ~Waiting(b, f.exc)
  /\ f.kind = "cleanup" => Follows(b, f.exc)

\* The link leads to the next handler; foreign exceptions are the last ones.
LinkOf(b, x, h) ==
  IF Innermost(b) = NULL THEN ~IsGxx(h[x].next) ELSE Innermost(b) \in {x, h[x].next}
Linked(b, f, h) ==
  f.kind \in {"catch", "ucatch"} =>
    IF IsGxx(f.exc) THEN LinkOf(b, f.exc, h) ELSE Innermost(b) = NULL

Fits(b, f, h) == WaitsOnce(b, f, h) /\ BuiltOnce(b, f) /\ InOrder(b, f) /\ Linked(b, f, h)

Upto(fs, n) == SubSeq(fs, 1, n)
Stacked(fs, h) == \A i \in DOMAIN fs : Fits(Upto(fs, i - 1), fs[i], h)

\* The exception that is unwound has a target, and flies above its handlers.
Aimed(fs, y, r)  == y # NULL => r.hdr[y].target \in 1 .. Len(fs)
Flying(fs, y) == y # NULL => ~Waiting(fs, y) /\ Follows(fs, y)

\* The head of the chain is the exception of the innermost handler.
HeadsChain(fs, r) ==
  IF Innermost(fs) = NULL THEN ~IsGxx(r.caught) ELSE r.caught = Innermost(fs)

\* Lives and counts of the C++ exceptions.
Lives(fs, y, r, x) ==
  /\ r.hdr[x].state = "alive" <=> Flies(fs, y, x) \/ Handled(fs, x)
  /\ r.hdr[x].state = "alive" =>
       /\ r.hdr[x].ref = 1
       /\ r.hdr[x].count = IF Flies(fs, y, x) THEN -Cardinality(HandlersIn(fs, x))
                           ELSE Cardinality(HandlersIn(fs, x))
  /\ Built(fs, x) => r.hdr[x].state = "raw" /\ r.hdr[x].count = 0

\* A foreign exception that flies or is linked to is alive, and not both.
LinkedTo(fs, r, x) ==
  x = r.caught \/ \E p \in Primary : Handled(fs, p) /\ x = r.hdr[p].next
ForeignLives(fs, y, r, x) ==
  /\ Flies(fs, y, x) \/ LinkedTo(fs, r, x) => r.hdr[x].state = "alive"
  /\ ~(Flies(fs, y, x) /\ LinkedTo(fs, r, x))

\* The stack fs, the exception y in flight and the runtime r agree.
Good(fs, y, r) ==
  /\ Stacked(fs, r.hdr) /\ Flying(fs, y) /\ HeadsChain(fs, r)
  /\ \A x \in Primary : Lives(fs, y, r, x)
  /\ \A x \in Foreign : ForeignLives(fs, y, r, x)

Typed == TypeOK /\ AllNamed(frames) /\ (dead = "no" => Covered(frames, fly, rt))

\* Headers were clean, and nothing was rethrown that was already in flight.
Tame == clean /\ ~NestedRethrow

EhInv == /\ Typed
         /\ Tame => dead # "bug"
         /\ Tame /\ dead = "no" => Good(frames, fly, rt) /\ Aimed(frames, fly, rt)
-----------------------------------------------------------------------------
(* A stack with a frame more.                                                *)

\* The greatest of a set of indices.
LEMMA LastIs ==
  ASSUME NEW n \in Nat, NEW T \in SUBSET (1 .. n), NEW m \in T, \A i \in T : i <= m
  PROVE  Last(T) = m
<1>1. \A k \in T : (\A i \in T : i <= k) => k = m
  OBVIOUS
<1> QED BY <1>1 DEF Last

\* The innermost handler is a handler.
LEMMA LastIn ==
  ASSUME NEW n \in Nat, NEW T \in SUBSET (1 .. n), T # {}
  PROVE  Last(T) \in T /\ \A i \in T : i <= Last(T)
<1>1. PICK m \in T : \A i \in T : i <= m
  BY HasGreatest
<1> QED BY <1>1, LastIs

\* Handlers of a stack with a frame more.
LEMMA HandlersPushed ==
  ASSUME NEW b \in Seq(Frame), NEW f \in Frame, NEW x
  PROVE  /\ HandlersIn(Append(b, f), x)
              = HandlersIn(b, x) \cup (IF Catches(f, x) THEN {Len(b) + 1} ELSE {})
         /\ Handled(Append(b, f), x) <=> Handled(b, x) \/ Catches(f, x)
<1> DEFINE t == Append(b, f)
<1>1. /\ DOMAIN b = 1 .. Len(b) /\ Len(b) \in Nat /\ DOMAIN t = 1 .. Len(b) + 1
      /\ t[Len(b) + 1] = f /\ \A i \in 1 .. Len(b) : t[i] = b[i]
  BY Pushed
<1> HIDE DEF t
<1>2. HandlersIn(t, x) = HandlersIn(b, x) \cup (IF Catches(f, x) THEN {Len(b) + 1} ELSE {})
  <2>1. \A i : i \in 1 .. Len(b) + 1 <=> i \in 1 .. Len(b) \/ i = Len(b) + 1
    BY <1>1
  <2> QED BY <1>1, <2>1 DEF HandlersIn
<1>3. Handled(t, x) <=> Handled(b, x) \/ Catches(f, x)
  BY <1>2 DEF Handled
<1> QED BY <1>2, <1>3 DEF t

\* How many handlers an exception has.
LEMMA CountPushed ==
  ASSUME NEW b \in Seq(Frame), NEW f \in Frame, NEW x
  PROVE  /\ Cardinality(HandlersIn(b, x)) \in Nat
         /\ Cardinality(HandlersIn(b, x)) = 0 <=> ~Handled(b, x)
         /\ Cardinality(HandlersIn(Append(b, f), x))
              = Cardinality(HandlersIn(b, x)) + (IF Catches(f, x) THEN 1 ELSE 0)
<1>1. Len(b) \in Nat /\ DOMAIN b = 1 .. Len(b)
  BY Pushed
<1>2. IsFiniteSet(HandlersIn(b, x)) /\ Len(b) + 1 \notin HandlersIn(b, x)
  <2>1. IsFiniteSet(1 .. Len(b))
    BY <1>1, FS_Interval
  <2>2. HandlersIn(b, x) \subseteq 1 .. Len(b)
    BY <1>1 DEF HandlersIn
  <2> QED BY <1>1, <2>1, <2>2, FS_Subset
<1>3. Cardinality(HandlersIn(b, x)) \in Nat
  BY <1>2, FS_CardinalityType
<1>4. Cardinality(HandlersIn(b, x)) = 0 <=> ~Handled(b, x)
  BY <1>2, FS_EmptySet DEF Handled
<1>5. CASE Catches(f, x)
  <2>1. HandlersIn(Append(b, f), x) = HandlersIn(b, x) \cup {Len(b) + 1}
    BY <1>5, HandlersPushed
  <2>2. Cardinality(HandlersIn(Append(b, f), x)) = Cardinality(HandlersIn(b, x)) + 1
    BY <1>2, <2>1, FS_AddElement
  <2> QED BY <1>3, <1>4, <1>5, <2>2
<1>6. CASE ~Catches(f, x)
  <2>1. HandlersIn(Append(b, f), x) = HandlersIn(b, x)
    <3>1. HandlersIn(Append(b, f), x) = HandlersIn(b, x) \cup {}
      BY <1>6, HandlersPushed
    <3> QED BY <3>1
  <2> QED BY <1>3, <1>4, <1>6, <2>1
<1> QED BY <1>5, <1>6

\* The innermost handler of a stack with a frame more.
LEMMA InnermostPushed ==
  ASSUME NEW b \in Seq(Frame), NEW f \in Frame
  PROVE  Innermost(Append(b, f)) =
           IF Catches(f, f.exc) /\ IsGxx(f.exc) THEN f.exc ELSE Innermost(b)
<1> DEFINE t == Append(b, f)
<1>1. /\ DOMAIN b = 1 .. Len(b) /\ Len(b) \in Nat /\ DOMAIN t = 1 .. Len(b) + 1
      /\ t[Len(b) + 1] = f /\ \A i \in 1 .. Len(b) : t[i] = b[i]
  BY Pushed
<1> HIDE DEF t
<1>2. GxxIn(b) \subseteq 1 .. Len(b)
  BY <1>1 DEF GxxIn
<1>3. CASE Catches(f, f.exc) /\ IsGxx(f.exc)
  <2>1. Len(b) + 1 \in GxxIn(t) /\ GxxIn(t) \subseteq 1 .. Len(b) + 1
    BY <1>1, <1>3 DEF GxxIn
  <2>2. \A i \in GxxIn(t) : i <= Len(b) + 1
    BY <1>1, <2>1
  <2>3. Last(GxxIn(t)) = Len(b) + 1
    <3>1. Len(b) + 1 \in Nat
      BY <1>1
    <3> QED BY <2>1, <2>2, <3>1, LastIs
  <2> QED BY <1>1, <1>3, <2>1, <2>3 DEF Innermost, t
<1>4. CASE ~(Catches(f, f.exc) /\ IsGxx(f.exc))
  <2>1. GxxIn(t) = GxxIn(b)
    <3>1. \A i : i \in 1 .. Len(b) + 1 <=> i \in 1 .. Len(b) \/ i = Len(b) + 1
      BY <1>1
    <3> QED BY <1>1, <1>4, <3>1 DEF GxxIn
  <2>2. GxxIn(b) # {} => Last(GxxIn(b)) \in 1 .. Len(b)
    BY <1>1, <1>2, LastIn
  <2> QED BY <1>1, <1>4, <2>1, <2>2 DEF Innermost, t
<1> QED BY <1>3, <1>4

\* The innermost handler has a C++ exception.
LEMMA InnermostFacts ==
  ASSUME NEW b \in Seq(Frame)
  PROVE  /\ Innermost(b) # NULL => Innermost(b) \in Primary /\ Handled(b, Innermost(b))
         /\ \A x \in Primary : Handled(b, x) => Innermost(b) # NULL
<1>1. Len(b) \in Nat /\ DOMAIN b = 1 .. Len(b)
  BY LenProperties
<1>2. GxxIn(b) \subseteq 1 .. Len(b)
  BY <1>1 DEF GxxIn
<1>3. CASE GxxIn(b) = {}
  <2>1. \A x \in Primary : ~Handled(b, x)
    BY <1>3 DEF GxxIn, Handled, HandlersIn, Catches, IsGxx
  <2> QED BY <1>3, <2>1 DEF Innermost
<1>4. CASE GxxIn(b) # {}
  <2> DEFINE i == Last(GxxIn(b))
  <2>1. i \in GxxIn(b)
    BY <1>1, <1>2, <1>4, LastIn
  <2> HIDE DEF i
  <2>2. Innermost(b) = b[i].exc
    BY <1>4 DEF Innermost, i
  <2>3. b[i].exc \in Primary /\ Handled(b, b[i].exc)
    BY <2>1 DEF GxxIn, IsGxx, Handled, HandlersIn
  <2> QED BY <2>2, <2>3, EhAssumption
<1> QED BY <1>3, <1>4

\* What waits and what is constructed on a stack with a frame more.
LEMMA WaitingPushed ==
  ASSUME NEW b \in Seq(Frame), NEW f \in Frame
  PROVE  /\ \A x : Waiting(Append(b, f), x) <=> Waiting(b, x) \/ Waits(f, x)
         /\ \A x : Built(Append(b, f), x) <=>
                    Built(b, x) \/ (f.kind = "construct" /\ f.exc = x)
         /\ AllNamed(Append(b, f)) <=> AllNamed(b) /\ Named(f)
<1> DEFINE t == Append(b, f)
<1>1. /\ DOMAIN b = 1 .. Len(b) /\ Len(b) \in Nat /\ DOMAIN t = 1 .. Len(b) + 1
      /\ t[Len(b) + 1] = f /\ \A i \in 1 .. Len(b) : t[i] = b[i]
  BY Pushed
<1>2. \A i : i \in 1 .. Len(b) + 1 <=> i \in 1 .. Len(b) \/ i = Len(b) + 1
  BY <1>1
<1> HIDE DEF t
<1>3. \A x : Waiting(t, x) <=> Waiting(b, x) \/ Waits(f, x)
  BY <1>1, <1>2 DEF Waiting
<1>4. \A x : Built(t, x) <=> Built(b, x) \/ (f.kind = "construct" /\ f.exc = x)
  BY <1>1, <1>2 DEF Built
<1>5. AllNamed(t) <=> AllNamed(b) /\ Named(f)
  BY <1>1, <1>2 DEF AllNamed
<1> QED BY <1>3, <1>4, <1>5 DEF t

\* How many C++ exceptions wait.
LEMMA WaitsPushed ==
  ASSUME NEW b \in Seq(Frame), NEW f \in Frame
  PROVE  /\ Cardinality(WaitsIn(b)) \in Nat
         /\ Cardinality(WaitsIn(Append(b, f))) = Cardinality(WaitsIn(b))
              + (IF f.kind = "cleanup" /\ IsGxx(f.exc) THEN 1 ELSE 0)
<1> DEFINE t == Append(b, f)
<1>1. /\ DOMAIN b = 1 .. Len(b) /\ Len(b) \in Nat /\ DOMAIN t = 1 .. Len(b) + 1
      /\ t[Len(b) + 1] = f /\ \A i \in 1 .. Len(b) : t[i] = b[i]
  BY Pushed
<1>2. \A i : i \in 1 .. Len(b) + 1 <=> i \in 1 .. Len(b) \/ i = Len(b) + 1
  BY <1>1
<1> HIDE DEF t
<1>3. IsFiniteSet(WaitsIn(b)) /\ Len(b) + 1 \notin WaitsIn(b)
  <2>1. IsFiniteSet(1 .. Len(b))
    BY <1>1, FS_Interval
  <2>2. WaitsIn(b) \subseteq 1 .. Len(b)
    BY <1>1 DEF WaitsIn
  <2> QED BY <1>1, <2>1, <2>2, FS_Subset
<1>4. Cardinality(WaitsIn(b)) \in Nat
  BY <1>3, FS_CardinalityType
<1>5. CASE f.kind = "cleanup" /\ IsGxx(f.exc)
  <2>1. WaitsIn(t) = WaitsIn(b) \cup {Len(b) + 1}
    BY <1>1, <1>2, <1>5 DEF WaitsIn
  <2>2. Cardinality(WaitsIn(t)) = Cardinality(WaitsIn(b)) + 1
    BY <1>3, <2>1, FS_AddElement
  <2> QED BY <1>4, <1>5, <2>2 DEF t
<1>6. CASE ~(f.kind = "cleanup" /\ IsGxx(f.exc))
  <2>1. WaitsIn(t) = WaitsIn(b)
    BY <1>1, <1>2, <1>6 DEF WaitsIn
  <2> QED BY <1>4, <1>6, <2>1 DEF t
<1> QED BY <1>5, <1>6

\* The order of a stack with a frame more.
LEMMA StackedPushed ==
  ASSUME NEW b \in Seq(Frame), NEW f \in Frame, NEW h
  PROVE  Stacked(Append(b, f), h) <=> Stacked(b, h) /\ Fits(b, f, h)
<1> DEFINE t == Append(b, f)
<1>1. /\ DOMAIN b = 1 .. Len(b) /\ Len(b) \in Nat /\ DOMAIN t = 1 .. Len(b) + 1
      /\ t[Len(b) + 1] = f /\ \A i \in 1 .. Len(b) : t[i] = b[i]
  BY Pushed
<1>2. \A i : i \in 1 .. Len(b) + 1 <=> i \in 1 .. Len(b) \/ i = Len(b) + 1
  BY <1>1
<1>3. \A i \in 1 .. Len(b) : i - 1 \in 0 .. Len(b)
  BY <1>1
<1>4. \A i \in 1 .. Len(b) : Upto(t, i - 1) = Upto(b, i - 1)
  BY <1>3, PrefixOfPushed DEF Upto
<1>5. Upto(t, Len(b) + 1 - 1) = b
  <2>1. Len(b) + 1 - 1 = Len(b) /\ Len(b) \in 0 .. Len(b)
    BY <1>1
  <2>2. SubSeq(t, 1, Len(b)) = b
    BY <2>1, PrefixOfPushed
  <2> QED BY <2>1, <2>2 DEF Upto
<1> HIDE DEF t
<1> QED BY <1>1, <1>2, <1>4, <1>5 DEF Stacked, t

\* The order of a stack depends on few fields of the headers.
LEMMA StackedSame ==
  ASSUME NEW fs \in Seq(Frame), NEW h, NEW k, Stacked(fs, h),
         \A x \in Exc : Waiting(fs, x) => k[x].target = h[x].target,
         \A x \in Primary : Handled(fs, x) => k[x].next = h[x].next, AllNamed(fs)
  PROVE  Stacked(fs, k)
<1> SUFFICES ASSUME NEW i \in DOMAIN fs
             PROVE  Fits(Upto(fs, i - 1), fs[i], k)
  BY DEF Stacked
<1>1. Fits(Upto(fs, i - 1), fs[i], h) /\ Named(fs[i])
  BY DEF Stacked, AllNamed
<1>2. WaitsOnce(Upto(fs, i - 1), fs[i], k)
  <2>1. fs[i].kind = "cleanup" => Waiting(fs, fs[i].exc) /\ fs[i].exc \in Exc
    BY <1>1 DEF Waiting, Waits, Named
  <2> QED BY <1>1, <2>1 DEF Fits, WaitsOnce
<1>3. Linked(Upto(fs, i - 1), fs[i], k)
  <2>1. ASSUME fs[i].kind \in {"catch", "ucatch"}, IsGxx(fs[i].exc)
        PROVE  k[fs[i].exc].next = h[fs[i].exc].next
    BY <2>1 DEF Handled, HandlersIn, Catches, IsGxx
  <2> QED BY <1>1, <2>1 DEF Fits, Linked, LinkOf
<1> QED BY <1>1, <1>2, <1>3 DEF Fits

\* The stack is what lies below its top, with the top.
LEMMA TopFacts ==
  ASSUME frames \in Seq(Frame), frames # <<>>
  PROVE  /\ Below \in Seq(Frame) /\ Top \in Frame /\ frames = Append(Below, Top)
         /\ Len(frames) \in Nat \ {0} /\ Len(Below) = Len(frames) - 1
         /\ Len(Below) \in Nat
BY LastPushed, LenProperties DEF Below, Top

-----------------------------------------------------------------------------
(* What the operations of the runtime do to its state.                       *)

RT == [caught : Exc \cup {NULL}, uncaught : Nat, hdr : [Exc -> Header]]

\* __cxa_begin_catch
LEMMA BeginCatchFacts ==
  ASSUME NEW r \in RT, NEW x \in Exc, x \in Primary => r.uncaught >= 1
  PROVE  LET q == BeginCatch(r, x)
         IN  /\ q \in RT /\ q.caught = x
             /\ \A y \in Exc : y # x \/ x \notin Primary => q.hdr[y] = r.hdr[y]
             /\ x \notin Primary => q.uncaught = r.uncaught
             /\ x \in Primary =>
                  /\ q.uncaught = r.uncaught - 1
                  /\ q.hdr[x].count = Recount(r.hdr[x].count)
                  /\ q.hdr[x].next = IF x = r.caught THEN r.hdr[x].next ELSE r.caught
                  /\ q.hdr[x].state = r.hdr[x].state /\ q.hdr[x].ref = r.hdr[x].ref
                  /\ q.hdr[x].target = r.hdr[x].target
<1> DEFINE q == BeginCatch(r, x)
<1>1. CASE x \notin Primary
  <2>1. q = [r EXCEPT !.caught = x]
    BY <1>1 DEF BeginCatch, IsGxx
  <2> QED BY <1>1, <2>1 DEF RT
<1>2. CASE x \in Primary
  <2> DEFINE e == [r.hdr[x] EXCEPT !.count = Recount(@),
                                   !.next = IF x = r.caught THEN @ ELSE r.caught]
             g == [r.hdr EXCEPT ![x] = e]
  <2>1. r.hdr[x] \in Header /\ r.caught \in Exc \cup {NULL} /\ r.uncaught \in Nat
        /\ r.hdr \in [Exc -> Header]
    BY DEF RT
  <2>2. Recount(r.hdr[x].count) \in Int
    BY <2>1 DEF Recount, Header
  <2>3. /\ e \in Header /\ e.count = Recount(r.hdr[x].count)
        /\ e.next = IF x = r.caught THEN r.hdr[x].next ELSE r.caught
        /\ e.state = r.hdr[x].state /\ e.ref = r.hdr[x].ref /\ e.target = r.hdr[x].target
    BY <2>1, <2>2 DEF Header
  <2>4. q = [caught |-> x, uncaught |-> r.uncaught - 1, hdr |-> g]
    BY <1>2 DEF BeginCatch, IsGxx
  <2> HIDE DEF q, e
  <2>5. g \in [Exc -> Header] /\ g[x] = e /\ \A y \in Exc : y # x => g[y] = r.hdr[y]
    BY <2>1, <2>3
  <2> HIDE DEF g
  <2>6. q \in RT
    <3>1. r.uncaught - 1 \in Nat
      BY <1>2, <2>1
    <3> QED BY <2>4, <2>5, <3>1 DEF RT
  <2>7. q.hdr = g /\ q.caught = x /\ q.uncaught = r.uncaught - 1
    BY <2>4
  <2> QED BY <1>2, <2>3, <2>5, <2>6, <2>7 DEF q
<1> QED BY <1>1, <1>2

\* __gxx_exception_cleanup
LEMMA DeleteFacts ==
  ASSUME NEW h \in [Exc -> Header], NEW x \in Exc
  PROVE  LET k == Delete(h, x)
         IN  /\ k \in [Exc -> Header] /\ \A y \in Exc : y # x => k[y] = h[y]
             /\ k[x].next = h[x].next /\ k[x].target = h[x].target
             /\ h[x].ref = 1 => k[x].state = "free"
<1> DEFINE e == [h[x] EXCEPT !.ref = @ - 1, !.state = IF h[x].ref = 1 THEN "free" ELSE @]
           st == IF h[x].ref = 1 THEN "free" ELSE h[x].state
<1>1. h[x] \in Header
  OBVIOUS
<1>2. st \in {"free", "raw", "alive"} /\ h[x].ref - 1 \in Int
  BY <1>1 DEF Header
<1>3. e = [state |-> st, count |-> h[x].count, next |-> h[x].next,
           ref |-> h[x].ref - 1, target |-> h[x].target]
  <2> DEFINE v == h[x]
  <2>1. v = [state |-> v.state, count |-> v.count, next |-> v.next, ref |-> v.ref,
             target |-> v.target]
    BY <1>1 DEF Header
  <2>2. e = [v EXCEPT !.ref = v.ref - 1, !.state = st]
    OBVIOUS
  <2> HIDE DEF v, st, e
  <2>3. e = [state |-> st, count |-> v.count, next |-> v.next, ref |-> v.ref - 1,
             target |-> v.target]
    BY <2>1, <2>2
  <2> QED BY <2>3 DEF v
<1>4. Delete(h, x) = [h EXCEPT ![x] = e]
  BY DEF Delete
<1> HIDE DEF e
<1>5. e \in Header /\ e.next = h[x].next /\ e.target = h[x].target /\ e.state = st
  <2> HIDE DEF st
  <2> QED BY <1>1, <1>2, <1>3 DEF Header
<1>6. h[x].ref = 1 => st = "free"
  OBVIOUS
<1> HIDE DEF st
<1> QED BY <1>4, <1>5, <1>6

\* __cxa_end_catch
LEMMA EndCatchFacts ==
  ASSUME NEW r \in RT, NEW q, q = EndCatch(r), NEW x, x = r.caught,
         NEW c, c = r.hdr[x].count
  PROVE  /\ q \in RT /\ q.uncaught = r.uncaught
         /\ \A y \in Exc : q.hdr[y].next = r.hdr[y].next /\ q.hdr[y].target = r.hdr[y].target
         /\ \A y \in Exc : y # x => q.hdr[y] = r.hdr[y]
         /\ x \notin Primary => q.caught = NULL
         /\ x \in Primary =>
              /\ q.caught = IF c \in {-1, 1} THEN r.hdr[x].next ELSE x
              /\ c = 1 /\ r.hdr[x].ref = 1 => q.hdr[x].state = "free"
              /\ c # 1 => /\ q.hdr[x].count = IF c < 0 THEN c + 1 ELSE c - 1
                          /\ q.hdr[x].state = r.hdr[x].state
                          /\ q.hdr[x].ref = r.hdr[x].ref
<1>1. /\ r.hdr \in [Exc -> Header] /\ r.uncaught \in Nat /\ x \in Exc \cup {NULL}
      /\ r = [caught |-> x, uncaught |-> r.uncaught, hdr |-> r.hdr]
  BY DEF RT
<1>2. CASE x = NULL
  <2>1. q = r
    BY <1>2 DEF EndCatch
  <2> QED BY <1>2, <2>1, EhAssumption
<1>3. CASE x \in Foreign
  <2>1. x # NULL /\ x \notin Primary /\ x \in Exc
    BY <1>3, EhAssumption DEF Exc
  <2>2. q = [r EXCEPT !.caught = NULL, !.hdr = Delete(@, x)]
    BY <2>1 DEF EndCatch, IsGxx
  <2>3. q = [caught |-> NULL, uncaught |-> r.uncaught, hdr |-> Delete(r.hdr, x)]
    BY <1>1, <2>2
  <2>4. q.caught = NULL /\ q.uncaught = r.uncaught /\ q.hdr = Delete(r.hdr, x)
    BY <2>3
  <2>5. q \in RT
    BY <1>1, <2>1, <2>3, DeleteFacts DEF RT
  <2> QED BY <1>1, <2>1, <2>4, <2>5, DeleteFacts
<1>4. CASE x \in Primary /\ c = 1
  <2>1. x # NULL /\ x \in Exc
    BY <1>4, EhAssumption DEF Exc
  <2>2. q = [r EXCEPT !.caught = r.hdr[x].next, !.hdr = Delete(@, x)]
    BY <1>4, <2>1 DEF EndCatch, IsGxx
  <2>3. q = [caught |-> r.hdr[x].next, uncaught |-> r.uncaught, hdr |-> Delete(r.hdr, x)]
    BY <1>1, <2>2
  <2>4. /\ q.caught = r.hdr[x].next /\ q.uncaught = r.uncaught /\ q.hdr = Delete(r.hdr, x)
        /\ r.hdr[x].next \in Exc \cup {NULL}
    BY <1>1, <2>1, <2>3 DEF Header
  <2>5. q \in RT
    BY <1>1, <2>1, <2>3, <2>4, DeleteFacts DEF RT
  <2>6. /\ \A y \in Exc : y # x => q.hdr[y] = r.hdr[y]
        /\ q.hdr[x].next = r.hdr[x].next /\ q.hdr[x].target = r.hdr[x].target
        /\ r.hdr[x].ref = 1 => q.hdr[x].state = "free"
    BY <1>1, <2>1, <2>4, DeleteFacts
  <2>7. \A y \in Exc : q.hdr[y].next = r.hdr[y].next /\ q.hdr[y].target = r.hdr[y].target
    BY <2>6
  <2> QED BY <1>4, <2>4, <2>5, <2>6, <2>7
<1>5. CASE x \in Primary /\ c # 1
  <2>1. x # NULL /\ x \in Exc
    BY <1>5, EhAssumption DEF Exc
  <2> DEFINE n == IF c < 0 THEN c + 1 ELSE c - 1
             e == [r.hdr[x] EXCEPT !.count = n]
             g == [r.hdr EXCEPT ![x] = e]
             z == IF c = -1 THEN r.hdr[x].next ELSE x
  <2>2. q = [r EXCEPT !.hdr[x].count = n, !.caught = IF c = -1 THEN r.hdr[@].next ELSE @]
    BY <1>5, <2>1 DEF EndCatch, IsGxx
  <2>3. q = [caught |-> z, uncaught |-> r.uncaught, hdr |-> g]
    BY <1>1, <2>2
  <2>4. r.hdr[x] \in Header /\ c \in Int
    BY <1>1, <2>1 DEF Header
  <2>5. n \in Int /\ z \in Exc \cup {NULL}
    BY <2>1, <2>4 DEF Header
  <2>6. z = IF c \in {-1, 1} THEN r.hdr[x].next ELSE x
    BY <1>5
  <2> HIDE DEF z
  <2>7. /\ e \in Header /\ e.count = n /\ e.state = r.hdr[x].state /\ e.ref = r.hdr[x].ref
        /\ e.next = r.hdr[x].next /\ e.target = r.hdr[x].target
    <3> HIDE DEF n
    <3> QED BY <2>4, <2>5 DEF Header
  <2> HIDE DEF e
  <2>8. g \in [Exc -> Header] /\ g[x] = e /\ \A y \in Exc : y # x => g[y] = r.hdr[y]
    BY <1>1, <2>1, <2>7
  <2> HIDE DEF g
  <2>9. q \in RT /\ q.caught = z /\ q.uncaught = r.uncaught /\ q.hdr = g
    BY <1>1, <2>3, <2>5, <2>8 DEF RT
  <2>10. \A y \in Exc : q.hdr[y].next = r.hdr[y].next /\ q.hdr[y].target = r.hdr[y].target
    BY <2>7, <2>8, <2>9
  <2>11. q.hdr[x] = e /\ \A y \in Exc : y # x => q.hdr[y] = r.hdr[y]
    BY <2>8, <2>9
  <2> HIDE DEF n
  <2>12. q.hdr[x].count = n /\ q.hdr[x].state = r.hdr[x].state /\ q.hdr[x].ref = r.hdr[x].ref
    BY <2>7, <2>11
  <2> QED BY <1>5, <2>6, <2>9, <2>10, <2>11, <2>12 DEF n
<1> QED BY <1>1, <1>2, <1>3, <1>4, <1>5 DEF Exc

-----------------------------------------------------------------------------
(* How the invariant moves with the stack: one lemma for each kind of frame, *)
(* pushed or popped.                                                         *)

\* A region that neither handles, waits nor constructs changes nothing.
LEMMA PlainRegion ==
  ASSUME NEW b \in Seq(Frame), NEW f \in Frame, f.kind \in {"try", "obj", "spec", "utry"},
         NEW y, NEW r
  PROVE  /\ Good(Append(b, f), y, r) <=> Good(b, y, r)
         /\ Covered(Append(b, f), y, r) <=> Covered(b, y, r)
         /\ AllNamed(Append(b, f)) <=> AllNamed(b)
<1> DEFINE t == Append(b, f)
<1>1. /\ \A x : ~Catches(f, x) /\ ~Waits(f, x) /\ ~(f.kind = "construct" /\ f.exc = x)
      /\ Named(f) /\ f.kind # "cleanup"
  BY DEF Catches, Waits, Named
<1>2. Fits(b, f, r.hdr)
  BY <1>1 DEF Fits, WaitsOnce, BuiltOnce, InOrder, Linked
<1>3. Stacked(t, r.hdr) <=> Stacked(b, r.hdr)
  BY <1>2, StackedPushed
<1>4. Innermost(t) = Innermost(b)
  BY <1>1, InnermostPushed
<1>5. \A x : /\ Waiting(t, x) <=> Waiting(b, x)
             /\ Built(t, x) <=> Built(b, x)
  BY <1>1, WaitingPushed
<1>6. \A x : HandlersIn(t, x) = HandlersIn(b, x) /\ (Handled(t, x) <=> Handled(b, x))
  <2> TAKE x
  <2>1. HandlersIn(t, x) = HandlersIn(b, x) \cup {}
    BY <1>1, HandlersPushed
  <2> QED BY <2>1 DEF Handled
<1>7. Cardinality(WaitsIn(t)) = Cardinality(WaitsIn(b))
  BY <1>1, WaitsPushed
<1>8. AllNamed(t) <=> AllNamed(b)
  BY <1>1, WaitingPushed
<1> HIDE DEF t
<1>9. Covered(t, y, r) <=> Covered(b, y, r)
  BY <1>7 DEF Covered
<1>10. Flying(t, y) <=> Flying(b, y)
  BY <1>4, <1>5, <1>6 DEF Flying, Follows
<1>11. HeadsChain(t, r) <=> HeadsChain(b, r)
  BY <1>4 DEF HeadsChain
<1>12. \A x : Lives(t, y, r, x) <=> Lives(b, y, r, x)
  <2> TAKE x
  <2>1. Flies(t, y, x) <=> Flies(b, y, x)
    BY <1>5 DEF Flies
  <2> QED BY <1>5, <1>6, <2>1 DEF Lives
<1>13. \A x : ForeignLives(t, y, r, x) <=> ForeignLives(b, y, r, x)
  BY <1>5, <1>6 DEF ForeignLives, Flies, LinkedTo
<1>14. Good(t, y, r) <=> Good(b, y, r)
  BY <1>3, <1>10, <1>11, <1>12, <1>13 DEF Good
<1> QED BY <1>8, <1>9, <1>14 DEF t

\* An exception that waits for a destructor is as much in flight as before.
LEMMA Parked ==
  ASSUME NEW b \in Seq(Frame), NEW f \in Frame, f.kind = "cleanup", f.exc \in Exc, NEW r
  PROVE  /\ Good(Append(b, f), NULL, r) <=> Good(b, f.exc, r) /\ Aimed(b, f.exc, r)
         /\ Covered(Append(b, f), NULL, r) <=> Covered(b, f.exc, r)
         /\ AllNamed(Append(b, f)) <=> AllNamed(b)
<1> DEFINE t == Append(b, f)
           z == f.exc
<1>1. /\ \A x : ~Catches(f, x) /\ ~(f.kind = "construct" /\ f.exc = x)
      /\ \A x : Waits(f, x) <=> x = z
      /\ Named(f) /\ z # NULL /\ f.kind = "cleanup"
  BY EhAssumption DEF Catches, Waits, Named, Exc
<1>2. Stacked(t, r.hdr) <=> Stacked(b, r.hdr) /\ Fits(b, f, r.hdr)
  BY StackedPushed
<1>3. Fits(b, f, r.hdr) <=> ~Waiting(b, z) /\ r.hdr[z].target \in 1 .. Len(b) /\ Follows(b, z)
  BY DEF Fits, WaitsOnce, BuiltOnce, InOrder, Linked
<1>4. Innermost(t) = Innermost(b)
  BY <1>1, InnermostPushed
<1>5. \A x : /\ Waiting(t, x) <=> Waiting(b, x) \/ x = z
             /\ Built(t, x) <=> Built(b, x)
  BY <1>1, WaitingPushed
<1>6. \A x : HandlersIn(t, x) = HandlersIn(b, x) /\ (Handled(t, x) <=> Handled(b, x))
  <2> TAKE x
  <2>1. HandlersIn(t, x) = HandlersIn(b, x) \cup {}
    BY <1>1, HandlersPushed
  <2> QED BY <2>1 DEF Handled
<1>7. /\ Cardinality(WaitsIn(b)) \in Nat
      /\ Cardinality(WaitsIn(t)) = Cardinality(WaitsIn(b)) + (IF IsGxx(z) THEN 1 ELSE 0)
  BY <1>1, WaitsPushed
<1>8. AllNamed(t) <=> AllNamed(b)
  BY <1>1, WaitingPushed
<1>9. ~IsGxx(NULL)
  BY EhAssumption DEF IsGxx
<1> HIDE DEF t, z
<1>10. Covered(t, NULL, r) <=> Covered(b, z, r)
  BY <1>7, <1>9 DEF Covered
<1>11. Flying(t, NULL) /\ (Flying(b, z) <=> ~Waiting(b, z) /\ Follows(b, z))
  BY <1>1 DEF Flying
<1>12. HeadsChain(t, r) <=> HeadsChain(b, r)
  BY <1>4 DEF HeadsChain
<1>13. \A x \in Exc : Flies(t, NULL, x) <=> Flies(b, z, x)
  BY <1>5, EhAssumption DEF Flies, Exc
<1>14. \A x \in Primary : Lives(t, NULL, r, x) <=> Lives(b, z, r, x)
  <2> TAKE x \in Primary
  <2>1. Flies(t, NULL, x) <=> Flies(b, z, x)
    BY <1>13 DEF Exc
  <2> QED BY <1>5, <1>6, <2>1 DEF Lives
<1>15. \A x \in Foreign : ForeignLives(t, NULL, r, x) <=> ForeignLives(b, z, r, x)
  BY <1>6, <1>13 DEF ForeignLives, LinkedTo, Exc
<1>16. Good(t, NULL, r) <=> Good(b, z, r) /\ Aimed(b, z, r)
  BY <1>1, <1>2, <1>3, <1>11, <1>12, <1>14, <1>15 DEF Good, Aimed
<1> QED BY <1>8, <1>10, <1>16 DEF t, z

\* A handler ends, normally or because an exception leaves it: end_catch finds
\* the exception of that handler, and destroys it with its last one.
LEMMA HandlerEnds ==
  ASSUME NEW b \in Seq(Frame), NEW f \in Frame, f.kind \in {"catch", "ucatch"},
         f.exc \in Exc, AllNamed(b),
         NEW y \in Exc \cup {NULL}, NEW r \in RT, Good(Append(b, f), y, r)
  PROVE  Good(b, y, EndCatch(r)) /\ ~EndCatchBug(r)
<1> DEFINE t == Append(b, f)
           x == f.exc
           q == EndCatch(r)
           n == Cardinality(HandlersIn(b, x))
<1>1. /\ \A z : Catches(f, z) <=> z = x
      /\ \A z : ~Waits(f, z) /\ ~(f.kind = "construct" /\ f.exc = z)
      /\ f.kind \in {"catch", "ucatch"} /\ x \in Exc
  BY DEF Catches, Waits
<1>2. /\ Stacked(b, r.hdr) /\ Fits(b, f, r.hdr)
      /\ Flying(t, y) /\ HeadsChain(t, r)
      /\ \A z \in Primary : Lives(t, y, r, z)
      /\ \A z \in Foreign : ForeignLives(t, y, r, z)
  BY StackedPushed DEF Good
<1>3. /\ Follows(b, x) /\ ~Waiting(b, x)
      /\ IF IsGxx(x) THEN LinkOf(b, x, r.hdr) ELSE Innermost(b) = NULL
  BY <1>1, <1>2 DEF Fits, InOrder, Linked
<1>4. Innermost(t) = IF IsGxx(x) THEN x ELSE Innermost(b)
  BY <1>1, InnermostPushed
<1>5. \A z : /\ Waiting(t, z) <=> Waiting(b, z)
             /\ Built(t, z) <=> Built(b, z)
  BY <1>1, WaitingPushed
<1>6. \A z : /\ Handled(t, z) <=> Handled(b, z) \/ z = x
             /\ Cardinality(HandlersIn(b, z)) \in Nat
             /\ Cardinality(HandlersIn(b, z)) = 0 <=> ~Handled(b, z)
             /\ Cardinality(HandlersIn(t, z))
                  = Cardinality(HandlersIn(b, z)) + (IF z = x THEN 1 ELSE 0)
  <2> TAKE z
  <2>1. Handled(t, z) <=> Handled(b, z) \/ Catches(f, z)
    BY HandlersPushed
  <2>2. /\ Cardinality(HandlersIn(b, z)) \in Nat
        /\ Cardinality(HandlersIn(b, z)) = 0 <=> ~Handled(b, z)
        /\ Cardinality(HandlersIn(t, z))
             = Cardinality(HandlersIn(b, z)) + (IF Catches(f, z) THEN 1 ELSE 0)
    BY CountPushed
  <2> QED BY <1>1, <2>1, <2>2
<1>7. /\ Innermost(b) # NULL => Innermost(b) \in Primary /\ Handled(b, Innermost(b))
      /\ \A z \in Primary : Handled(b, z) => Innermost(b) # NULL
  BY InnermostFacts
<1>8. NULL \notin Exc /\ Primary \cap Foreign = {} /\ Exc = Primary \cup Foreign
  BY EhAssumption DEF Exc
<1>9. n \in Nat /\ (n = 0 <=> ~Handled(b, x))
  BY <1>6
<1> HIDE DEF t, x, n
<1>10. /\ \A z \in Exc : q.hdr[z].next = r.hdr[z].next /\ q.hdr[z].target = r.hdr[z].target
       /\ \A z \in Exc : z # r.caught => q.hdr[z] = r.hdr[z]
  BY EndCatchFacts
<1>11. Stacked(b, q.hdr)
  <2>1. \A z \in Exc : Waiting(b, z) => q.hdr[z].target = r.hdr[z].target
    BY <1>10
  <2>2. \A z \in Primary : Handled(b, z) => q.hdr[z].next = r.hdr[z].next
    BY <1>8, <1>10
  <2> QED BY <1>2, <2>1, <2>2, StackedSame
<1>12. Flying(b, y)
  BY <1>2, <1>3, <1>4, <1>5, <1>6 DEF Flying, Follows
<1>13. CASE x \in Primary
  <2>1. r.caught = x /\ IsGxx(x)
    BY <1>2, <1>4, <1>8, <1>13 DEF HeadsChain, IsGxx
  <2>2. Flies(t, y, x) <=> x = y
    BY <1>3, <1>5 DEF Flies
  <2>3. Cardinality(HandlersIn(t, x)) = n + 1
    BY <1>6 DEF n
  <2>4. /\ r.hdr[x].state = "alive" /\ r.hdr[x].ref = 1
        /\ r.hdr[x].count = IF x = y THEN -(n + 1) ELSE n + 1
        /\ ~Built(b, x)
    <3>1. Lives(t, y, r, x) /\ Handled(t, x)
      BY <1>2, <1>6, <1>13
    <3> QED BY <1>5, <2>2, <2>3, <3>1 DEF Lives
  <2>5. /\ q.caught = IF r.hdr[x].count \in {-1, 1} THEN r.hdr[x].next ELSE x
        /\ r.hdr[x].count = 1 /\ r.hdr[x].ref = 1 => q.hdr[x].state = "free"
        /\ r.hdr[x].count # 1 =>
             /\ q.hdr[x].count = IF r.hdr[x].count < 0 THEN r.hdr[x].count + 1
                                 ELSE r.hdr[x].count - 1
             /\ q.hdr[x].state = r.hdr[x].state
             /\ q.hdr[x].ref = r.hdr[x].ref
    BY <1>13, <2>1, EndCatchFacts
  <2> HIDE DEF q
  <2>6. /\ q.caught = IF n = 0 THEN r.hdr[x].next ELSE x
        /\ n = 0 /\ x # y => q.hdr[x].state = "free"
        /\ ~(n = 0 /\ x # y) =>
             /\ q.hdr[x].count = IF x = y THEN -n ELSE n
             /\ q.hdr[x].state = "alive" /\ q.hdr[x].ref = 1
    BY <1>9, <2>4, <2>5
  <2>7. HeadsChain(b, q)
    <3>1. x # NULL
      BY <1>8, <1>13
    <3>2. CASE n = 0
      BY <1>3, <1>7, <1>9, <2>1, <2>6, <3>1, <3>2 DEF HeadsChain, LinkOf
    <3>3. CASE n # 0
      BY <1>3, <1>9, <2>1, <2>6, <3>1, <3>3 DEF HeadsChain, Follows
    <3> QED BY <3>2, <3>3
  <2>8. Lives(b, y, q, x)
    <3>1. Flies(b, y, x) <=> x = y
      BY <1>3 DEF Flies
    <3> QED BY <1>9, <2>4, <2>6, <3>1 DEF Lives, n
  <2>9. ASSUME NEW z \in Primary, z # x PROVE Lives(b, y, q, z)
    <3>1. Lives(t, y, r, z) /\ q.hdr[z] = r.hdr[z]
      BY <1>2, <1>8, <1>10, <2>1, <2>9 DEF q
    <3>2. Flies(t, y, z) <=> Flies(b, y, z)
      BY <1>5 DEF Flies
    <3>3. Cardinality(HandlersIn(t, z)) = Cardinality(HandlersIn(b, z))
      BY <1>6, <2>9
    <3>4. Handled(t, z) <=> Handled(b, z)
      BY <1>6, <2>9
    <3> QED BY <1>5, <3>1, <3>2, <3>3, <3>4 DEF Lives
  <2>10. ASSUME NEW z \in Foreign PROVE ForeignLives(b, y, q, z)
    <3>1. ForeignLives(t, y, r, z) /\ q.hdr[z] = r.hdr[z]
      BY <1>2, <1>8, <1>10, <1>13, <2>1 DEF q
    <3>2. Flies(t, y, z) <=> Flies(b, y, z)
      BY <1>5 DEF Flies
    <3>3. LinkedTo(b, q, z) => LinkedTo(t, r, z)
      <4>1. z # x
        BY <1>8, <1>13
      <4>2. \A p \in Primary : q.hdr[p].next = r.hdr[p].next
        BY <1>8, <1>10 DEF q
      <4>3. Handled(t, x)
        BY <1>6
      <4> QED BY <1>6, <1>13, <2>6, <4>1, <4>2, <4>3 DEF LinkedTo
    <3> QED BY <3>1, <3>2, <3>3 DEF ForeignLives
  <2>11. ~EndCatchBug(r)
    BY <1>9, <2>1, <2>4 DEF EndCatchBug
  <2> QED BY <1>11, <1>12, <2>7, <2>8, <2>9, <2>10, <2>11 DEF Good, q
<1>14. CASE x \in Foreign
  <2>1. Innermost(b) = NULL /\ Innermost(t) = NULL
    BY <1>3, <1>4, <1>8, <1>14 DEF IsGxx
  <2>2. r.caught \notin Primary
    BY <1>2, <2>1 DEF HeadsChain, IsGxx
  <2>3. q.caught = NULL
    BY <2>2, EndCatchFacts
  <2> HIDE DEF q
  <2>4. HeadsChain(b, q)
    BY <1>8, <2>1, <2>3 DEF HeadsChain, IsGxx
  <2>5. ASSUME NEW z \in Primary PROVE Lives(b, y, q, z)
    <3>1. Lives(t, y, r, z) /\ q.hdr[z] = r.hdr[z]
      BY <1>2, <1>8, <1>10, <2>2 DEF q
    <3>2. Flies(t, y, z) <=> Flies(b, y, z)
      BY <1>5 DEF Flies
    <3>3. z # x
      BY <1>8, <1>14
    <3>4. Cardinality(HandlersIn(t, z)) = Cardinality(HandlersIn(b, z))
      BY <1>6, <3>3
    <3>5. Handled(t, z) <=> Handled(b, z)
      BY <1>6, <3>3
    <3> QED BY <1>5, <3>1, <3>2, <3>4, <3>5 DEF Lives
  <2>6. ASSUME NEW z \in Foreign PROVE ForeignLives(b, y, q, z)
    <3>1. ForeignLives(t, y, r, z)
      BY <1>2
    <3>2. Flies(t, y, z) <=> Flies(b, y, z)
      BY <1>5 DEF Flies
    <3>3. ~LinkedTo(b, q, z)
      BY <1>7, <1>8, <2>1, <2>3 DEF LinkedTo
    <3>4. Flies(b, y, z) => z # r.caught
      BY <3>1, <3>2 DEF ForeignLives, LinkedTo
    <3>5. z # r.caught => q.hdr[z] = r.hdr[z]
      BY <1>8, <1>10 DEF q
    <3> QED BY <3>1, <3>2, <3>3, <3>4, <3>5 DEF ForeignLives
  <2>7. ~EndCatchBug(r)
    BY <2>2 DEF EndCatchBug, IsGxx
  <2> QED BY <1>11, <1>12, <2>4, <2>5, <2>6, <2>7 DEF Good, q
<1> QED BY <1>8, <1>13, <1>14 DEF x

\* A handler begins: begin_catch puts the exception that flew at the head.
LEMMA HandlerBegins ==
  ASSUME NEW b \in Seq(Frame), NEW f \in Frame, f.kind \in {"catch", "ucatch"},
         f.exc \in Exc, AllNamed(b),
         NEW r \in RT, Good(b, f.exc, r), Covered(b, f.exc, r), ~CannotStack(r, f.exc)
  PROVE  Good(Append(b, f), NULL, BeginCatch(r, f.exc))
<1> DEFINE t == Append(b, f)
           x == f.exc
           q == BeginCatch(r, x)
           n == Cardinality(HandlersIn(b, x))
<1>1. /\ \A z : Catches(f, z) <=> z = x
      /\ \A z : ~Waits(f, z) /\ ~(f.kind = "construct" /\ f.exc = z)
      /\ f.kind \in {"catch", "ucatch"} /\ x \in Exc
  BY DEF Catches, Waits
<1>2. NULL \notin Exc /\ Primary \cap Foreign = {} /\ Exc = Primary \cup Foreign
  BY EhAssumption DEF Exc
<1>3. /\ Stacked(b, r.hdr) /\ ~Waiting(b, x) /\ Follows(b, x) /\ HeadsChain(b, r)
      /\ \A z \in Primary : Lives(b, x, r, z)
      /\ \A z \in Foreign : ForeignLives(b, x, r, z)
  BY <1>2 DEF Good, Flying
<1>4. Innermost(t) = IF IsGxx(x) THEN x ELSE Innermost(b)
  BY <1>1, InnermostPushed
<1>5. \A z : /\ Waiting(t, z) <=> Waiting(b, z)
             /\ Built(t, z) <=> Built(b, z)
  BY <1>1, WaitingPushed
<1>6. \A z : /\ Handled(t, z) <=> Handled(b, z) \/ z = x
             /\ Cardinality(HandlersIn(b, z)) \in Nat
             /\ Cardinality(HandlersIn(b, z)) = 0 <=> ~Handled(b, z)
             /\ Cardinality(HandlersIn(t, z))
                  = Cardinality(HandlersIn(b, z)) + (IF z = x THEN 1 ELSE 0)
  <2> TAKE z
  <2>1. Handled(t, z) <=> Handled(b, z) \/ Catches(f, z)
    BY HandlersPushed
  <2>2. /\ Cardinality(HandlersIn(b, z)) \in Nat
        /\ Cardinality(HandlersIn(b, z)) = 0 <=> ~Handled(b, z)
        /\ Cardinality(HandlersIn(t, z))
             = Cardinality(HandlersIn(b, z)) + (IF Catches(f, z) THEN 1 ELSE 0)
    BY CountPushed
  <2> QED BY <1>1, <2>1, <2>2
<1>7. /\ Innermost(b) # NULL => Innermost(b) \in Primary /\ Handled(b, Innermost(b))
      /\ \A z \in Primary : Handled(b, z) => Innermost(b) # NULL
  BY InnermostFacts
<1>8. n \in Nat /\ (n = 0 <=> ~Handled(b, x))
  BY <1>6
<1>9. x \in Primary => r.uncaught >= 1
  <2>1. Cardinality(WaitsIn(b)) \in Nat /\ r.uncaught \in Nat
    BY WaitsPushed DEF RT
  <2> QED BY <2>1 DEF Covered, IsGxx
<1>10. Stacked(t, q.hdr) <=> Stacked(b, q.hdr) /\ Fits(b, f, q.hdr)
  BY StackedPushed
<1> HIDE DEF t, x, n
<1>11. /\ q.caught = x
       /\ \A z \in Exc : z # x \/ x \notin Primary => q.hdr[z] = r.hdr[z]
       /\ x \in Primary =>
            /\ q.hdr[x].count = Recount(r.hdr[x].count)
            /\ q.hdr[x].next = IF x = r.caught THEN r.hdr[x].next ELSE r.caught
            /\ q.hdr[x].state = r.hdr[x].state /\ q.hdr[x].ref = r.hdr[x].ref
            /\ q.hdr[x].target = r.hdr[x].target
  BY <1>1, <1>9, BeginCatchFacts
<1> HIDE DEF q
<1>12. x \in Primary /\ Handled(b, x) => x = r.caught
  BY <1>3, <1>7 DEF Follows, HeadsChain, IsGxx
<1>13. Stacked(b, q.hdr)
  <2>1. \A z \in Exc : q.hdr[z].target = r.hdr[z].target
    BY <1>11
  <2>2. \A z \in Primary : Handled(b, z) => q.hdr[z].next = r.hdr[z].next
    BY <1>2, <1>11, <1>12
  <2> QED BY <1>3, <2>1, <2>2, StackedSame
<1>14. Linked(b, f, q.hdr)
  <2>1. CASE x \in Primary
    <3>1. LinkOf(b, x, q.hdr)
      BY <1>3, <1>11, <2>1 DEF LinkOf, HeadsChain, IsGxx
    <3> QED BY <2>1, <3>1 DEF Linked, IsGxx, x
  <2>2. CASE x \in Foreign
    <3>1. ~IsGxx(x) /\ r.caught = NULL
      BY <1>2, <2>2 DEF CannotStack, IsGxx, x
    <3>2. Innermost(b) = NULL
      BY <1>3, <1>7, <3>1 DEF HeadsChain
    <3> QED BY <3>1, <3>2 DEF Linked, x
  <2> QED BY <1>1, <1>2, <2>1, <2>2
<1>15. Fits(b, f, q.hdr)
  <2>1. InOrder(b, f)
    BY <1>1, <1>3 DEF InOrder, x
  <2> QED BY <1>1, <1>14, <2>1 DEF Fits, WaitsOnce, BuiltOnce
<1>16. HeadsChain(t, q)
  <2>1. x \in Foreign => r.caught = NULL /\ Innermost(b) = NULL
    <3>1. x \in Foreign => r.caught = NULL
      BY <1>2 DEF CannotStack, IsGxx, x
    <3> QED BY <1>3, <1>7, <3>1 DEF HeadsChain
  <2> QED BY <1>1, <1>2, <1>4, <1>11, <2>1 DEF HeadsChain, IsGxx
<1>17. ASSUME NEW z \in Primary PROVE Lives(t, NULL, q, z)
  <2>1. Lives(b, x, r, z) /\ z # NULL
    BY <1>2, <1>3
  <2>2. CASE z = x
    <3>1. Flies(b, x, x) /\ ~Flies(t, NULL, x) /\ Handled(t, x)
      BY <1>3, <1>5, <1>6, <2>1, <2>2 DEF Flies
    <3>2. /\ r.hdr[x].state = "alive" /\ r.hdr[x].ref = 1 /\ r.hdr[x].count = -n
          /\ ~Built(b, x)
      BY <2>1, <2>2, <3>1 DEF Lives, n
    <3>3. q.hdr[x].count = n + 1 /\ Cardinality(HandlersIn(t, x)) = n + 1
      BY <1>6, <1>8, <1>11, <2>2, <3>2 DEF Recount, n
    <3> QED BY <1>5, <1>11, <2>2, <3>1, <3>2, <3>3 DEF Lives
  <2>3. CASE z # x
    <3>1. Flies(t, NULL, z) <=> Flies(b, x, z)
      BY <1>5, <2>1, <2>3 DEF Flies
    <3>2. q.hdr[z] = r.hdr[z]
      BY <1>2, <1>11, <2>3
    <3>3. Cardinality(HandlersIn(t, z)) = Cardinality(HandlersIn(b, z))
      BY <1>6, <2>3
    <3>4. Handled(t, z) <=> Handled(b, z)
      BY <1>6, <2>3
    <3> QED BY <1>5, <2>1, <3>1, <3>2, <3>3, <3>4 DEF Lives
  <2> QED BY <2>2, <2>3
<1>18. ASSUME NEW z \in Foreign PROVE ForeignLives(t, NULL, q, z)
  <2>1. ForeignLives(b, x, r, z) /\ z # NULL
    BY <1>2, <1>3
  <2>2. q.hdr[z].state = r.hdr[z].state
    BY <1>2, <1>11
  <2>3. CASE z = x
    <3>1. Flies(b, x, z) /\ ~Flies(t, NULL, z)
      BY <1>3, <1>5, <2>1, <2>3 DEF Flies
    <3> QED BY <2>1, <2>2, <3>1 DEF ForeignLives
  <2>4. CASE z # x
    <3>1. Flies(t, NULL, z) <=> Flies(b, x, z)
      BY <1>5, <2>1, <2>4 DEF Flies
    <3>2. \A p \in Primary : p # x => q.hdr[p].next = r.hdr[p].next
      BY <1>2, <1>11
    <3>3. x \in Primary /\ x = r.caught => Handled(b, x)
      BY <1>3, <1>7 DEF HeadsChain, IsGxx
    <3>4. LinkedTo(t, q, z) => LinkedTo(b, r, z)
      BY <1>6, <1>11, <2>4, <3>2, <3>3 DEF LinkedTo
    <3> QED BY <2>1, <2>2, <3>1, <3>4 DEF ForeignLives
  <2> QED BY <2>3, <2>4
<1>19. Flying(t, NULL)
  BY DEF Flying
<1> QED BY <1>10, <1>13, <1>15, <1>16, <1>17, <1>18, <1>19 DEF Good, t, x, q

-----------------------------------------------------------------------------
(* Changes of one header.                                                    *)

\* The runtime with another header for x and another count of the uncaught.
Put(r, x, e, u) == [r EXCEPT !.uncaught = u, !.hdr = [r.hdr EXCEPT ![x] = e]]

Retarget(r, x, k)  == [r EXCEPT !.hdr[x].target = k]
Reserve(r, x, c)   == [r EXCEPT !.hdr[x].state = "raw", !.hdr[x].count = c]
GiveBack(r, x)     == [r EXCEPT !.hdr[x].state = "free"]
ComeAlive(r, x, u) == [r EXCEPT !.uncaught = u, !.hdr = [r.hdr EXCEPT ![x].state = "alive",
                                                                     ![x].ref = 1]]
OneMore(r)         == [r EXCEPT !.uncaught = @ + 1]

LEMMA HeaderSet ==
  ASSUME NEW r \in RT, NEW x \in Exc, NEW e \in Header, NEW u, u \in Nat, NEW q,
         q = Put(r, x, e, u)
  PROVE  /\ q \in RT /\ q.caught = r.caught /\ q.uncaught = u
         /\ q.hdr[x] = e /\ \A z \in Exc : z # x => q.hdr[z] = r.hdr[z]
<1> DEFINE g == [r.hdr EXCEPT ![x] = e]
<1>1. /\ r.hdr \in [Exc -> Header] /\ r.caught \in Exc \cup {NULL}
      /\ r = [caught |-> r.caught, uncaught |-> r.uncaught, hdr |-> r.hdr]
  BY DEF RT
<1>2. g \in [Exc -> Header] /\ g[x] = e /\ \A z \in Exc : z # x => g[z] = r.hdr[z]
  BY <1>1
<1>3. q = [r EXCEPT !.uncaught = u, !.hdr = g]
  BY DEF Put
<1> HIDE DEF g
<1>4. q = [caught |-> r.caught, uncaught |-> u, hdr |-> g]
  BY <1>1, <1>3
<1> QED BY <1>1, <1>2, <1>4 DEF RT

\* The unwinder notes where the exception will land.
LEMMA TargetFacts ==
  ASSUME NEW r \in RT, NEW x \in Exc, NEW k, k \in Nat, NEW q, q = Retarget(r, x, k)
  PROVE  /\ q \in RT /\ q.caught = r.caught /\ q.uncaught = r.uncaught
         /\ \A z \in Exc : /\ q.hdr[z].state = r.hdr[z].state
                           /\ q.hdr[z].count = r.hdr[z].count
                           /\ q.hdr[z].next = r.hdr[z].next /\ q.hdr[z].ref = r.hdr[z].ref
                           /\ z # x => q.hdr[z].target = r.hdr[z].target
         /\ q.hdr[x].target = k
<1> DEFINE e == [r.hdr[x] EXCEPT !.target = k]
<1>1. r.hdr \in [Exc -> Header] /\ r.uncaught \in Nat /\ r.hdr[x] \in Header
  BY DEF RT
<1>2. /\ e \in Header /\ e.target = k /\ e.state = r.hdr[x].state
      /\ e.count = r.hdr[x].count /\ e.next = r.hdr[x].next /\ e.ref = r.hdr[x].ref
  BY <1>1 DEF Header
<1>3. q = Put(r, x, e, r.uncaught)
  BY <1>1 DEF RT, Put, Retarget
<1> HIDE DEF e
<1>4. /\ q \in RT /\ q.caught = r.caught /\ q.uncaught = r.uncaught
      /\ q.hdr[x] = e /\ \A z \in Exc : z # x => q.hdr[z] = r.hdr[z]
  BY <1>1, <1>2, <1>3, HeaderSet
<1> QED BY <1>2, <1>4

\* A block is reserved for an exception.
LEMMA ReserveFacts ==
  ASSUME NEW r \in RT, NEW x \in Exc, NEW c, c \in Int, NEW q, q = Reserve(r, x, c)
  PROVE  /\ q \in RT /\ q.caught = r.caught /\ q.uncaught = r.uncaught
         /\ q.hdr[x].state = "raw" /\ q.hdr[x].count = c /\ q.hdr[x].next = r.hdr[x].next
         /\ q.hdr[x].target = r.hdr[x].target
         /\ \A z \in Exc : z # x => q.hdr[z] = r.hdr[z]
<1> DEFINE v == r.hdr[x]
           e == [v EXCEPT !.state = "raw", !.count = c]
<1>1. r.hdr \in [Exc -> Header] /\ r.uncaught \in Nat /\ v \in Header
  BY DEF RT
<1>2. q = Put(r, x, e, r.uncaught)
  BY <1>1 DEF RT, Put, Reserve
<1> HIDE DEF v
<1>3. /\ e \in Header /\ e.state = "raw" /\ e.count = c /\ e.next = v.next
      /\ e.target = v.target
  BY <1>1 DEF Header
<1> HIDE DEF e
<1>4. /\ q \in RT /\ q.caught = r.caught /\ q.uncaught = r.uncaught
      /\ q.hdr[x] = e /\ \A z \in Exc : z # x => q.hdr[z] = r.hdr[z]
  BY <1>1, <1>2, <1>3, HeaderSet
<1> QED BY <1>3, <1>4 DEF v

\* The block of a half constructed exception is given back.
LEMMA FreeFacts ==
  ASSUME NEW r \in RT, NEW x \in Exc, NEW q, q = GiveBack(r, x)
  PROVE  /\ q \in RT /\ q.caught = r.caught /\ q.uncaught = r.uncaught
         /\ q.hdr[x].state = "free" /\ q.hdr[x].next = r.hdr[x].next
         /\ q.hdr[x].target = r.hdr[x].target
         /\ \A z \in Exc : z # x => q.hdr[z] = r.hdr[z]
<1> DEFINE v == r.hdr[x]
           e == [v EXCEPT !.state = "free"]
<1>1. r.hdr \in [Exc -> Header] /\ r.uncaught \in Nat /\ v \in Header
  BY DEF RT
<1>2. q = Put(r, x, e, r.uncaught)
  BY <1>1 DEF RT, Put, GiveBack
<1> HIDE DEF v
<1>3. e \in Header /\ e.state = "free" /\ e.next = v.next /\ e.target = v.target
  BY <1>1 DEF Header
<1> HIDE DEF e
<1>4. /\ q \in RT /\ q.caught = r.caught /\ q.uncaught = r.uncaught
      /\ q.hdr[x] = e /\ \A z \in Exc : z # x => q.hdr[z] = r.hdr[z]
  BY <1>1, <1>2, <1>3, HeaderSet
<1> QED BY <1>3, <1>4 DEF v

\* An exception object comes to life; uncaughtExceptions becomes u.
LEMMA AliveFacts ==
  ASSUME NEW r \in RT, NEW x \in Exc, NEW u, u \in Nat, NEW q,
         q = ComeAlive(r, x, u)
  PROVE  /\ q \in RT /\ q.caught = r.caught /\ q.uncaught = u
         /\ q.hdr[x].state = "alive" /\ q.hdr[x].ref = 1
         /\ q.hdr[x].count = r.hdr[x].count /\ q.hdr[x].next = r.hdr[x].next
         /\ q.hdr[x].target = r.hdr[x].target
         /\ \A z \in Exc : z # x => q.hdr[z] = r.hdr[z]
<1> DEFINE v == r.hdr[x]
           e == [v EXCEPT !.state = "alive", !.ref = 1]
<1>1. r.hdr \in [Exc -> Header] /\ v \in Header
  BY DEF RT
<1>2. [r.hdr EXCEPT ![x].state = "alive", ![x].ref = 1] = [r.hdr EXCEPT ![x] = e]
  BY <1>1
<1> HIDE DEF v
<1>3. /\ e \in Header /\ e.state = "alive" /\ e.ref = 1 /\ e.count = v.count
      /\ e.next = v.next /\ e.target = v.target
  <2>1. v = [state |-> v.state, count |-> v.count, next |-> v.next, ref |-> v.ref,
             target |-> v.target]
    BY <1>1 DEF Header
  <2> DEFINE w == [v EXCEPT !.state = "alive"]
  <2>2. w = [state |-> "alive", count |-> v.count, next |-> v.next, ref |-> v.ref,
             target |-> v.target]
    BY <2>1
  <2>3. e = [w EXCEPT !.ref = 1]
    OBVIOUS
  <2> HIDE DEF w, e
  <2>4. e = [state |-> "alive", count |-> v.count, next |-> v.next, ref |-> 1,
             target |-> v.target]
    BY <2>2, <2>3
  <2> QED BY <1>1, <2>4 DEF Header
<1> HIDE DEF e
<1>4. /\ q \in RT /\ q.caught = r.caught /\ q.uncaught = u
      /\ q.hdr[x] = e /\ \A z \in Exc : z # x => q.hdr[z] = r.hdr[z]
  <2>1. q = Put(r, x, e, u)
    BY <1>2 DEF Put, ComeAlive
  <2> QED BY <1>3, <2>1, HeaderSet
<1> QED BY <1>3, <1>4 DEF v

\* throw; negates the count of a C++ exception and forgets a foreign one.
LEMMA MarkFacts ==
  ASSUME NEW r \in RT, NEW x \in Exc, x = r.caught, NEW q,
         q = MarkRethrown(OneMore(r))
  PROVE  /\ q \in RT /\ q.uncaught = r.uncaught + 1
         /\ x \notin Primary => q.caught = NULL /\ q.hdr = r.hdr
         /\ x \in Primary =>
              /\ q.caught = x /\ q.hdr[x].count = -r.hdr[x].count
              /\ q.hdr[x].state = r.hdr[x].state /\ q.hdr[x].ref = r.hdr[x].ref
              /\ q.hdr[x].next = r.hdr[x].next /\ q.hdr[x].target = r.hdr[x].target
              /\ \A z \in Exc : z # x => q.hdr[z] = r.hdr[z]
<1> DEFINE s == OneMore(r)
<1>1. /\ r.hdr \in [Exc -> Header] /\ r.uncaught \in Nat
      /\ r = [caught |-> x, uncaught |-> r.uncaught, hdr |-> r.hdr]
  BY DEF RT
<1>2. s = [caught |-> x, uncaught |-> r.uncaught + 1, hdr |-> r.hdr]
  BY <1>1 DEF OneMore
<1>3. s \in RT
  BY <1>1, <1>2 DEF RT
<1>4. CASE x \notin Primary
  <2>1. q = [s EXCEPT !.caught = NULL]
    BY <1>2, <1>4 DEF MarkRethrown, IsGxx
  <2> HIDE DEF s
  <2>2. q = [caught |-> NULL, uncaught |-> r.uncaught + 1, hdr |-> r.hdr]
    BY <1>2, <2>1
  <2> QED BY <1>1, <1>4, <2>2 DEF RT
<1>5. CASE x \in Primary
  <2> DEFINE v == r.hdr[x]
             e == [v EXCEPT !.count = -v.count]
  <2>1. q = [s EXCEPT !.hdr[x].count = -@]
    BY <1>2, <1>5 DEF MarkRethrown, IsGxx
  <2>2. v \in Header
    BY <1>1
  <2>3. s.hdr = r.hdr /\ s.caught = x /\ s.uncaught = r.uncaught + 1
    BY <1>2
  <2> HIDE DEF s
  <2>4. q = Put(s, x, e, s.uncaught)
    BY <1>2, <2>1, <2>3 DEF Put
  <2> HIDE DEF v
  <2>5. /\ e \in Header /\ e.count = -v.count /\ e.state = v.state /\ e.ref = v.ref
        /\ e.next = v.next /\ e.target = v.target
    BY <2>2 DEF Header
  <2> HIDE DEF e
  <2>6. /\ q \in RT /\ q.caught = x /\ q.uncaught = r.uncaught + 1
        /\ q.hdr[x] = e /\ \A z \in Exc : z # x => q.hdr[z] = r.hdr[z]
    <3>1. s.uncaught \in Nat
      BY <1>1, <2>3
    <3> QED BY <1>3, <2>3, <2>4, <2>5, <3>1, HeaderSet
  <2> QED BY <1>5, <2>5, <2>6 DEF v
<1> QED BY <1>4, <1>5

-----------------------------------------------------------------------------
(* How the invariant moves with the headers.                                 *)

\* The target of the exception in flight may change: it waits nowhere.
LEMMA Retargeted ==
  ASSUME NEW fs \in Seq(Frame), AllNamed(fs), NEW y \in Exc, NEW r \in RT, NEW k, k \in Nat,
         Good(fs, y, r), NEW q, q = Retarget(r, y, k)
  PROVE  Good(fs, y, q)
<1>1. NULL \notin Exc /\ Exc = Primary \cup Foreign
  BY EhAssumption DEF Exc
<1>2. /\ q \in RT /\ q.caught = r.caught /\ q.uncaught = r.uncaught
      /\ \A z \in Exc : /\ q.hdr[z].state = r.hdr[z].state
                        /\ q.hdr[z].count = r.hdr[z].count
                        /\ q.hdr[z].next = r.hdr[z].next /\ q.hdr[z].ref = r.hdr[z].ref
                        /\ z # y => q.hdr[z].target = r.hdr[z].target
  BY TargetFacts
<1>3. ~Waiting(fs, y) /\ Stacked(fs, r.hdr) /\ Flying(fs, y)
  BY <1>1 DEF Good, Flying
<1>4. Stacked(fs, q.hdr)
  <2>1. \A z \in Exc : Waiting(fs, z) => q.hdr[z].target = r.hdr[z].target
    BY <1>2, <1>3
  <2>2. \A z \in Primary : Handled(fs, z) => q.hdr[z].next = r.hdr[z].next
    BY <1>1, <1>2
  <2> QED BY <1>3, <2>1, <2>2, StackedSame
<1>5. HeadsChain(fs, q)
  BY <1>2 DEF Good, HeadsChain
<1>6. \A z \in Primary : Lives(fs, y, q, z)
  BY <1>1, <1>2 DEF Good, Lives
<1>7. \A z \in Foreign : ForeignLives(fs, y, q, z)
  BY <1>1, <1>2 DEF Good, ForeignLives, LinkedTo
<1> QED BY <1>3, <1>4, <1>5, <1>6, <1>7 DEF Good

\* What a constructor of an exception object on the top of the stack changes.
LEMMA ConstructPushed ==
  ASSUME NEW b \in Seq(Frame), NEW f \in Frame, f.kind = "construct", NEW h,
         NEW t, t = Append(b, f)
  PROVE  /\ Stacked(t, h) <=> Stacked(b, h) /\ ~Built(b, f.exc)
         /\ Innermost(t) = Innermost(b)
         /\ \A z : /\ HandlersIn(t, z) = HandlersIn(b, z)
                   /\ Handled(t, z) <=> Handled(b, z)
                   /\ Waiting(t, z) <=> Waiting(b, z)
                   /\ Built(t, z) <=> Built(b, z) \/ z = f.exc
         /\ Cardinality(WaitsIn(t)) = Cardinality(WaitsIn(b))
<1>1. \A z : ~Catches(f, z) /\ ~Waits(f, z)
  BY DEF Catches, Waits
<1>2. Fits(b, f, h) <=> ~Built(b, f.exc)
  BY DEF Fits, WaitsOnce, BuiltOnce, InOrder, Linked
<1>3. Stacked(t, h) <=> Stacked(b, h) /\ ~Built(b, f.exc)
  BY <1>2, StackedPushed
<1>4. Innermost(t) = Innermost(b)
  BY <1>1, InnermostPushed
<1>5. \A z : /\ Waiting(t, z) <=> Waiting(b, z)
             /\ Built(t, z) <=> Built(b, z) \/ z = f.exc
  BY <1>1, WaitingPushed
<1>6. \A z : HandlersIn(t, z) = HandlersIn(b, z) /\ (Handled(t, z) <=> Handled(b, z))
  <2> TAKE z
  <2>1. HandlersIn(t, z) = HandlersIn(b, z) \cup {}
    BY <1>1, HandlersPushed
  <2> QED BY <2>1 DEF Handled
<1>7. Cardinality(WaitsIn(t)) = Cardinality(WaitsIn(b))
  BY WaitsPushed
<1> QED BY <1>3, <1>4, <1>5, <1>6, <1>7

\* An exception nothing needs has no handler, and no constructor if it is free.
LEMMA NotNeeded ==
  ASSUME NEW fs, NEW y, NEW r, NEW x \in Primary, Good(fs, y, r), r.hdr[x].state # "alive"
  PROVE  /\ ~Flies(fs, y, x) /\ ~Handled(fs, x) /\ HandlersIn(fs, x) = {}
         /\ r.hdr[x].state = "free" => ~Built(fs, x)
BY DEF Good, Lives, Handled

\* A fresh block is reserved, and its constructor starts.
LEMMA Reserved ==
  ASSUME NEW b \in Seq(Frame), NEW f \in Frame, f.kind = "construct", f.exc \in Primary,
         AllNamed(b), NEW r \in RT, r.hdr[f.exc].state = "free", Good(b, NULL, r),
         NEW q, q = Reserve(r, f.exc, 0)
  PROVE  Good(Append(b, f), NULL, q)
<1> DEFINE t == Append(b, f)
           x == f.exc
<1>1. NULL \notin Exc /\ Primary \cap Foreign = {} /\ Exc = Primary \cup Foreign
  BY EhAssumption DEF Exc
<1>2. /\ Stacked(b, r.hdr) /\ HeadsChain(b, r)
      /\ \A z \in Primary : Lives(b, NULL, r, z)
      /\ \A z \in Foreign : ForeignLives(b, NULL, r, z)
  BY DEF Good
<1>3. ~Flies(b, NULL, x) /\ ~Handled(b, x) /\ ~Built(b, x)
  BY NotNeeded
<1>4. /\ Stacked(t, q.hdr) <=> Stacked(b, q.hdr) /\ ~Built(b, x)
      /\ Innermost(t) = Innermost(b)
      /\ \A z : /\ HandlersIn(t, z) = HandlersIn(b, z)
                /\ Handled(t, z) <=> Handled(b, z)
                /\ Waiting(t, z) <=> Waiting(b, z)
                /\ Built(t, z) <=> Built(b, z) \/ z = x
  BY ConstructPushed
<1> HIDE DEF t
<1>5. /\ q.caught = r.caught /\ q.hdr[x].state = "raw" /\ q.hdr[x].count = 0
      /\ q.hdr[x].next = r.hdr[x].next /\ q.hdr[x].target = r.hdr[x].target
      /\ \A z \in Exc : z # x => q.hdr[z] = r.hdr[z]
  <2>1. x \in Exc
    BY <1>1
  <2> QED BY <2>1, ReserveFacts
<1>6. x \in Primary
  OBVIOUS
<1> HIDE DEF x
<1>7. \A z \in Exc : q.hdr[z].target = r.hdr[z].target /\ q.hdr[z].next = r.hdr[z].next
  BY <1>5
<1>8. Stacked(t, q.hdr)
  <2>1. \A z \in Exc : Waiting(b, z) => q.hdr[z].target = r.hdr[z].target
    BY <1>1, <1>2, <1>3, <1>4, <1>7
  <2>2. \A z \in Primary : Handled(b, z) => q.hdr[z].next = r.hdr[z].next
    BY <1>1, <1>2, <1>3, <1>4, <1>7
  <2>3. Stacked(b, q.hdr)
    BY <1>2, <2>1, <2>2, StackedSame
  <2> QED BY <1>3, <1>4, <2>3
<1>9. Flying(t, NULL) /\ HeadsChain(t, q)
  BY <1>2, <1>4, <1>5 DEF Flying, HeadsChain
<1>10. \A z : Flies(t, NULL, z) <=> Flies(b, NULL, z)
  BY <1>4 DEF Flies
<1>11. ASSUME NEW z \in Primary PROVE Lives(t, NULL, q, z)
  <2>1. CASE z = x
    BY <1>3, <1>4, <1>5, <1>10, <2>1 DEF Lives
  <2>2. CASE z # x
    <3>1. Lives(b, NULL, r, z) /\ q.hdr[z] = r.hdr[z]
      BY <1>1, <1>2, <1>5, <2>2
    <3> QED BY <1>4, <1>10, <2>2, <3>1 DEF Lives
  <2> QED BY <2>1, <2>2
<1>12. ASSUME NEW z \in Foreign PROVE ForeignLives(t, NULL, q, z)
  <2>1. ForeignLives(b, NULL, r, z) /\ q.hdr[z] = r.hdr[z]
    BY <1>1, <1>2, <1>5, <1>6
  <2>2. LinkedTo(t, q, z) <=> LinkedTo(b, r, z)
    BY <1>1, <1>4, <1>5, <1>7 DEF LinkedTo
  <2> QED BY <1>10, <2>1, <2>2 DEF ForeignLives
<1> QED BY <1>8, <1>9, <1>11, <1>12 DEF Good, t

\* An exception leaves the constructor of another, which is given back.
LEMMA Abandoned ==
  ASSUME NEW b \in Seq(Frame), NEW f \in Frame, f.kind = "construct", f.exc \in Primary,
         AllNamed(b), NEW y, NEW r \in RT, Good(Append(b, f), y, r),
         NEW q, q = GiveBack(r, f.exc)
  PROVE  Good(b, y, q)
<1> DEFINE t == Append(b, f)
           x == f.exc
<1>1. NULL \notin Exc /\ Primary \cap Foreign = {} /\ Exc = Primary \cup Foreign
  BY EhAssumption DEF Exc
<1>2. /\ Stacked(t, r.hdr) /\ HeadsChain(t, r) /\ Flying(t, y)
      /\ \A z \in Primary : Lives(t, y, r, z)
      /\ \A z \in Foreign : ForeignLives(t, y, r, z)
  BY DEF Good
<1>3. /\ Stacked(t, r.hdr) <=> Stacked(b, r.hdr) /\ ~Built(b, x)
      /\ Innermost(t) = Innermost(b)
      /\ \A z : /\ HandlersIn(t, z) = HandlersIn(b, z)
                /\ Handled(t, z) <=> Handled(b, z)
                /\ Waiting(t, z) <=> Waiting(b, z)
                /\ Built(t, z) <=> Built(b, z) \/ z = x
  BY ConstructPushed
<1> HIDE DEF t
<1>4. r.hdr[x].state # "alive" /\ ~Flies(t, y, x) /\ ~Handled(t, x)
  BY <1>2, <1>3 DEF Lives
<1>5. /\ q.caught = r.caught /\ q.hdr[x].state = "free"
      /\ q.hdr[x].next = r.hdr[x].next /\ q.hdr[x].target = r.hdr[x].target
      /\ \A z \in Exc : z # x => q.hdr[z] = r.hdr[z]
  <2>1. x \in Exc
    BY <1>1
  <2> QED BY <2>1, FreeFacts
<1>6. x \in Primary
  OBVIOUS
<1> HIDE DEF x
<1>7. \A z \in Exc : q.hdr[z].target = r.hdr[z].target /\ q.hdr[z].next = r.hdr[z].next
  BY <1>5
<1>8. Stacked(b, q.hdr)
  <2>1. \A z \in Exc : Waiting(b, z) => q.hdr[z].target = r.hdr[z].target
    BY <1>1, <1>2, <1>3, <1>7
  <2>2. \A z \in Primary : Handled(b, z) => q.hdr[z].next = r.hdr[z].next
    BY <1>1, <1>2, <1>3, <1>7
  <2>3. Stacked(b, r.hdr)
    BY <1>2, <1>3
  <2> QED BY <2>1, <2>2, <2>3, StackedSame
<1>9. Flying(b, y) /\ HeadsChain(b, q)
  BY <1>2, <1>3, <1>5 DEF Flying, Follows, HeadsChain
<1>10. \A z : Flies(t, y, z) <=> Flies(b, y, z)
  BY <1>3 DEF Flies
<1>11. ASSUME NEW z \in Primary PROVE Lives(b, y, q, z)
  <2>1. CASE z = x
    BY <1>2, <1>3, <1>4, <1>5, <1>10, <2>1 DEF Lives
  <2>2. CASE z # x
    <3>1. Lives(t, y, r, z) /\ q.hdr[z] = r.hdr[z]
      BY <1>1, <1>2, <1>5, <2>2
    <3> QED BY <1>3, <1>10, <2>2, <3>1 DEF Lives
  <2> QED BY <2>1, <2>2
<1>12. ASSUME NEW z \in Foreign PROVE ForeignLives(b, y, q, z)
  <2>1. ForeignLives(t, y, r, z) /\ q.hdr[z] = r.hdr[z]
    BY <1>1, <1>2, <1>5, <1>6
  <2>2. LinkedTo(b, q, z) <=> LinkedTo(t, r, z)
    BY <1>1, <1>3, <1>5, <1>7 DEF LinkedTo
  <2> QED BY <1>10, <2>1, <2>2 DEF ForeignLives
<1> QED BY <1>8, <1>9, <1>11, <1>12 DEF Good

\* The constructor is done, and the exception is thrown.
LEMMA Constructed ==
  ASSUME NEW b \in Seq(Frame), NEW f \in Frame, f.kind = "construct", f.exc \in Primary,
         AllNamed(b), NEW r \in RT, Good(Append(b, f), NULL, r),
         NEW u, u \in Nat, NEW q, q = ComeAlive(r, f.exc, u)
  PROVE  Good(b, f.exc, q)
<1> DEFINE t == Append(b, f)
           x == f.exc
<1>1. NULL \notin Exc /\ Primary \cap Foreign = {} /\ Exc = Primary \cup Foreign
  BY EhAssumption DEF Exc
<1>2. /\ Stacked(t, r.hdr) /\ HeadsChain(t, r)
      /\ \A z \in Primary : Lives(t, NULL, r, z)
      /\ \A z \in Foreign : ForeignLives(t, NULL, r, z)
  BY DEF Good
<1>3. /\ Stacked(t, r.hdr) <=> Stacked(b, r.hdr) /\ ~Built(b, x)
      /\ Innermost(t) = Innermost(b)
      /\ \A z : /\ HandlersIn(t, z) = HandlersIn(b, z)
                /\ Handled(t, z) <=> Handled(b, z)
                /\ Waiting(t, z) <=> Waiting(b, z)
                /\ Built(t, z) <=> Built(b, z) \/ z = x
  BY ConstructPushed
<1> HIDE DEF t
<1>4. ~Flies(t, NULL, x) /\ ~Handled(t, x) /\ r.hdr[x].count = 0
  BY <1>2, <1>3 DEF Lives
<1>5. /\ q.caught = r.caught /\ q.hdr[x].state = "alive" /\ q.hdr[x].ref = 1
      /\ q.hdr[x].count = r.hdr[x].count
      /\ q.hdr[x].next = r.hdr[x].next /\ q.hdr[x].target = r.hdr[x].target
      /\ \A z \in Exc : z # x => q.hdr[z] = r.hdr[z]
  <2>1. x \in Exc
    BY <1>1
  <2> QED BY <2>1, AliveFacts
<1>6. x \in Primary
  OBVIOUS
<1> HIDE DEF x
<1>7. \A z \in Exc : q.hdr[z].target = r.hdr[z].target /\ q.hdr[z].next = r.hdr[z].next
  BY <1>5
<1>8. Stacked(b, q.hdr)
  <2>1. \A z \in Exc : Waiting(b, z) => q.hdr[z].target = r.hdr[z].target
    BY <1>1, <1>2, <1>3, <1>7
  <2>2. \A z \in Primary : Handled(b, z) => q.hdr[z].next = r.hdr[z].next
    BY <1>1, <1>2, <1>3, <1>7
  <2>3. Stacked(b, r.hdr)
    BY <1>2, <1>3
  <2> QED BY <2>1, <2>2, <2>3, StackedSame
<1>9. ~Waiting(b, x) /\ ~Handled(b, x) /\ HandlersIn(b, x) = {} /\ ~Built(b, x)
  BY <1>2, <1>3, <1>4 DEF Flies, Handled
<1>10. Flying(b, x) /\ HeadsChain(b, q)
  BY <1>2, <1>3, <1>5, <1>9 DEF Flying, Follows, HeadsChain
<1>11. \A z \in Exc : z # x => (Flies(t, NULL, z) <=> Flies(b, x, z))
  BY <1>1, <1>3 DEF Flies
<1>12. ASSUME NEW z \in Primary PROVE Lives(b, x, q, z)
  <2>1. CASE z = x
    <3>1. Cardinality(HandlersIn(b, x)) = 0 /\ -Cardinality(HandlersIn(b, x)) = 0
      BY <1>9, FS_EmptySet
    <3> QED BY <1>4, <1>5, <1>9, <2>1, <3>1 DEF Lives, Flies
  <2>2. CASE z # x
    <3>1. Lives(t, NULL, r, z) /\ q.hdr[z] = r.hdr[z]
      BY <1>1, <1>2, <1>5, <2>2
    <3>2. Flies(t, NULL, z) <=> Flies(b, x, z)
      BY <1>1, <1>11, <2>2
    <3> QED BY <1>3, <2>2, <3>1, <3>2 DEF Lives
  <2> QED BY <2>1, <2>2
<1>13. ASSUME NEW z \in Foreign PROVE ForeignLives(b, x, q, z)
  <2>1. ForeignLives(t, NULL, r, z) /\ q.hdr[z] = r.hdr[z] /\ z # x
    BY <1>1, <1>2, <1>5, <1>6
  <2>2. LinkedTo(b, q, z) <=> LinkedTo(t, r, z)
    BY <1>1, <1>3, <1>5, <1>7 DEF LinkedTo
  <2>3. Flies(t, NULL, z) <=> Flies(b, x, z)
    BY <1>1, <1>11, <2>1
  <2> QED BY <2>1, <2>2, <2>3 DEF ForeignLives
<1> QED BY <1>8, <1>10, <1>12, <1>13 DEF Good, x

\* Another language's runtime raises an exception.
LEMMA ForeignRaised ==
  ASSUME NEW fs \in Seq(Frame), AllNamed(fs), NEW r \in RT, NEW x \in Foreign,
         Good(fs, NULL, r), r.hdr[x].state = "free", NEW u, u \in Nat,
         NEW q, q = ComeAlive(r, x, u)
  PROVE  Good(fs, x, q)
<1>1. NULL \notin Exc /\ Primary \cap Foreign = {} /\ Exc = Primary \cup Foreign
  BY EhAssumption DEF Exc
<1>2. /\ Stacked(fs, r.hdr) /\ HeadsChain(fs, r)
      /\ \A z \in Primary : Lives(fs, NULL, r, z)
      /\ \A z \in Foreign : ForeignLives(fs, NULL, r, z)
  BY DEF Good
<1>3. ~Flies(fs, NULL, x) /\ ~LinkedTo(fs, r, x)
  BY <1>2 DEF ForeignLives
<1>4. /\ q.caught = r.caught /\ q.hdr[x].state = "alive"
      /\ q.hdr[x].next = r.hdr[x].next /\ q.hdr[x].target = r.hdr[x].target
      /\ \A z \in Exc : z # x => q.hdr[z] = r.hdr[z]
  <2>1. x \in Exc
    BY <1>1
  <2> QED BY <2>1, AliveFacts
<1>5. \A z \in Exc : q.hdr[z].target = r.hdr[z].target /\ q.hdr[z].next = r.hdr[z].next
  BY <1>4
<1>6. Stacked(fs, q.hdr)
  <2>1. \A z \in Exc : Waiting(fs, z) => q.hdr[z].target = r.hdr[z].target
    BY <1>1, <1>2, <1>5
  <2>2. \A z \in Primary : Handled(fs, z) => q.hdr[z].next = r.hdr[z].next
    BY <1>1, <1>2, <1>5
  <2> QED BY <1>1, <1>2, <2>1, <2>2, StackedSame
<1>7. Flying(fs, x) /\ HeadsChain(fs, q)
  BY <1>1, <1>2, <1>3, <1>4 DEF Flying, Flies, Follows, HeadsChain, IsGxx
<1>8. \A z \in Exc : z # x => (Flies(fs, NULL, z) <=> Flies(fs, x, z))
  BY <1>1 DEF Flies
<1>9. ASSUME NEW z \in Primary PROVE Lives(fs, x, q, z)
  <2>1. Lives(fs, NULL, r, z) /\ q.hdr[z] = r.hdr[z] /\ z # x
    BY <1>1, <1>2, <1>4
  <2>2. Flies(fs, NULL, z) <=> Flies(fs, x, z)
    BY <1>1, <1>8, <2>1
  <2> QED BY <2>1, <2>2 DEF Lives
<1>10. \A z : LinkedTo(fs, q, z) <=> LinkedTo(fs, r, z)
  BY <1>1, <1>4, <1>5 DEF LinkedTo
<1>11. ASSUME NEW z \in Foreign PROVE ForeignLives(fs, x, q, z)
  <2>1. CASE z = x
    BY <1>3, <1>4, <1>10, <2>1 DEF ForeignLives
  <2>2. CASE z # x
    <3>1. ForeignLives(fs, NULL, r, z) /\ q.hdr[z] = r.hdr[z]
      BY <1>1, <1>2, <1>4, <2>2
    <3>2. Flies(fs, NULL, z) <=> Flies(fs, x, z)
      BY <1>1, <1>8, <2>2
    <3> QED BY <1>10, <3>1, <3>2 DEF ForeignLives
  <2> QED BY <2>1, <2>2
<1> QED BY <1>6, <1>7, <1>9, <1>11 DEF Good

\* throw; names the exception of the innermost handler, which flies again.
LEMMA Rethrown ==
  ASSUME NEW fs \in Seq(Frame), AllNamed(fs), NEW r \in RT, NEW x \in Exc, x = r.caught,
         Good(fs, NULL, r), ~Flies(fs, NULL, x), NEW q, q = MarkRethrown(OneMore(r))
  PROVE  Good(fs, x, q)
<1>1. NULL \notin Exc /\ Primary \cap Foreign = {} /\ Exc = Primary \cup Foreign
  BY EhAssumption DEF Exc
<1>2. /\ Stacked(fs, r.hdr) /\ HeadsChain(fs, r)
      /\ \A z \in Primary : Lives(fs, NULL, r, z)
      /\ \A z \in Foreign : ForeignLives(fs, NULL, r, z)
  BY DEF Good
<1>3. /\ Innermost(fs) # NULL => Innermost(fs) \in Primary /\ Handled(fs, Innermost(fs))
      /\ \A z \in Primary : Handled(fs, z) => Innermost(fs) # NULL
  BY InnermostFacts
<1>4. \A z \in Exc : z # x => (Flies(fs, NULL, z) <=> Flies(fs, x, z))
  BY <1>1 DEF Flies
<1>5. ~Waiting(fs, x)
  BY DEF Flies
<1>6. CASE x \in Primary
  <2>1. Innermost(fs) = x /\ Handled(fs, x)
    BY <1>2, <1>3, <1>6 DEF HeadsChain, IsGxx
  <2>2. /\ q.caught = x /\ q.hdr[x].count = -r.hdr[x].count
        /\ q.hdr[x].state = r.hdr[x].state /\ q.hdr[x].ref = r.hdr[x].ref
        /\ q.hdr[x].next = r.hdr[x].next /\ q.hdr[x].target = r.hdr[x].target
        /\ \A z \in Exc : z # x => q.hdr[z] = r.hdr[z]
    BY <1>6, MarkFacts
  <2>3. \A z \in Exc : q.hdr[z].target = r.hdr[z].target /\ q.hdr[z].next = r.hdr[z].next
    BY <2>2
  <2>4. Stacked(fs, q.hdr)
    <3>1. \A z \in Exc : Waiting(fs, z) => q.hdr[z].target = r.hdr[z].target
      BY <2>3
    <3>2. \A z \in Primary : Handled(fs, z) => q.hdr[z].next = r.hdr[z].next
      BY <1>1, <2>3
    <3> QED BY <1>2, <3>1, <3>2, StackedSame
  <2>5. Flying(fs, x) /\ HeadsChain(fs, q)
    BY <1>2, <1>5, <2>1, <2>2 DEF Flying, Follows, HeadsChain
  <2>6. ASSUME NEW z \in Primary PROVE Lives(fs, x, q, z)
    <3>1. CASE z = x
      <4>1. Lives(fs, NULL, r, x) /\ Flies(fs, x, x)
        BY <1>2, <1>6 DEF Flies
      <4> QED BY <2>1, <2>2, <3>1, <4>1 DEF Lives
    <3>2. CASE z # x
      <4>1. Lives(fs, NULL, r, z) /\ q.hdr[z] = r.hdr[z]
        BY <1>1, <1>2, <2>2, <3>2
      <4>2. Flies(fs, NULL, z) <=> Flies(fs, x, z)
        BY <1>1, <1>4, <3>2
      <4> QED BY <4>1, <4>2 DEF Lives
    <3> QED BY <3>1, <3>2
  <2>7. ASSUME NEW z \in Foreign PROVE ForeignLives(fs, x, q, z)
    <3>1. ForeignLives(fs, NULL, r, z) /\ q.hdr[z] = r.hdr[z] /\ z # x
      BY <1>1, <1>2, <1>6, <2>2
    <3>2. Flies(fs, NULL, z) <=> Flies(fs, x, z)
      BY <1>1, <1>4, <3>1
    <3>3. LinkedTo(fs, q, z) <=> LinkedTo(fs, r, z)
      BY <1>1, <2>2, <2>3 DEF LinkedTo
    <3> QED BY <3>1, <3>2, <3>3 DEF ForeignLives
  <2> QED BY <2>4, <2>5, <2>6, <2>7 DEF Good
<1>7. CASE x \in Foreign
  <2>1. x \notin Primary
    BY <1>1, <1>7
  <2>2. Innermost(fs) = NULL /\ \A z \in Primary : ~Handled(fs, z)
    BY <1>2, <1>3, <2>1 DEF HeadsChain
  <2>3. q.caught = NULL /\ q.hdr = r.hdr
    BY <2>1, MarkFacts
  <2>4. Stacked(fs, q.hdr)
    BY <1>2, <2>3
  <2>5. Flying(fs, x) /\ HeadsChain(fs, q)
    BY <1>1, <1>5, <2>1, <2>2, <2>3 DEF Flying, Follows, HeadsChain, IsGxx
  <2>6. ASSUME NEW z \in Primary PROVE Lives(fs, x, q, z)
    <3>1. Lives(fs, NULL, r, z) /\ q.hdr[z] = r.hdr[z] /\ z # x
      BY <1>2, <2>1, <2>3
    <3>2. Flies(fs, NULL, z) <=> Flies(fs, x, z)
      BY <1>1, <1>4, <3>1
    <3> QED BY <3>1, <3>2 DEF Lives
  <2>7. ASSUME NEW z \in Foreign PROVE ForeignLives(fs, x, q, z)
    <3>1. ~LinkedTo(fs, q, z)
      BY <1>1, <2>2, <2>3 DEF LinkedTo
    <3>2. ForeignLives(fs, NULL, r, z) /\ q.hdr[z] = r.hdr[z]
      BY <1>2, <2>3
    <3>3. CASE z = x
      <4>1. LinkedTo(fs, r, x)
        BY DEF LinkedTo
      <4> QED BY <3>1, <3>2, <3>3, <4>1 DEF ForeignLives
    <3>4. CASE z # x
      <4>1. Flies(fs, NULL, z) <=> Flies(fs, x, z)
        BY <1>1, <1>4, <3>4
      <4> QED BY <3>1, <3>2, <4>1 DEF ForeignLives
    <3> QED BY <3>3, <3>4
  <2> QED BY <2>4, <2>5, <2>6, <2>7 DEF Good
<1> QED BY <1>1, <1>6, <1>7

-----------------------------------------------------------------------------
(* What every action relies on, and what it has to show.                     *)

Reasons == {"unhandled", "stacked foreign", "unexpected", "bug", "no memory",
            "thrown by destructor", "nothing to rethrow"}

LEMMA Known ==
  ASSUME EhInv, dead = "no"
  PROVE  /\ frames \in Seq(Frame) /\ AllNamed(frames) /\ fly \in Exc \cup {NULL}
         /\ rt \in RT /\ clean \in BOOLEAN /\ Covered(frames, fly, rt)
         /\ Tame => Good(frames, fly, rt) /\ Aimed(frames, fly, rt)
BY DEF EhInv, Typed, TypeOK, RT

LEMMA GoesOn ==
  ASSUME frames' \in Seq(Frame), AllNamed(frames'), fly' \in Exc \cup {NULL}, rt' \in RT,
         clean' \in BOOLEAN, dead' = "no", Covered(frames', fly', rt'),
         Tame' => Good(frames', fly', rt') /\ Aimed(frames', fly', rt')
  PROVE  EhInv'
BY DEF EhInv, Typed, TypeOK, RT

LEMMA Stops ==
  ASSUME frames' \in Seq(Frame), AllNamed(frames'), rt' \in RT, clean' \in BOOLEAN,
         NEW why \in Reasons, Terminate(why), Tame' => why # "bug"
  PROVE  EhInv'
BY DEF EhInv, Typed, TypeOK, RT, Terminate, Reasons

\* What lies below the top is as well formed as the stack.
LEMMA BelowFacts ==
  ASSUME frames \in Seq(Frame), AllNamed(frames)
  PROVE  /\ Below \in Seq(Frame) /\ AllNamed(Below)
         /\ \A y, r : Covered(frames, y, r) /\ r \in RT => Covered(Below, y, r)
         /\ frames # <<>> => Named(Top) /\ Top \in Frame /\ frames = Append(Below, Top)
<1>1. CASE frames = <<>>
  <2>1. Below = <<>>
    BY <1>1 DEF Below
  <2> QED BY <1>1, <2>1
<1>2. CASE frames # <<>>
  <2>1. Below \in Seq(Frame) /\ Top \in Frame /\ frames = Append(Below, Top)
    BY <1>2, TopFacts
  <2>2. AllNamed(Below) /\ Named(Top)
    BY <2>1, WaitingPushed
  <2>3. /\ Cardinality(WaitsIn(Below)) \in Nat /\ Cardinality(WaitsIn(frames)) \in Nat
        /\ Cardinality(WaitsIn(frames)) >= Cardinality(WaitsIn(Below))
    <3> DEFINE c == IF Top.kind = "cleanup" /\ IsGxx(Top.exc) THEN 1 ELSE 0
    <3>1. /\ Cardinality(WaitsIn(Below)) \in Nat
          /\ Cardinality(WaitsIn(frames)) = Cardinality(WaitsIn(Below)) + c
      BY <2>1, WaitsPushed
    <3>2. c \in {0, 1}
      OBVIOUS
    <3> HIDE DEF c
    <3> QED BY <3>1, <3>2
  <2>4. \A y, r : Covered(frames, y, r) /\ r \in RT => Covered(Below, y, r)
    <3> SUFFICES ASSUME NEW y, NEW r, Covered(frames, y, r), r \in RT
                 PROVE  Covered(Below, y, r)
      OBVIOUS
    <3>1. r.uncaught \in Nat
      BY DEF RT
    <3> QED BY <2>3, <3>1 DEF Covered
  <2> QED BY <2>1, <2>2, <2>4
<1> QED BY <1>1, <1>2

\* A handler that has begun: the stack, the count of the uncaught.
LEMMA BegunFacts ==
  ASSUME NEW b \in Seq(Frame), AllNamed(b), NEW x \in Exc, NEW r \in RT,
         Covered(b, x, r), NEW f \in Frame, f.kind \in {"catch", "ucatch"}, f.exc = x,
         NEW q, q = BeginCatch(r, x)
  PROVE  /\ q \in RT /\ Append(b, f) \in Seq(Frame) /\ AllNamed(Append(b, f))
         /\ Covered(Append(b, f), NULL, q)
<1>1. /\ Cardinality(WaitsIn(b)) \in Nat /\ r.uncaught \in Nat
      /\ Cardinality(WaitsIn(Append(b, f))) = Cardinality(WaitsIn(b))
      /\ AllNamed(Append(b, f)) /\ Append(b, f) \in Seq(Frame)
  <2>1. Named(f) /\ f.kind # "cleanup"
    BY DEF Named
  <2>2. /\ Cardinality(WaitsIn(b)) \in Nat
        /\ Cardinality(WaitsIn(Append(b, f))) = Cardinality(WaitsIn(b))
    BY <2>1, WaitsPushed
  <2> QED BY <2>1, <2>2, WaitingPushed DEF RT
<1>2. r.uncaught >= Cardinality(WaitsIn(b)) + (IF x \in Primary THEN 1 ELSE 0)
  BY DEF Covered, IsGxx
<1>3. x \in Primary => r.uncaught >= 1
  BY <1>1, <1>2
<1>4. /\ x \notin Primary => q.uncaught = r.uncaught
      /\ x \in Primary => q.uncaught = r.uncaught - 1
  BY <1>3, BeginCatchFacts
<1>5. ~IsGxx(NULL)
  BY EhAssumption DEF IsGxx
<1>6. q \in RT
  BY <1>3, BeginCatchFacts
<1>7. q.uncaught >= Cardinality(WaitsIn(b))
  <2>1. CASE x \in Primary
    BY <1>1, <1>2, <1>4, <1>6, <2>1
  <2>2. CASE x \notin Primary
    BY <1>1, <1>2, <1>4, <1>6, <2>2
  <2> QED BY <2>1, <2>2
<1>8. Covered(Append(b, f), NULL, q)
  BY <1>1, <1>5, <1>7 DEF Covered
<1> QED BY <1>1, <1>6, <1>8

\* The first phase picks a frame of the stack, or its end.
LEMMA TargetsIn ==
  ASSUME NEW fs \in Seq(Frame)
  PROVE  Targets(fs) \subseteq 0 .. Len(fs)
<1> DEFINE stops == {i \in 1..Len(fs) : fs[i].kind \in {"cleanup", "utry"}} \cup {0}
           last  == CHOOSE i \in stops : \A j \in stops : j <= i
<1>1. Len(fs) \in Nat
  BY LenProperties
<1>2. stops \subseteq 0 .. Len(fs) /\ 0 \in stops
  BY <1>1
<1>3. Targets(fs) = {last} \cup {i \in last + 1 .. Len(fs) : fs[i].kind \in {"try", "spec"}}
  BY DEF Targets
<1> HIDE DEF stops
<1>4. \E m \in stops : \A j \in stops : j <= m
  <2> DEFINE T == stops \ {0}
  <2>1. T \in SUBSET (1 .. Len(fs))
    BY <1>1, <1>2
  <2>2. CASE T = {}
    BY <1>2, <2>2
  <2>3. CASE T # {}
    <3> HIDE DEF T
    <3>1. PICK m \in T : \A i \in T : i <= m
      BY <1>1, <2>1, <2>3, HasGreatest
    <3>2. m \in 1 .. Len(fs)
      BY <2>1, <3>1
    <3> QED BY <1>1, <3>1, <3>2 DEF T
  <2> QED BY <2>2, <2>3
<1>5. last \in stops
  BY <1>4
<1> HIDE DEF last
<1>6. last \in 0 .. Len(fs)
  BY <1>2, <1>5
<1> QED BY <1>1, <1>3, <1>6

\* An exception is raised from the stack fs and the runtime r.
LEMMA RaiseStep ==
  ASSUME NEW x \in Exc, NEW fs \in Seq(Frame), AllNamed(fs), NEW r \in RT,
         Raise(x, fs, r), dead = "no", clean \in BOOLEAN, clean' = clean,
         Covered(fs, x, r), Tame => Good(fs, x, r)
  PROVE  EhInv'
<1>1. PICK t \in Targets(fs) :
        IF t = 0
          THEN rt' = (IF CannotStack(r, x) THEN r ELSE BeginCatch(r, x))
               /\ Terminate("unhandled")
          ELSE rt' = [r EXCEPT !.hdr[x].target = t] /\ fly' = x /\ UNCHANGED dead
  BY DEF Raise
<1>2. frames' = fs
  BY DEF Raise
<1>3. t \in Nat /\ (t # 0 => t \in 1 .. Len(fs))
  <2>1. t \in 0 .. Len(fs) /\ Len(fs) \in Nat
    BY TargetsIn, LenProperties
  <2> QED BY <2>1
<1>4. CASE t = 0
  <2>1. x \in Primary => r.uncaught >= 1
    <3>1. Cardinality(WaitsIn(fs)) \in Nat /\ r.uncaught \in Nat
      <4>1. Region("try", NULL) \in Frame
        BY DEF Region, Frame, Kinds
      <4> QED BY <4>1, WaitsPushed DEF RT
    <3> QED BY <3>1 DEF Covered, IsGxx
  <2>2. BeginCatch(r, x) \in RT
    BY <2>1, BeginCatchFacts
  <2>3. rt' \in RT /\ Terminate("unhandled")
    BY <1>1, <1>4, <2>2
  <2> QED BY <1>2, <2>3, Stops DEF Reasons
<1>5. CASE t # 0
  <2>1. rt' = Retarget(r, x, t) /\ fly' = x /\ dead' = "no"
    BY <1>1, <1>5 DEF Retarget
  <2>2. rt' \in RT /\ rt'.uncaught = r.uncaught /\ rt'.hdr[x].target = t
    BY <1>3, <2>1, TargetFacts
  <2>3. Covered(fs, x, rt')
    BY <2>2 DEF Covered
  <2>4. Tame => Good(fs, x, rt')
    BY <1>3, <2>1, Retargeted
  <2>5. Aimed(fs, x, rt')
    BY <1>3, <1>5, <2>2 DEF Aimed
  <2>6. Tame' => Tame
    BY DEF Tame
  <2> QED BY <1>2, <2>1, <2>2, <2>3, <2>4, <2>5, <2>6, GoesOn
<1> QED BY <1>4, <1>5

-----------------------------------------------------------------------------
(* The steps of the program.                                                 *)

LEMMA EnterStep == EhInv /\ Enter => EhInv'
<1> SUFFICES ASSUME EhInv, Enter PROVE EhInv'
  OBVIOUS
<1>1. fly = NULL /\ dead = "no" /\ fly' = fly /\ dead' = dead /\ rt' = rt /\ clean' = clean
  BY DEF Enter, MayNest, Running
<1>2. PICK k \in {"try", "obj", "spec"} : frames' = Append(frames, Region(k, NULL))
  BY DEF Enter
<1>3. /\ frames \in Seq(Frame) /\ AllNamed(frames) /\ rt \in RT /\ clean \in BOOLEAN
      /\ Covered(frames, fly, rt)
      /\ Tame => Good(frames, fly, rt)
  BY <1>1, Known
<1> DEFINE f == Region(k, NULL)
<1>4. f \in Frame /\ f.kind \in {"try", "obj", "spec", "utry"}
  BY DEF Region, Frame, Kinds
<1> HIDE DEF f
<1>5. /\ Good(Append(frames, f), fly, rt) <=> Good(frames, fly, rt)
      /\ Covered(Append(frames, f), fly, rt) <=> Covered(frames, fly, rt)
      /\ AllNamed(Append(frames, f)) <=> AllNamed(frames)
  BY <1>3, <1>4, PlainRegion
<1>6. frames' = Append(frames, f) /\ Append(frames, f) \in Seq(Frame)
  BY <1>2, <1>3, <1>4 DEF f
<1>7. Tame' => Good(frames', fly', rt') /\ Aimed(frames', fly', rt')
  BY <1>1, <1>3, <1>5, <1>6 DEF Aimed, Tame
<1> QED BY <1>1, <1>3, <1>5, <1>6, <1>7, GoesOn

LEMMA LeaveStep == EhInv /\ Leave => EhInv'
<1> SUFFICES ASSUME EhInv, Leave PROVE EhInv'
  OBVIOUS
<1>1. /\ fly = NULL /\ dead = "no" /\ fly' = fly /\ dead' = dead /\ rt' = rt
      /\ clean' = clean /\ frames # <<>> /\ Top.kind \in {"try", "obj", "spec"}
      /\ frames' = Below
  BY DEF Leave, Running
<1>2. /\ frames \in Seq(Frame) /\ AllNamed(frames) /\ rt \in RT /\ clean \in BOOLEAN
      /\ Covered(frames, fly, rt)
      /\ Tame => Good(frames, fly, rt)
  BY <1>1, Known
<1>3. /\ Below \in Seq(Frame) /\ AllNamed(Below) /\ Covered(Below, fly, rt)
      /\ Top \in Frame /\ frames = Append(Below, Top)
  BY <1>1, <1>2, BelowFacts
<1>4. Good(Append(Below, Top), fly, rt) <=> Good(Below, fly, rt)
  BY <1>1, <1>3, PlainRegion
<1>5. Tame' => Good(frames', fly', rt') /\ Aimed(frames', fly', rt')
  BY <1>1, <1>2, <1>3, <1>4 DEF Aimed, Tame
<1>6. fly' \in Exc \cup {NULL} /\ rt' \in RT /\ dead' = "no" /\ clean' \in BOOLEAN
  BY <1>1, <1>2
<1> QED BY <1>1, <1>3, <1>5, <1>6, GoesOn

\* A handler is left by LeaveHandler or UnwindPast.
LEMMA HandlerLeft ==
  ASSUME EhInv, dead = "no", Top.kind \in {"catch", "ucatch"}, frames' = Below,
         rt' = EndCatch(rt), clean' = clean,
         IF EndCatchBug(rt) THEN Terminate("bug") ELSE UNCHANGED <<fly, dead>>,
         Tame => frames # <<>> /\ Aimed(Below, fly, rt)
  PROVE  EhInv'
<1>1. /\ frames \in Seq(Frame) /\ AllNamed(frames) /\ rt \in RT /\ clean \in BOOLEAN
      /\ fly \in Exc \cup {NULL}
      /\ Covered(frames, fly, rt)
      /\ Tame => Good(frames, fly, rt)
  BY Known
<1>2. /\ Below \in Seq(Frame) /\ AllNamed(Below) /\ Covered(Below, fly, rt)
      /\ frames # <<>> => Named(Top) /\ Top \in Frame /\ frames = Append(Below, Top)
  BY <1>1, BelowFacts
<1>3. /\ EndCatch(rt) \in RT /\ EndCatch(rt).uncaught = rt.uncaught
      /\ \A y \in Exc : EndCatch(rt).hdr[y].target = rt.hdr[y].target
  BY <1>1, EndCatchFacts
<1>4. Tame => Good(Below, fly, EndCatch(rt)) /\ ~EndCatchBug(rt)
  <2> SUFFICES ASSUME Tame PROVE Good(Below, fly, EndCatch(rt)) /\ ~EndCatchBug(rt)
    OBVIOUS
  <2>1. Top.exc \in Exc /\ Top \in Frame /\ Good(Append(Below, Top), fly, rt)
    BY <1>1, <1>2 DEF Named
  <2> QED BY <1>1, <1>2, <2>1, HandlerEnds
<1>5. Tame' => Tame
  BY DEF Tame
<1>6. CASE EndCatchBug(rt)
  <2>1. Terminate("bug") /\ ~Tame'
    BY <1>4, <1>5, <1>6
  <2>2. frames' \in Seq(Frame) /\ AllNamed(frames') /\ rt' \in RT /\ clean' \in BOOLEAN
    BY <1>1, <1>2, <1>3
  <2> QED BY <2>1, <2>2, Stops DEF Reasons
<1>7. CASE ~EndCatchBug(rt)
  <2>1. fly' = fly /\ dead' = "no"
    BY <1>7
  <2>2. Covered(Below, fly, EndCatch(rt))
    BY <1>2, <1>3 DEF Covered
  <2>3. Tame => Aimed(Below, fly, EndCatch(rt))
    BY <1>1, <1>3 DEF Aimed
  <2>4. /\ frames' \in Seq(Frame) /\ AllNamed(frames') /\ rt' \in RT /\ clean' \in BOOLEAN
        /\ fly' \in Exc \cup {NULL} /\ Covered(frames', fly', rt')
        /\ Tame' => Good(frames', fly', rt') /\ Aimed(frames', fly', rt')
    BY <1>1, <1>2, <1>3, <1>4, <1>5, <2>1, <2>2, <2>3
  <2> QED BY <2>1, <2>4, GoesOn
<1> QED BY <1>6, <1>7

LEMMA LeaveHandlerStep == EhInv /\ LeaveHandler => EhInv'
<1> SUFFICES ASSUME EhInv, LeaveHandler PROVE EhInv'
  OBVIOUS
<1>1. /\ fly = NULL /\ dead = "no" /\ frames # <<>> /\ Top.kind = "catch"
      /\ frames' = Below /\ rt' = EndCatch(rt) /\ clean' = clean
      /\ IF EndCatchBug(rt) THEN Terminate("bug") ELSE UNCHANGED <<fly, dead>>
  BY DEF LeaveHandler, Running
<1>2. Aimed(Below, fly, rt)
  BY <1>1 DEF Aimed
<1> QED BY <1>1, <1>2, HandlerLeft

LEMMA ResumeStep == EhInv /\ Resume => EhInv'
<1> SUFFICES ASSUME EhInv, Resume PROVE EhInv'
  OBVIOUS
<1>1. /\ fly = NULL /\ dead = "no" /\ fly' = Top.exc /\ dead' = dead /\ rt' = rt
      /\ clean' = clean /\ frames # <<>> /\ Top.kind = "cleanup" /\ frames' = Below
  BY DEF Resume, Running
<1>2. /\ frames \in Seq(Frame) /\ AllNamed(frames) /\ rt \in RT /\ clean \in BOOLEAN
      /\ Covered(frames, NULL, rt)
      /\ Tame => Good(frames, NULL, rt)
  BY <1>1, Known
<1>3. /\ Below \in Seq(Frame) /\ AllNamed(Below) /\ Named(Top)
      /\ Top \in Frame /\ frames = Append(Below, Top)
  BY <1>1, <1>2, BelowFacts
<1>4. Top.exc \in Exc
  BY <1>1, <1>3 DEF Named
<1>5. /\ Good(frames, NULL, rt) <=> Good(Below, Top.exc, rt) /\ Aimed(Below, Top.exc, rt)
      /\ Covered(frames, NULL, rt) <=> Covered(Below, Top.exc, rt)
  BY <1>1, <1>3, <1>4, Parked
<1>6. Tame' => Good(frames', fly', rt') /\ Aimed(frames', fly', rt')
  BY <1>1, <1>2, <1>5 DEF Tame
<1>7. /\ frames' \in Seq(Frame) /\ AllNamed(frames') /\ rt' \in RT /\ clean' \in BOOLEAN
      /\ fly' \in Exc \cup {NULL} /\ Covered(frames', fly', rt') /\ dead' = "no"
  BY <1>1, <1>2, <1>3, <1>4, <1>5
<1> QED BY <1>6, <1>7, GoesOn

LEMMA AllocateStep == EhInv /\ Allocate => EhInv'
<1> SUFFICES ASSUME EhInv, Allocate PROVE EhInv'
  OBVIOUS
<1>1. fly = NULL /\ dead = "no"
  BY DEF Allocate, Running
<1>2. /\ frames \in Seq(Frame) /\ AllNamed(frames) /\ rt \in RT /\ clean \in BOOLEAN
      /\ Covered(frames, NULL, rt)
      /\ Tame => Good(frames, NULL, rt)
  BY <1>1, Known
<1>3. ASSUME NEW x \in Primary, NEW old \in {rt.hdr[x].count, 0},
             rt.hdr[x].state = "free",
             rt' = [rt EXCEPT !.hdr[x].state = "raw", !.hdr[x].count = old],
             frames' = Append(frames, Region("construct", x)),
             clean' = (clean /\ old = 0), UNCHANGED <<fly, dead>>
      PROVE  EhInv'
  <2> DEFINE f == Region("construct", x)
  <2>1. f \in Frame /\ f.kind = "construct" /\ f.exc = x /\ Named(f)
    BY DEF Region, Frame, Kinds, Exc, Named
  <2> HIDE DEF f
  <2>2. x \in Exc /\ old \in Int
    <3>1. x \in Exc
      BY DEF Exc
    <3> QED BY <1>2, <3>1 DEF RT, Header
  <2>3. rt' = Reserve(rt, x, old)
    BY <1>3 DEF Reserve
  <2>4. rt' \in RT /\ rt'.uncaught = rt.uncaught
    BY <1>2, <2>2, <2>3, ReserveFacts
  <2>5. frames' = Append(frames, f) /\ frames' \in Seq(Frame) /\ AllNamed(frames')
    BY <1>2, <1>3, <2>1, WaitingPushed DEF f
  <2>6. Cardinality(WaitsIn(Append(frames, f))) = Cardinality(WaitsIn(frames))
    BY <1>2, <2>1, ConstructPushed
  <2>7. Covered(frames', NULL, rt')
    BY <1>2, <2>4, <2>5, <2>6 DEF Covered
  <2>8. Tame' => Good(frames', NULL, rt')
    <3> SUFFICES ASSUME Tame' PROVE Good(frames', NULL, rt')
      OBVIOUS
    <3>1. Tame /\ old = 0
      BY <1>2, <1>3 DEF Tame
    <3>2. Good(frames, NULL, rt) /\ rt' = Reserve(rt, f.exc, 0)
      BY <1>2, <2>1, <2>3, <3>1
    <3>3. f.exc \in Primary /\ rt.hdr[f.exc].state = "free"
      BY <1>3, <2>1
    <3>4. Good(Append(frames, f), NULL, rt')
      BY <1>2, <2>1, <3>2, <3>3, Reserved
    <3> QED BY <2>5, <3>4
  <2>9. fly' = NULL /\ dead' = "no" /\ clean' \in BOOLEAN /\ Aimed(frames', fly', rt')
    BY <1>1, <1>2, <1>3 DEF Aimed
  <2> QED BY <2>4, <2>5, <2>7, <2>8, <2>9, GoesOn
<1>4. ASSUME Terminate("no memory"), UNCHANGED <<frames, rt, clean>>
      PROVE  EhInv'
  <2>1. frames' \in Seq(Frame) /\ AllNamed(frames') /\ rt' \in RT /\ clean' \in BOOLEAN
    BY <1>2, <1>4
  <2> QED BY <1>4, <2>1, Stops DEF Reasons
<1> QED BY <1>3, <1>4 DEF Allocate

LEMMA ThrowStep == EhInv /\ Throw => EhInv'
<1> SUFFICES ASSUME EhInv, Throw PROVE EhInv'
  OBVIOUS
<1> DEFINE x == Top.exc
           r == [rt EXCEPT !.uncaught = @ + 1,
                           !.hdr = [rt.hdr EXCEPT ![x].state = "alive", ![x].ref = 1]]
<1>1. /\ fly = NULL /\ dead = "no" /\ clean' = clean /\ frames # <<>>
      /\ Top.kind = "construct" /\ Raise(x, Below, r)
  BY DEF Throw, Running
<1>2. /\ frames \in Seq(Frame) /\ AllNamed(frames) /\ rt \in RT /\ clean \in BOOLEAN
      /\ Covered(frames, NULL, rt)
      /\ Tame => Good(frames, NULL, rt)
  BY <1>1, Known
<1>3. /\ Below \in Seq(Frame) /\ AllNamed(Below) /\ Named(Top) /\ Covered(Below, NULL, rt)
      /\ Top \in Frame /\ frames = Append(Below, Top)
  BY <1>1, <1>2, BelowFacts
<1>4. x \in Primary /\ x \in Exc
  BY <1>1, <1>3 DEF Named, Exc
<1> DEFINE u == rt.uncaught + 1
<1>5. u \in Nat /\ r = ComeAlive(rt, x, u)
  BY <1>2 DEF RT, ComeAlive
<1> HIDE DEF r
<1>6. r \in RT /\ r.uncaught = rt.uncaught + 1
  BY <1>2, <1>4, <1>5, AliveFacts
<1>7. Covered(Below, x, r)
  <2>1. /\ rt.uncaught \in Nat /\ Cardinality(WaitsIn(Below)) \in Nat
        /\ ~IsGxx(NULL)
    BY <1>2, <1>3, WaitsPushed, EhAssumption DEF RT, IsGxx
  <2> QED BY <1>3, <1>6, <2>1 DEF Covered
<1>8. Tame => Good(Below, x, r)
  <2> SUFFICES ASSUME Tame PROVE Good(Below, x, r)
    OBVIOUS
  <2>1. Good(Append(Below, Top), NULL, rt)
    BY <1>2, <1>3
  <2> HIDE DEF u
  <2> QED BY <1>1, <1>2, <1>3, <1>4, <1>5, <2>1, Constructed
<1> HIDE DEF x
<1> QED BY <1>1, <1>2, <1>3, <1>4, <1>6, <1>7, <1>8, RaiseStep

LEMMA RaiseForeignStep == EhInv /\ RaiseForeign => EhInv'
<1> SUFFICES ASSUME EhInv, RaiseForeign PROVE EhInv'
  OBVIOUS
<1>1. fly = NULL /\ dead = "no" /\ clean' = clean
  BY DEF RaiseForeign, Running
<1>2. PICK x \in Foreign :
        /\ rt.hdr[x].state = "free"
        /\ Raise(x, frames, [rt EXCEPT !.hdr[x].state = "alive", !.hdr[x].ref = 1])
  BY DEF RaiseForeign
<1>3. /\ frames \in Seq(Frame) /\ AllNamed(frames) /\ rt \in RT /\ clean \in BOOLEAN
      /\ Covered(frames, NULL, rt)
      /\ Tame => Good(frames, NULL, rt)
  BY <1>1, Known
<1> DEFINE r == [rt EXCEPT !.hdr[x].state = "alive", !.hdr[x].ref = 1]
           u == rt.uncaught
<1>4. x \in Exc /\ x \notin Primary
  BY EhAssumption DEF Exc
<1>5. u \in Nat /\ r = ComeAlive(rt, x, u)
  <2>1. rt \in [caught : Exc \cup {NULL}, uncaught : Nat, hdr : [Exc -> Header]]
    BY <1>3 DEF RT
  <2>2. u \in Nat
    BY <2>1
  <2>3. r = ComeAlive(rt, x, u)
    BY <2>1 DEF ComeAlive
  <2> QED BY <2>2, <2>3
<1>6. Raise(x, frames, r)
  BY <1>2
<1> HIDE DEF r
<1>7. r \in RT /\ r.uncaught = rt.uncaught
  BY <1>3, <1>4, <1>5, AliveFacts
<1>8. Covered(frames, x, r)
  <2>1. ~IsGxx(NULL) /\ ~IsGxx(x)
    BY <1>4, EhAssumption DEF IsGxx
  <2> QED BY <1>3, <1>7, <2>1 DEF Covered
<1>9. Tame => Good(frames, x, r)
  <2> HIDE DEF u
  <2> QED BY <1>2, <1>3, <1>5, ForeignRaised
<1> QED BY <1>1, <1>3, <1>4, <1>6, <1>7, <1>8, <1>9, RaiseStep

LEMMA RethrowStep == EhInv /\ Rethrow => EhInv'
<1> SUFFICES ASSUME EhInv, Rethrow PROVE EhInv'
  OBVIOUS
<1>1. /\ fly = NULL /\ dead = "no" /\ clean' = clean
      /\ InFlight(rt.caught) => NestedRethrow
      /\ IF rt.caught = NULL
           THEN rt' = OneMore(rt) /\ Terminate("nothing to rethrow") /\ UNCHANGED frames
           ELSE Raise(rt.caught, frames, MarkRethrown(OneMore(rt)))
  BY DEF Rethrow, Running, OneMore
<1>2. /\ frames \in Seq(Frame) /\ AllNamed(frames) /\ rt \in RT /\ clean \in BOOLEAN
      /\ Covered(frames, NULL, rt)
      /\ Tame => Good(frames, NULL, rt)
  BY <1>1, Known
<1>3. CASE rt.caught = NULL
  <2>1. rt' \in RT
    <3>1. rt' = [rt EXCEPT !.uncaught = @ + 1]
      BY <1>1, <1>3 DEF OneMore
    <3> QED BY <1>2, <3>1 DEF RT
  <2>2. Terminate("nothing to rethrow") /\ frames' = frames
    BY <1>1, <1>3
  <2>3. frames' \in Seq(Frame) /\ AllNamed(frames') /\ clean' \in BOOLEAN
    BY <1>1, <1>2, <2>2
  <2> QED BY <2>1, <2>2, <2>3, Stops DEF Reasons
<1>4. CASE rt.caught # NULL
  <2> DEFINE x == rt.caught
             r == MarkRethrown(OneMore(rt))
  <2>1. x \in Exc
    BY <1>2, <1>4 DEF RT
  <2>2. Raise(x, frames, r)
    BY <1>1, <1>4
  <2> HIDE DEF r
  <2>3. r \in RT /\ r.uncaught = rt.uncaught + 1
    BY <1>2, <2>1, MarkFacts DEF r
  <2>4. Covered(frames, x, r)
    <3>1. rt.uncaught \in Nat /\ ~IsGxx(NULL)
      BY <1>2, EhAssumption DEF RT, IsGxx
    <3>2. Cardinality(WaitsIn(frames)) \in Nat
      <4>1. Region("try", NULL) \in Frame
        BY DEF Region, Frame, Kinds
      <4> QED BY <1>2, <4>1, WaitsPushed
    <3> QED BY <1>2, <2>3, <3>1, <3>2 DEF Covered
  <2>5. Tame => Good(frames, x, r)
    <3> SUFFICES ASSUME Tame PROVE Good(frames, x, r)
      OBVIOUS
    <3>1. ~InFlight(x)
      BY <1>1 DEF Tame
    <3>2. ~Flies(frames, NULL, x)
      <4>1. \A i \in DOMAIN frames : Waits(frames[i], x) => frames[i] = Region("cleanup", x)
        <5> TAKE i \in DOMAIN frames
        <5>1. frames[i] \in Frame
          BY <1>2, ElementOfSeq, LenProperties
        <5>2. frames[i] = [kind |-> frames[i].kind, exc |-> frames[i].exc]
          BY <5>1 DEF Frame
        <5> QED BY <5>2 DEF Waits, Region
      <4>2. DOMAIN frames = 1 .. Len(frames)
        BY <1>2, LenProperties
      <4> QED BY <1>4, <3>1, <4>1, <4>2 DEF InFlight, Flies, Waiting
    <3> QED BY <1>2, <2>1, <3>2, Rethrown DEF r
  <2> HIDE DEF x
  <2> QED BY <1>1, <1>2, <2>1, <2>2, <2>3, <2>4, <2>5, RaiseStep
<1> QED BY <1>3, <1>4

LEMMA UnexpectedFailsStep == EhInv /\ UnexpectedFails => EhInv'
<1> SUFFICES ASSUME EhInv, UnexpectedFails PROVE EhInv'
  OBVIOUS
<1>1. /\ dead = "no" /\ Terminate("unexpected")
      /\ frames' = frames /\ rt' = rt /\ clean' = clean
  BY DEF UnexpectedFails, Running
<1>2. frames \in Seq(Frame) /\ AllNamed(frames) /\ rt \in RT /\ clean \in BOOLEAN
  BY <1>1, Known
<1>3. frames' \in Seq(Frame) /\ AllNamed(frames') /\ rt' \in RT /\ clean' \in BOOLEAN
  BY <1>1, <1>2
<1> QED BY <1>1, <1>3, Stops DEF Reasons

-----------------------------------------------------------------------------
(* The steps of the unwinder.                                                *)

LEMMA UnwindPastStep == EhInv /\ UnwindPast => EhInv'
<1> SUFFICES ASSUME EhInv, UnwindPast PROVE EhInv'
  OBVIOUS
<1>1. fly # NULL /\ dead = "no" /\ ~AtTarget /\ clean' = clean
  BY DEF UnwindPast, Unwinding
<1>2. /\ frames \in Seq(Frame) /\ AllNamed(frames) /\ rt \in RT /\ clean \in BOOLEAN
      /\ fly \in Exc /\ Covered(frames, fly, rt)
      /\ Tame => Good(frames, fly, rt) /\ Aimed(frames, fly, rt)
  BY <1>1, Known
<1>3. /\ Below \in Seq(Frame) /\ AllNamed(Below) /\ Covered(Below, fly, rt)
      /\ frames # <<>> => Named(Top) /\ Top \in Frame /\ frames = Append(Below, Top)
  BY <1>2, BelowFacts
<1>4. Tame => frames # <<>> /\ Aimed(Below, fly, rt)
  <2> SUFFICES ASSUME Tame PROVE frames # <<>> /\ Aimed(Below, fly, rt)
    OBVIOUS
  <2>1. rt.hdr[fly].target \in 1 .. Len(frames) /\ rt.hdr[fly].target # Len(frames)
    BY <1>1, <1>2 DEF Aimed, AtTarget
  <2>2. frames # <<>>
    BY <2>1
  <2>3. Len(Below) = Len(frames) - 1 /\ Len(frames) \in Nat
    BY <1>2, <2>2, TopFacts
  <2> QED BY <2>1, <2>2, <2>3 DEF Aimed
<1>5. Tame' => Tame
  BY <1>1 DEF Tame
<1>6. ASSUME Top.kind \in {"try", "spec"}, frames' = Below, UNCHANGED <<fly, dead, rt>>
      PROVE  EhInv'
  <2>1. Tame => Good(Below, fly, rt)
    <3> SUFFICES ASSUME Tame PROVE Good(Below, fly, rt)
      OBVIOUS
    <3>1. Good(Append(Below, Top), fly, rt) /\ Top \in Frame
      BY <1>2, <1>3, <1>4
    <3> QED BY <1>3, <1>6, <3>1, PlainRegion
  <2>2. /\ frames' \in Seq(Frame) /\ AllNamed(frames') /\ rt' \in RT /\ clean' \in BOOLEAN
        /\ fly' \in Exc \cup {NULL} /\ Covered(frames', fly', rt') /\ dead' = "no"
        /\ Tame' => Good(frames', fly', rt') /\ Aimed(frames', fly', rt')
    BY <1>1, <1>2, <1>3, <1>4, <1>5, <1>6, <2>1
  <2> QED BY <2>2, GoesOn
<1>7. ASSUME Top.kind \in {"catch", "ucatch"}, frames' = Below, rt' = EndCatch(rt),
             IF EndCatchBug(rt) THEN Terminate("bug") ELSE UNCHANGED <<fly, dead>>
      PROVE  EhInv'
  BY <1>1, <1>4, <1>7, HandlerLeft
<1>8. ASSUME Top.kind = "construct", frames' = Below,
             rt' = [rt EXCEPT !.hdr[Top.exc].state = "free"], UNCHANGED <<fly, dead>>
      PROVE  EhInv'
  <2> DEFINE x == Top.exc
  <2>1. rt' = GiveBack(rt, x)
    BY <1>8 DEF GiveBack
  <2> rt \in RT
    BY <1>2
  <2> HIDE DEF x
  <2>2. CASE x \in Exc
    <3>1. /\ rt' \in RT /\ rt'.uncaught = rt.uncaught
          /\ rt'.hdr[x].target = rt.hdr[x].target
          /\ \A z \in Exc : z # x => rt'.hdr[z] = rt.hdr[z]
      BY <2>1, <2>2, FreeFacts
    <3>2. Covered(Below, fly, rt')
      BY <1>3, <3>1 DEF Covered
    <3>3. Tame => Aimed(Below, fly, rt')
      BY <1>2, <1>4, <3>1 DEF Aimed
    <3>4. Tame => Good(Below, fly, rt')
      <4> SUFFICES ASSUME Tame PROVE Good(Below, fly, rt')
        OBVIOUS
      <4>1. Good(Append(Below, Top), fly, rt) /\ Top \in Frame /\ x \in Primary
        BY <1>2, <1>3, <1>4, <1>8 DEF Named, x
      <4> QED BY <1>2, <1>3, <1>8, <2>1, <4>1, Abandoned DEF x
    <3>5. /\ frames' \in Seq(Frame) /\ AllNamed(frames') /\ rt' \in RT /\ clean' \in BOOLEAN
          /\ fly' \in Exc \cup {NULL} /\ Covered(frames', fly', rt') /\ dead' = "no"
          /\ Tame' => Good(frames', fly', rt') /\ Aimed(frames', fly', rt')
      BY <1>1, <1>2, <1>3, <1>5, <1>8, <3>1, <3>2, <3>3, <3>4
    <3> QED BY <3>5, GoesOn
  <2>3. CASE x \notin Exc
    <3>1. ~Tame
      BY <1>3, <1>4, <1>8, <2>3 DEF Named, Exc, x
    <3>2. rt' = rt
      BY <1>8, <2>3 DEF RT, x
    <3>3. /\ frames' \in Seq(Frame) /\ AllNamed(frames') /\ rt' \in RT /\ clean' \in BOOLEAN
          /\ fly' \in Exc \cup {NULL} /\ Covered(frames', fly', rt') /\ dead' = "no"
          /\ ~Tame'
      BY <1>1, <1>2, <1>3, <1>5, <1>8, <3>1, <3>2
    <3> QED BY <3>3, GoesOn
  <2> QED BY <2>2, <2>3
<1>9. ASSUME Top.kind = "obj", frames' = Append(Below, Region("cleanup", fly)),
             fly' = NULL, UNCHANGED <<dead, rt>>
      PROVE  EhInv'
  <2> DEFINE f == Region("cleanup", fly)
  <2>1. f \in Frame /\ f.kind = "cleanup" /\ f.exc = fly
    BY <1>2 DEF Region, Frame, Kinds
  <2>2. frames' = Append(Below, f)
    BY <1>9
  <2> HIDE DEF f
  <2>3. /\ Good(Append(Below, f), NULL, rt) <=> Good(Below, fly, rt) /\ Aimed(Below, fly, rt)
        /\ Covered(Append(Below, f), NULL, rt) <=> Covered(Below, fly, rt)
        /\ AllNamed(Append(Below, f)) <=> AllNamed(Below)
    BY <1>2, <1>3, <2>1, Parked
  <2>4. Tame => Good(Below, fly, rt)
    <3> SUFFICES ASSUME Tame PROVE Good(Below, fly, rt)
      OBVIOUS
    <3>1. Good(Append(Below, Top), fly, rt) /\ Top \in Frame
      BY <1>2, <1>3, <1>4
    <3> QED BY <1>3, <1>9, <3>1, PlainRegion
  <2>5. Tame' => Good(frames', fly', rt') /\ Aimed(frames', fly', rt')
    BY <1>4, <1>5, <1>9, <2>2, <2>3, <2>4 DEF Aimed
  <2>6. Append(Below, f) \in Seq(Frame)
    BY <1>3, <2>1
  <2>7. /\ frames' \in Seq(Frame) /\ AllNamed(frames') /\ rt' \in RT /\ clean' \in BOOLEAN
        /\ fly' \in Exc \cup {NULL} /\ Covered(frames', fly', rt') /\ dead' = "no"
    BY <1>1, <1>2, <1>3, <1>9, <2>2, <2>3, <2>6
  <2> QED BY <2>5, <2>7, GoesOn
<1> QED BY <1>6, <1>7, <1>8, <1>9 DEF UnwindPast

\* The exception reaches the frame that takes it.
LEMMA ArrivedFacts ==
  ASSUME EhInv, Unwinding, AtTarget
  PROVE  /\ Below \in Seq(Frame) /\ AllNamed(Below) /\ fly \in Exc /\ Arrived \in RT
         /\ frames \in Seq(Frame) /\ AllNamed(frames) /\ rt \in RT /\ clean \in BOOLEAN
         /\ Covered(frames, fly, rt) /\ Covered(Below, fly, Arrived)
         /\ Arrived.caught = rt.caught
         /\ Tame /\ Top.kind \in {"try", "utry", "spec"} => Good(Below, fly, Arrived)
<1>1. dead = "no" /\ fly # NULL
  BY DEF Unwinding
<1>2. /\ frames \in Seq(Frame) /\ AllNamed(frames) /\ rt \in RT /\ clean \in BOOLEAN
      /\ fly \in Exc /\ Covered(frames, fly, rt)
      /\ Tame => Good(frames, fly, rt) /\ Aimed(frames, fly, rt)
  BY <1>1, Known
<1>3. /\ Below \in Seq(Frame) /\ AllNamed(Below) /\ Covered(Below, fly, rt)
      /\ frames # <<>> => Named(Top) /\ Top \in Frame /\ frames = Append(Below, Top)
  BY <1>2, BelowFacts
<1>4. Arrived = Retarget(rt, fly, 0)
  BY DEF Arrived, Retarget
<1>5. Arrived \in RT /\ Arrived.caught = rt.caught /\ Arrived.uncaught = rt.uncaught
  BY <1>2, <1>4, TargetFacts
<1>6. Covered(Below, fly, Arrived)
  BY <1>3, <1>5 DEF Covered
<1>7. ASSUME Tame, Top.kind \in {"try", "utry", "spec"} PROVE Good(Below, fly, Arrived)
  <2>1. frames # <<>>
    <3>1. rt.hdr[fly].target \in 1 .. Len(frames)
      BY <1>1, <1>2, <1>7 DEF Aimed
    <3> QED BY <3>1
  <2>2. Good(Append(Below, Top), fly, rt) /\ Top \in Frame
    BY <1>2, <1>3, <1>7, <2>1
  <2>3. Good(Below, fly, rt)
    BY <1>3, <1>7, <2>2, PlainRegion
  <2>4. 0 \in Nat
    OBVIOUS
  <2> QED BY <1>2, <1>3, <1>4, <2>3, <2>4, Retargeted
<1> QED BY <1>2, <1>3, <1>5, <1>6, <1>7

LEMMA LandInHandlerStep == EhInv /\ LandInHandler => EhInv'
<1> SUFFICES ASSUME EhInv, LandInHandler PROVE EhInv'
  OBVIOUS
<1>1. Unwinding /\ AtTarget /\ Top.kind \in {"try", "utry"} /\ clean' = clean
  BY DEF LandInHandler
<1>2. /\ Below \in Seq(Frame) /\ AllNamed(Below) /\ fly \in Exc /\ Arrived \in RT
      /\ frames \in Seq(Frame) /\ AllNamed(frames) /\ rt \in RT /\ clean \in BOOLEAN
      /\ Covered(Below, fly, Arrived) /\ Arrived.caught = rt.caught
      /\ Tame => Good(Below, fly, Arrived)
  BY <1>1, ArrivedFacts
<1>3. CASE CannotStack(rt, fly)
  <2>1. Terminate("stacked foreign") /\ frames' = frames /\ rt' = rt
    BY <1>3 DEF LandInHandler
  <2>2. frames' \in Seq(Frame) /\ AllNamed(frames') /\ rt' \in RT /\ clean' \in BOOLEAN
    BY <1>1, <1>2, <2>1
  <2> QED BY <2>1, <2>2, Stops DEF Reasons
<1>4. CASE ~CannotStack(rt, fly)
  <2> DEFINE f == Region(IF Top.kind = "try" THEN "catch" ELSE "ucatch", fly)
  <2>1. /\ rt' = BeginCatch(Arrived, fly) /\ frames' = Append(Below, f)
        /\ fly' = NULL /\ dead' = dead
    BY <1>4 DEF LandInHandler
  <2>2. f \in Frame /\ f.kind \in {"catch", "ucatch"} /\ f.exc = fly
    BY <1>2 DEF Region, Frame, Kinds
  <2> HIDE DEF f
  <2>3. /\ rt' \in RT /\ frames' \in Seq(Frame) /\ AllNamed(frames')
        /\ Covered(frames', NULL, rt')
    BY <1>2, <2>1, <2>2, BegunFacts
  <2>4. Tame => Good(frames', NULL, rt')
    <3> SUFFICES ASSUME Tame PROVE Good(frames', NULL, rt')
      OBVIOUS
    <3>1. ~CannotStack(Arrived, fly)
      BY <1>2, <1>4 DEF CannotStack
    <3> QED BY <1>2, <2>1, <2>2, <3>1, HandlerBegins
  <2>5. Tame' => Tame
    BY <1>1 DEF Tame
  <2>6. fly' = NULL /\ dead' = "no" /\ clean' \in BOOLEAN /\ Aimed(frames', fly', rt')
    BY <1>1, <1>2, <2>1 DEF Aimed, Unwinding
  <2> QED BY <2>3, <2>4, <2>5, <2>6, GoesOn
<1> QED BY <1>3, <1>4

LEMMA LandInSpecStep == EhInv /\ LandInSpec => EhInv'
<1> SUFFICES ASSUME EhInv, LandInSpec PROVE EhInv'
  OBVIOUS
<1>1. Unwinding /\ AtTarget /\ Top.kind = "spec" /\ clean' = clean
  BY DEF LandInSpec
<1>2. /\ Below \in Seq(Frame) /\ AllNamed(Below) /\ fly \in Exc /\ Arrived \in RT
      /\ frames \in Seq(Frame) /\ AllNamed(frames) /\ rt \in RT /\ clean \in BOOLEAN
      /\ Covered(Below, fly, Arrived) /\ Arrived.caught = rt.caught
      /\ Tame => Good(Below, fly, Arrived)
  BY <1>1, ArrivedFacts
<1>3. CASE ~IsGxx(fly)
  <2>1. Terminate("unexpected") /\ frames' = frames /\ rt' = rt
    BY <1>3 DEF LandInSpec
  <2>2. frames' \in Seq(Frame) /\ AllNamed(frames') /\ rt' \in RT /\ clean' \in BOOLEAN
    BY <1>1, <1>2, <2>1
  <2> QED BY <2>1, <2>2, Stops DEF Reasons
<1>4. CASE IsGxx(fly)
  <2> DEFINE f == Region("catch", fly)
             g == Region("utry", NULL)
             b == Append(Below, f)
  <2>1. /\ rt' = BeginCatch(Arrived, fly) /\ frames' = Below \o <<f, g>>
        /\ fly' = NULL /\ dead' = dead
    BY <1>4 DEF LandInSpec
  <2>2. /\ f \in Frame /\ f.kind \in {"catch", "ucatch"} /\ f.exc = fly
        /\ g \in Frame /\ g.kind \in {"try", "obj", "spec", "utry"}
    BY <1>2 DEF Region, Frame, Kinds
  <2> HIDE DEF f, g
  <2>3. Below \o <<f, g>> = Append(b, g)
    BY <1>2, <2>2
  <2>4. /\ rt' \in RT /\ b \in Seq(Frame) /\ AllNamed(b) /\ Covered(b, NULL, rt')
    BY <1>2, <2>1, <2>2, BegunFacts
  <2>5. Tame => Good(b, NULL, rt')
    <3> SUFFICES ASSUME Tame PROVE Good(b, NULL, rt')
      OBVIOUS
    <3>1. ~CannotStack(Arrived, fly)
      BY <1>4 DEF CannotStack
    <3> QED BY <1>2, <2>1, <2>2, <3>1, HandlerBegins
  <2> HIDE DEF b
  <2>6. /\ Good(Append(b, g), NULL, rt') <=> Good(b, NULL, rt')
        /\ Covered(Append(b, g), NULL, rt') <=> Covered(b, NULL, rt')
        /\ AllNamed(Append(b, g)) <=> AllNamed(b)
    BY <2>2, <2>4, PlainRegion
  <2>7. Append(b, g) \in Seq(Frame)
    BY <2>2, <2>4
  <2>8. Tame' => Tame
    BY <1>1 DEF Tame
  <2>9. fly' = NULL /\ dead' = "no" /\ clean' \in BOOLEAN /\ Aimed(frames', fly', rt')
    BY <1>1, <1>2, <2>1 DEF Aimed, Unwinding
  <2>10. /\ frames' \in Seq(Frame) /\ AllNamed(frames') /\ Covered(frames', fly', rt')
         /\ Tame' => Good(frames', fly', rt') /\ Aimed(frames', fly', rt')
    BY <2>1, <2>3, <2>4, <2>5, <2>6, <2>7, <2>8, <2>9
  <2> QED BY <2>4, <2>9, <2>10, GoesOn
<1> QED BY <1>3, <1>4

LEMMA LandInDestructorStep == EhInv /\ LandInDestructor => EhInv'
<1> SUFFICES ASSUME EhInv, LandInDestructor PROVE EhInv'
  OBVIOUS
<1>1. /\ Unwinding /\ AtTarget /\ clean' = clean /\ frames' = frames
      /\ rt' = (IF IsGxx(fly) THEN BeginCatch(rt, fly) ELSE rt)
      /\ Terminate("thrown by destructor")
  BY DEF LandInDestructor
<1>2. /\ fly \in Exc /\ frames \in Seq(Frame) /\ AllNamed(frames) /\ rt \in RT
      /\ clean \in BOOLEAN /\ Covered(frames, fly, rt)
  BY <1>1, ArrivedFacts
<1>3. rt' \in RT
  <2>1. CASE IsGxx(fly)
    <3>1. Cardinality(WaitsIn(frames)) \in Nat /\ rt.uncaught \in Nat
      <4>1. Region("try", NULL) \in Frame
        BY DEF Region, Frame, Kinds
      <4> QED BY <1>2, <4>1, WaitsPushed DEF RT
    <3>2. rt.uncaught >= 1
      BY <1>2, <2>1, <3>1 DEF Covered
    <3> QED BY <1>1, <1>2, <2>1, <3>2, BeginCatchFacts
  <2>2. CASE ~IsGxx(fly)
    BY <1>1, <1>2, <2>2
  <2> QED BY <2>1, <2>2
<1>4. frames' \in Seq(Frame) /\ AllNamed(frames') /\ clean' \in BOOLEAN
  BY <1>1, <1>2
<1> QED BY <1>1, <1>3, <1>4, Stops DEF Reasons

-----------------------------------------------------------------------------
(* The invariant, and what it says about the counts, the chain and the lives.*)

LEMMA InitEh == Init => EhInv
<1> SUFFICES ASSUME Init PROVE EhInv
  OBVIOUS
<1> DEFINE e == [state |-> "free", count |-> 0, next |-> NULL, ref |-> 0, target |-> 0]
<1>1. /\ frames = <<>> /\ fly = NULL /\ dead = "no" /\ clean = TRUE
      /\ rt = [caught |-> NULL, uncaught |-> 0, hdr |-> [x \in Exc |-> e]]
  BY DEF Init
<1>2. e \in Header
  BY DEF Header
<1>3. rt \in RT /\ rt.caught = NULL /\ rt.uncaught = 0 /\ \A x \in Exc : rt.hdr[x] = e
  <2> HIDE DEF e
  <2> QED BY <1>1, <1>2 DEF RT
<1>4. frames \in Seq(Frame) /\ DOMAIN frames = {}
  BY <1>1
<1>5. /\ \A x : ~Handled(frames, x) /\ ~Waiting(frames, x) /\ ~Built(frames, x)
      /\ AllNamed(frames) /\ Innermost(frames) = NULL /\ Stacked(frames, rt.hdr)
      /\ WaitsIn(frames) = {}
  BY <1>4 DEF Handled, HandlersIn, Waiting, Built, AllNamed, Innermost, GxxIn, Stacked,
              WaitsIn
<1>6. ~IsGxx(NULL) /\ NULL \notin Exc /\ Exc = Primary \cup Foreign
  BY EhAssumption DEF IsGxx, Exc
<1>7. Covered(frames, fly, rt)
  <2>1. Cardinality(WaitsIn(frames)) = 0
    BY <1>5, FS_EmptySet
  <2>2. ~IsGxx(fly) /\ rt.uncaught = 0
    BY <1>1, <1>3, <1>6
  <2> QED BY <2>1, <2>2 DEF Covered
<1>8. Good(frames, fly, rt) /\ Aimed(frames, fly, rt)
  <2>1. Flying(frames, fly) /\ Aimed(frames, fly, rt)
    BY <1>1 DEF Flying, Aimed
  <2>2. HeadsChain(frames, rt)
    BY <1>3, <1>5, <1>6 DEF HeadsChain
  <2>3. \A x \in Exc : rt.hdr[x].state = "free" /\ ~Flies(frames, fly, x)
    BY <1>1, <1>3, <1>5, <1>6 DEF Flies
  <2>4. \A x \in Primary : Lives(frames, fly, rt, x)
    BY <1>5, <1>6, <2>3 DEF Lives
  <2>5. \A x \in Foreign : ForeignLives(frames, fly, rt, x)
    BY <1>3, <1>5, <1>6, <2>3 DEF ForeignLives, LinkedTo
  <2> QED BY <1>5, <2>1, <2>2, <2>4, <2>5 DEF Good
<1> QED BY <1>1, <1>3, <1>4, <1>5, <1>7, <1>8 DEF EhInv, Typed, TypeOK, RT

LEMMA NextEh == EhInv /\ [Next]_vars => EhInv'
<1>1. ASSUME EhInv, UNCHANGED vars PROVE EhInv'
  BY <1>1 DEF vars, EhInv, Typed, TypeOK, Tame
<1>2. ASSUME EhInv, Unwind PROVE EhInv'
  BY <1>2, LandInHandlerStep, LandInSpecStep, LandInDestructorStep, UnwindPastStep DEF Unwind
<1>3. ASSUME EhInv, Program PROVE EhInv'
  BY <1>3, EnterStep, LeaveStep, LeaveHandlerStep, ResumeStep, AllocateStep, ThrowStep,
     RaiseForeignStep, RethrowStep, UnexpectedFailsStep DEF Program
<1> QED BY <1>1, <1>2, <1>3 DEF Next

\* The invariant holds of whatever the program throws, catches and rethrows.
THEOREM EhRuntimeInvariant == Spec => []EhInv
BY InitEh, NextEh, PTL DEF Spec

\* Every field keeps its type; the count of uncaught exceptions never wraps
\* below zero (eh_catch.cc:71).
THEOREM TypeCorrect == Spec => []TypeOK
<1>1. EhInv => TypeOK
  BY DEF EhInv, Typed
<1> QED BY <1>1, EhRuntimeInvariant, PTL

\* The sets of the module's own properties are those of the invariant.
LEMMA SameSets ==
  ASSUME frames \in Seq(Frame)
  PROVE  /\ \A x : HandlersOf(x) = HandlersIn(frames, x) /\ (InFlight(x) <=> Flies(frames, fly, x))
         /\ {i \in HandlerFrames : IsGxx(frames[i].exc)} = GxxIn(frames)
<1>1. DOMAIN frames = 1 .. Len(frames)
  BY LenProperties
<1>2. \A i \in DOMAIN frames : \A x :
        Waits(frames[i], x) <=> frames[i] = Region("cleanup", x)
  <2> TAKE i \in DOMAIN frames
  <2>1. frames[i] \in Frame
    BY ElementOfSeq, LenProperties
  <2>2. frames[i] = [kind |-> frames[i].kind, exc |-> frames[i].exc]
    BY <2>1 DEF Frame
  <2> QED BY <2>2 DEF Waits, Region
<1>3. \A x : InFlight(x) <=> Flies(frames, fly, x)
  BY <1>1, <1>2 DEF InFlight, Flies, Waiting
<1>4. \A x : HandlersOf(x) = HandlersIn(frames, x)
  BY <1>1 DEF HandlersOf, HandlerFrames, HandlersIn, Catches
<1>5. {i \in HandlerFrames : IsGxx(frames[i].exc)} = GxxIn(frames)
  BY <1>1 DEF HandlerFrames, GxxIn, Catches
<1> QED BY <1>3, <1>4, <1>5

LEMMA CountFollows == EhInv /\ ~NestedRethrow => CountCorrect
<1> SUFFICES ASSUME EhInv, ~NestedRethrow, clean, dead = "no" PROVE CountIsHandlers
  BY DEF CountCorrect, EhInv, Typed
<1>1. frames \in Seq(Frame) /\ Good(frames, fly, rt)
  BY Known DEF Tame
<1>2. \A x \in Primary : Lives(frames, fly, rt, x)
  BY <1>1 DEF Good
<1> QED BY <1>1, <1>2, SameSets DEF CountIsHandlers, Lives

LEMMA LifetimeFollows == EhInv /\ ~NestedRethrow => LifetimeCorrect
<1> SUFFICES ASSUME EhInv, ~NestedRethrow, clean, dead = "no" PROVE LivesWhileNeeded
  BY DEF LifetimeCorrect
<1>1. frames \in Seq(Frame) /\ Good(frames, fly, rt)
  BY Known DEF Tame
<1>2. \A x \in Primary : Lives(frames, fly, rt, x)
  BY <1>1 DEF Good
<1> QED BY <1>1, <1>2, SameSets DEF LivesWhileNeeded, Lives, Handled

LEMMA ChainFollows == EhInv /\ ~NestedRethrow => ChainCorrect
<1> SUFFICES ASSUME EhInv, ~NestedRethrow, clean, dead = "no" PROVE ChainIsHandlers
  BY DEF ChainCorrect
<1> DEFINE H == GxxIn(frames)
<1>1. frames \in Seq(Frame) /\ Good(frames, fly, rt) /\ Len(frames) \in Nat
      /\ DOMAIN frames = 1 .. Len(frames)
  BY Known, LenProperties DEF Tame
<1>2. H \in SUBSET (1 .. Len(frames)) /\ {i \in HandlerFrames : IsGxx(frames[i].exc)} = H
  BY <1>1, SameSets DEF GxxIn
<1>3. IF H = {} THEN ~IsGxx(rt.caught) ELSE rt.caught = frames[Last(H)].exc
  <2>1. HeadsChain(frames, rt)
    BY <1>1 DEF Good
  <2>2. CASE H = {}
    BY <2>1, <2>2 DEF HeadsChain, Innermost
  <2>3. CASE H # {}
    <3>1. Last(H) \in H
      BY <1>1, <1>2, <2>3, LastIn
    <3>2. frames[Last(H)].exc # NULL
      BY <3>1, EhAssumption DEF GxxIn, IsGxx
    <3>3. Innermost(frames) = frames[Last(H)].exc
      BY <2>3 DEF Innermost
    <3> QED BY <2>1, <2>3, <3>2, <3>3 DEF HeadsChain
  <2> QED BY <2>2, <2>3
<1>4. ASSUME NEW i \in H
      PROVE  LET x == frames[i].exc
                 L == {j \in H : j < i}
             IN  IF L = {} THEN ~IsGxx(rt.hdr[x].next)
                 ELSE frames[Last(L)].exc \in {x, rt.hdr[x].next}
  <2> DEFINE x == frames[i].exc
             L == {j \in H : j < i}
             b == Upto(frames, i - 1)
  <2>1. i \in 1 .. Len(frames) /\ Catches(frames[i], x) /\ IsGxx(x)
    BY <1>1, <1>2 DEF GxxIn
  <2>2. i - 1 \in 0 .. Len(frames)
    BY <1>1, <2>1
  <2>3. b \in Seq(Frame) /\ DOMAIN b = 1 .. i - 1 /\ \A j \in 1 .. i - 1 : b[j] = frames[j]
    BY <1>1, <2>2, Prefix DEF Upto
  <2>4. Linked(b, frames[i], rt.hdr)
    BY <1>1, <2>1 DEF Good, Stacked, Fits
  <2> HIDE DEF b
  <2>5. LinkOf(b, x, rt.hdr)
    BY <2>1, <2>4 DEF Linked, Catches
  <2>6. GxxIn(b) = L
    <3>1. \A j : j \in 1 .. i - 1 <=> j \in 1 .. Len(frames) /\ j < i
      BY <1>1, <2>1
    <3> QED BY <1>1, <2>3, <3>1 DEF GxxIn
  <2>7. CASE L = {}
    BY <2>5, <2>6, <2>7 DEF Innermost, LinkOf
  <2>8. CASE L # {}
    <3>1. L \in SUBSET (1 .. Len(frames))
      BY <1>2
    <3>2. Last(L) \in L
      BY <1>1, <2>8, <3>1, LastIn
    <3>3. Last(L) \in 1 .. i - 1 /\ IsGxx(frames[Last(L)].exc)
      <4>1. GxxIn(b) \subseteq 1 .. i - 1
        BY <2>3 DEF GxxIn
      <4> QED BY <2>6, <3>2, <4>1 DEF GxxIn
    <3>4. Innermost(b) = frames[Last(L)].exc
      BY <2>3, <2>6, <2>8, <3>3 DEF Innermost
    <3>5. Innermost(b) # NULL
      BY <3>3, <3>4, EhAssumption DEF IsGxx
    <3> QED BY <2>5, <2>8, <3>4, <3>5 DEF LinkOf
  <2> QED BY <2>7, <2>8
<1> HIDE DEF H
<1> QED BY <1>2, <1>3, <1>4 DEF ChainIsHandlers

\* handlerCount is the number of handlers that caught the exception, negated
\* while it is rethrown (unwind-cxx.h:60-62).
THEOREM CountsHandlers ==
  ASSUME NestedRethrow = FALSE
  PROVE  Spec => []CountCorrect
<1>1. EhInv => CountCorrect
  BY CountFollows
<1> QED BY <1>1, EhRuntimeInvariant, PTL

\* caughtExceptions heads the handlers' exceptions, innermost first
\* (eh_catch.cc:60-80).
THEOREM ChainsHandlers ==
  ASSUME NestedRethrow = FALSE
  PROVE  Spec => []ChainCorrect
<1>1. EhInv => ChainCorrect
  BY ChainFollows
<1> QED BY <1>1, EhRuntimeInvariant, PTL

\* An exception object lives exactly as long as something needs it
\* (eh_catch.cc:108-121).
THEOREM LivesAsNeeded ==
  ASSUME NestedRethrow = FALSE
  PROVE  Spec => []LifetimeCorrect
<1>1. EhInv => LifetimeCorrect
  BY LifetimeFollows
<1> QED BY <1>1, EhRuntimeInvariant, PTL

\* end_catch always finds an exception that some handler has caught
\* (eh_catch.cc:122-124).
THEOREM FindsNoBug ==
  ASSUME NestedRethrow = FALSE
  PROVE  Spec => []NeverABug
<1>1. EhInv => NeverABug
  BY DEF EhInv, Tame, NeverABug
<1> QED BY <1>1, EhRuntimeInvariant, PTL

-----------------------------------------------------------------------------
(* The exceptions in flight and how many of them there are.                  *)

Flights(fs, y) == {x \in Primary : Flies(fs, y, x)}

LEMMA ExcessIs ==
  ASSUME NEW fs \in Seq(Frame), NEW y
  PROVE  Flights(fs, y) = {x \in Primary : \/ y = x
                                           \/ \E i \in 1 .. Len(fs) : fs[i] = Region("cleanup", x)}
<1>1. DOMAIN fs = 1 .. Len(fs)
  BY LenProperties
<1>2. \A i \in DOMAIN fs : \A x : Waits(fs[i], x) <=> fs[i] = Region("cleanup", x)
  <2> TAKE i \in DOMAIN fs
  <2>1. fs[i] \in Frame
    BY ElementOfSeq, LenProperties
  <2>2. fs[i] = [kind |-> fs[i].kind, exc |-> fs[i].exc]
    BY <2>1 DEF Frame
  <2> QED BY <2>2 DEF Waits, Region
<1> QED BY <1>1, <1>2 DEF Flights, Flies, Waiting

LEMMA FlightsPushed ==
  ASSUME NEW b \in Seq(Frame), NEW f \in Frame, NEW y
  PROVE  /\ f.kind # "cleanup" => Flights(Append(b, f), y) = Flights(b, y)
         /\ f.kind = "cleanup" => Flights(Append(b, f), NULL) = Flights(b, f.exc)
<1>1. \A x : Waiting(Append(b, f), x) <=> Waiting(b, x) \/ Waits(f, x)
  BY WaitingPushed
<1>2. NULL \notin Primary
  BY EhAssumption
<1> QED BY <1>1, <1>2 DEF Flights, Flies, Waits

\* Only so many exceptions are in flight as frames may hold.
LEMMA FlightsFinite ==
  ASSUME NEW fs \in Seq(Frame), NEW y
  PROVE  IsFiniteSet(Flights(fs, y))
<1> DEFINE S == {fs[i].exc : i \in DOMAIN fs}
<1>1. DOMAIN fs = 1 .. Len(fs) /\ Len(fs) \in Nat
  BY LenProperties
<1>2. IsFiniteSet(DOMAIN fs)
  BY <1>1, FS_Interval
<1>3. IsFiniteSet(S)
  <2> DEFINE g == [i \in DOMAIN fs |-> fs[i].exc]
  <2>1. g \in Surjection(DOMAIN fs, S)
    BY DEF Surjection
  <2> QED BY <1>2, <2>1, FS_Surjection
<1>4. IsFiniteSet(S \cup {y})
  BY <1>3, FS_AddElement
<1>5. Flights(fs, y) \subseteq S \cup {y}
  BY DEF Flights, Flies, Waiting, Waits
<1> QED BY <1>4, <1>5, FS_Subset

\* A flight begins when nothing is in flight at the moment, and ends.
LEMMA FlightBegins ==
  ASSUME NEW fs \in Seq(Frame), NEW x, x \in Primary => ~Flies(fs, NULL, x)
  PROVE  /\ Cardinality(Flights(fs, NULL)) \in Nat
         /\ Cardinality(Flights(fs, x)) = Cardinality(Flights(fs, NULL)) + (IF IsGxx(x) THEN 1 ELSE 0)
<1>1. IsFiniteSet(Flights(fs, NULL)) /\ Cardinality(Flights(fs, NULL)) \in Nat
  BY FlightsFinite, FS_CardinalityType
<1>2. NULL \notin Primary
  BY EhAssumption
<1>3. CASE x \in Primary
  <2>1. Flights(fs, x) = Flights(fs, NULL) \cup {x} /\ x \notin Flights(fs, NULL)
    BY <1>2, <1>3 DEF Flights, Flies
  <2>2. Cardinality(Flights(fs, x)) = Cardinality(Flights(fs, NULL)) + 1
    BY <1>1, <2>1, FS_AddElement
  <2> QED BY <1>1, <1>3, <2>2 DEF IsGxx
<1>4. CASE x \notin Primary
  <2>1. Flights(fs, x) = Flights(fs, NULL)
    BY <1>2, <1>4 DEF Flights, Flies
  <2> QED BY <1>1, <1>4, <2>1 DEF IsGxx
<1> QED BY <1>3, <1>4

\* The excess, by the flights on the stack.
LEMMA ExcessAs ==
  ASSUME frames \in Seq(Frame), frames' \in Seq(Frame)
  PROVE  /\ Excess = rt.uncaught - Cardinality(Flights(frames, fly))
         /\ Excess' = rt'.uncaught - Cardinality(Flights(frames', fly'))
<1>1. Flights(frames, fly) = {x \in Primary : InFlight(x)}
  BY ExcessIs DEF InFlight
<1>2. Flights(frames', fly') = {x \in Primary : InFlight(x)'}
  BY ExcessIs DEF InFlight
<1> QED BY <1>1, <1>2 DEF Excess

\* The first phase found a frame.
LEMMA RaisedTo ==
  ASSUME NEW x \in Exc, NEW fs, NEW r \in RT, Raise(x, fs, r), dead' = "no"
  PROVE  frames' = fs /\ fly' = x /\ rt'.uncaught = r.uncaught
<1>1. PICK t \in Targets(fs) :
        IF t = 0
          THEN rt' = (IF CannotStack(r, x) THEN r ELSE BeginCatch(r, x))
               /\ Terminate("unhandled")
          ELSE rt' = [r EXCEPT !.hdr[x].target = t] /\ fly' = x /\ UNCHANGED dead
  BY DEF Raise
<1>2. t # 0
  BY <1>1 DEF Terminate
<1> QED BY <1>1, <1>2 DEF Raise, RT

\* A handler begins: one flight less, and one uncaught exception less.
LEMMA FlightLands ==
  ASSUME EhInv, Tame, Unwinding, AtTarget, Top.kind \in {"try", "utry", "spec"},
         rt' = BeginCatch(Arrived, fly), frames' \in Seq(Frame),
         Flights(frames', fly') = Flights(Below, NULL)
  PROVE  Excess' = Excess
<1>1. /\ Below \in Seq(Frame) /\ fly \in Exc /\ Arrived \in RT
      /\ frames \in Seq(Frame) /\ AllNamed(frames) /\ rt \in RT
      /\ Covered(Below, fly, Arrived) /\ Good(Below, fly, Arrived)
  BY ArrivedFacts
<1>2. frames # <<>>
  <2>1. rt.hdr[fly].target \in 1 .. Len(frames)
    BY <1>1, Known DEF Aimed, Unwinding
  <2> QED BY <2>1
<1>3. Flights(frames, fly) = Flights(Below, fly)
  <2>1. Top \in Frame /\ frames = Append(Below, Top)
    BY <1>1, <1>2, BelowFacts
  <2> QED BY <1>1, <2>1, FlightsPushed
<1>4. ~Flies(Below, NULL, fly)
  BY <1>1 DEF Good, Flying, Flies, Unwinding
<1> DEFINE n == Cardinality(Flights(Below, NULL))
           one == IF IsGxx(fly) THEN 1 ELSE 0
<1>5. n \in Nat /\ Cardinality(Flights(frames, fly)) = n + one
  BY <1>1, <1>3, <1>4, FlightBegins
<1>6. Arrived.uncaught = rt.uncaught /\ rt.uncaught \in Nat
  BY <1>1 DEF Arrived, RT
<1>7. rt'.uncaught = rt.uncaught - one
  <2>1. fly \in Primary => Arrived.uncaught >= 1
    <3>1. Cardinality(WaitsIn(Below)) \in Nat
      BY <1>1, <1>2, BelowFacts, WaitsPushed
    <3> QED BY <1>1, <1>6, <3>1 DEF Covered, IsGxx
  <2> QED BY <1>1, <1>6, <2>1, BeginCatchFacts DEF IsGxx
<1>8. one \in {0, 1}
  OBVIOUS
<1>9. Excess = rt.uncaught - (n + one) /\ Excess' = rt'.uncaught - n
  BY <1>1, <1>5, ExcessAs
<1> HIDE DEF n, one
<1> QED BY <1>5, <1>6, <1>7, <1>8, <1>9

\* Neither the flights nor the count change.
LEMMA FlightsStay ==
  ASSUME frames \in Seq(Frame), frames' \in Seq(Frame), rt'.uncaught = rt.uncaught,
         Flights(frames', fly') = Flights(frames, fly)
  PROVE  Excess' = Excess
BY ExcessAs

LEMMA ProgramFlights ==
  ASSUME EhInv, Tame, Program, dead' = "no", frames' \in Seq(Frame)
  PROVE  \/ Excess' = Excess
         \/ rt.caught \in Foreign /\ fly' = rt.caught /\ Excess' = Excess + 1
<1>1. dead = "no" /\ fly = NULL
  BY DEF Program, Enter, MayNest, Leave, LeaveHandler, Resume, Allocate, Throw, RaiseForeign,
         Rethrow, UnexpectedFails, Running
<1>2. /\ frames \in Seq(Frame) /\ AllNamed(frames) /\ rt \in RT
      /\ Good(frames, NULL, rt) /\ NULL \notin Exc
  BY <1>1, Known, EhAssumption DEF Exc
<1>3. /\ Below \in Seq(Frame)
      /\ frames # <<>> => Named(Top) /\ Top \in Frame /\ frames = Append(Below, Top)
  BY <1>2, BelowFacts
<1>4. CASE Enter
  <2>1. PICK k \in {"try", "obj", "spec"} : frames' = Append(frames, Region(k, NULL))
    BY <1>4 DEF Enter
  <2>2. fly' = fly /\ rt' = rt
    BY <1>4 DEF Enter
  <2>3. Region(k, NULL) \in Frame /\ Region(k, NULL).kind # "cleanup"
    BY DEF Region, Frame, Kinds
  <2>4. Flights(frames', fly') = Flights(frames, fly)
    BY <1>2, <2>1, <2>2, <2>3, FlightsPushed
  <2> QED BY <1>2, <2>2, <2>4, FlightsStay
<1>5. CASE Leave \/ LeaveHandler
  <2>1. frames # <<>> /\ Top.kind # "cleanup" /\ frames' = Below
    BY <1>5 DEF Leave, LeaveHandler
  <2>2. fly' = fly /\ rt'.uncaught = rt.uncaught
    BY <1>2, <1>5, EndCatchFacts DEF Leave, LeaveHandler, Terminate
  <2>3. Flights(frames', fly') = Flights(frames, fly)
    BY <1>3, <2>1, <2>2, FlightsPushed
  <2> QED BY <1>2, <2>2, <2>3, FlightsStay
<1>6. CASE Resume
  <2>1. frames # <<>> /\ Top.kind = "cleanup" /\ frames' = Below /\ fly' = Top.exc /\ rt' = rt
    BY <1>6 DEF Resume
  <2>2. Flights(frames', fly') = Flights(frames, fly)
    BY <1>1, <1>3, <2>1, FlightsPushed
  <2> QED BY <1>2, <2>1, <2>2, FlightsStay
<1>7. CASE Allocate
  <2>1. PICK x \in Primary : \E old :
          /\ rt' = [rt EXCEPT !.hdr[x].state = "raw", !.hdr[x].count = old]
          /\ frames' = Append(frames, Region("construct", x)) /\ fly' = fly
    BY <1>7 DEF Allocate, Terminate
  <2>2. Region("construct", x) \in Frame /\ Region("construct", x).kind # "cleanup"
    BY DEF Region, Frame, Kinds, Exc
  <2>3. Flights(frames', fly') = Flights(frames, fly)
    BY <1>2, <2>1, <2>2, FlightsPushed
  <2>4. rt'.uncaught = rt.uncaught
    BY <1>2, <2>1 DEF RT
  <2> QED BY <1>2, <2>3, <2>4, FlightsStay
<1>8. ASSUME NEW fs \in Seq(Frame), NEW x \in Exc, NEW r \in RT, Raise(x, fs, r),
             Flights(fs, NULL) = Flights(frames, NULL), x \in Primary => ~Flies(fs, NULL, x)
      PROVE  /\ fly' = x /\ rt'.uncaught = r.uncaught
             /\ Excess = rt.uncaught - Cardinality(Flights(frames, NULL))
             /\ Excess' = r.uncaught - (Cardinality(Flights(frames, NULL))
                                          + (IF IsGxx(x) THEN 1 ELSE 0))
             /\ Cardinality(Flights(frames, NULL)) \in Nat
  <2>1. frames' = fs /\ fly' = x /\ rt'.uncaught = r.uncaught
    BY <1>8, RaisedTo
  <2>2. /\ Cardinality(Flights(frames, NULL)) \in Nat
        /\ Cardinality(Flights(fs, x))
             = Cardinality(Flights(frames, NULL)) + (IF IsGxx(x) THEN 1 ELSE 0)
    BY <1>8, FlightBegins
  <2> QED BY <1>1, <1>2, <2>1, <2>2, ExcessAs
<1>9. CASE Throw
  <2> DEFINE x == Top.exc
             r == [rt EXCEPT !.uncaught = @ + 1,
                             !.hdr = [rt.hdr EXCEPT ![x].state = "alive", ![x].ref = 1]]
             u == rt.uncaught + 1
  <2>1. frames # <<>> /\ Top.kind = "construct" /\ Raise(x, Below, r)
    BY <1>9 DEF Throw
  <2>2. x \in Primary /\ x \in Exc
    BY <1>3, <2>1 DEF Named, Exc
  <2>3. u \in Nat /\ r = ComeAlive(rt, x, u)
    BY <1>2 DEF RT, ComeAlive
  <2> HIDE DEF r
  <2>4. r \in RT /\ r.uncaught = rt.uncaught + 1
    BY <1>2, <2>2, <2>3, AliveFacts
  <2> HIDE DEF x, u
  <2>5. /\ Below \in Seq(Frame) /\ Top \in Frame /\ frames = Append(Below, Top)
        /\ Top.kind = "construct" /\ Top.kind # "cleanup" /\ Top.exc = x
    BY <1>3, <2>1 DEF x
  <2>6. Flights(Below, NULL) = Flights(frames, NULL)
    BY <2>5, FlightsPushed
  <2>7. ~Flies(Below, NULL, x)
    <3>1. Built(frames, x) /\ \A z : Waiting(frames, z) <=> Waiting(Below, z)
      BY <2>5, WaitingPushed DEF Waits
    <3>2. Lives(frames, NULL, rt, x)
      BY <1>2, <2>2 DEF Good
    <3> QED BY <3>1, <3>2 DEF Lives, Flies
  <2> DEFINE n == Cardinality(Flights(frames, NULL))
  <2>8. /\ Excess = rt.uncaught - n /\ n \in Nat /\ rt.uncaught \in Nat
        /\ Excess' = r.uncaught - (n + 1)
    BY <1>2, <1>3, <1>8, <2>1, <2>2, <2>4, <2>6, <2>7 DEF IsGxx, RT
  <2> HIDE DEF n
  <2> QED BY <2>4, <2>8
<1>10. CASE RaiseForeign
  <2>1. PICK x \in Foreign :
          Raise(x, frames, [rt EXCEPT !.hdr[x].state = "alive", !.hdr[x].ref = 1])
    BY <1>10 DEF RaiseForeign
  <2> DEFINE r == [rt EXCEPT !.hdr[x].state = "alive", !.hdr[x].ref = 1]
             u == rt.uncaught
  <2>2. x \in Exc /\ x \notin Primary
    BY EhAssumption DEF Exc
  <2>3. u \in Nat /\ r = ComeAlive(rt, x, u)
    <3>1. rt \in [caught : Exc \cup {NULL}, uncaught : Nat, hdr : [Exc -> Header]]
      BY <1>2 DEF RT
    <3> QED BY <3>1 DEF ComeAlive
  <2>4. Raise(x, frames, r)
    BY <2>1
  <2> HIDE DEF r
  <2>5. r \in RT /\ r.uncaught = rt.uncaught
    BY <1>2, <2>2, <2>3, AliveFacts
  <2> HIDE DEF u
  <2> DEFINE n == Cardinality(Flights(frames, NULL))
  <2>6. /\ Excess = rt.uncaught - n /\ n \in Nat
        /\ Excess' = r.uncaught - (n + 0)
    BY <1>2, <1>8, <2>2, <2>4, <2>5 DEF IsGxx
  <2> HIDE DEF n
  <2> QED BY <2>5, <2>6
<1>11. CASE Rethrow
  <2> DEFINE x == rt.caught
             r == MarkRethrown(OneMore(rt))
             n == Cardinality(Flights(frames, NULL))
  <2>1. /\ x # NULL /\ Raise(x, frames, r) /\ ~InFlight(x)
    BY <1>11 DEF Rethrow, Terminate, OneMore, Tame
  <2>2. x \in Exc /\ rt.uncaught \in Nat
    BY <1>2, <2>1 DEF RT
  <2> HIDE DEF r
  <2>3. r \in RT /\ r.uncaught = rt.uncaught + 1
    BY <1>2, <2>2, MarkFacts DEF r
  <2>4. x \in Primary => ~Flies(frames, NULL, x)
    BY <1>1, <1>2, <2>1, SameSets
  <2> HIDE DEF x
  <2>5. /\ Excess = rt.uncaught - n /\ n \in Nat /\ fly' = x
        /\ Excess' = r.uncaught - (n + (IF IsGxx(x) THEN 1 ELSE 0))
    BY <1>2, <1>8, <2>1, <2>2, <2>3, <2>4
  <2> HIDE DEF n
  <2>6. CASE x \in Primary
    BY <2>2, <2>3, <2>5, <2>6 DEF IsGxx
  <2>7. CASE x \notin Primary
    <3>1. x \in Foreign /\ Excess' = r.uncaught - (n + 0)
      BY <2>2, <2>5, <2>7 DEF Exc, IsGxx
    <3>2. Excess' = Excess + 1
      BY <2>2, <2>3, <2>5, <3>1
    <3> QED BY <2>5, <3>1, <3>2 DEF x
  <2> QED BY <2>6, <2>7
<1>12. CASE UnexpectedFails
  BY <1>12 DEF UnexpectedFails, Terminate
<1> QED BY <1>4, <1>5, <1>6, <1>7, <1>9, <1>10, <1>11, <1>12 DEF Program

LEMMA UnwindFlights ==
  ASSUME EhInv, Tame, Unwind, dead' = "no", frames' \in Seq(Frame)
  PROVE  Excess' = Excess
<1>1. Unwinding
  BY DEF Unwind, LandInHandler, LandInSpec, LandInDestructor, UnwindPast
<1>2. /\ frames \in Seq(Frame) /\ AllNamed(frames) /\ rt \in RT /\ fly \in Exc /\ fly # NULL
      /\ Aimed(frames, fly, rt)
  BY <1>1, Known DEF Unwinding
<1>3. Below \in Seq(Frame) /\ Named(Top) /\ Top \in Frame /\ frames = Append(Below, Top)
  <2>1. frames # <<>>
    BY <1>2 DEF Aimed
  <2> QED BY <1>2, <2>1, BelowFacts
<1>4. CASE LandInHandler
  <2> DEFINE f == Region(IF Top.kind = "try" THEN "catch" ELSE "ucatch", fly)
  <2>1. /\ AtTarget /\ Top.kind \in {"try", "utry"} /\ rt' = BeginCatch(Arrived, fly)
        /\ frames' = Append(Below, f) /\ fly' = NULL
    BY <1>4 DEF LandInHandler, Terminate
  <2>2. f \in Frame /\ f.kind # "cleanup"
    BY <1>2 DEF Region, Frame, Kinds
  <2> HIDE DEF f
  <2>3. Flights(frames', fly') = Flights(Below, NULL)
    BY <1>3, <2>1, <2>2, FlightsPushed
  <2> QED BY <1>1, <2>1, <2>3, FlightLands
<1>5. CASE LandInSpec
  <2> DEFINE f == Region("catch", fly)
             g == Region("utry", NULL)
             b == Append(Below, f)
  <2>1. /\ AtTarget /\ Top.kind = "spec" /\ rt' = BeginCatch(Arrived, fly)
        /\ frames' = Below \o <<f, g>> /\ fly' = NULL
    BY <1>5 DEF LandInSpec, Terminate
  <2>2. f \in Frame /\ f.kind # "cleanup" /\ g \in Frame /\ g.kind # "cleanup"
    BY <1>2 DEF Region, Frame, Kinds
  <2> HIDE DEF f, g
  <2>3. Below \o <<f, g>> = Append(b, g) /\ b \in Seq(Frame)
    BY <1>3, <2>2
  <2>4. Flights(b, NULL) = Flights(Below, NULL)
    BY <1>3, <2>2, FlightsPushed
  <2> HIDE DEF b
  <2>5. Flights(frames', fly') = Flights(Below, NULL)
    <3>1. Flights(Append(b, g), NULL) = Flights(b, NULL)
      BY <2>2, <2>3, FlightsPushed
    <3> QED BY <2>1, <2>3, <2>4, <3>1
  <2> QED BY <1>1, <2>1, <2>5, FlightLands
<1>6. CASE LandInDestructor
  BY <1>6 DEF LandInDestructor, Terminate
<1>7. CASE UnwindPast
  <2>1. CASE Top.kind = "obj"
    <3>1. frames' = Append(Below, Region("cleanup", fly)) /\ fly' = NULL /\ rt' = rt
      BY <1>7, <2>1 DEF UnwindPast
    <3>2. /\ Region("cleanup", fly) \in Frame /\ Region("cleanup", fly).kind = "cleanup"
          /\ Region("cleanup", fly).exc = fly
      BY <1>2 DEF Region, Frame, Kinds
    <3>3. Flights(frames', fly') = Flights(Below, fly)
      BY <1>3, <3>1, <3>2, FlightsPushed
    <3>4. Flights(frames, fly) = Flights(Below, fly)
      BY <1>3, <2>1, FlightsPushed
    <3> QED BY <1>2, <3>1, <3>3, <3>4, FlightsStay
  <2>2. CASE Top.kind # "obj"
    <3>1. /\ frames' = Below /\ fly' = fly /\ Top.kind # "cleanup"
          /\ \/ rt' = rt \/ rt' = EndCatch(rt)
             \/ Top.kind = "construct" /\ rt' = GiveBack(rt, Top.exc)
      BY <1>7, <2>2 DEF UnwindPast, Terminate, GiveBack
    <3>2. rt'.uncaught = rt.uncaught
      <4>1. EndCatch(rt).uncaught = rt.uncaught
        BY <1>2, EndCatchFacts
      <4>2. Top.kind = "construct" => GiveBack(rt, Top.exc).uncaught = rt.uncaught
        BY <1>2, <1>3, FreeFacts DEF Named, Exc
      <4> QED BY <3>1, <4>1, <4>2
    <3>3. Flights(frames', fly') = Flights(frames, fly)
      BY <1>3, <3>1, FlightsPushed
    <3> QED BY <1>2, <3>2, <3>3, FlightsStay
  <2> QED BY <2>1, <2>2
<1> QED BY <1>4, <1>5, <1>6, <1>7 DEF Unwind

\* uncaught_exception() is right as long as the headers were clean: every throw
\* and rethrow is taken back by one handler, whatever runs in between
\* (eh_throw.cc:71-89, eh_catch.cc:60-80).
THEOREM FlightsAreCounted ==
  ASSUME NestedRethrow = FALSE
  PROVE  Spec => UncaughtFollowsFlights
<1> DEFINE Counted == clean /\ dead' = "no" =>
             \/ Excess' = Excess
             \/ rt.caught \in Foreign /\ fly' = rt.caught /\ Excess' = Excess + 1
<1>1. EhInv /\ [Next]_vars => [Counted]_vars
  <2> SUFFICES ASSUME EhInv, Next, clean, dead' = "no"
               PROVE  \/ Excess' = Excess
                      \/ rt.caught \in Foreign /\ fly' = rt.caught /\ Excess' = Excess + 1
    OBVIOUS
  <2>1. Tame
    BY DEF Tame
  <2>2. frames' \in Seq(Frame)
    BY NextEh DEF EhInv, Typed, TypeOK
  <2> QED BY <2>1, <2>2, ProgramFlights, UnwindFlights DEF Next
<1> HIDE DEF Counted
<1>2. Spec => [][Counted]_vars
  BY <1>1, EhRuntimeInvariant, PTL DEF Spec
<1> QED BY <1>2 DEF Counted, UncaughtFollowsFlights
=============================================================================
