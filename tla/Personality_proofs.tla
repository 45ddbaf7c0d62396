------------------------- MODULE Personality_proofs -------------------------
(* Theorems about Personality: what the two phases find through the tables   *)
(* is what the source says, whatever the program throws, catches and         *)
(* rethrows in the destructors and unexpected handlers on the way.           *)
EXTENDS Personality, SequenceTheorems, WellFoundedInduction, TLAPS

-----------------------------------------------------------------------------
(* Sets of numbers, and sequences that are used as stacks.                   *)

\* A set of numbers that is not empty has a least one.
LEMMA HasLeast ==
  ASSUME NEW T \in SUBSET Nat, T # {}
  PROVE  \E m \in T : \A n \in T : m <= n
<1>1. PICK m \in T : \A n \in T : <<n, m>> \notin OpToRel(<, Nat)
  BY NatLessThanWellFounded, WFMin
<1>2. \A n \in T : ~(n < m)
  BY <1>1 DEF OpToRel
<1> QED BY <1>2

\* A set of indices that is not empty has a greatest one.
LEMMA HasGreatest ==
  ASSUME NEW n \in Nat, NEW T \in SUBSET (1 .. n), T # {}
  PROVE  \E m \in T : \A i \in T : i <= m
<1> DEFINE U == {u \in 0 .. n : n - u \in T}
<1>1. \A i \in T : n - i \in U
  OBVIOUS
<1>2. PICK i \in T : TRUE
  OBVIOUS
<1>3. n - i \in U
  BY <1>1
<1>4. U \subseteq 0 .. n
  OBVIOUS
<1>5. PICK u \in U : \A v \in U : u <= v
  <2> HIDE DEF U
  <2>1. U \in SUBSET Nat /\ U # {}
    BY <1>3, <1>4
  <2> QED BY <2>1, HasLeast
<1> QED BY <1>1, <1>5

\* A sequence with an element more.
LEMMA Pushed ==
  ASSUME NEW S, NEW s \in Seq(S), NEW a \in S
  PROVE  /\ Append(s, a) \in Seq(S) /\ Append(s, a) # <<>>
         /\ Len(s) \in Nat /\ DOMAIN s = 1 .. Len(s)
         /\ Len(Append(s, a)) = Len(s) + 1
         /\ DOMAIN Append(s, a) = 1 .. Len(s) + 1
         /\ \A i \in 1 .. Len(s) : Append(s, a)[i] = s[i] /\ s[i] \in S
         /\ Append(s, a)[Len(s) + 1] = a
BY AppendProperties, LenProperties, ElementOfSeq

\* The first elements of a sequence.
LEMMA Prefix ==
  ASSUME NEW S, NEW s \in Seq(S), NEW n \in 0 .. Len(s)
  PROVE  /\ SubSeq(s, 1, n) \in Seq(S)
         /\ Len(SubSeq(s, 1, n)) = n
         /\ DOMAIN SubSeq(s, 1, n) = 1 .. n
         /\ \A i \in 1 .. n : SubSeq(s, 1, n)[i] = s[i]
BY LenProperties, SubSeqProperties

\* The prefixes of a sequence with an element more.
LEMMA PrefixOfPushed ==
  ASSUME NEW S, NEW s \in Seq(S), NEW a \in S, NEW n \in 0 .. Len(s)
  PROVE  SubSeq(Append(s, a), 1, n) = SubSeq(s, 1, n) /\ SubSeq(s, 1, Len(s)) = s
<1>1. <<a>> \in Seq(S) /\ Len(s) \in Nat
  BY LenProperties
<1>2. Append(s, a) = s \o <<a>>
  BY AppendIsConcat
<1>3. SubSeq(s \o <<a>>, 1, n) = SubSeq(s, 1, n)
  BY <1>1, SubSeqOfConcat1
<1> QED BY <1>2, <1>3, SubSeqFull

-----------------------------------------------------------------------------
(* The inductive invariant.                                                  *)

Fns    == DOMAIN Functions \cup {NONE, UNEXPECTED}
Places == BODY .. RESUME
Copy   == [block : Blocks, lsda : DOMAIN Functions, switch : {-1}, base : DOMAIN Functions]
FrameT == [fn : Fns, place : Places, in : Blocks \cup {NONE},
           switch : -1 .. Len(TypeTable), copied : {NONE} \cup Copy]

\* An exception, with its header.
IsObj(e) ==
  /\ e.kind \in {"gxx", "foreign", "forced"}
  /\ e = [kind |-> e.kind, type |-> e.type, target |-> e.target, hdr |-> e.hdr,
          due |-> e.due, owed |-> e.owed]
  /\ ~Domestic(e) => e.hdr = Raw

Typed ==
  /\ frames \in Seq(FrameT)
  /\ objs = [b \in Blocks |-> objs[b]]
  /\ \A b \in Blocks : objs[b] = Obj \/ IsObj(objs[b])
  /\ flight \in Blocks \cup {NONE}
  /\ phase \in {"run", "search", "cleanup", "dead"}
  /\ phase \in {"search", "cleanup"} <=> flight # NONE
  /\ at \in 0 .. Len(frames) /\ (flight = NONE => at = 0)
  /\ phase # "dead" => frames # <<>>
  /\ phase = "dead" => frames = <<>>

\* Who refers to an exception refers to one that is there.
InUseLive ==
  /\ \A i \in 1 .. Len(frames) : \A b \in Holds(frames[i]) : b # NONE => IsObj(objs[b])
  /\ flight # NONE => IsObj(objs[flight])

\* Function fn has a try block.
HasTry(fn) == \E i \in DOMAIN Code(fn).body : Code(fn).body[i].kind = "catch"

\* A frame in a landing pad knows its exception; a handler is one of a try block.
PadsHold ==
  \A i \in 1 .. Len(frames) :
    /\ frames[i].place \in {DTOR, HANDLER, SPEC} => frames[i].in \in Blocks
    /\ frames[i].place # BODY => frames[i].fn # NONE
    /\ frames[i].place = HANDLER => HasTry(frames[i].fn)

\* Phase 2 knows of exception e, which has the frames up to k before it, where
\* it ends and what it has to clean up before.
Bound(fs, e, k) ==
  /\ e.due = Due(SubSeq(fs, 1, k), e)
  /\ e.owed = Owed(SubSeq(fs, 1, k), e.due)
  /\ e.kind # "forced" => e.due.frame # 0 /\ e.target = e.due.frame
  /\ Domestic(e) => e.hdr = Saved(fs[e.target], Search(fs[e.target], e))

\* The specification of fn, if there is one, lets e pass.
Lets(fn, e) == Specified(fn) => Allows(SpecOf(fn), e)

\* An exception that waits for a destructor is nowhere above it, and is still
\* bound to its handler.
Waits ==
  \A i \in 1 .. Len(frames) : frames[i].place = DTOR =>
    LET b == frames[i].in
    IN  /\ b # flight
        /\ \A j \in i + 1 .. Len(frames) : b \notin Holds(frames[j])
        /\ Bound(frames, objs[b], i - 1)
        /\ Lets(frames[i].fn, objs[b])

InSearch ==
  phase = "search" =>
    /\ exc.kind # "forced"
    /\ exc.due = Due(frames, exc) /\ exc.owed = Owed(frames, exc.due)
    /\ exc.due.frame <= at

InCleanup == phase = "cleanup" => Bound(frames, exc, at)

\* The frames that were passed in this phase let the exception pass.
Passed ==
  flight # NONE => \A i \in at + 1 .. Len(frames) :
    /\ Lets(frames[i].fn, exc)
    /\ frames[i].fn = UNEXPECTED => frames[i].place # BODY

\* Only the innermost frame resumes, for the exception it has cleaned up for.
Resumes ==
  \A i \in 1 .. Len(frames) : frames[i].place = RESUME =>
    phase = "cleanup" /\ i = Len(frames) /\ Lets(frames[i].fn, exc)

\* A frame whose specification is violated calls __cxa_call_unexpected, with
\* what the second phase has left in the header.
Violated ==
  \A i \in 1 .. Len(frames) : frames[i].place = SPEC =>
    LET e == objs[frames[i].in]
    IN  /\ Domestic(e) /\ Specified(frames[i].fn) /\ frames[i].fn \in DOMAIN Functions
        /\ IF i = Len(frames)
           THEN /\ phase = "run"
                /\ e.hdr.switch = -1 /\ e.hdr.lsda = frames[i].fn /\ e.hdr.temp = frames[i].fn
           ELSE frames[i + 1].fn = UNEXPECTED

\* __cxa_call_unexpected has its own copy of that, runs no code but the
\* unexpected handler, and lets out only what the specification allows.
Unexpected ==
  \A i \in 1 .. Len(frames) :
    LET f == frames[i] g == frames[i - 1]
    IN  /\ f.copied # NONE => f.fn = UNEXPECTED
        /\ f.fn = UNEXPECTED =>
             /\ i > 1 /\ g.place = SPEC
             /\ f.place # BODY => i = Len(frames)
             /\ f.place \in {BODY, HANDLER} =>
                  f.copied = [block |-> g.in, lsda |-> g.fn, switch |-> -1, base |-> g.fn]
             /\ f.place = HANDLER => Domestic(objs[f.in])
             /\ f.place = DTOR => Allows(SpecOf(g.fn), objs[f.in])
             /\ f.place # BODY /\ flight # NONE => Allows(SpecOf(g.fn), exc)

PInv == /\ Typed /\ InUseLive /\ PadsHold /\ Waits /\ InSearch /\ InCleanup
        /\ Passed /\ Resumes /\ Violated /\ Unexpected
-----------------------------------------------------------------------------
(* The loop over the chain of action records.                                *)

\* A step of the loop, when g is what the steps behind it find.
ScanFrom(l, e, g, a) ==
  LET r    == l.actions[a]
      rest == IF r.next = 0 THEN Found("nothing", 0) ELSE g[r.next]
  IN  IF Takes(l, e, r.filter) THEN Found("handler", r.filter)
      ELSE IF r.filter = 0 /\ rest.found = "nothing" THEN Found("cleanup", 0)
      ELSE rest

\* Every record leads forward, so that the loop ends.
Forward(l, n) ==
  /\ DOMAIN l.actions = 1 .. n
  /\ \A a \in 1 .. n : l.actions[a].next = 0 \/ l.actions[a].next \in a + 1 .. n

LEMMA ScanExists ==
  ASSUME NEW l, NEW e, NEW n \in Nat, Forward(l, n)
  PROVE  \E g : g = [a \in 1 .. n |-> ScanFrom(l, e, g, a)]
<1> DEFINE From(m) == \E g : g = [a \in n - m + 1 .. n |-> ScanFrom(l, e, g, a)]
           T == {m \in 0 .. n : ~From(m)}
<1>1. From(0)
  <2> DEFINE g == [a \in n + 1 .. n |-> 0]
  <2>1. g = [a \in n - 0 + 1 .. n |-> ScanFrom(l, e, g, a)]
    OBVIOUS
  <2> QED BY <2>1
<1>2. ASSUME NEW m \in 0 .. n, m # n, From(m)
      PROVE  From(m + 1)
  <2> DEFINE k == n - m
  <2>1. k \in 1 .. n /\ n - (m + 1) + 1 = k /\ n - m + 1 = k + 1
    BY <1>2
  <2> HIDE DEF k
  <2>2. PICK g : g = [a \in k + 1 .. n |-> ScanFrom(l, e, g, a)]
    BY <1>2, <2>1
  <2> DEFINE h == [a \in k .. n |-> IF a = k THEN ScanFrom(l, e, g, k) ELSE g[a]]
  <2>3. \A a \in k + 1 .. n : h[a] = g[a]
    BY <2>1
  <2>4. \A a \in k .. n : l.actions[a].next = 0 \/ l.actions[a].next \in k + 1 .. n
    BY <2>1 DEF Forward
  <2>5. \A a \in k .. n : ScanFrom(l, e, h, a) = ScanFrom(l, e, g, a)
    <3> HIDE DEF h
    <3> QED BY <2>3, <2>4 DEF ScanFrom
  <2>6. \A a \in k + 1 .. n : g[a] = ScanFrom(l, e, g, a)
    BY <2>2
  <2>7. \A a \in k .. n : h[a] = ScanFrom(l, e, h, a)
    BY <2>1, <2>3, <2>5, <2>6
  <2>8. h = [a \in k .. n |-> h[a]]
    OBVIOUS
  <2> HIDE DEF h
  <2>9. h = [a \in k .. n |-> ScanFrom(l, e, h, a)]
    BY <2>7, <2>8
  <2> QED BY <2>1, <2>9
<1> HIDE DEF From
<1>3. T = {}
  <2> SUFFICES ASSUME T # {} PROVE FALSE
    OBVIOUS
  <2>1. PICK m \in T : \A k \in T : m <= k
    <3>1. T \in SUBSET Nat
      OBVIOUS
    <3> HIDE DEF T
    <3> QED BY <3>1, HasLeast
  <2>2. m # 0
    BY <1>1
  <2>3. m - 1 \in 0 .. n /\ m - 1 # n /\ (m - 1) + 1 = m
    BY <2>2
  <2>4. From(m - 1)
    BY <2>1, <2>3
  <2> QED BY <1>2, <2>3, <2>4
<1>4. From(n)
  BY <1>3
<1>5. n - n + 1 = 1
  OBVIOUS
<1> QED BY <1>4, <1>5 DEF From

LEMMA ScanIs ==
  ASSUME NEW l, NEW e, NEW n \in Nat, Forward(l, n), NEW a \in 1 .. n
  PROVE  LET r    == l.actions[a]
             rest == IF r.next = 0 THEN Found("nothing", 0) ELSE Scan(l, e, r.next)
         IN  Scan(l, e, a) = IF Takes(l, e, r.filter) THEN Found("handler", r.filter)
                             ELSE IF r.filter = 0 /\ rest.found = "nothing"
                             THEN Found("cleanup", 0) ELSE rest
<1> DEFINE s == CHOOSE g : g = [i \in DOMAIN l.actions |-> ScanFrom(l, e, g, i)]
<1>1. \A i : Scan(l, e, i) = s[i]
  BY DEF Scan, ScanFrom
<1>2. s = [i \in DOMAIN l.actions |-> ScanFrom(l, e, s, i)]
  <2>1. \E g : g = [i \in DOMAIN l.actions |-> ScanFrom(l, e, g, i)]
    <3>1. DOMAIN l.actions = 1 .. n
      BY DEF Forward
    <3>2. PICK g : g = [i \in 1 .. n |-> ScanFrom(l, e, g, i)]
      BY ScanExists
    <3>3. g = [i \in DOMAIN l.actions |-> ScanFrom(l, e, g, i)]
      BY <3>1, <3>2
    <3> QED BY <3>3
  <2> QED BY <2>1
<1> HIDE DEF s
<1>3. s[a] = ScanFrom(l, e, s, a)
  BY <1>2 DEF Forward
<1> QED BY <1>1, <1>3 DEF ScanFrom


\* What clauses cs from the i-th on have for e.
IsAnswer(cs, e, i, r) ==
  /\ \A j \in i .. Len(cs) :
       Accepts(cs[j], e) /\ (\A k \in i .. j - 1 : ~Accepts(cs[k], e))
         => r = Found("handler", FilterOf(cs[j]))
  /\ (\A j \in i .. Len(cs) : ~Accepts(cs[j], e))
       => r = IF \E j \in i .. Len(cs) : cs[j] = Cleanup
              THEN Found("cleanup", 0) ELSE Found("nothing", 0)

\* The records of clauses cs begin behind the first o records, and the filters
\* mean what the clauses say.
Tables(l, e, cs, o, n) ==
  /\ Forward(l, n) /\ Len(cs) \in Nat /\ o + Len(cs) <= n
  /\ \A i \in 1 .. Len(cs) :
       /\ l.actions[o + i] = [filter |-> FilterOf(cs[i]),
                              next |-> IF i = Len(cs) THEN 0 ELSE o + i + 1]
       /\ Takes(l, e, FilterOf(cs[i])) <=> Accepts(cs[i], e)
       /\ FilterOf(cs[i]) = 0 <=> cs[i] = Cleanup

LEMMA AnswerStep ==
  ASSUME NEW l, NEW e, NEW cs, NEW o \in Nat, NEW n \in Nat, Tables(l, e, cs, o, n),
         NEW i \in 1 .. Len(cs), i # Len(cs) => IsAnswer(cs, e, i + 1, Scan(l, e, o + i + 1))
  PROVE  IsAnswer(cs, e, i, Scan(l, e, o + i))
<1> DEFINE f == FilterOf(cs[i])
           rest == IF i = Len(cs) THEN Found("nothing", 0) ELSE Scan(l, e, o + i + 1)
           s == Scan(l, e, o + i)
<1>1. Len(cs) \in Nat /\ o + i \in 1 .. n /\ o + i + 1 # 0
  BY DEF Tables
<1>2. /\ l.actions[o + i].filter = f
      /\ l.actions[o + i].next = IF i = Len(cs) THEN 0 ELSE o + i + 1
      /\ Takes(l, e, f) <=> Accepts(cs[i], e)
      /\ f = 0 <=> cs[i] = Cleanup
  <2>1. l.actions[o + i] = [filter |-> f, next |-> IF i = Len(cs) THEN 0 ELSE o + i + 1]
    BY DEF Tables
  <2>2. Takes(l, e, f) <=> Accepts(cs[i], e)
    BY DEF Tables
  <2>3. f = 0 <=> cs[i] = Cleanup
    BY DEF Tables
  <2> HIDE DEF f
  <2> QED BY <2>1, <2>2, <2>3
<1>3. s = IF Takes(l, e, f) THEN Found("handler", f)
          ELSE IF f = 0 /\ rest.found = "nothing" THEN Found("cleanup", 0) ELSE rest
  <2>1. Forward(l, n)
    BY DEF Tables
  <2> QED BY <1>1, <1>2, <2>1, ScanIs
<1> HIDE DEF s, f, rest
<1>4. CASE Accepts(cs[i], e)
  <2>1. s = Found("handler", f)
    BY <1>2, <1>3, <1>4
  <2>2. \A j \in i .. Len(cs) : (\A k \in i .. j - 1 : ~Accepts(cs[k], e)) => j = i
    BY <1>1, <1>4
  <2> QED BY <1>1, <1>4, <2>1, <2>2 DEF IsAnswer, s, f
<1>5. CASE ~Accepts(cs[i], e) /\ i = Len(cs)
  <2>1. s = IF cs[i] = Cleanup THEN Found("cleanup", 0) ELSE Found("nothing", 0)
    BY <1>2, <1>3, <1>5 DEF rest, Found
  <2>2. i .. Len(cs) = {i}
    BY <1>1, <1>5
  <2> QED BY <1>5, <2>1, <2>2 DEF IsAnswer, s
<1>6. CASE ~Accepts(cs[i], e) /\ i # Len(cs)
  <2>1. IsAnswer(cs, e, i + 1, rest)
    BY <1>6 DEF rest
  <2>2. i .. Len(cs) = {i} \cup (i + 1 .. Len(cs))
    BY <1>1, <1>6
  <2>3. ASSUME NEW j \in i .. Len(cs), Accepts(cs[j], e),
               \A k \in i .. j - 1 : ~Accepts(cs[k], e)
        PROVE  s = Found("handler", FilterOf(cs[j]))
    <3>1. j \in i + 1 .. Len(cs) /\ \A k \in i + 1 .. j - 1 : ~Accepts(cs[k], e)
      BY <1>1, <1>6, <2>3
    <3>2. rest = Found("handler", FilterOf(cs[j]))
      BY <2>1, <2>3, <3>1 DEF IsAnswer
    <3> QED BY <1>2, <1>3, <1>6, <3>2 DEF Found
  <2>4. ASSUME \A j \in i .. Len(cs) : ~Accepts(cs[j], e)
        PROVE  s = IF \E j \in i .. Len(cs) : cs[j] = Cleanup
                   THEN Found("cleanup", 0) ELSE Found("nothing", 0)
    <3>1. rest = IF \E j \in i + 1 .. Len(cs) : cs[j] = Cleanup
                 THEN Found("cleanup", 0) ELSE Found("nothing", 0)
      BY <2>1, <2>2, <2>4 DEF IsAnswer
    <3>2. CASE \E j \in i + 1 .. Len(cs) : cs[j] = Cleanup
      <4>1. rest = Found("cleanup", 0) /\ rest.found = "cleanup"
        BY <3>1, <3>2 DEF Found
      <4> QED BY <1>2, <1>3, <1>6, <2>2, <3>2, <4>1
    <3>3. CASE ~\E j \in i + 1 .. Len(cs) : cs[j] = Cleanup
      <4>1. rest = Found("nothing", 0) /\ rest.found = "nothing"
        BY <3>1, <3>3 DEF Found
      <4> QED BY <1>2, <1>3, <1>6, <2>2, <3>3, <4>1
    <3> QED BY <3>2, <3>3
  <2> QED BY <2>3, <2>4 DEF IsAnswer, s
<1> QED BY <1>4, <1>5, <1>6

\* The chain of records answers as the clauses do.
LEMMA ChainAnswers ==
  ASSUME NEW l, NEW e, NEW cs, NEW o \in Nat, NEW n \in Nat, Tables(l, e, cs, o, n),
         Len(cs) # 0
  PROVE  IsAnswer(cs, e, 1, Scan(l, e, o + 1))
<1> DEFINE T == {m \in 0 .. Len(cs) - 1 :
                   ~IsAnswer(cs, e, Len(cs) - m, Scan(l, e, o + (Len(cs) - m)))}
<1>1. Len(cs) \in Nat
  BY DEF Tables
<1>2. T = {}
  <2> SUFFICES ASSUME T # {} PROVE FALSE
    OBVIOUS
  <2>1. PICK m \in T : \A k \in T : m <= k
    <3>1. T \in SUBSET Nat
      OBVIOUS
    <3> HIDE DEF T
    <3> QED BY <3>1, HasLeast
  <2> DEFINE i == Len(cs) - m
  <2>2. i \in 1 .. Len(cs) /\ (i # Len(cs) => m - 1 \in 0 .. Len(cs) - 1)
        /\ Len(cs) - (m - 1) = i + 1
    BY <1>1
  <2>3. m - 1 \notin T
    <3>1. m \in Nat /\ ~(m <= m - 1)
      BY <1>1
    <3> HIDE DEF T
    <3> QED BY <2>1, <3>1
  <2>4. ~IsAnswer(cs, e, i, Scan(l, e, o + i))
    OBVIOUS
  <2>5. i # Len(cs) => IsAnswer(cs, e, i + 1, Scan(l, e, o + (i + 1)))
    BY <2>2, <2>3
  <2>6. o + (i + 1) = o + i + 1
    BY <2>2
  <2> HIDE DEF i, T
  <2> QED BY <2>2, <2>4, <2>5, <2>6, AnswerStep
<1>3. Len(cs) - 1 \in 0 .. Len(cs) - 1 /\ Len(cs) - (Len(cs) - 1) = 1
  BY <1>1
<1> QED BY <1>2, <1>3

\* What the filter of a clause tells the search is what the clause says.
LEMMA FilterMeans ==
  ASSUME NEW l, NEW e, NEW c, KnownClause(c), c.kind = "throws" => l.spec = Range(c.types)
  PROVE  /\ Takes(l, e, FilterOf(c)) <=> Accepts(c, e)
         /\ FilterOf(c) = 0 <=> c = Cleanup
         /\ FilterOf(c) \in -1 .. Len(TypeTable)
         /\ FilterOf(c) > 0 => c = Catch(TypeTable[FilterOf(c)])
         /\ FilterOf(c) < 0 => c.kind = "throws"
<1>1. Len(TypeTable) \in Nat /\ DOMAIN TypeTable = 1 .. Len(TypeTable)
  BY PersonalityAssumption, LenProperties
<1>2. CASE c = Cleanup
  <2>1. FilterOf(c) = 0 /\ c.kind = "cleanup"
    BY <1>2 DEF FilterOf, Cleanup
  <2> QED BY <1>1, <1>2, <2>1 DEF Takes, Accepts
<1>3. CASE \E i \in DOMAIN TypeTable : c = Catch(TypeTable[i])
  <2>1. PICK i \in DOMAIN TypeTable : c = Catch(TypeTable[i])
    BY <1>3
  <2>2. c.kind = "catch" /\ c.type = TypeTable[i] /\ c # Cleanup
    BY <2>1 DEF Catch, Cleanup
  <2>3. FilterOf(c) = CHOOSE j \in DOMAIN TypeTable : TypeTable[j] = c.type
    BY <2>2 DEF FilterOf
  <2>4. FilterOf(c) \in 1 .. Len(TypeTable) /\ TypeTable[FilterOf(c)] = c.type
    BY <1>1, <2>2, <2>3
  <2>5. c = Catch(c.type)
    BY <2>1, <2>2
  <2> HIDE DEF FilterOf
  <2>6. Takes(l, e, FilterOf(c)) <=> Accepts(c, e)
    BY <1>1, <2>2, <2>4 DEF Takes, Accepts
  <2> QED BY <1>1, <2>2, <2>4, <2>5, <2>6
<1>4. CASE c.kind = "throws" /\ c = Throws(c.types)
  <2>1. FilterOf(c) = -1 /\ c # Cleanup
    BY <1>4 DEF FilterOf, Cleanup
  <2>2. Accepts(c, e) <=> ~Allows(l.spec, e)
    BY <1>4 DEF Accepts
  <2>3. SpecList(l, -1) = l.spec /\ \A t : TypeEntry(l, l.base, t) = t
    BY DEF SpecList, TypeEntry
  <2>4. CheckSpec(l, l.base, e.type, -1) <=> \E s \in l.spec : Matches(s, e.type)
    BY <2>3 DEF CheckSpec
  <2>5. Takes(l, e, -1) <=> ~Allows(l.spec, e)
    BY <2>3, <2>4 DEF Takes, Allows
  <2> QED BY <1>1, <1>4, <2>1, <2>2, <2>5
<1> QED BY <1>2, <1>3, <1>4 DEF KnownClause

-----------------------------------------------------------------------------
(* The tables of a function.                                                 *)

Coded == DOMAIN Functions \cup {UNEXPECTED}

\* The last clause that catches, 0 when none does.
LastCatch(body) == SelectLastInSeq(body, LAMBDA c : c.kind = "catch")

LEMMA LastCatchIs ==
  ASSUME NEW body, Len(body) \in Nat
  PROVE  LET m == LastCatch(body)
         IN  /\ m \in 0 .. Len(body)
             /\ m # 0 => body[m].kind = "catch"
             /\ m = 0 => \A i \in 1 .. Len(body) : body[i].kind # "catch"
<1> DEFINE I == {i \in 1 .. Len(body) : body[i].kind = "catch"}
<1>1. LastCatch(body) = IF I # {} THEN Max(I) ELSE 0
  BY DEF LastCatch, SelectLastInSeq
<1>2. CASE I = {}
  BY <1>1, <1>2
<1>3. CASE I # {}
  <2>1. \E m \in I : \A i \in I : i <= m
    <3>1. I \in SUBSET (1 .. Len(body))
      OBVIOUS
    <3> HIDE DEF I
    <3> QED BY <1>3, <3>1, HasGreatest
  <2>2. Max(I) \in I
    <3>1. \E m \in I : \A i \in I : m >= i
      BY <2>1
    <3> HIDE DEF I
    <3> QED BY <3>1 DEF Max
  <2>3. Max(I) \in 1 .. Len(body) /\ body[Max(I)].kind = "catch"
    BY <2>2
  <2> HIDE DEF I
  <2> QED BY <1>1, <1>3, <2>3
<1> QED BY <1>2, <1>3

\* A body: the compiler knows its clauses, and a specification comes last.
Sound(body) ==
  /\ body \in Seq(Range(body)) /\ Len(body) \in Nat /\ DOMAIN body = 1 .. Len(body)
  /\ \A i \in 1 .. Len(body) :
       KnownClause(body[i]) /\ (body[i].kind = "throws" => i = Len(body))

LEMMA BodySound ==
  ASSUME NEW fn \in Coded
  PROVE  /\ Sound(Code(fn).body)
         /\ Code(fn).noexcept \in BOOLEAN
         /\ \A i \in 1 .. Len(Code(fn).body) :
              Code(fn).body[i].kind = "throws" => SpecOf(fn) = Range(Code(fn).body[i].types)
<1> DEFINE body == Code(fn).body
<1>1. CASE fn = UNEXPECTED
  <2>1. body = <<Catch(ALL)>> /\ Code(fn).noexcept = FALSE
    BY <1>1 DEF Code, CallUnexpectedFn
  <2>2. PICK t \in DOMAIN TypeTable : TypeTable[t] = ALL
    BY PersonalityAssumption DEF Range
  <2>3. KnownClause(body[1]) /\ body[1].kind = "catch"
    BY <2>1, <2>2 DEF KnownClause, Catch
  <2>4. Len(body) = 1 /\ DOMAIN body = 1 .. 1 /\ body \in Seq(Range(body))
    BY <2>1 DEF Range
  <2> HIDE DEF body
  <2>5. \A i \in 1 .. Len(body) : i = 1
    BY <2>4
  <2> QED BY <2>1, <2>3, <2>4, <2>5 DEF Sound, body
<1>2. CASE fn # UNEXPECTED
  <2>1. fn \in DOMAIN Functions /\ Code(fn) = Functions[fn]
    BY <1>2 DEF Code, Coded
  <2>2. /\ body \in Seq(Range(body)) /\ OneTry(body) /\ Code(fn).noexcept \in BOOLEAN
        /\ \A i \in DOMAIN body : KnownClause(body[i])
    BY <2>1, PersonalityAssumption
  <2>3. SpecOf(fn) = IF body # <<>> /\ Last(body).kind = "throws"
                     THEN Range(Last(body).types) ELSE {}
    BY DEF SpecOf
  <2> HIDE DEF body
  <2>4. Len(body) \in Nat /\ DOMAIN body = 1 .. Len(body)
    BY <2>2, LenProperties
  <2>5. \A i \in 1 .. Len(body) : body[i].kind = "throws" => i = Len(body)
    BY <2>2, <2>4 DEF OneTry
  <2>6. \A i \in 1 .. Len(body) : body # <<>>
    BY <2>2, <2>4, EmptySeq
  <2>7. \A i \in 1 .. Len(body) :
          body[i].kind = "throws" => SpecOf(fn) = Range(body[i].types)
    BY <2>3, <2>5, <2>6 DEF Last
  <2> QED BY <2>2, <2>4, <2>5, <2>7 DEF Sound, body
<1> QED BY <1>1, <1>2

LEMMA OuterIs ==
  ASSUME NEW body, Sound(body)
  PROVE  LET o == Outer(body)
         IN  /\ o \in Seq(Range(body)) /\ Len(o) \in Nat
             /\ \A i \in 1 .. Len(o) : \E k \in 1 .. Len(body) :
                  o[i] = body[k] /\ (k = Len(body) => i = Len(o))
             /\ \A k \in 1 .. Len(body) :
                  body[k].kind = "throws" /\ (\E i \in 1 .. Len(body) : body[i].kind = "catch")
                    => Len(o) # 0 /\ o[Len(o)] = body[k]
<1> DEFINE m == LastCatch(body)
           o == Outer(body)
<1>1. /\ body \in Seq(Range(body)) /\ Len(body) \in Nat /\ m \in 0 .. Len(body)
      /\ m # 0 => body[m].kind = "catch"
      /\ m = 0 => \A i \in 1 .. Len(body) : body[i].kind # "catch"
  BY LastCatchIs DEF Sound
<1>2. o = IF m = 0 THEN <<>> ELSE SubSeq(body, m + 1, Len(body))
  BY DEF Outer, LastCatch
<1> HIDE DEF m, o
<1>3. CASE m = 0
  <2>1. o \in Seq(Range(body)) /\ Len(o) = 0
    BY <1>2, <1>3, EmptySeq
  <2>2. 1 .. Len(o) = {}
    BY <2>1
  <2> QED BY <1>1, <1>3, <2>1, <2>2 DEF o
<1>4. CASE m # 0
  <2>1. m + 1 \in 1 .. Len(body) + 1 /\ Len(body) \in m + 1 - 1 .. Len(body)
    BY <1>1
  <2>2. /\ o \in Seq(Range(body)) /\ Len(o) = Len(body) - (m + 1) + 1
        /\ \A i \in 1 .. Len(body) - (m + 1) + 1 : o[i] = body[m + 1 + i - 1]
    BY <1>1, <1>2, <1>4, <2>1, SubSeqProperties
  <2>3. Len(o) = Len(body) - m /\ \A i \in 1 .. Len(o) : o[i] = body[m + i]
    BY <1>1, <2>2
  <2>4. \A i \in 1 .. Len(o) : m + i \in 1 .. Len(body) /\ (m + i = Len(body) => i = Len(o))
    BY <1>1, <2>3
  <2>5. ASSUME NEW k \in 1 .. Len(body), body[k].kind = "throws"
        PROVE  Len(o) # 0 /\ o[Len(o)] = body[k]
    <3>1. k = Len(body) /\ m # k
      BY <1>1, <1>4, <2>5 DEF Sound
    <3>2. Len(o) \in 1 .. Len(o) /\ m + Len(o) = k
      BY <1>1, <2>3, <3>1
    <3> QED BY <2>3, <3>2
  <2>6. ASSUME NEW i \in 1 .. Len(o)
        PROVE  \E k \in 1 .. Len(body) : o[i] = body[k] /\ (k = Len(body) => i = Len(o))
    BY <2>3, <2>4
  <2>7. Len(o) \in Nat
    BY <1>1, <2>3
  <2> QED BY <2>2, <2>5, <2>6, <2>7 DEF o
<1> QED BY <1>3, <1>4

\* A sequence behind one element.
LEMMA Headed ==
  ASSUME NEW S, NEW s \in Seq(S), NEW a
  PROVE  LET t == <<a>> \o s
         IN  /\ Len(t) = Len(s) + 1 /\ Len(s) \in Nat /\ DOMAIN t = 1 .. Len(s) + 1
             /\ t[1] = a /\ \A i \in 1 .. Len(s) : t[i + 1] = s[i]
<1> DEFINE U == S \cup {a}
           t == <<a>> \o s
<1>1. <<a>> \in Seq(U) /\ s \in Seq(U) /\ Len(<<a>>) = 1 /\ <<a>>[1] = a
  OBVIOUS
<1>2. /\ t \in Seq(U) /\ Len(t) = 1 + Len(s) /\ Len(s) \in Nat
      /\ \A i \in 1 .. 1 + Len(s) : t[i] = IF i <= 1 THEN <<a>>[i] ELSE s[i - 1]
  BY <1>1, ConcatProperties, LenProperties
<1> HIDE DEF t
<1>3. DOMAIN t = 1 .. Len(s) + 1
  BY <1>2, LenProperties
<1>4. \A i \in 1 .. Len(s) : t[i + 1] = s[i]
  <2> TAKE i \in 1 .. Len(s)
  <2>1. i + 1 \in 1 .. 1 + Len(s) /\ ~(i + 1 <= 1) /\ i + 1 - 1 = i
    BY <1>2
  <2> QED BY <1>2, <2>1
<1>5. t[1] = a
  BY <1>1, <1>2
<1> QED BY <1>2, <1>3, <1>4, <1>5 DEF t

\* The clauses around a call: the compiler knows them, a specification is the
\* last of them and that of the function, and inside of a function that has one
\* it is there.
LEMMA ClausesAre ==
  ASSUME NEW fn \in Coded, NEW place \in Places
  PROVE  LET cs == Clauses[fn][place]
         IN  /\ Len(cs) \in Nat /\ DOMAIN cs = 1 .. Len(cs) /\ (cs = <<>> <=> Len(cs) = 0)
             /\ \A i \in 1 .. Len(cs) :
                  /\ KnownClause(cs[i])
                  /\ cs[i].kind = "throws" => i = Len(cs) /\ SpecOf(fn) = Range(cs[i].types)
                                              /\ Specified(fn)
                  /\ cs[i].kind = "catch" => HasTry(fn)
             /\ place \notin {BODY, HANDLER} => Len(cs) = 0
             /\ Specified(fn) /\ (place = BODY \/ (place = HANDLER /\ HasTry(fn)))
                  => Len(cs) # 0 /\ cs[Len(cs)].kind = "throws"
             /\ fn = UNEXPECTED /\ place = BODY => cs = <<Catch(ALL)>>
<1> DEFINE cs == Clauses[fn][place]
           body == Code(fn).body
<1>1. /\ place = BODY => cs = body
      /\ place = HANDLER => cs = <<Cleanup>> \o Outer(body)
      /\ place \notin {BODY, HANDLER} => cs = <<>>
  <2>1. place = BODY => cs = body
    BY DEF Clauses, Coded, Places, BODY, HANDLER
  <2>2. place = HANDLER => cs = <<Cleanup>> \o Outer(body)
    BY DEF Clauses, Coded, Places, BODY, HANDLER
  <2>3. place \notin {BODY, HANDLER} => cs = <<>>
    BY DEF Clauses, Coded, Places
  <2> QED BY <2>1, <2>2, <2>3
<1>2. Sound(body) /\ \A i \in 1 .. Len(body) :
        body[i].kind = "throws" => SpecOf(fn) = Range(body[i].types)
  BY BodySound
<1>3. \A i \in 1 .. Len(body) : body[i].kind = "throws" => i = Len(body) /\ Specified(fn)
  <2> SUFFICES ASSUME NEW i \in 1 .. Len(body), body[i].kind = "throws"
               PROVE  i = Len(body) /\ Specified(fn)
    OBVIOUS
  <2>1. i = Len(body) /\ body # <<>> /\ Last(body).kind = "throws"
    BY <1>2, EmptySeq DEF Sound, Last
  <2>2. fn # UNEXPECTED
    BY <2>1 DEF Code, CallUnexpectedFn, Catch, Last
  <2> QED BY <2>1, <2>2, PersonalityAssumption DEF Specified, Coded
<1>4. HasTry(fn) <=> \E i \in 1 .. Len(body) : body[i].kind = "catch"
  BY <1>2 DEF HasTry, Sound
<1>5. Specified(fn) => Len(body) # 0 /\ Len(body) \in 1 .. Len(body)
                       /\ body[Len(body)].kind = "throws"
  BY <1>2, EmptySeq DEF Specified, Sound, Last
<1>6. fn = UNEXPECTED => body = <<Catch(ALL)>>
  BY DEF Code, CallUnexpectedFn
<1> HIDE DEF cs, body
<1>7. CASE place = BODY
  <2>1. cs = body
    BY <1>1, <1>7
  <2>2. \A i \in 1 .. Len(body) : body[i].kind = "catch" => HasTry(fn)
    BY <1>4
  <2>3. Len(body) \in Nat /\ DOMAIN body = 1 .. Len(body) /\ (body = <<>> <=> Len(body) = 0)
    BY <1>2, EmptySeq DEF Sound
  <2>4. \A i \in 1 .. Len(body) : KnownClause(body[i])
    BY <1>2 DEF Sound
  <2> QED BY <1>2, <1>3, <1>5, <1>6, <1>7, <2>1, <2>2, <2>3, <2>4 DEF cs
<1>8. CASE place = HANDLER
  <2> DEFINE o == Outer(body)
  <2>1. /\ o \in Seq(Range(body)) /\ Len(o) \in Nat
        /\ \A i \in 1 .. Len(o) : \E k \in 1 .. Len(body) :
             o[i] = body[k] /\ (k = Len(body) => i = Len(o))
        /\ \A k \in 1 .. Len(body) :
             body[k].kind = "throws" /\ (\E i \in 1 .. Len(body) : body[i].kind = "catch")
               => Len(o) # 0 /\ o[Len(o)] = body[k]
    BY <1>2, OuterIs
  <2>2. cs = <<Cleanup>> \o o
    BY <1>1, <1>8
  <2> HIDE DEF o
  <2>3. /\ Len(cs) = Len(o) + 1 /\ DOMAIN cs = 1 .. Len(cs)
        /\ cs[1] = Cleanup /\ \A i \in 1 .. Len(o) : cs[i + 1] = o[i]
    BY <2>1, <2>2, Headed
  <2>4. cs # <<>>
    BY <2>1, <2>3
  <2>5. ASSUME NEW i \in 1 .. Len(cs)
        PROVE  /\ KnownClause(cs[i])
               /\ cs[i].kind = "throws" => i = Len(cs) /\ SpecOf(fn) = Range(cs[i].types)
                                           /\ Specified(fn)
               /\ cs[i].kind = "catch" => HasTry(fn)
    <3>1. CASE i = 1
      BY <2>3, <3>1 DEF KnownClause, Cleanup
    <3>2. CASE i # 1
      <4>1. i - 1 \in 1 .. Len(o) /\ cs[i] = o[i - 1]
        BY <2>1, <2>3, <3>2
      <4>2. PICK k \in 1 .. Len(body) : o[i - 1] = body[k] /\ (k = Len(body) => i - 1 = Len(o))
        BY <2>1, <4>1
      <4>3. cs[i] = body[k] /\ (k = Len(body) => i = Len(cs))
        BY <2>1, <2>3, <4>1, <4>2
      <4>4. KnownClause(body[k])
        BY <1>2 DEF Sound
      <4>5. body[k].kind = "throws" => k = Len(body) /\ SpecOf(fn) = Range(body[k].types)
                                        /\ Specified(fn)
        BY <1>2, <1>3
      <4>6. body[k].kind = "catch" => HasTry(fn)
        BY <1>4
      <4> QED BY <4>3, <4>4, <4>5, <4>6
    <3> QED BY <3>1, <3>2
  <2>6. ASSUME Specified(fn), HasTry(fn)
        PROVE  Len(cs) # 0 /\ cs[Len(cs)].kind = "throws"
    <3>1. Len(o) # 0 /\ o[Len(o)].kind = "throws"
      BY <1>4, <1>5, <2>1, <2>6
    <3> QED BY <2>1, <2>3, <3>1
  <2>7. place # BODY /\ Len(cs) \in Nat /\ Len(cs) # 0
    BY <1>8, <2>1, <2>3 DEF BODY, HANDLER
  <2> QED BY <1>8, <2>3, <2>4, <2>5, <2>6, <2>7 DEF cs
<1>9. CASE place \notin {BODY, HANDLER}
  <2>1. cs = <<>> /\ Len(cs) = 0 /\ DOMAIN cs = 1 .. 0
    BY <1>1, <1>9
  <2>2. 1 .. Len(cs) = {} /\ place # BODY /\ place # HANDLER
    BY <1>9, <2>1
  <2> QED BY <2>1, <2>2 DEF cs
<1> QED BY <1>7, <1>8, <1>9

\* The first clause that accepts e, 0 when none does.
FirstOf(cs, e) == SelectInSeq(cs, LAMBDA c : Accepts(c, e))

LEMMA FirstOfIs ==
  ASSUME NEW cs, Len(cs) \in Nat, NEW e
  PROVE  LET i == FirstOf(cs, e)
         IN  /\ i \in 0 .. Len(cs)
             /\ i # 0 => Accepts(cs[i], e) /\ \A k \in 1 .. i - 1 : ~Accepts(cs[k], e)
             /\ i = 0 => \A k \in 1 .. Len(cs) : ~Accepts(cs[k], e)
<1> DEFINE I == {i \in 1 .. Len(cs) : Accepts(cs[i], e)}
<1>1. FirstOf(cs, e) = IF I # {} THEN Min(I) ELSE 0
  BY DEF FirstOf, SelectInSeq
<1>2. CASE I = {}
  BY <1>1, <1>2
<1>3. CASE I # {}
  <2>1. \E m \in I : \A i \in I : m <= i
    <3>1. I \in SUBSET Nat
      OBVIOUS
    <3> HIDE DEF I
    <3> QED BY <1>3, <3>1, HasLeast
  <2>2. Min(I) \in I /\ \A i \in I : Min(I) <= i
    <3> HIDE DEF I
    <3> QED BY <2>1 DEF Min
  <2>3. Min(I) \in 1 .. Len(cs) /\ Accepts(cs[Min(I)], e)
    BY <2>2
  <2> DEFINE m == Min(I)
  <2>4. \A k \in 1 .. m - 1 : ~Accepts(cs[k], e)
    <3> SUFFICES ASSUME NEW k \in 1 .. m - 1, Accepts(cs[k], e) PROVE FALSE
      OBVIOUS
    <3>1. k \in 1 .. Len(cs) /\ ~(m <= k)
      BY <2>3
    <3>2. k \in I
      BY <3>1
    <3> QED BY <2>2, <3>1, <3>2
  <2>5. FirstOf(cs, e) = m
    BY <1>1, <1>3
  <2> HIDE DEF m, I, FirstOf
  <2> QED BY <2>3, <2>4, <2>5 DEF m
<1> QED BY <1>2, <1>3

\* The records of the clauses around the body come before those of the clauses
\* around the handlers.
LEMMA LsdaIs ==
  ASSUME NEW fn \in Coded, NEW e
  PROVE  LET cb == Clauses[fn][BODY]
             ch == Clauses[fn][HANDLER]
         IN  /\ Tables(Lsda[fn], e, cb, 0, Len(cb) + Len(ch))
             /\ Tables(Lsda[fn], e, ch, Len(cb), Len(cb) + Len(ch))
             /\ Lsda[fn].spec = SpecOf(fn) /\ Lsda[fn].base = fn
<1> DEFINE cb == Clauses[fn][BODY]
           ch == Clauses[fn][HANDLER]
           n  == Len(cb) + Len(ch)
           l  == Lsda[fn]
           Good(cs) == /\ Len(cs) \in Nat /\ DOMAIN cs = 1 .. Len(cs)
                       /\ \A i \in 1 .. Len(cs) :
                            /\ KnownClause(cs[i])
                            /\ cs[i].kind = "throws" => SpecOf(fn) = Range(cs[i].types)
<1>1. Good(cb)
  <2>1. BODY \in Places
    BY DEF Places, BODY, RESUME
  <2> QED BY <2>1, ClausesAre
<1>2. Good(ch)
  <2>1. HANDLER \in Places
    BY DEF Places, BODY, HANDLER, RESUME
  <2> QED BY <2>1, ClausesAre
<1>3. /\ l.actions = Records(cb, 1) \o Records(ch, Len(cb) + 1)
      /\ l.spec = SpecOf(fn) /\ l.base = fn
  BY DEF Lsda, Coded
<1> HIDE DEF cb, ch, l
<1> DEFINE rb == Records(cb, 1)
           rh == Records(ch, Len(cb) + 1)
           R  == Range(rb) \cup Range(rh)
<1>4. rb \in Seq(R) /\ Len(rb) = Len(cb)
  <2>1. rb = [i \in 1 .. Len(cb) |-> rb[i]] /\ \A i \in 1 .. Len(cb) : rb[i] \in R
    BY <1>1 DEF Records, Range
  <2> HIDE DEF rb, R
  <2>2. rb \in Seq(R)
    BY <1>1, <2>1
  <2> QED BY <1>1, <2>1, <2>2, LenProperties
<1>5. rh \in Seq(R) /\ Len(rh) = Len(ch)
  <2>1. rh = [i \in 1 .. Len(ch) |-> rh[i]] /\ \A i \in 1 .. Len(ch) : rh[i] \in R
    BY <1>2 DEF Records, Range
  <2> HIDE DEF rh, R
  <2>2. rh \in Seq(R)
    BY <1>2, <2>1
  <2> QED BY <1>2, <2>1, <2>2, LenProperties
<1>6. /\ DOMAIN l.actions = 1 .. n
      /\ \A i \in 1 .. n : l.actions[i] = IF i <= Len(cb) THEN rb[i] ELSE rh[i - Len(cb)]
  <2>1. l.actions \in Seq(R) /\ Len(l.actions) = n
        /\ \A i \in 1 .. n : l.actions[i] = IF i <= Len(rb) THEN rb[i] ELSE rh[i - Len(rb)]
    <3>1. l.actions = rb \o rh
      BY <1>3
    <3> HIDE DEF R, rb, rh
    <3>2. Len(rb) + Len(rh) = n
      BY <1>4, <1>5
    <3>3. /\ rb \o rh \in Seq(R) /\ Len(rb \o rh) = Len(rb) + Len(rh)
          /\ \A i \in 1 .. Len(rb) + Len(rh) :
               (rb \o rh)[i] = IF i <= Len(rb) THEN rb[i] ELSE rh[i - Len(rb)]
      BY <1>4, <1>5, ConcatProperties
    <3> HIDE DEF n
    <3> QED BY <3>1, <3>2, <3>3
  <2> HIDE DEF R, rb, rh
  <2> QED BY <1>4, <2>1, LenProperties
<1>7. \A i \in 1 .. Len(cb) : l.actions[i] =
        [filter |-> FilterOf(cb[i]), next |-> IF i = Len(cb) THEN 0 ELSE i + 1]
  <2> TAKE i \in 1 .. Len(cb)
  <2>1. l.actions[i] = rb[i]
    <3> HIDE DEF rb, rh
    <3> QED BY <1>1, <1>2, <1>6
  <2>2. rb[i] = [filter |-> FilterOf(cb[i]), next |-> IF i = Len(cb) THEN 0 ELSE 1 + i]
    BY <1>1 DEF Records
  <2>3. 1 + i = i + 1
    BY <1>1
  <2> QED BY <2>1, <2>2, <2>3
<1>8. \A i \in 1 .. Len(ch) : l.actions[Len(cb) + i] =
        [filter |-> FilterOf(ch[i]), next |-> IF i = Len(ch) THEN 0 ELSE Len(cb) + i + 1]
  <2> TAKE i \in 1 .. Len(ch)
  <2>1. /\ Len(cb) + i \in 1 .. n /\ ~(Len(cb) + i <= Len(cb)) /\ Len(cb) + i - Len(cb) = i
        /\ Len(cb) + 1 + i = Len(cb) + i + 1
    BY <1>1, <1>2
  <2>2. l.actions[Len(cb) + i] = rh[i]
    <3> HIDE DEF rb, rh
    <3> QED BY <1>6, <2>1
  <2>3. rh[i] = [filter |-> FilterOf(ch[i]), next |-> IF i = Len(ch) THEN 0 ELSE Len(cb) + 1 + i]
    BY <1>2 DEF Records
  <2> QED BY <2>1, <2>2, <2>3
<1> HIDE DEF rb, rh, R
<1>9. Forward(l, n)
  <2> SUFFICES ASSUME NEW a \in 1 .. n
               PROVE  l.actions[a].next = 0 \/ l.actions[a].next \in a + 1 .. n
    BY <1>6 DEF Forward
  <2>1. CASE a <= Len(cb)
    <3>1. a \in 1 .. Len(cb) /\ (a # Len(cb) => a + 1 \in a + 1 .. n)
      BY <1>1, <1>2, <2>1
    <3>2. l.actions[a].next = IF a = Len(cb) THEN 0 ELSE a + 1
      <4> DEFINE x == FilterOf(cb[a])
      <4>1. l.actions[a] = [filter |-> x, next |-> IF a = Len(cb) THEN 0 ELSE a + 1]
        BY <1>7, <3>1
      <4> HIDE DEF x
      <4> QED BY <4>1
    <3> QED BY <3>1, <3>2
  <2>2. CASE ~(a <= Len(cb))
    <3> DEFINE i == a - Len(cb)
    <3>1. i \in 1 .. Len(ch) /\ Len(cb) + i = a /\ (i # Len(ch) => a + 1 \in a + 1 .. n)
      BY <1>1, <1>2, <2>2
    <3>2. l.actions[a].next = IF i = Len(ch) THEN 0 ELSE a + 1
      <4> DEFINE x == FilterOf(ch[i])
      <4>1. l.actions[Len(cb) + i] =
              [filter |-> x, next |-> IF i = Len(ch) THEN 0 ELSE Len(cb) + i + 1]
        BY <1>8, <3>1
      <4> HIDE DEF x, i
      <4> QED BY <3>1, <4>1
    <3> QED BY <3>1, <3>2
  <2> QED BY <2>1, <2>2
<1>10. \A cs : Good(cs) => \A i \in 1 .. Len(cs) :
         /\ Takes(l, e, FilterOf(cs[i])) <=> Accepts(cs[i], e)
         /\ FilterOf(cs[i]) = 0 <=> cs[i] = Cleanup
  <2> SUFFICES ASSUME NEW cs, Good(cs), NEW i \in 1 .. Len(cs)
               PROVE  /\ Takes(l, e, FilterOf(cs[i])) <=> Accepts(cs[i], e)
                      /\ FilterOf(cs[i]) = 0 <=> cs[i] = Cleanup
    OBVIOUS
  <2>1. KnownClause(cs[i]) /\ (cs[i].kind = "throws" => l.spec = Range(cs[i].types))
    BY <1>3
  <2> QED BY <2>1, FilterMeans
<1>11. Tables(l, e, cb, 0, n)
  <2>1. 0 + Len(cb) <= n /\ \A i \in 1 .. Len(cb) : 0 + i = i
    BY <1>1, <1>2
  <2> QED BY <1>1, <1>7, <1>9, <1>10, <2>1 DEF Tables
<1>12. Tables(l, e, ch, Len(cb), n)
  <2>1. Len(cb) + Len(ch) <= n
    BY <1>1, <1>2
  <2> QED BY <1>2, <1>8, <1>9, <1>10, <2>1 DEF Tables
<1> QED BY <1>3, <1>11, <1>12 DEF cb, ch, l

LEMMA FourOf ==
  ASSUME NEW a, NEW b, NEW c, NEW d, NEW t, t = <<a>> \o <<b, c, d>>
  PROVE  DOMAIN t = 1 .. 4 /\ t[1] = a /\ t[2] = b /\ t[3] = c /\ t[4] = d
<1> DEFINE s == <<b, c, d>>
           S == {b, c, d}
<1>1. s \in Seq(S) /\ Len(s) = 3 /\ s[1] = b /\ s[2] = c /\ s[3] = d /\ t = <<a>> \o s
  OBVIOUS
<1> HIDE DEF s, S
<1>2. /\ Len(t) = Len(s) + 1 /\ DOMAIN t = 1 .. Len(t) /\ t[1] = a
      /\ \A i \in 1 .. Len(s) : t[i + 1] = s[i]
  BY <1>1, Headed
<1>3. t[1 + 1] = b /\ t[2 + 1] = c /\ t[3 + 1] = d
  BY <1>1, <1>2
<1> QED BY <1>1, <1>2, <1>3

\* A listed place is in one call site, any other in none.
LEMMA SitesAre ==
  ASSUME NEW fn \in Coded, NEW place \in Places
  PROVE  /\ ~Listed(fn, place) => SitesAt(Lsda[fn], place) = {}
         /\ Listed(fn, place) => \E i : SitesAt(Lsda[fn], place) = {i} /\
              Lsda[fn].sites[i] =
                IF place = BODY THEN Site(fn, place, "pad 1", 1)
                ELSE IF place = HANDLER
                THEN Site(fn, place, "pad 2", Len(Clauses[fn][BODY]) + 1)
                ELSE Site(fn, place, NOPAD, 0)
<1> DEFINE l == Lsda[fn]
           A == Site(fn, BODY, "pad 1", 1)
           B == Site(fn, HANDLER, "pad 2", Len(Clauses[fn][BODY]) + 1)
           C == Site(fn, SPEC, NOPAD, 0)
           D == Site(fn, RESUME, NOPAD, 0)
<1>1. l.sites = (IF Code(fn).noexcept THEN <<>> ELSE <<A>>) \o <<B, C, D>>
  BY DEF Lsda, Coded
<1>2. /\ A.start = 1 /\ A.len = 1 /\ B.start = 3 /\ B.len = 1
      /\ C.start = 4 /\ C.len = 1 /\ D.start = 5 /\ D.len = 1
  BY DEF Site, BODY, HANDLER, SPEC, RESUME
<1>3. /\ place \in {1, 2, 3, 4, 5}
      /\ Listed(fn, place) <=> place # 2 /\ ~(place = 1 /\ Code(fn).noexcept)
  BY DEF Places, BODY, RESUME, Listed, DTOR
<1>4. /\ place = 1 => A = Site(fn, place, "pad 1", 1) /\ place = BODY
      /\ place = 3 => /\ B = Site(fn, place, "pad 2", Len(Clauses[fn][BODY]) + 1)
                      /\ place # BODY /\ place = HANDLER
      /\ place = 4 => C = Site(fn, place, NOPAD, 0) /\ place # BODY /\ place # HANDLER
      /\ place = 5 => D = Site(fn, place, NOPAD, 0) /\ place # BODY /\ place # HANDLER
  <2>1. BODY = 1 /\ HANDLER = 3 /\ SPEC = 4 /\ RESUME = 5
    BY DEF BODY, HANDLER, SPEC, RESUME
  <2>2. ASSUME place = 1
        PROVE  A = Site(fn, place, "pad 1", 1) /\ place = BODY
    BY <2>1, <2>2
  <2>3. ASSUME place = 3
        PROVE  /\ B = Site(fn, place, "pad 2", Len(Clauses[fn][BODY]) + 1)
               /\ place # BODY /\ place = HANDLER
    BY <2>1, <2>3
  <2>4. ASSUME place = 4
        PROVE  C = Site(fn, place, NOPAD, 0) /\ place # BODY /\ place # HANDLER
    BY <2>1, <2>4
  <2>5. ASSUME place = 5
        PROVE  D = Site(fn, place, NOPAD, 0) /\ place # BODY /\ place # HANDLER
    BY <2>1, <2>5
  <2> HIDE DEF A, B, C, D
  <2> QED BY <2>2, <2>3, <2>4, <2>5
<1> HIDE DEF l, A, B, C, D
<1>5. CASE Code(fn).noexcept
  <2>1. l.sites = <<B, C, D>>
    BY <1>1, <1>5
  <2>2. /\ DOMAIN l.sites = 1 .. 3
        /\ l.sites[1] = B /\ l.sites[2] = C /\ l.sites[3] = D
    BY <2>1
  <2>3. \A i \in 1 .. 3 : l.sites[i].start = i + 2 /\ l.sites[i].len = 1
    BY <1>2, <2>2
  <2>4. ASSUME NEW i \in 1 .. 3
        PROVE  i + 2 = place <=>
                 /\ l.sites[i].start <= place /\ place < l.sites[i].start + l.sites[i].len
                 /\ \A j \in 1 .. i - 1 : place >= l.sites[j].start
    <3>1. \A j \in 1 .. i - 1 : j \in 1 .. 3 /\ j < i
      OBVIOUS
    <3>2. \A j \in 1 .. i - 1 : l.sites[j].start < i + 2
      BY <2>3, <3>1
    <3>3. \A j \in 1 .. i - 1 : l.sites[j].start \in Int
      BY <2>3, <3>1
    <3> QED BY <1>3, <2>3, <3>2, <3>3
  <2>5. SitesAt(l, place) = {i \in 1 .. 3 : i + 2 = place}
    BY <2>2, <2>4 DEF SitesAt
  <2>6. place \in {1, 2} => SitesAt(l, place) = {}
    BY <2>5
  <2>7. place \in {3, 4, 5} => SitesAt(l, place) = {place - 2}
    BY <2>5
  <2>8. /\ place = 3 => SitesAt(l, place) = {1}
        /\ place = 4 => SitesAt(l, place) = {2}
        /\ place = 5 => SitesAt(l, place) = {3}
    BY <2>7
  <2> QED BY <1>3, <1>4, <1>5, <2>2, <2>6, <2>8 DEF l
<1>6. CASE ~Code(fn).noexcept
  <2>1. l.sites = <<A>> \o <<B, C, D>>
    BY <1>1, <1>6
  <2>2. /\ DOMAIN l.sites = 1 .. 4 /\ l.sites[1] = A
        /\ l.sites[2] = B /\ l.sites[3] = C /\ l.sites[4] = D
    BY <2>1, FourOf
  <2>3. \A i \in 1 .. 4 : l.sites[i].start = (IF i = 1 THEN 1 ELSE i + 1) /\ l.sites[i].len = 1
    BY <1>2, <2>2
  <2>4. ASSUME NEW i \in 1 .. 4
        PROVE  (IF i = 1 THEN 1 ELSE i + 1) = place <=>
                 /\ l.sites[i].start <= place /\ place < l.sites[i].start + l.sites[i].len
                 /\ \A j \in 1 .. i - 1 : place >= l.sites[j].start
    <3>1. \A j \in 1 .. i - 1 : j \in 1 .. 4 /\ j < i
      OBVIOUS
    <3>2. \A j \in 1 .. i - 1 : l.sites[j].start < (IF i = 1 THEN 1 ELSE i + 1)
      BY <2>3, <3>1
    <3>3. \A j \in 1 .. i - 1 : l.sites[j].start \in Int
      BY <2>3, <3>1
    <3> QED BY <1>3, <2>3, <3>2, <3>3
  <2>5. SitesAt(l, place) = {i \in 1 .. 4 : (IF i = 1 THEN 1 ELSE i + 1) = place}
    BY <2>2, <2>4 DEF SitesAt
  <2>6. /\ place = 2 => SitesAt(l, place) = {}
        /\ place = 1 => SitesAt(l, place) = {1}
        /\ place = 3 => SitesAt(l, place) = {2}
        /\ place = 4 => SitesAt(l, place) = {3}
        /\ place = 5 => SitesAt(l, place) = {4}
    BY <2>5
  <2> QED BY <1>3, <1>4, <1>6, <2>2, <2>6 DEF l
<1> QED BY <1>5, <1>6

\* The search through the tables, and what it answers: the first clause of the
\* frame that accepts the exception, or a cleanup, or nothing; the end of the
\* program where no exception may come from.
LEMMA SearchIs ==
  ASSUME NEW f \in FrameT
  PROVE  \E p : \A e : LET r == Search(f, e) IN
           /\ MustNotThrow(f) => r = WithPad(Found("terminate", 0), NOPAD)
           /\ ~MustNotThrow(f) =>
                \E a : /\ r = WithPad(a, p) /\ IsAnswer(ClausesOf(f), e, 1, a)
                       /\ a.found # "nothing" => p # NOPAD
<1> DEFINE fn == f.fn
           place == f.place
           cs == ClausesOf(f)
<1>1. fn \in Fns /\ place \in Places
  BY DEF FrameT
<1>2. CASE fn = NONE
  <2>1. ~MustNotThrow(f) /\ cs = <<>>
    BY <1>2 DEF MustNotThrow, ClausesOf
  <2>2. \A e : Search(f, e) = WithPad(Found("nothing", 0), NOPAD)
    BY <1>2 DEF Search
  <2>3. \A e : IsAnswer(<<>>, e, 1, Found("nothing", 0))
    BY DEF IsAnswer
  <2> QED BY <2>1, <2>2, <2>3 DEF Found
<1>3. CASE fn # NONE
  <2> DEFINE l == Lsda[fn]
             cb == Clauses[fn][BODY]
             ch == Clauses[fn][HANDLER]
             hit == SitesAt(l, place)
             p == l.sites[CHOOSE i \in hit : TRUE].pad
  <2>1. fn \in Coded /\ cs = Clauses[fn][place] /\ Position(f) = place
        /\ (MustNotThrow(f) <=> ~Listed(fn, place))
    <3>1. fn \in Coded
      BY <1>1, <1>3 DEF Fns, Coded
    <3>2. cs = Clauses[fn][place] /\ (MustNotThrow(f) <=> ~Listed(fn, place))
      BY <1>3 DEF ClausesOf, MustNotThrow
    <3>3. place \in Int
      BY <1>1 DEF Places, BODY, RESUME
    <3>4. Position(f) = place
      BY <3>3 DEF Position, GetIP
    <3> QED BY <3>1, <3>2, <3>4
  <2>2. \A e : Search(f, e) =
          IF hit = {} THEN WithPad(Found("terminate", 0), NOPAD)
          ELSE WithPad(AtSite(l, e, l.sites[CHOOSE i \in hit : TRUE]), p)
    BY <1>3, <2>1 DEF Search
  <2>3. CASE ~Listed(fn, place)
    BY <1>1, <2>1, <2>2, <2>3, SitesAre
  <2>4. CASE Listed(fn, place)
    <3> DEFINE first == IF place = BODY THEN 1
                        ELSE IF place = HANDLER THEN Len(cb) + 1 ELSE 0
               pad == IF place = BODY THEN "pad 1"
                      ELSE IF place = HANDLER THEN "pad 2" ELSE NOPAD
               s == Site(fn, place, pad, first)
    <3>1. hit # {} /\ l.sites[CHOOSE i \in hit : TRUE] = s
      <4>1. PICK i : hit = {i} /\ l.sites[i] =
                IF place = BODY THEN Site(fn, place, "pad 1", 1)
                ELSE IF place = HANDLER THEN Site(fn, place, "pad 2", Len(cb) + 1)
                ELSE Site(fn, place, NOPAD, 0)
        BY <1>1, <2>1, <2>4, SitesAre
      <4>2. (CHOOSE j \in {i} : TRUE) = i
        OBVIOUS
      <4> QED BY <4>1, <4>2
    <3>2. /\ s.pad = IF cs = <<>> THEN NOPAD ELSE pad
          /\ s.action = IF \A i \in DOMAIN cs : cs[i] = Cleanup THEN 0 ELSE first
      BY <2>1 DEF Site
    <3>3. /\ Len(cs) \in Nat /\ DOMAIN cs = 1 .. Len(cs) /\ (cs = <<>> <=> Len(cs) = 0)
          /\ place \notin {BODY, HANDLER} => Len(cs) = 0
      BY <1>1, <2>1, ClausesAre
    <3> HIDE DEF s
    <3> SUFFICES ASSUME NEW e
                 PROVE  \E a : /\ Search(f, e) = WithPad(a, s.pad) /\ IsAnswer(cs, e, 1, a)
                               /\ a.found # "nothing" => s.pad # NOPAD
      BY <2>1, <2>4, <3>1
    <3> DEFINE a == AtSite(l, e, s)
    <3>4. Search(f, e) = WithPad(a, s.pad)
      BY <2>2, <3>1
    <3>5. CASE cs = <<>>
      <4>1. a = Found("nothing", 0)
        BY <3>2, <3>5 DEF AtSite
      <4>2. IsAnswer(cs, e, 1, Found("nothing", 0))
        BY <3>3, <3>5 DEF IsAnswer
      <4> QED BY <3>4, <4>1, <4>2 DEF Found
    <3>6. CASE cs # <<>>
      <4>1. Len(cs) # 0 /\ place \in {BODY, HANDLER} /\ s.pad # NOPAD /\ first # 0
        <5>1. Len(cs) # 0 /\ place \in {BODY, HANDLER} /\ s.pad = pad
          BY <3>2, <3>3, <3>6
        <5>2. pad # NOPAD
          BY <5>1 DEF NOPAD
        <5>3. Len(cb) \in Nat
          <6>1. BODY \in Places
            BY DEF Places, BODY, RESUME
          <6> QED BY <2>1, <6>1, ClausesAre
        <5>4. first # 0
          <6>1. first = 1 \/ first = Len(cb) + 1
            BY <5>1
          <6> HIDE DEF first, cb
          <6> QED BY <5>3, <6>1
        <5> QED BY <5>1, <5>2, <5>4
      <4>2. CASE \A i \in DOMAIN cs : cs[i] = Cleanup
        <5>1. a = Found("cleanup", 0)
          BY <3>2, <4>1, <4>2 DEF AtSite
        <5>2. \A i \in 1 .. Len(cs) : ~Accepts(cs[i], e)
          BY <3>3, <4>2 DEF Accepts, Cleanup
        <5>3. 1 \in 1 .. Len(cs) /\ cs[1] = Cleanup
          BY <3>3, <4>1, <4>2
        <5>4. IsAnswer(cs, e, 1, Found("cleanup", 0))
          BY <3>3, <5>2, <5>3 DEF IsAnswer
        <5> QED BY <3>4, <4>1, <5>1, <5>4
      <4>3. CASE ~\A i \in DOMAIN cs : cs[i] = Cleanup
        <5>1. a = Scan(l, e, first)
          BY <3>2, <4>1, <4>3 DEF AtSite
        <5>2. IsAnswer(cs, e, 1, Scan(l, e, first))
          <6>0. /\ Tables(l, e, cb, 0, Len(cb) + Len(ch))
                /\ Tables(l, e, ch, Len(cb), Len(cb) + Len(ch))
            BY <2>1, LsdaIs
          <6>1. Len(cb) \in Nat /\ Len(ch) \in Nat
            BY <6>0 DEF Tables
          <6> HIDE DEF l, cb, ch
          <6>2. CASE place = BODY
            <7> DEFINE o == 0
            <7>1. cs = cb /\ first = o + 1 /\ o \in Nat /\ Tables(l, e, cb, o, Len(cb) + Len(ch))
              BY <2>1, <6>0, <6>2 DEF cb
            <7> HIDE DEF o, first
            <7> QED BY <4>1, <6>0, <6>1, <7>1, ChainAnswers
          <6>3. CASE place = HANDLER
            <7>1. cs = ch /\ first = Len(cb) + 1
              BY <2>1, <6>3 DEF ch, BODY, HANDLER
            <7> QED BY <4>1, <6>0, <6>1, <7>1, ChainAnswers
          <6> QED BY <4>1, <6>2, <6>3
        <5> QED BY <3>4, <4>1, <5>1, <5>2
      <4> QED BY <4>2, <4>3
    <3> QED BY <3>5, <3>6
  <2> QED BY <2>3, <2>4
<1> QED BY <1>2, <1>3

LEMMA ClausesOfAre ==
  ASSUME NEW f \in FrameT
  PROVE  LET cs == ClausesOf(f)
         IN  /\ f.fn \in Fns /\ f.place \in Places
             /\ Len(cs) \in Nat /\ DOMAIN cs = 1 .. Len(cs)
             /\ \A i \in 1 .. Len(cs) :
                  /\ KnownClause(cs[i]) /\ f.fn # NONE /\ f.place \in {BODY, HANDLER}
                  /\ cs[i].kind = "throws" => i = Len(cs) /\ SpecOf(f.fn) = Range(cs[i].types)
                                              /\ Specified(f.fn)
                  /\ cs[i].kind = "catch" => HasTry(f.fn)
             /\ Specified(f.fn) /\ (f.place = BODY \/ (f.place = HANDLER /\ HasTry(f.fn)))
                  => Len(cs) # 0 /\ cs[Len(cs)].kind = "throws"
             /\ f.fn = UNEXPECTED /\ f.place = BODY => cs = <<Catch(ALL)>>
<1> DEFINE fn == f.fn
           place == f.place
           cs == ClausesOf(f)
<1>1. fn \in Fns /\ place \in Places
  BY DEF FrameT
<1>2. CASE fn = NONE
  <2>1. cs = <<>>
    BY <1>2 DEF ClausesOf
  <2>2. Len(cs) = 0 /\ DOMAIN cs = 1 .. Len(cs) /\ 1 .. Len(cs) = {}
    BY <2>1
  <2>3. ~Specified(fn) /\ fn # UNEXPECTED
    BY <1>2, PersonalityAssumption DEF Specified
  <2> HIDE DEF fn, place, cs
  <2>4. Len(cs) \in Nat
    BY <2>2
  <2> QED BY <1>1, <2>2, <2>3, <2>4 DEF fn, place, cs
<1>3. CASE fn # NONE
  <2> DEFINE ds == Clauses[fn][place]
  <2>1. fn \in Coded /\ cs = ds
    BY <1>1, <1>3 DEF Fns, Coded, ClausesOf
  <2>2. /\ Len(ds) \in Nat /\ DOMAIN ds = 1 .. Len(ds)
        /\ \A i \in 1 .. Len(ds) :
             /\ KnownClause(ds[i])
             /\ ds[i].kind = "throws" => i = Len(ds) /\ SpecOf(fn) = Range(ds[i].types)
                                         /\ Specified(fn)
             /\ ds[i].kind = "catch" => HasTry(fn)
        /\ place \notin {BODY, HANDLER} => Len(ds) = 0
        /\ Specified(fn) /\ (place = BODY \/ (place = HANDLER /\ HasTry(fn)))
             => Len(ds) # 0 /\ ds[Len(ds)].kind = "throws"
        /\ fn = UNEXPECTED /\ place = BODY => ds = <<Catch(ALL)>>
    BY <1>1, <2>1, ClausesAre
  <2> HIDE DEF ds, cs, fn, place
  <2>3. \A i \in 1 .. Len(ds) : place \in {BODY, HANDLER}
    <3>1. place \notin {BODY, HANDLER} => 1 .. Len(ds) = {}
      BY <2>2
    <3> QED BY <3>1
  <2> QED BY <1>1, <1>3, <2>1, <2>2, <2>3 DEF cs, fn, place
<1> QED BY <1>2, <1>3

\* What a frame has for e, by its clauses.
LEMMA HandlesIs ==
  ASSUME NEW f \in FrameT, NEW e
  PROVE  LET r  == Search(f, e)
             cs == ClausesOf(f)
             i  == FirstOf(cs, e)
         IN  /\ r.found \in {"handler", "terminate", "cleanup", "nothing"}
             /\ Handles(f, e) <=> r.found \in {"handler", "terminate"}
             /\ r.found = "terminate" <=> MustNotThrow(f)
             /\ r.found = "terminate" => r.pad = NOPAD
             /\ r.found = "handler" => /\ i \in 1 .. Len(cs) /\ r.switch = FilterOf(cs[i])
                                       /\ Accepts(cs[i], e) /\ r.pad # NOPAD
             /\ r.found # "handler" => r.switch = 0
             /\ r.found = "cleanup" => \E j \in 1 .. Len(cs) : cs[j] = Cleanup
             /\ r.found = "nothing" => \A j \in 1 .. Len(cs) : cs[j] # Cleanup
<1> DEFINE r  == Search(f, e)
           cs == ClausesOf(f)
           i  == FirstOf(cs, e)
<1>1. Len(cs) \in Nat /\ DOMAIN cs = 1 .. Len(cs)
  BY ClausesOfAre
<1>2. Handles(f, e) <=> MustNotThrow(f) \/ \E j \in 1 .. Len(cs) : Accepts(cs[j], e)
  BY <1>1 DEF Handles
<1>3. PICK p : /\ MustNotThrow(f) => r = WithPad(Found("terminate", 0), NOPAD)
               /\ ~MustNotThrow(f) =>
                    \E a : /\ r = WithPad(a, p) /\ IsAnswer(cs, e, 1, a)
                           /\ a.found # "nothing" => p # NOPAD
  BY SearchIs
<1>4. /\ i \in 0 .. Len(cs)
      /\ i # 0 => Accepts(cs[i], e) /\ \A k \in 1 .. i - 1 : ~Accepts(cs[k], e)
      /\ i = 0 => \A k \in 1 .. Len(cs) : ~Accepts(cs[k], e)
  BY <1>1, FirstOfIs
<1> HIDE DEF r, cs, i
<1>5. CASE MustNotThrow(f)
  <2>1. r.found = "terminate" /\ r.switch = 0 /\ r.pad = NOPAD
    BY <1>3, <1>5 DEF WithPad, Found
  <2> QED BY <1>2, <1>5, <2>1 DEF r, cs, i
<1>6. CASE ~MustNotThrow(f)
  <2>1. PICK a : /\ r = WithPad(a, p) /\ IsAnswer(cs, e, 1, a)
                 /\ a.found # "nothing" => p # NOPAD
    BY <1>3, <1>6
  <2>2. r.found = a.found /\ r.switch = a.switch /\ r.pad = p
    BY <2>1 DEF WithPad
  <2>3. CASE i # 0
    <3>1. i \in 1 .. Len(cs) /\ Accepts(cs[i], e)
      BY <1>1, <1>4, <2>3
    <3>2. a = Found("handler", FilterOf(cs[i]))
      BY <1>4, <2>1, <2>3, <3>1 DEF IsAnswer
    <3>3. a.found = "handler" /\ a.switch = FilterOf(cs[i])
      <4> DEFINE x == FilterOf(cs[i])
      <4>1. a = Found("handler", x)
        BY <3>2
      <4> HIDE DEF x
      <4>2. a.found = "handler" /\ a.switch = x
        BY <4>1 DEF Found
      <4> QED BY <4>2 DEF x
    <3>4. p # NOPAD
      BY <2>1, <3>3
    <3> QED BY <1>2, <1>6, <2>2, <3>1, <3>3, <3>4 DEF r, cs, i
  <2>4. CASE i = 0
    <3>1. \A k \in 1 .. Len(cs) : ~Accepts(cs[k], e)
      BY <1>4, <2>4
    <3>2. a = IF \E j \in 1 .. Len(cs) : cs[j] = Cleanup
              THEN Found("cleanup", 0) ELSE Found("nothing", 0)
      BY <2>1, <3>1 DEF IsAnswer
    <3>3. /\ a.found = IF \E j \in 1 .. Len(cs) : cs[j] = Cleanup
                       THEN "cleanup" ELSE "nothing"
          /\ a.switch = 0
      BY <3>2 DEF Found
    <3> QED BY <1>2, <1>6, <2>2, <3>1, <3>3 DEF r, cs, i
  <2> QED BY <2>3, <2>4
<1> QED BY <1>5, <1>6

\* What the switch value of a handler means.
LEMMA SwitchMeans ==
  ASSUME NEW f \in FrameT, NEW e, Search(f, e).found = "handler"
  PROVE  LET s == Search(f, e).switch
             c == ClausesOf(f)[FirstOf(ClausesOf(f), e)]
         IN  /\ s \in -1 .. Len(TypeTable) /\ s # 0
             /\ f.fn \in Coded /\ f.place \in {BODY, HANDLER}
             /\ s > 0 => c = Catch(TypeTable[s]) /\ HasTry(f.fn)
             /\ s < 0 => c.kind = "throws" /\ Specified(f.fn) /\ f.fn \in DOMAIN Functions
<1> DEFINE s == Search(f, e).switch
           i == FirstOf(ClausesOf(f), e)
           c == ClausesOf(f)[i]
<1>1. i \in 1 .. Len(ClausesOf(f)) /\ s = FilterOf(c) /\ Accepts(c, e)
  BY HandlesIs
<1>2. /\ KnownClause(c) /\ f.fn # NONE /\ f.place \in {BODY, HANDLER} /\ f.fn \in Fns
      /\ c.kind = "throws" => SpecOf(f.fn) = Range(c.types) /\ Specified(f.fn)
      /\ c.kind = "catch" => HasTry(f.fn)
  BY <1>1, ClausesOfAre
<1> HIDE DEF s, c, i
<1>3. /\ FilterOf(c) = 0 <=> c = Cleanup
      /\ FilterOf(c) \in -1 .. Len(TypeTable)
      /\ FilterOf(c) > 0 => c = Catch(TypeTable[FilterOf(c)])
      /\ FilterOf(c) < 0 => c.kind = "throws"
  <2> DEFINE l == [spec |-> Range(c.types)]
  <2>1. c.kind = "throws" => l.spec = Range(c.types)
    OBVIOUS
  <2> HIDE DEF l
  <2>2. /\ Takes(l, e, FilterOf(c)) <=> Accepts(c, e)
        /\ FilterOf(c) = 0 <=> c = Cleanup
        /\ FilterOf(c) \in -1 .. Len(TypeTable)
        /\ FilterOf(c) > 0 => c = Catch(TypeTable[FilterOf(c)])
        /\ FilterOf(c) < 0 => c.kind = "throws"
    BY <1>2, <2>1, FilterMeans
  <2> QED BY <2>2
<1>4. c # Cleanup
  BY <1>1 DEF Accepts, Cleanup
<1>5. s > 0 => c.kind = "catch"
  BY <1>1, <1>3 DEF Catch
<1>6. f.fn \in Coded /\ (s < 0 => f.fn \in DOMAIN Functions)
  BY <1>1, <1>2, <1>3 DEF Fns, Coded, Specified
<1> QED BY <1>1, <1>2, <1>3, <1>4, <1>5, <1>6 DEF s, c, i

\* A frame that has no handler lets the exception pass, and so does its
\* specification; what the unexpected handler throws is always caught.
LEMMA NotHandled ==
  ASSUME NEW f \in FrameT, NEW e
  PROVE  /\ ~Handles(f, e) /\ (f.place = BODY \/ (f.place = HANDLER /\ HasTry(f.fn)))
              => Lets(f.fn, e)
         /\ f.fn = UNEXPECTED /\ f.place = BODY => Handles(f, e)
<1> DEFINE cs == ClausesOf(f)
<1>1. /\ Len(cs) \in Nat /\ DOMAIN cs = 1 .. Len(cs)
      /\ \A i \in 1 .. Len(cs) : cs[i].kind = "throws" => SpecOf(f.fn) = Range(cs[i].types)
      /\ Specified(f.fn) /\ (f.place = BODY \/ (f.place = HANDLER /\ HasTry(f.fn)))
           => Len(cs) # 0 /\ cs[Len(cs)].kind = "throws"
      /\ f.fn = UNEXPECTED /\ f.place = BODY => cs = <<Catch(ALL)>>
  BY ClausesOfAre
<1>2. ASSUME ~Handles(f, e), f.place = BODY \/ (f.place = HANDLER /\ HasTry(f.fn))
      PROVE  Lets(f.fn, e)
  <2> SUFFICES ASSUME Specified(f.fn) PROVE Allows(SpecOf(f.fn), e)
    BY DEF Lets
  <2> HIDE DEF cs
  <2>1. Len(cs) \in 1 .. Len(cs) /\ cs[Len(cs)].kind = "throws"
        /\ SpecOf(f.fn) = Range(cs[Len(cs)].types)
    BY <1>1, <1>2
  <2>2. ~Accepts(cs[Len(cs)], e)
    BY <1>1, <1>2, <2>1 DEF Handles, cs
  <2> QED BY <2>1, <2>2 DEF Accepts
<1>3. ASSUME f.fn = UNEXPECTED, f.place = BODY
      PROVE  Handles(f, e)
  <2>1. cs = <<Catch(ALL)>>
    BY <1>1, <1>3
  <2>2. 1 \in DOMAIN cs /\ Accepts(cs[1], e)
    BY <2>1 DEF Accepts, Catch
  <2> QED BY <2>2 DEF Handles
<1> QED BY <1>2, <1>3

\* The search knows an exception by its kind and its type.
Alike(e1, e2) == e1.kind = e2.kind /\ e1.type = e2.type

LEMMA SearchAlike ==
  ASSUME NEW f \in FrameT, NEW e1, NEW e2, Alike(e1, e2)
  PROVE  /\ Search(f, e1) = Search(f, e2)
         /\ Handles(f, e1) <=> Handles(f, e2)
         /\ FirstOf(ClausesOf(f), e1) = FirstOf(ClausesOf(f), e2)
<1> DEFINE cs == ClausesOf(f)
<1>1. Len(cs) \in Nat /\ DOMAIN cs = 1 .. Len(cs)
  BY ClausesOfAre
<1>2. \A c : Accepts(c, e1) <=> Accepts(c, e2)
  BY DEF Alike, Accepts, Allows, Domestic
<1>3. Handles(f, e1) <=> Handles(f, e2)
  BY <1>2 DEF Handles
<1> HIDE DEF cs
<1> DEFINE i1 == FirstOf(cs, e1)
           i2 == FirstOf(cs, e2)
<1>4. /\ i1 \in 0 .. Len(cs) /\ i2 \in 0 .. Len(cs)
      /\ i1 # 0 => Accepts(cs[i1], e1) /\ \A k \in 1 .. i1 - 1 : ~Accepts(cs[k], e1)
      /\ i1 = 0 => \A k \in 1 .. Len(cs) : ~Accepts(cs[k], e1)
      /\ i2 # 0 => Accepts(cs[i2], e2) /\ \A k \in 1 .. i2 - 1 : ~Accepts(cs[k], e2)
      /\ i2 = 0 => \A k \in 1 .. Len(cs) : ~Accepts(cs[k], e2)
  BY <1>1, FirstOfIs
<1> HIDE DEF i1, i2
<1>5. i1 = i2
  BY <1>1, <1>2, <1>4
<1>6. PICK p : \A e : LET r == Search(f, e) IN
           /\ MustNotThrow(f) => r = WithPad(Found("terminate", 0), NOPAD)
           /\ ~MustNotThrow(f) =>
                \E a : /\ r = WithPad(a, p) /\ IsAnswer(cs, e, 1, a)
                       /\ a.found # "nothing" => p # NOPAD
  BY SearchIs DEF cs
<1>7. Search(f, e1) = Search(f, e2)
  <2>1. CASE MustNotThrow(f)
    BY <1>6, <2>1
  <2>2. CASE ~MustNotThrow(f)
    <3>1. PICK a1 : Search(f, e1) = WithPad(a1, p) /\ IsAnswer(cs, e1, 1, a1)
      BY <1>6, <2>2
    <3>2. PICK a2 : Search(f, e2) = WithPad(a2, p) /\ IsAnswer(cs, e2, 1, a2)
      BY <1>6, <2>2
    <3>3. a1 = a2
      <4>1. CASE i1 = 0
        BY <1>4, <1>5, <3>1, <3>2, <4>1 DEF IsAnswer
      <4>2. CASE i1 # 0
        <5>1. i1 \in 1 .. Len(cs)
          BY <1>1, <1>4, <4>2
        <5>2. a1 = Found("handler", FilterOf(cs[i1]))
          BY <1>4, <3>1, <4>2, <5>1 DEF IsAnswer
        <5>3. a2 = Found("handler", FilterOf(cs[i1]))
          BY <1>4, <1>5, <3>2, <4>2, <5>1 DEF IsAnswer
        <5> QED BY <5>2, <5>3
      <4> QED BY <4>1, <4>2
    <3> QED BY <3>1, <3>2, <3>3
  <2> QED BY <2>1, <2>2
<1> QED BY <1>3, <1>5, <1>7 DEF i1, i2, cs

-----------------------------------------------------------------------------
(* Where an exception ends, and what cleans up before.                       *)

LEMMA DueFrameIs ==
  ASSUME NEW fs, Len(fs) \in Nat, NEW e
  PROVE  LET d == DueFrame(fs, e)
         IN  /\ d \in 0 .. Len(fs)
             /\ d # 0 => Handles(fs[d], e)
             /\ \A i \in d + 1 .. Len(fs) : ~Handles(fs[i], e)
<1> DEFINE I == {i \in 1 .. Len(fs) : Handles(fs[i], e)}
<1>1. DueFrame(fs, e) = IF I # {} THEN Max(I) ELSE 0
  BY DEF DueFrame, SelectLastInSeq
<1>2. CASE I = {}
  BY <1>1, <1>2
<1>3. CASE I # {}
  <2>1. \E m \in I : \A i \in I : i <= m
    <3>1. I \in SUBSET (1 .. Len(fs))
      OBVIOUS
    <3> HIDE DEF I
    <3> QED BY <1>3, <3>1, HasGreatest
  <2>2. Max(I) \in I /\ \A i \in I : i <= Max(I)
    <3>1. \E m \in I : \A i \in I : m >= i
      <4> HIDE DEF I
      <4>1. PICK m \in I : \A i \in I : i <= m
        BY <2>1
      <4>2. \A i \in I : m >= i
        BY <4>1
      <4> QED BY <4>2
    <3> HIDE DEF I
    <3>2. Max(I) \in I /\ \A i \in I : Max(I) >= i
      BY <3>1 DEF Max
    <3> QED BY <3>2
  <2> DEFINE d == Max(I)
  <2>3. d \in 1 .. Len(fs) /\ Handles(fs[d], e)
    BY <2>2
  <2>4. \A i \in d + 1 .. Len(fs) : ~Handles(fs[i], e)
    <3> SUFFICES ASSUME NEW i \in d + 1 .. Len(fs), Handles(fs[i], e) PROVE FALSE
      OBVIOUS
    <3>1. i \in 1 .. Len(fs) /\ ~(i <= d)
      BY <2>3
    <3>2. i \in I
      BY <3>1
    <3> QED BY <2>2, <3>1, <3>2
  <2>5. DueFrame(fs, e) = d
    BY <1>1, <1>3
  <2> HIDE DEF d, I
  <2> QED BY <2>3, <2>4, <2>5
<1> QED BY <1>2, <1>3

DueAt(fs, d, e) ==
  IF d = 0 THEN [frame |-> 0, how |-> [kind |-> "none"]]
  ELSE [frame |-> d, how |-> IF MustNotThrow(fs[d]) THEN [kind |-> "terminate"]
                             ELSE ClausesOf(fs[d])[FirstOf(ClausesOf(fs[d]), e)]]

\* The frame that handles e: the innermost of the first k that has something.
IsDue(fs, k, e, d) ==
  /\ d \in 0 .. k
  /\ d # 0 => Handles(fs[d], e)
  /\ \A i \in d + 1 .. k : ~Handles(fs[i], e)

LEMMA DueIs ==
  ASSUME NEW fs, fs \in Seq(FrameT), NEW k, k \in 0 .. Len(fs), NEW e
  PROVE  LET d == Due(SubSeq(fs, 1, k), e).frame
         IN  IsDue(fs, k, e, d) /\ Due(SubSeq(fs, 1, k), e) = DueAt(fs, d, e)
<1> DEFINE gs == SubSeq(fs, 1, k)
           d  == DueFrame(gs, e)
<1>1. Len(gs) = k /\ k \in Nat /\ \A i \in 1 .. k : gs[i] = fs[i]
  BY Prefix
<1>2. Due(gs, e) = DueAt(gs, d, e)
  BY DEF Due, DueAt, FirstOf
<1> HIDE DEF gs
<1>3. /\ d \in 0 .. Len(gs)
      /\ d # 0 => Handles(gs[d], e)
      /\ \A i \in d + 1 .. Len(gs) : ~Handles(gs[i], e)
  BY <1>1, DueFrameIs
<1> HIDE DEF d
<1>4. IsDue(fs, k, e, d)
  <2>1. d \in 0 .. k
    BY <1>1, <1>3
  <2>2. d # 0 => Handles(fs[d], e)
    BY <1>1, <1>3
  <2>3. \A i \in d + 1 .. k : ~Handles(fs[i], e)
    <3> TAKE i \in d + 1 .. k
    <3>1. i \in 1 .. k /\ i \in d + 1 .. Len(gs)
      BY <1>1, <2>1
    <3> QED BY <1>1, <1>3, <3>1
  <2> QED BY <2>1, <2>2, <2>3 DEF IsDue
<1>5. DueAt(gs, d, e) = DueAt(fs, d, e)
  BY <1>1, <1>3 DEF DueAt
<1>6. DueAt(fs, d, e).frame = d
  BY DEF DueAt
<1> QED BY <1>2, <1>4, <1>5, <1>6 DEF gs

LEMMA DueUnique ==
  ASSUME NEW fs, NEW gs, NEW k, k \in Nat, NEW e1, NEW e2, NEW d1, NEW d2,
         IsDue(fs, k, e1, d1), IsDue(gs, k, e2, d2),
         \A i \in 1 .. k : Handles(fs[i], e1) <=> Handles(gs[i], e2)
  PROVE  d1 = d2
<1>1. d1 \in 0 .. k /\ d2 \in 0 .. k
  BY DEF IsDue
<1>2. ~(d1 < d2)
  <2> SUFFICES ASSUME d1 < d2 PROVE FALSE
    OBVIOUS
  <2>1. d2 \in 1 .. k /\ d2 \in d1 + 1 .. k
    BY <1>1
  <2> QED BY <2>1 DEF IsDue
<1>3. ~(d2 < d1)
  <2> SUFFICES ASSUME d2 < d1 PROVE FALSE
    OBVIOUS
  <2>1. d1 \in 1 .. k /\ d1 \in d2 + 1 .. k
    BY <1>1
  <2> QED BY <2>1 DEF IsDue
<1> QED BY <1>1, <1>2, <1>3

\* Frames that are alike as far as they go, and exceptions of one kind and type.
LEMMA DueSame ==
  ASSUME NEW fs, fs \in Seq(FrameT), NEW gs, gs \in Seq(FrameT),
         NEW k, k \in 0 .. Len(fs), k \in 0 .. Len(gs),
         \A i \in 1 .. k : fs[i] = gs[i], NEW e1, NEW e2, Alike(e1, e2)
  PROVE  Due(SubSeq(fs, 1, k), e1) = Due(SubSeq(gs, 1, k), e2)
<1> DEFINE d1 == Due(SubSeq(fs, 1, k), e1).frame
           d2 == Due(SubSeq(gs, 1, k), e2).frame
<1>1. IsDue(fs, k, e1, d1) /\ Due(SubSeq(fs, 1, k), e1) = DueAt(fs, d1, e1)
  BY DueIs
<1>2. IsDue(gs, k, e2, d2) /\ Due(SubSeq(gs, 1, k), e2) = DueAt(gs, d2, e2)
  BY DueIs
<1> HIDE DEF d1, d2
<1>3. \A i \in 1 .. k : fs[i] \in FrameT
  BY ElementOfSeq
<1>4. \A i \in 1 .. k : /\ Handles(fs[i], e1) <=> Handles(gs[i], e2)
                        /\ FirstOf(ClausesOf(fs[i]), e1) = FirstOf(ClausesOf(gs[i]), e2)
  BY <1>3, SearchAlike
<1>5. d1 = d2
  <2>1. k \in Nat
    BY LenProperties
  <2>2. \A i \in 1 .. k : Handles(fs[i], e1) <=> Handles(gs[i], e2)
    BY <1>4
  <2> QED BY <1>1, <1>2, <2>1, <2>2, DueUnique
<1>6. d1 \in 0 .. k
  BY <1>1 DEF IsDue
<1>7. DueAt(fs, d1, e1) = DueAt(gs, d1, e2)
  BY <1>4, <1>6 DEF DueAt
<1> QED BY <1>1, <1>2, <1>5, <1>7

\* The last of the first k frames makes a difference only if it handles e.
LEMMA DueSteps ==
  ASSUME NEW fs, fs \in Seq(FrameT), NEW k, k \in 1 .. Len(fs), NEW e
  PROVE  /\ ~Handles(fs[k], e) => Due(SubSeq(fs, 1, k), e) = Due(SubSeq(fs, 1, k - 1), e)
         /\ Handles(fs[k], e) => Due(SubSeq(fs, 1, k), e) = DueAt(fs, k, e)
<1> DEFINE d1 == Due(SubSeq(fs, 1, k), e).frame
           d2 == Due(SubSeq(fs, 1, k - 1), e).frame
<1>0. Len(fs) \in Nat /\ k - 1 \in 0 .. Len(fs) /\ k \in 0 .. Len(fs) /\ k - 1 \in Nat /\ k # 0
  BY LenProperties
<1>1. IsDue(fs, k, e, d1) /\ Due(SubSeq(fs, 1, k), e) = DueAt(fs, d1, e)
  BY <1>0, DueIs
<1>2. IsDue(fs, k - 1, e, d2) /\ Due(SubSeq(fs, 1, k - 1), e) = DueAt(fs, d2, e)
  BY <1>0, DueIs
<1> HIDE DEF d1, d2
<1>3. ASSUME ~Handles(fs[k], e) PROVE d1 = d2
  <2>1. d1 # k /\ d1 \in 0 .. k - 1
    BY <1>0, <1>1, <1>3 DEF IsDue
  <2>2. \A i \in d1 + 1 .. k - 1 : i \in d1 + 1 .. k
    BY <1>0, <2>1
  <2>3. IsDue(fs, k - 1, e, d1)
    BY <1>1, <2>1, <2>2 DEF IsDue
  <2> DEFINE m == k - 1
  <2>4. m \in Nat /\ IsDue(fs, m, e, d1) /\ IsDue(fs, m, e, d2)
    BY <1>0, <1>2, <2>3
  <2>5. \A i \in 1 .. m : Handles(fs[i], e) <=> Handles(fs[i], e)
    OBVIOUS
  <2> HIDE DEF m
  <2> QED BY <2>4, <2>5, DueUnique
<1>4. ASSUME Handles(fs[k], e) PROVE d1 = k
  <2>1. d1 \in 0 .. k /\ \A i \in d1 + 1 .. k : ~Handles(fs[i], e)
    BY <1>1 DEF IsDue
  <2>2. k \notin d1 + 1 .. k
    BY <1>4, <2>1
  <2> QED BY <1>0, <2>1, <2>2
<1> QED BY <1>1, <1>2, <1>3, <1>4

Cleans(f) == \E j \in DOMAIN ClausesOf(f) : ClausesOf(f)[j] = Cleanup

LEMMA OwedIs ==
  ASSUME NEW fs, fs \in Seq(FrameT), NEW k, k \in 0 .. Len(fs), NEW due, due.frame \in Nat
  PROVE  Owed(SubSeq(fs, 1, k), due) = {i \in due.frame + 1 .. k : Cleans(fs[i])}
<1> DEFINE gs == SubSeq(fs, 1, k)
<1>1. Len(gs) = k /\ k \in Nat /\ \A i \in 1 .. k : gs[i] = fs[i]
  BY Prefix
<1>2. Owed(gs, due) = {i \in due.frame + 1 .. Len(gs) : Cleans(gs[i])}
  BY DEF Owed, Cleans
<1> HIDE DEF gs
<1>3. \A i \in due.frame + 1 .. k : i \in 1 .. k
  BY <1>1
<1>4. Owed(gs, due) = {i \in due.frame + 1 .. k : Cleans(fs[i])}
  BY <1>1, <1>2, <1>3
<1> QED BY <1>4 DEF gs

\* The same exception but for what it has to clean up before.
SameBut(e1, e2, owed) ==
  /\ Alike(e1, e2) /\ e2.target = e1.target /\ e2.hdr = e1.hdr /\ e2.due = e1.due
  /\ e2.owed = owed

LEMMA BoundMoves ==
  ASSUME NEW fs, fs \in Seq(FrameT), NEW gs, gs \in Seq(FrameT),
         NEW k, k \in 0 .. Len(fs), k \in 0 .. Len(gs),
         \A i \in 1 .. k : fs[i] = gs[i],
         NEW e1, NEW e2, SameBut(e1, e2, e1.owed), Bound(fs, e1, k)
  PROVE  Bound(gs, e2, k)
<1>1. /\ e1.due = Due(SubSeq(fs, 1, k), e1) /\ e1.owed = Owed(SubSeq(fs, 1, k), e1.due)
      /\ e1.kind # "forced" => e1.due.frame # 0 /\ e1.target = e1.due.frame
      /\ Domestic(e1) => e1.hdr = Saved(fs[e1.target], Search(fs[e1.target], e1))
  BY DEF Bound
<1>2. /\ Alike(e1, e2) /\ e2.kind = e1.kind /\ e2.target = e1.target
      /\ e2.hdr = e1.hdr /\ e2.due = e1.due /\ e2.owed = e1.owed
  BY DEF SameBut, Alike
<1>3. e1.due.frame \in 0 .. k /\ k \in Nat
  BY <1>1, DueIs, LenProperties DEF IsDue
<1>4. e2.due = Due(SubSeq(gs, 1, k), e2)
  BY <1>1, <1>2, DueSame
<1>5. e2.owed = Owed(SubSeq(gs, 1, k), e2.due)
  <2>1. e1.due.frame \in Nat /\ \A i \in e1.due.frame + 1 .. k : i \in 1 .. k
    BY <1>3
  <2>2. e1.owed = {i \in e1.due.frame + 1 .. k : Cleans(fs[i])}
    BY <1>1, <2>1, OwedIs
  <2>3. Owed(SubSeq(gs, 1, k), e1.due) = {i \in e1.due.frame + 1 .. k : Cleans(gs[i])}
    BY <2>1, OwedIs
  <2> QED BY <1>2, <2>1, <2>2, <2>3
<1>6. ASSUME Domestic(e2)
      PROVE  e2.hdr = Saved(gs[e2.target], Search(gs[e2.target], e2))
  <2>1. Domestic(e1) /\ e1.target \in 1 .. k
    BY <1>1, <1>2, <1>3, <1>6 DEF Domestic
  <2>2. fs[e1.target] = gs[e1.target] /\ fs[e1.target] \in FrameT
    BY <2>1, ElementOfSeq
  <2>3. Search(fs[e1.target], e1) = Search(gs[e1.target], e2)
    BY <1>2, <2>2, SearchAlike
  <2> QED BY <1>1, <1>2, <2>1, <2>2, <2>3
<1>7. e2.kind # "forced" => e2.due.frame # 0 /\ e2.target = e2.due.frame
  BY <1>1, <1>2
<1> QED BY <1>4, <1>5, <1>6, <1>7 DEF Bound

\* A frame that handles nothing and has nothing to clean up makes no difference;
\* one that has cleaned up is owed no more.
LEMMA BoundSteps ==
  ASSUME NEW fs, fs \in Seq(FrameT), NEW k, k \in 1 .. Len(fs),
         NEW e, ~Handles(fs[k], e)
  PROVE  /\ Bound(fs, e, k) => e.due.frame \in 0 .. k - 1
         /\ Bound(fs, e, k) /\ Cleans(fs[k]) => k \in e.owed
         /\ ~Cleans(fs[k]) => (Bound(fs, e, k) <=> Bound(fs, e, k - 1))
         /\ \A e2 : Bound(fs, e, k) /\ SameBut(e, e2, e.owed \ {k}) => Bound(fs, e2, k - 1)
<1>1. k \in Nat /\ k - 1 \in 0 .. Len(fs) /\ k \in 0 .. Len(fs)
  BY LenProperties
<1>2. Due(SubSeq(fs, 1, k), e) = Due(SubSeq(fs, 1, k - 1), e)
  BY DueSteps
<1> DEFINE due == Due(SubSeq(fs, 1, k), e)
<1>3. due.frame \in 0 .. k - 1 /\ due.frame \in Nat
  BY <1>1, <1>2, DueIs DEF IsDue
<1> HIDE DEF due
<1>4. /\ Owed(SubSeq(fs, 1, k), due) = {i \in due.frame + 1 .. k : Cleans(fs[i])}
      /\ Owed(SubSeq(fs, 1, k - 1), due) = {i \in due.frame + 1 .. k - 1 : Cleans(fs[i])}
  BY <1>1, <1>3, OwedIs
<1>5. due.frame + 1 .. k = (due.frame + 1 .. k - 1) \cup {k} /\ k \notin due.frame + 1 .. k - 1
  BY <1>1, <1>3
<1>6. Owed(SubSeq(fs, 1, k - 1), due) = Owed(SubSeq(fs, 1, k), due) \ {k}
  BY <1>4, <1>5
<1>7. Cleans(fs[k]) <=> k \in Owed(SubSeq(fs, 1, k), due)
  BY <1>4, <1>5
<1>8. ASSUME ~Cleans(fs[k])
      PROVE  Bound(fs, e, k) <=> Bound(fs, e, k - 1)
  <2>1. Owed(SubSeq(fs, 1, k - 1), due) = Owed(SubSeq(fs, 1, k), due)
    BY <1>6, <1>7, <1>8
  <2> QED BY <1>2, <2>1 DEF Bound, due
<1>9. ASSUME NEW e2, Bound(fs, e, k), SameBut(e, e2, e.owed \ {k})
      PROVE  Bound(fs, e2, k - 1)
  <2>1. /\ e.due = due /\ e.owed = Owed(SubSeq(fs, 1, k), due)
        /\ e.kind # "forced" => e.due.frame # 0 /\ e.target = e.due.frame
        /\ Domestic(e) => e.hdr = Saved(fs[e.target], Search(fs[e.target], e))
    BY <1>9 DEF Bound, due
  <2>2. /\ Alike(e, e2) /\ e2.kind = e.kind /\ e2.target = e.target
        /\ e2.hdr = e.hdr /\ e2.due = e.due /\ e2.owed = e.owed \ {k}
    BY <1>9 DEF SameBut, Alike
  <2>3. e2.due = Due(SubSeq(fs, 1, k - 1), e2)
    <3>1. \A i \in 1 .. k - 1 : fs[i] = fs[i]
      OBVIOUS
    <3>2. Due(SubSeq(fs, 1, k - 1), e) = Due(SubSeq(fs, 1, k - 1), e2)
      BY <1>1, <2>2, <3>1, DueSame
    <3> QED BY <1>2, <2>1, <2>2, <3>2 DEF due
  <2>4. e2.owed = Owed(SubSeq(fs, 1, k - 1), e2.due)
    BY <1>6, <2>1, <2>2
  <2>5. ASSUME Domestic(e2)
        PROVE  e2.hdr = Saved(fs[e2.target], Search(fs[e2.target], e2))
    <3>1. Domestic(e) /\ e.target \in 1 .. Len(fs)
      BY <1>1, <1>3, <2>1, <2>2, <2>5 DEF Domestic
    <3>2. fs[e.target] \in FrameT
      BY <3>1, ElementOfSeq
    <3>3. Search(fs[e.target], e) = Search(fs[e.target], e2)
      BY <2>2, <3>2, SearchAlike
    <3> QED BY <2>1, <2>2, <3>1, <3>3
  <2>6. e2.kind # "forced" => e2.due.frame # 0 /\ e2.target = e2.due.frame
    BY <2>1, <2>2
  <2> QED BY <2>3, <2>4, <2>5, <2>6 DEF Bound
<1>10. Bound(fs, e, k) => e.due = due /\ e.owed = Owed(SubSeq(fs, 1, k), due)
  BY DEF Bound, due
<1> QED BY <1>3, <1>7, <1>8, <1>9, <1>10

-----------------------------------------------------------------------------
(* Every step keeps the invariant.                                           *)

\* What the steps write into an exception.
EditRaise(e, t, d, o) == [e EXCEPT !.target = t, !.due = d, !.owed = o]
EditFound(e, h, t)    == [e EXCEPT !.hdr = h, !.target = t]
EditLanded(e, o)      == [e EXCEPT !.owed = o]

LEMMA EditRaised ==
  ASSUME NEW e, IsObj(e), NEW t, NEW d, NEW o
  PROVE  LET e2 == EditRaise(e, t, d, o)
         IN  /\ IsObj(e2) /\ Alike(e, e2) /\ Alike(e2, e) /\ e2.hdr = e.hdr
             /\ e2.target = t /\ e2.due = d /\ e2.owed = o
<1> DEFINE e2 == [e EXCEPT !.target = t, !.due = d, !.owed = o]
           k == e.kind
           ty == e.type
           ta == e.target
           hd == e.hdr
           du == e.due
           ow == e.owed
           a1 == [e EXCEPT !.target = t]
           a2 == [a1 EXCEPT !.due = d]
           a3 == [a2 EXCEPT !.owed = o]
<1>1. /\ e = [kind |-> k, type |-> ty, target |-> ta, hdr |-> hd, due |-> du, owed |-> ow]
      /\ k \in {"gxx", "foreign", "forced"}
      /\ k # "gxx" => hd = Raw
  BY DEF IsObj, Domestic
<1> HIDE DEF k, ty, ta, hd, du, ow
<1>2. e2 = a3
  BY Zenon
<1> HIDE DEF e2
<1>3. a1 = [kind |-> k, type |-> ty, target |-> t, hdr |-> hd, due |-> du, owed |-> ow]
  BY <1>1
<1> HIDE DEF a1
<1>4. a2 = [kind |-> k, type |-> ty, target |-> t, hdr |-> hd, due |-> d, owed |-> ow]
  BY <1>3
<1> HIDE DEF a2
<1>5. a3 = [kind |-> k, type |-> ty, target |-> t, hdr |-> hd, due |-> d, owed |-> o]
  BY <1>4
<1> HIDE DEF a3
<1>6. e2 = [kind |-> k, type |-> ty, target |-> t, hdr |-> hd, due |-> d, owed |-> o]
  BY <1>2, <1>5
<1>7. e2.kind = k /\ e2.type = ty /\ e2.target = t /\ e2.hdr = hd /\ e2.due = d /\ e2.owed = o
  BY <1>6
<1>8. IsObj(e2)
  BY <1>1, <1>6, <1>7 DEF IsObj, Domestic
<1> QED BY <1>7, <1>8 DEF Alike, k, ty, hd, e2, EditRaise

LEMMA EditHeader ==
  ASSUME NEW e, IsObj(e), NEW h, ~Domestic(e) => h = Raw, NEW t
  PROVE  LET e2 == EditFound(e, h, t)
         IN  /\ IsObj(e2) /\ Alike(e, e2) /\ e2.hdr = h
             /\ e2.target = t /\ e2.due = e.due /\ e2.owed = e.owed
<1> DEFINE e2 == [e EXCEPT !.hdr = h, !.target = t]
           k == e.kind
           ty == e.type
           ta == e.target
           du == e.due
           ow == e.owed
           a1 == [e EXCEPT !.hdr = h]
           a2 == [a1 EXCEPT !.target = t]
<1>1. /\ e = [kind |-> k, type |-> ty, target |-> ta, hdr |-> e.hdr, due |-> du, owed |-> ow]
      /\ k \in {"gxx", "foreign", "forced"}
      /\ k # "gxx" => h = Raw
  BY DEF IsObj, Domestic
<1> HIDE DEF k, ty, ta, du, ow
<1>2. e2 = a2
  BY Zenon
<1> HIDE DEF e2
<1>3. a1 = [kind |-> k, type |-> ty, target |-> ta, hdr |-> h, due |-> du, owed |-> ow]
  BY <1>1
<1> HIDE DEF a1
<1>4. a2 = [kind |-> k, type |-> ty, target |-> t, hdr |-> h, due |-> du, owed |-> ow]
  BY <1>3
<1> HIDE DEF a2
<1>5. e2 = [kind |-> k, type |-> ty, target |-> t, hdr |-> h, due |-> du, owed |-> ow]
  BY <1>2, <1>4
<1>6. e2.kind = k /\ e2.type = ty /\ e2.target = t /\ e2.hdr = h /\ e2.due = du /\ e2.owed = ow
  BY <1>5
<1>7. IsObj(e2)
  BY <1>1, <1>5, <1>6 DEF IsObj, Domestic
<1> QED BY <1>6, <1>7 DEF Alike, k, ty, du, ow, e2, EditFound

LEMMA EditOwed ==
  ASSUME NEW e, IsObj(e), NEW o
  PROVE  LET e2 == EditLanded(e, o) IN IsObj(e2) /\ SameBut(e, e2, o)
<1> DEFINE e2 == [e EXCEPT !.owed = o]
           k == e.kind
           ty == e.type
           ta == e.target
           hd == e.hdr
           du == e.due
<1>1. /\ e = [kind |-> k, type |-> ty, target |-> ta, hdr |-> hd, due |-> du, owed |-> e.owed]
      /\ k \in {"gxx", "foreign", "forced"}
      /\ k # "gxx" => hd = Raw
  BY DEF IsObj, Domestic
<1> HIDE DEF k, ty, ta, hd, du
<1>2. e2 = [kind |-> k, type |-> ty, target |-> ta, hdr |-> hd, due |-> du, owed |-> o]
  BY <1>1
<1> HIDE DEF e2
<1>3. e2.kind = k /\ e2.type = ty /\ e2.target = ta /\ e2.hdr = hd /\ e2.due = du /\ e2.owed = o
  BY <1>2
<1>4. IsObj(e2)
  BY <1>1, <1>2, <1>3 DEF IsObj, Domestic
<1> QED BY <1>3, <1>4 DEF SameBut, Alike, k, ty, ta, hd, du, e2, EditLanded

\* The raising of e in block b: nobody waits with that block, and what leaves an
\* unexpected handler is what the specification allows.
LEMMA Raises ==
  ASSUME PInv, Running, NEW b \in Blocks, NEW e, IsObj(e), Raise(b, e),
         IsObj(objs[b]) => Alike(objs[b], e),
         ~Suspended(b), Top.place # SPEC,
         Top.fn = UNEXPECTED /\ Top.place # BODY =>
           Allows(SpecOf(frames[Len(frames) - 1].fn), e)
  PROVE  PInv'
<1> DEFINE due == Due(frames, e)
           e2  == [e EXCEPT !.target = 0, !.due = due, !.owed = Owed(frames, due)]
<1>1. /\ frames \in Seq(FrameT) /\ objs = [c \in Blocks |-> objs[c]]
      /\ \A c \in Blocks : objs[c] = Obj \/ IsObj(objs[c])
      /\ phase = "run" /\ flight = NONE /\ frames # <<>> /\ Len(frames) \in Nat
      /\ b # NONE /\ Len(frames) \in 1 .. Len(frames) /\ Len(frames) \in 0 .. Len(frames)
  <2>1. frames # <<>> /\ phase = "run" /\ flight = NONE /\ frames \in Seq(FrameT)
    BY DEF PInv, Typed, Running
  <2>2. Len(frames) \in Nat /\ Len(frames) # 0
    BY <2>1, EmptySeq, LenProperties
  <2> QED BY <2>1, <2>2, PersonalityAssumption DEF PInv, Typed
<1>2. /\ IsObj(e2) /\ Alike(e, e2) /\ Alike(e2, e)
      /\ e2.due = due /\ e2.owed = Owed(frames, due)
  <2> DEFINE o == Owed(frames, due)
  <2>1. e2 = EditRaise(e, 0, due, o)
    BY DEF EditRaise
  <2> HIDE DEF due, o, e2
  <2> QED BY <2>1, EditRaised DEF o
<1>3. /\ objs' = [objs EXCEPT ![b] = e2] /\ flight' = b /\ frames' = frames
      /\ phase' = (IF e.kind = "forced" THEN "cleanup" ELSE "search") /\ at' = Len(frames)
  BY DEF Raise
<1>4. /\ SubSeq(frames, 1, Len(frames)) = frames
      /\ due = Due(frames, e2) /\ due.frame \in 0 .. Len(frames)
  <2>1. SubSeq(frames, 1, Len(frames)) = frames
    <3>1. frames[1] \in FrameT
      BY <1>1, ElementOfSeq
    <3> QED BY <1>1, <3>1, PrefixOfPushed
  <2>2. \A i \in 1 .. Len(frames) : frames[i] = frames[i]
    OBVIOUS
  <2> HIDE DEF e2
  <2>3. Due(SubSeq(frames, 1, Len(frames)), e) = Due(SubSeq(frames, 1, Len(frames)), e2)
    BY <1>1, <1>2, <2>2, DueSame
  <2>4. Due(SubSeq(frames, 1, Len(frames)), e).frame \in 0 .. Len(frames)
    BY <1>1, DueIs DEF IsDue
  <2> QED BY <2>1, <2>3, <2>4
<1> HIDE DEF e2, due
<1>5. /\ objs'[b] = e2 /\ exc' = e2 /\ \A c \in Blocks : c # b => objs'[c] = objs[c]
      /\ objs' = [c \in Blocks |-> objs'[c]]
  <2>1. /\ objs'[b] = e2 /\ \A c \in Blocks : c # b => objs'[c] = objs[c]
        /\ objs' = [c \in Blocks |-> objs'[c]]
    BY <1>1, <1>3
  <2>2. exc' = objs'[flight']
    BY DEF exc
  <2> QED BY <1>3, <2>1, <2>2
<1>6. \A c \in Blocks : IsObj(objs[c]) => IsObj(objs'[c]) /\ Alike(objs[c], objs'[c])
  BY <1>2, <1>5 DEF Alike
<1>7. \A i \in 1 .. Len(frames) : frames[i].place = DTOR => frames[i].in # b
  BY <1>1, LenProperties DEF Suspended
<1>8. Typed'
  BY <1>1, <1>2, <1>3, <1>5, <1>6 DEF PInv, Typed
<1>9. InUseLive'
  <2>1. ASSUME NEW i \in 1 .. Len(frames), NEW c \in Holds(frames[i]), c # NONE
        PROVE  IsObj(objs'[c])
    <3>1. frames[i] \in FrameT
      BY <1>1, ElementOfSeq
    <3>2. c \in Blocks
      BY <2>1, <3>1 DEF Holds, FrameT, Copy
    <3> QED BY <1>6, <2>1, <3>2 DEF PInv, InUseLive
  <2> QED BY <1>2, <1>3, <1>5, <2>1 DEF InUseLive
<1>10. PadsHold'
  BY <1>3 DEF PInv, PadsHold
<1>11. Waits'
  <2> SUFFICES ASSUME NEW i \in 1 .. Len(frames), frames[i].place = DTOR
               PROVE  LET c == frames[i].in
                      IN  /\ c # b
                          /\ \A j \in i + 1 .. Len(frames) : c \notin Holds(frames[j])
                          /\ Bound(frames, objs'[c], i - 1)
                          /\ Lets(frames[i].fn, objs'[c])
    BY <1>3 DEF Waits
  <2>1. frames[i].in \in Blocks /\ frames[i].in # b
    BY <1>7 DEF PInv, PadsHold
  <2>2. objs'[frames[i].in] = objs[frames[i].in]
    BY <1>5, <2>1
  <2> QED BY <2>1, <2>2 DEF PInv, Waits
<1>12. InSearch'
  BY <1>1, <1>2, <1>3, <1>4, <1>5 DEF InSearch, Alike
<1>13. InCleanup'
  <2> SUFFICES ASSUME phase' = "cleanup"
               PROVE  Bound(frames, e2, Len(frames))
    BY <1>3, <1>5 DEF InCleanup
  <2>1. e2.kind = "forced"
    BY <1>2, <1>3 DEF Alike
  <2> QED BY <1>2, <1>4, <2>1 DEF Bound, Domestic
<1>14. Passed'
  BY <1>1, <1>3 DEF Passed
<1>15. Resumes'
  BY <1>1, <1>3 DEF PInv, Resumes
<1>16. Violated'
  <2> SUFFICES ASSUME NEW i \in 1 .. Len(frames), frames[i].place = SPEC
               PROVE  /\ Domestic(objs'[frames[i].in]) /\ Specified(frames[i].fn)
                      /\ frames[i].fn \in DOMAIN Functions
                      /\ i # Len(frames) /\ frames[i + 1].fn = UNEXPECTED
    BY <1>3 DEF Violated
  <2>1. i # Len(frames)
    BY DEF Top
  <2>2. frames[i].in \in Blocks /\ IsObj(objs[frames[i].in])
    BY <1>1, PersonalityAssumption DEF PInv, PadsHold, InUseLive, Holds
  <2>3. Alike(objs[frames[i].in], objs'[frames[i].in])
    BY <1>6, <2>2
  <2> QED BY <2>1, <2>3 DEF PInv, Violated, Alike, Domestic
<1>17. Unexpected'
  <2> SUFFICES ASSUME NEW i \in 1 .. Len(frames), frames[i].fn = UNEXPECTED
               PROVE  LET f == frames[i] g == frames[i - 1]
                      IN  /\ i > 1 /\ g.place = SPEC
                          /\ f.place # BODY => i = Len(frames)
                          /\ f.place \in {BODY, HANDLER} =>
                               f.copied = [block |-> g.in, lsda |-> g.fn, switch |-> -1,
                                           base |-> g.fn]
                          /\ f.place = HANDLER => Domestic(objs'[f.in])
                          /\ f.place = DTOR => Allows(SpecOf(g.fn), objs'[f.in])
                          /\ f.place # BODY => Allows(SpecOf(g.fn), e2)
    BY <1>3, <1>5 DEF PInv, Unexpected
  <2> DEFINE f == frames[i]
             g == frames[i - 1]
  <2>1. /\ i > 1 /\ g.place = SPEC
        /\ f.place # BODY => i = Len(frames)
        /\ f.place \in {BODY, HANDLER} =>
             f.copied = [block |-> g.in, lsda |-> g.fn, switch |-> -1, base |-> g.fn]
    BY DEF PInv, Unexpected
  <2>2. f.place = HANDLER => Domestic(objs'[f.in])
    <3> SUFFICES ASSUME f.place = HANDLER PROVE Domestic(objs'[f.in])
      OBVIOUS
    <3>1. f.in \in Blocks /\ Domestic(objs[f.in])
      BY DEF PInv, PadsHold, Unexpected
    <3>2. IsObj(objs[f.in])
      BY <1>1, <3>1, PersonalityAssumption DEF Domestic, Obj
    <3> QED BY <1>6, <3>1, <3>2 DEF Alike, Domestic
  <2>3. f.place = DTOR => Allows(SpecOf(g.fn), objs'[f.in])
    <3> SUFFICES ASSUME f.place = DTOR PROVE Allows(SpecOf(g.fn), objs'[f.in])
      OBVIOUS
    <3>1. f.in \in Blocks /\ f.in # b /\ Allows(SpecOf(g.fn), objs[f.in])
      BY <1>7 DEF PInv, PadsHold, Unexpected
    <3> QED BY <1>5, <3>1
  <2>4. f.place # BODY => Allows(SpecOf(g.fn), e2)
    <3> SUFFICES ASSUME f.place # BODY PROVE Allows(SpecOf(g.fn), e2)
      OBVIOUS
    <3>1. Allows(SpecOf(g.fn), e)
      BY <2>1 DEF Top
    <3> QED BY <1>2, <3>1 DEF Allows, Alike, Domestic
  <2> QED BY <2>1, <2>2, <2>3, <2>4
<1> QED BY <1>8, <1>9, <1>10, <1>11, <1>12, <1>13, <1>14, <1>15, <1>16, <1>17 DEF PInv

\* The state of the program between two unwindings.
LEMMA AtRun ==
  ASSUME PInv, Running
  PROVE  /\ frames \in Seq(FrameT) /\ Len(frames) \in Nat /\ Len(frames) \in 1 .. Len(frames)
         /\ \A i \in 1 .. Len(frames) : frames[i] \in FrameT
         /\ phase = "run" /\ flight = NONE /\ at = 0
         /\ Top = frames[Len(frames)] /\ Top \in FrameT
         /\ \A i \in 1 .. Len(frames) : frames[i].place # RESUME
<1>1. frames # <<>> /\ phase = "run" /\ flight = NONE /\ frames \in Seq(FrameT)
      /\ at = 0
  BY DEF PInv, Typed, Running
<1>2. Len(frames) \in Nat /\ Len(frames) # 0
  BY <1>1, EmptySeq, LenProperties
<1>3. \A i \in 1 .. Len(frames) : frames[i] \in FrameT
  BY <1>1, ElementOfSeq
<1>4. \A i \in 1 .. Len(frames) : frames[i].place # RESUME
  BY <1>1 DEF PInv, Resumes
<1> QED BY <1>1, <1>2, <1>3, <1>4 DEF Top

LEMMA SameButItself ==
  ASSUME NEW e
  PROVE  SameBut(e, e, e.owed)
BY DEF SameBut, Alike

\* A call: of a function, or of the unexpected handler by a frame whose
\* specification is violated.
LEMMA Pushes ==
  ASSUME PInv, Running, NEW f \in FrameT, f.place = BODY, f.in = NONE,
         f.fn = UNEXPECTED <=> Top.place = SPEC,
         f.fn = UNEXPECTED => f.copied = [block |-> Top.in, lsda |-> Top.fn,
                                          switch |-> -1, base |-> Top.fn],
         f.copied # NONE => f.fn = UNEXPECTED,
         Top.fn = UNEXPECTED => Top.place = BODY,
         frames' = Append(frames, f), UNCHANGED <<objs, flight, phase, at>>
  PROVE  PInv'
<1> DEFINE n == Len(frames)
<1>1. /\ frames \in Seq(FrameT) /\ n \in Nat /\ n \in 1 .. n
      /\ \A i \in 1 .. n : frames[i] \in FrameT /\ frames[i].place # RESUME
      /\ phase = "run" /\ flight = NONE /\ Top = frames[n] /\ at = 0
  BY AtRun
<1>2. /\ frames' \in Seq(FrameT) /\ frames' # <<>> /\ Len(frames') = n + 1
      /\ \A i \in 1 .. n : frames'[i] = frames[i]
      /\ frames'[n + 1] = f
  BY <1>1, Pushed
<1> HIDE DEF n
<1>3. f.place # DTOR /\ f.place # HANDLER /\ f.place # SPEC /\ f.place # RESUME
  BY DEF BODY, DTOR, HANDLER, SPEC, RESUME
<1>4. \A i \in 1 .. n + 1 : i \in 1 .. n \/ i = n + 1
  BY <1>1
<1>5. \A c \in Holds(f) : c # NONE => f.fn = UNEXPECTED /\ c = Top.in
  <2> SUFFICES ASSUME NEW c \in Holds(f), c # NONE PROVE f.fn = UNEXPECTED /\ c = Top.in
    OBVIOUS
  <2>1. f.copied # NONE /\ c = f.copied.block
    BY DEF Holds
  <2>2. f.copied = [block |-> Top.in, lsda |-> Top.fn, switch |-> -1, base |-> Top.fn]
    BY <2>1
  <2> QED BY <2>1, <2>2
<1>6. Typed'
  BY <1>1, <1>2 DEF PInv, Typed
<1>7. InUseLive'
  <2> SUFFICES ASSUME NEW i \in 1 .. n + 1, NEW c \in Holds(frames'[i]), c # NONE
               PROVE  IsObj(objs[c])
    BY <1>1, <1>2 DEF InUseLive
  <2>1. CASE i \in 1 .. n
    BY <1>2, <2>1 DEF PInv, InUseLive, n
  <2>2. CASE i = n + 1
    <3>1. c = frames[n].in /\ frames[n].in \in Holds(frames[n])
      BY <1>1, <1>2, <1>5, <2>2 DEF Holds
    <3> QED BY <1>1, <3>1 DEF PInv, InUseLive, n
  <2> QED BY <1>4, <2>1, <2>2
<1>8. PadsHold'
  <2> SUFFICES ASSUME NEW i \in 1 .. n + 1
               PROVE  LET g == frames'[i] IN
                      /\ g.place \in {DTOR, HANDLER, SPEC} => g.in \in Blocks
                      /\ g.place # BODY => g.fn # NONE
                      /\ g.place = HANDLER => HasTry(g.fn)
    BY <1>2 DEF PadsHold
  <2>1. CASE i \in 1 .. n
    BY <1>2, <2>1 DEF PInv, PadsHold, n
  <2>2. CASE i = n + 1
    BY <1>2, <1>3, <2>2
  <2> QED BY <1>4, <2>1, <2>2
<1>9. Waits'
  <2> SUFFICES ASSUME NEW i \in 1 .. n + 1, frames'[i].place = DTOR
               PROVE  LET b == frames'[i].in
                      IN  /\ b # flight
                          /\ \A j \in i + 1 .. n + 1 : b \notin Holds(frames'[j])
                          /\ Bound(frames', objs[b], i - 1)
                          /\ Lets(frames'[i].fn, objs[b])
    BY <1>1, <1>2 DEF Waits
  <2> DEFINE b == frames[i].in
  <2>1. i \in 1 .. n /\ frames'[i] = frames[i]
    BY <1>2, <1>3, <1>4
  <2>2. /\ b # flight
        /\ \A j \in i + 1 .. n : b \notin Holds(frames[j])
        /\ Bound(frames, objs[b], i - 1)
        /\ Lets(frames[i].fn, objs[b])
        /\ b \in Blocks /\ b # NONE
    BY <2>1, PersonalityAssumption DEF PInv, Waits, PadsHold, n
  <2>3. ASSUME NEW j \in i + 1 .. n + 1 PROVE b \notin Holds(frames'[j])
    <3>1. CASE j \in i + 1 .. n
      <4>1. j \in 1 .. n
        BY <1>1, <2>1, <3>1
      <4> QED BY <1>2, <2>2, <3>1, <4>1
    <3>2. CASE j = n + 1
      <4> SUFFICES ASSUME b \in Holds(f) PROVE FALSE
        BY <1>2, <3>2
      <4>1. Top.place = SPEC /\ b = frames[n].in
        BY <1>1, <1>5, <2>2
      <4>2. i # n
        BY <1>1, <2>1, <4>1 DEF DTOR, SPEC
      <4>3. n \in i + 1 .. n
        BY <1>1, <2>1, <4>2
      <4> QED BY <2>2, <4>1, <4>3 DEF Holds
    <3>3. j \in i + 1 .. n \/ j = n + 1
      BY <1>1, <2>1
    <3> HIDE DEF b
    <3> QED BY <3>1, <3>2, <3>3
  <2>4. Bound(frames', objs[b], i - 1)
    <3>1. i - 1 \in 0 .. n /\ i - 1 \in 0 .. n + 1 /\ \A j \in 1 .. i - 1 : j \in 1 .. n
      BY <1>1, <2>1
    <3>2. \A j \in 1 .. i - 1 : frames[j] = frames'[j]
      BY <1>2, <3>1
    <3>3. SameBut(objs[b], objs[b], objs[b].owed)
      BY SameButItself
    <3> HIDE DEF b
    <3> QED BY <1>1, <1>2, <2>2, <3>1, <3>2, <3>3, BoundMoves DEF n
  <2> QED BY <2>1, <2>2, <2>3, <2>4
<1>10. InSearch' /\ InCleanup' /\ Passed'
  BY <1>1 DEF InSearch, InCleanup, Passed
<1>11. Resumes'
  <2> SUFFICES ASSUME NEW i \in 1 .. n + 1 PROVE frames'[i].place # RESUME
    BY <1>2 DEF Resumes
  <2> QED BY <1>1, <1>2, <1>3, <1>4
<1>12. Violated'
  <2> SUFFICES ASSUME NEW i \in 1 .. n + 1, frames'[i].place = SPEC
               PROVE  /\ Domestic(objs[frames'[i].in]) /\ Specified(frames'[i].fn)
                      /\ frames'[i].fn \in DOMAIN Functions
                      /\ i # n + 1 /\ frames'[i + 1].fn = UNEXPECTED
    BY <1>1, <1>2 DEF Violated
  <2>1. i \in 1 .. n /\ frames'[i] = frames[i] /\ i # n + 1
    BY <1>1, <1>2, <1>3, <1>4
  <2>2. /\ Domestic(objs[frames[i].in]) /\ Specified(frames[i].fn)
        /\ frames[i].fn \in DOMAIN Functions
        /\ i # n => frames[i + 1].fn = UNEXPECTED
    BY <2>1 DEF PInv, Violated, n
  <2>3. CASE i = n
    BY <1>1, <1>2, <2>1, <2>2, <2>3
  <2>4. CASE i # n
    <3>1. i + 1 \in 1 .. n
      BY <1>1, <2>1, <2>4
    <3> QED BY <1>2, <2>1, <2>2, <2>4, <3>1
  <2> QED BY <2>3, <2>4
<1>13. Unexpected'
  <2> SUFFICES ASSUME NEW i \in 1 .. n + 1
               PROVE  LET h == frames'[i] g == frames'[i - 1]
                      IN  /\ h.copied # NONE => h.fn = UNEXPECTED
                          /\ h.fn = UNEXPECTED =>
                               /\ i > 1 /\ g.place = SPEC
                               /\ h.place = BODY
                               /\ h.copied = [block |-> g.in, lsda |-> g.fn, switch |-> -1,
                                              base |-> g.fn]
    <3>1. BODY # HANDLER /\ BODY # DTOR
      BY DEF BODY, HANDLER, DTOR
    <3> QED BY <1>1, <1>2, <3>1 DEF Unexpected
  <2>1. CASE i \in 1 .. n
    <3>1. frames'[i] = frames[i] /\ (frames[i].copied # NONE => frames[i].fn = UNEXPECTED)
      BY <1>2, <2>1 DEF PInv, Unexpected, n
    <3> SUFFICES ASSUME frames[i].fn = UNEXPECTED
                 PROVE  LET h == frames[i] g == frames'[i - 1]
                        IN  /\ i > 1 /\ g.place = SPEC
                            /\ h.place = BODY
                            /\ h.copied = [block |-> g.in, lsda |-> g.fn, switch |-> -1,
                                           base |-> g.fn]
      BY <3>1
    <3>2. LET h == frames[i] g == frames[i - 1]
          IN  /\ i > 1 /\ g.place = SPEC
              /\ h.place # BODY => i = n
              /\ h.place = BODY =>
                   h.copied = [block |-> g.in, lsda |-> g.fn, switch |-> -1, base |-> g.fn]
      BY <2>1 DEF PInv, Unexpected, n
    <3>3. frames[i].place = BODY
      BY <1>1, <3>2
    <3>4. frames'[i - 1] = frames[i - 1]
      <4>1. i - 1 \in 1 .. n
        BY <1>1, <2>1, <3>2
      <4> QED BY <1>2, <4>1
    <3> QED BY <3>2, <3>3, <3>4
  <2>2. CASE i = n + 1
    <3>1. frames'[i] = f /\ frames'[i - 1] = Top /\ i > 1
      BY <1>1, <1>2, <2>2
    <3> QED BY <3>1
  <2> QED BY <1>4, <2>1, <2>2
<1> QED BY <1>6, <1>7, <1>8, <1>9, <1>10, <1>11, <1>12, <1>13 DEF PInv

\* The return of a function that is not called by __cxa_call_unexpected.
LEMMA Pops ==
  ASSUME PInv, Running, Top.fn # UNEXPECTED, Len(frames) > 1,
         frames' = SubSeq(frames, 1, Len(frames) - 1), UNCHANGED <<objs, flight, phase, at>>
  PROVE  PInv'
<1> DEFINE m == Len(frames) - 1
<1>1. /\ frames \in Seq(FrameT) /\ m \in Nat /\ m > 0 /\ Len(frames) = m + 1
      /\ \A i \in 1 .. m : i \in 1 .. Len(frames)
      /\ \A i \in 1 .. m + 1 : frames[i] \in FrameT /\ frames[i].place # RESUME
      /\ phase = "run" /\ flight = NONE /\ Top = frames[m + 1] /\ at = 0
  BY AtRun
<1>2. /\ frames' \in Seq(FrameT) /\ frames' # <<>> /\ Len(frames') = m
      /\ \A i \in 1 .. m : frames'[i] = frames[i]
  <2>1. m \in 0 .. Len(frames)
    BY <1>1
  <2> HIDE DEF m
  <2>2. frames' = SubSeq(frames, 1, m)
    BY DEF m
  <2>3. frames' \in Seq(FrameT) /\ Len(frames') = m /\ \A i \in 1 .. m : frames'[i] = frames[i]
    BY <1>1, <2>1, <2>2, Prefix
  <2> QED BY <1>1, <2>3, EmptySeq
<1> HIDE DEF m
<1>3. Typed'
  BY <1>1, <1>2 DEF PInv, Typed
<1>4. InUseLive'
  BY <1>1, <1>2 DEF PInv, InUseLive
<1>5. PadsHold'
  BY <1>1, <1>2 DEF PInv, PadsHold
<1>6. Waits'
  <2> SUFFICES ASSUME NEW i \in 1 .. m, frames[i].place = DTOR
               PROVE  LET b == frames[i].in
                      IN  /\ b # flight
                          /\ \A j \in i + 1 .. m : b \notin Holds(frames[j])
                          /\ Bound(frames', objs[b], i - 1)
                          /\ Lets(frames[i].fn, objs[b])
    <3>1. \A k \in 1 .. m : frames'[k] = frames[k] /\ \A j \in k + 1 .. m : j \in 1 .. m
      BY <1>1, <1>2
    <3>2. \A k \in 1 .. m : \A j \in k + 1 .. m : frames'[j] = frames[j]
      BY <3>1
    <3> QED BY <1>1, <1>2, <3>1, <3>2 DEF Waits
  <2> DEFINE b == frames[i].in
  <2>1. /\ b # flight
        /\ \A j \in i + 1 .. m + 1 : b \notin Holds(frames[j])
        /\ Bound(frames, objs[b], i - 1)
        /\ Lets(frames[i].fn, objs[b])
    BY <1>1 DEF PInv, Waits
  <2>2. Bound(frames', objs[b], i - 1)
    <3>1. i - 1 \in 0 .. m /\ i - 1 \in 0 .. m + 1 /\ \A j \in 1 .. i - 1 : j \in 1 .. m
      BY <1>1
    <3>2. \A j \in 1 .. i - 1 : frames[j] = frames'[j]
      BY <1>2, <3>1
    <3>3. SameBut(objs[b], objs[b], objs[b].owed)
      BY SameButItself
    <3>4. /\ frames \in Seq(FrameT) /\ frames' \in Seq(FrameT)
          /\ i - 1 \in 0 .. Len(frames) /\ i - 1 \in 0 .. Len(frames')
      BY <1>1, <1>2, <3>1
    <3> HIDE DEF b
    <3> QED BY ONLY <2>1, <3>2, <3>3, <3>4, BoundMoves
  <2>3. \A j \in i + 1 .. m : j \in i + 1 .. m + 1
    BY <1>1
  <2> QED BY <2>1, <2>2, <2>3
<1>7. InSearch' /\ InCleanup' /\ Passed'
  BY <1>1 DEF InSearch, InCleanup, Passed
<1>8. Resumes'
  BY <1>1, <1>2 DEF Resumes
<1>9. Violated'
  <2> SUFFICES ASSUME NEW i \in 1 .. m, frames[i].place = SPEC
               PROVE  /\ Domestic(objs[frames[i].in]) /\ Specified(frames[i].fn)
                      /\ frames[i].fn \in DOMAIN Functions
                      /\ i # m /\ frames'[i + 1].fn = UNEXPECTED
    BY <1>1, <1>2 DEF Violated
  <2>1. /\ Domestic(objs[frames[i].in]) /\ Specified(frames[i].fn)
        /\ frames[i].fn \in DOMAIN Functions
        /\ i # m + 1 => frames[i + 1].fn = UNEXPECTED
    BY <1>1 DEF PInv, Violated
  <2>2. i # m /\ i + 1 \in 1 .. m
    BY <1>1, <2>1
  <2> QED BY <1>1, <1>2, <2>1, <2>2
<1>10. Unexpected'
  <2> SUFFICES ASSUME NEW i \in 1 .. m
               PROVE  LET h == frames'[i] g == frames'[i - 1]
                      IN  /\ h.copied # NONE => h.fn = UNEXPECTED
                          /\ h.fn = UNEXPECTED =>
                               /\ i > 1 /\ g.place = SPEC
                               /\ h.place = BODY
                               /\ h.copied = [block |-> g.in, lsda |-> g.fn, switch |-> -1,
                                              base |-> g.fn]
    <3>1. BODY # HANDLER /\ BODY # DTOR
      BY DEF BODY, HANDLER, DTOR
    <3> QED BY <1>1, <1>2, <3>1 DEF Unexpected
  <2>1. LET h == frames[i] g == frames[i - 1]
        IN  /\ h.copied # NONE => h.fn = UNEXPECTED
            /\ h.fn = UNEXPECTED =>
                 /\ i > 1 /\ g.place = SPEC
                 /\ h.place # BODY => i = m + 1
                 /\ h.place = BODY =>
                      h.copied = [block |-> g.in, lsda |-> g.fn, switch |-> -1, base |-> g.fn]
    BY <1>1 DEF PInv, Unexpected
  <2>2. i > 1 => i - 1 \in 1 .. m
    BY <1>1
  <2>3. i # m + 1
    BY <1>1
  <2> QED BY <1>2, <2>1, <2>2, <2>3
<1> QED BY <1>3, <1>4, <1>5, <1>6, <1>7, <1>8, <1>9, <1>10 DEF PInv

\* Frame k may go on as g, when the exceptions are those of os: after a handler,
\* and in a landing pad.
GoesOn(k, g, os) ==
  /\ \A c \in Blocks : c # g.in => os[c] = objs[c]
  /\ g.in \in Blocks => IsObj(os[g.in]) /\ Alike(objs[g.in], os[g.in])
  /\ g.fn = frames[k].fn
  /\ g.copied = NONE \/ g.copied = frames[k].copied
  /\ g.copied # NONE => g.fn = UNEXPECTED
  /\ g.place # RESUME
  /\ g.place \in {DTOR, HANDLER, SPEC} => g.in \in Blocks
  /\ g.place # BODY => g.fn # NONE
  /\ g.place = HANDLER => HasTry(g.fn)
  /\ g.place = DTOR => Bound(frames, os[g.in], k - 1) /\ Lets(g.fn, os[g.in])
  /\ g.place = SPEC =>
       /\ Domestic(os[g.in]) /\ Specified(g.fn) /\ g.fn \in DOMAIN Functions
       /\ os[g.in].hdr.switch = -1 /\ os[g.in].hdr.lsda = g.fn /\ os[g.in].hdr.temp = g.fn
  /\ \A i \in 1 .. k - 1 : frames[i].place = DTOR => frames[i].in # g.in
  /\ g.fn = UNEXPECTED =>
       \/ /\ g.place = HANDLER /\ g.copied = frames[k].copied
          /\ frames[k].place \in {BODY, HANDLER} /\ Domestic(os[g.in])
       \/ g.place = DTOR /\ Allows(SpecOf(frames[k - 1].fn), os[g.in])

\* Then the frames above it are gone, and with them the exceptions to which
\* nobody refers.
Goes(k, g, os) ==
  /\ frames' = Append(SubSeq(frames, 1, k - 1), g)
  /\ objs' = Swept(os, frames', NONE)
  /\ flight' = NONE /\ phase' = "run" /\ at' = 0

LEMMA Relands ==
  ASSUME PInv, NEW k, k \in 1 .. Len(frames), NEW g, g \in FrameT, NEW os,
         GoesOn(k, g, os), Goes(k, g, os)
  PROVE  PInv'
<1> DEFINE n == Len(frames)
<1>1. /\ frames \in Seq(FrameT) /\ n \in Nat /\ k \in 1 .. n /\ k \in Nat
      /\ \A i \in 1 .. n : frames[i] \in FrameT
      /\ k - 1 \in 0 .. n /\ \A i \in 1 .. k - 1 : i \in 1 .. n /\ i # n
      /\ \A i \in 1 .. k : i \in 1 .. n
  <2>1. frames \in Seq(FrameT)
    BY DEF PInv, Typed
  <2>2. n \in Nat /\ \A i \in 1 .. n : frames[i] \in FrameT
    BY <2>1, LenProperties, ElementOfSeq
  <2> HIDE DEF n
  <2>3. k \in 1 .. n
    BY DEF n
  <2> QED BY <2>1, <2>2, <2>3
<1>2. /\ frames' \in Seq(FrameT) /\ frames' # <<>> /\ Len(frames') = k
      /\ DOMAIN frames' = 1 .. k
      /\ \A i \in 1 .. k - 1 : frames'[i] = frames[i]
      /\ frames'[k] = g
  <2> DEFINE s == SubSeq(frames, 1, k - 1)
  <2>1. s \in Seq(FrameT) /\ Len(s) = k - 1 /\ \A i \in 1 .. k - 1 : s[i] = frames[i]
    BY <1>1, Prefix
  <2>2. frames' = Append(s, g)
    BY DEF Goes
  <2> HIDE DEF s, n
  <2>3. /\ frames' \in Seq(FrameT) /\ frames' # <<>> /\ Len(frames') = Len(s) + 1
        /\ DOMAIN frames' = 1 .. Len(s) + 1
        /\ \A i \in 1 .. Len(s) : frames'[i] = s[i]
        /\ frames'[Len(s) + 1] = g
    BY <2>1, <2>2, Pushed
  <2>4. Len(s) + 1 = k
    BY <1>1, <2>1
  <2> QED BY <2>1, <2>3, <2>4
<1> HIDE DEF n
<1>3. /\ objs' = [c \in Blocks |-> objs'[c]]
      /\ \A c \in Blocks : objs'[c] \in {os[c], Obj}
      /\ \A i \in 1 .. k : \A c \in Holds(frames'[i]) : c \in Blocks => objs'[c] = os[c]
  <2> DEFINE used == InUse(frames', NONE)
  <2>1. objs' = [c \in Blocks |-> IF c \in used THEN os[c] ELSE Obj]
    BY DEF Swept, Goes
  <2>2. \A i \in 1 .. k : \A c \in Holds(frames'[i]) : c \in used
    BY <1>2 DEF InUse
  <2> HIDE DEF used
  <2> QED BY <2>1, <2>2
<1>4. \A c \in Blocks : /\ IsObj(objs[c]) => IsObj(os[c]) /\ Alike(objs[c], os[c])
                        /\ os[c] = Obj \/ IsObj(os[c])
  BY DEF Alike, PInv, Typed, GoesOn
<1>5. Holds(g) \subseteq {g.in} \cup Holds(frames[k])
  BY DEF Holds, GoesOn
<1>6. \A i \in 1 .. k : i \in 1 .. k - 1 \/ i = k
  BY <1>1
<1>7. \A i \in 1 .. n : frames[i].in \in Holds(frames[i]) /\ g.in \in Holds(g)
  BY DEF Holds
<1>0. flight' = NONE /\ phase' = "run" /\ at' = 0
  BY DEF Goes
<1>8. Typed'
  <2>1. \A c \in Blocks : objs'[c] = Obj \/ IsObj(objs'[c])
    BY <1>3, <1>4
  <2> QED BY <1>0, <1>1, <1>2, <1>3, <2>1 DEF Typed
<1>9. InUseLive'
  <2> SUFFICES ASSUME NEW i \in 1 .. k, NEW c \in Holds(frames'[i]), c # NONE
               PROVE  IsObj(objs'[c])
    BY <1>0, <1>2 DEF InUseLive
  <2>1. frames'[i] \in FrameT
    BY <1>2, ElementOfSeq
  <2>2. c \in Blocks
    BY <2>1 DEF Holds, FrameT, Copy
  <2>3. IsObj(os[c])
    <3>1. CASE i \in 1 .. k - 1
      BY <1>1, <1>2, <1>4, <2>2, <3>1 DEF PInv, InUseLive, n
    <3>2. CASE i = k
      <4>1. c = g.in \/ c \in Holds(frames[k])
        BY <1>2, <1>5, <3>2
      <4> QED BY <1>1, <1>4, <2>2, <4>1 DEF PInv, InUseLive, GoesOn, n
    <3> QED BY <1>6, <3>1, <3>2
  <2> QED BY <1>3, <2>2, <2>3
<1>10. PadsHold'
  <2> SUFFICES ASSUME NEW i \in 1 .. k
               PROVE  LET f == frames'[i] IN
                      /\ f.place \in {DTOR, HANDLER, SPEC} => f.in \in Blocks
                      /\ f.place # BODY => f.fn # NONE
                      /\ f.place = HANDLER => HasTry(f.fn)
    BY <1>2 DEF PadsHold
  <2>1. CASE i \in 1 .. k - 1
    BY <1>1, <1>2, <2>1 DEF PInv, PadsHold, n
  <2>2. CASE i = k
    BY <1>2, <2>2 DEF GoesOn
  <2> QED BY <1>6, <2>1, <2>2
<1>11. Waits'
  <2> SUFFICES ASSUME NEW i \in 1 .. k, frames'[i].place = DTOR
               PROVE  LET b == frames'[i].in
                      IN  /\ b # NONE
                          /\ \A j \in i + 1 .. k : b \notin Holds(frames'[j])
                          /\ Bound(frames', objs'[b], i - 1)
                          /\ Lets(frames'[i].fn, objs'[b])
    BY <1>0, <1>2 DEF Waits
  <2>1. i - 1 \in 0 .. n /\ i - 1 \in 0 .. k /\ \A j \in 1 .. i - 1 : j \in 1 .. k - 1
    BY <1>1
  <2>2. \A j \in 1 .. i - 1 : frames[j] = frames'[j]
    BY <1>2, <2>1
  <2>3. CASE i \in 1 .. k - 1
    <3> DEFINE b == frames[i].in
    <3>1. frames'[i] = frames[i] /\ frames[i].place = DTOR
      BY <1>2, <2>3
    <3>2. /\ \A j \in i + 1 .. n : b \notin Holds(frames[j])
          /\ Bound(frames, objs[b], i - 1)
          /\ Lets(frames[i].fn, objs[b])
          /\ b \in Blocks /\ b # NONE /\ b # g.in
      BY <1>1, <2>3, <3>1, PersonalityAssumption DEF PInv, Waits, PadsHold, GoesOn, n
    <3>3. objs'[b] = objs[b]
      <4>1. b \in Holds(frames'[i])
        BY <1>1, <1>7, <2>3, <3>1
      <4>2. objs'[b] = os[b] /\ os[b] = objs[b]
        BY <1>1, <1>3, <2>3, <3>2, <4>1 DEF GoesOn
      <4> QED BY <4>2
    <3>4. ASSUME NEW j \in i + 1 .. k PROVE b \notin Holds(frames'[j])
      <4>1. j \in 1 .. k /\ j \in i + 1 .. n
        BY <1>1, <2>3
      <4>2. b \notin Holds(frames[j])
        BY <3>2, <4>1
      <4>3. CASE j \in 1 .. k - 1
        BY <1>2, <4>2, <4>3
      <4>4. CASE j = k
        BY <1>2, <1>5, <3>2, <4>2, <4>4
      <4> QED BY <1>6, <4>1, <4>3, <4>4
    <3>5. Bound(frames', objs[b], i - 1)
      <4>1. SameBut(objs[b], objs[b], objs[b].owed)
        BY SameButItself
      <4> HIDE DEF b
      <4> QED BY <1>1, <1>2, <2>1, <2>2, <3>2, <4>1, BoundMoves DEF n
    <3> QED BY <3>1, <3>2, <3>3, <3>4, <3>5
  <2>4. CASE i = k
    <3> DEFINE b == g.in
    <3>1. frames'[i] = g /\ g.place = DTOR /\ b \in Blocks /\ b # NONE
      BY <1>2, <2>4, PersonalityAssumption DEF GoesOn
    <3>2. objs'[b] = os[b]
      BY <1>1, <1>2, <1>3, <1>7, <3>1
    <3>3. Bound(frames', os[b], k - 1)
      <4>1. SameBut(os[b], os[b], os[b].owed) /\ Bound(frames, os[b], k - 1)
        BY <3>1, SameButItself DEF GoesOn
      <4> HIDE DEF b
      <4> QED BY <1>1, <1>2, <2>1, <2>2, <2>4, <4>1, BoundMoves DEF n
    <3>4. i + 1 .. k = {}
      BY <1>1, <2>4
    <3>5. Lets(g.fn, os[b])
      BY <3>1 DEF GoesOn
    <3> QED BY <2>4, <3>1, <3>2, <3>3, <3>4, <3>5
  <2> QED BY <1>6, <2>3, <2>4
<1>12. InSearch' /\ InCleanup' /\ Passed'
  BY <1>0 DEF InSearch, InCleanup, Passed
<1>13. Resumes'
  <2> SUFFICES ASSUME NEW i \in 1 .. k PROVE frames'[i].place # RESUME
    BY <1>2 DEF Resumes
  <2>1. CASE i \in 1 .. k - 1
    BY <1>1, <1>2, <2>1 DEF PInv, Resumes, n
  <2> QED BY <1>2, <1>6, <2>1 DEF GoesOn
<1>14. Violated'
  <2> SUFFICES ASSUME NEW i \in 1 .. k, frames'[i].place = SPEC
               PROVE  LET f == frames'[i]
                          e == objs'[f.in]
                      IN  /\ Domestic(e) /\ Specified(f.fn) /\ f.fn \in DOMAIN Functions
                          /\ IF i = k
                             THEN e.hdr.switch = -1 /\ e.hdr.lsda = f.fn /\ e.hdr.temp = f.fn
                             ELSE frames'[i + 1].fn = UNEXPECTED
    BY <1>0, <1>2 DEF Violated
  <2>1. CASE i \in 1 .. k - 1
    <3> DEFINE b == frames[i].in
    <3>1. frames'[i] = frames[i] /\ frames[i].place = SPEC /\ i \in 1 .. n /\ i # n /\ i # k
          /\ i + 1 \in 1 .. k
      BY <1>1, <1>2, <2>1
    <3>2. /\ Domestic(objs[b]) /\ Specified(frames[i].fn)
          /\ frames[i].fn \in DOMAIN Functions /\ frames[i + 1].fn = UNEXPECTED
          /\ b \in Blocks
      BY <3>1 DEF PInv, Violated, PadsHold, n
    <3>3. IsObj(objs[b])
      BY <3>2, PersonalityAssumption DEF PInv, Typed, Domestic, Obj
    <3>4. objs'[b] = os[b] /\ Domestic(os[b])
      <4>1. b \in Holds(frames'[i])
        BY <1>7, <3>1
      <4>2. objs'[b] = os[b] /\ Alike(objs[b], os[b])
        BY <1>3, <1>4, <3>1, <3>2, <3>3, <4>1
      <4> QED BY <3>2, <4>2 DEF Alike, Domestic
    <3>5. frames'[i + 1].fn = frames[i + 1].fn
      <4>1. CASE i + 1 \in 1 .. k - 1
        BY <1>2, <4>1
      <4>2. CASE i + 1 = k
        BY <1>2, <4>2 DEF GoesOn
      <4> QED BY <1>6, <3>1, <4>1, <4>2
    <3> QED BY <3>1, <3>2, <3>4, <3>5
  <2>2. CASE i = k
    <3>1. frames'[i] = g /\ g.in \in Blocks /\ objs'[g.in] = os[g.in] /\ g.place = SPEC
      BY <1>1, <1>2, <1>3, <1>7, <2>2 DEF GoesOn
    <3> QED BY <2>2, <3>1 DEF GoesOn
  <2> QED BY <1>6, <2>1, <2>2
<1>15. Unexpected'
  <2>0. BODY # HANDLER /\ BODY # DTOR /\ HANDLER # DTOR
    BY DEF BODY, HANDLER, DTOR
  <2> SUFFICES ASSUME NEW i \in 1 .. k
               PROVE  LET h == frames'[i] d == frames'[i - 1]
                      IN  /\ h.copied # NONE => h.fn = UNEXPECTED
                          /\ h.fn = UNEXPECTED =>
                               /\ i > 1 /\ d.place = SPEC
                               /\ h.place # BODY => i = k
                               /\ h.place \in {BODY, HANDLER} =>
                                    h.copied = [block |-> d.in, lsda |-> d.fn, switch |-> -1,
                                                base |-> d.fn]
                               /\ h.place = HANDLER => Domestic(objs'[h.in])
                               /\ h.place = DTOR => Allows(SpecOf(d.fn), objs'[h.in])
    BY <1>0, <1>2 DEF Unexpected
  <2>1. LET h == frames[i] d == frames[i - 1]
        IN  /\ h.copied # NONE => h.fn = UNEXPECTED
            /\ h.fn = UNEXPECTED =>
                 /\ i > 1 /\ d.place = SPEC
                 /\ h.place # BODY => i = n
                 /\ h.place \in {BODY, HANDLER} =>
                      h.copied = [block |-> d.in, lsda |-> d.fn, switch |-> -1, base |-> d.fn]
    BY <1>1 DEF PInv, Unexpected, n
  <2>2. i > 1 => frames'[i - 1] = frames[i - 1]
    BY <1>1, <1>2
  <2>3. CASE i \in 1 .. k - 1
    <3>1. frames'[i] = frames[i] /\ i # n
      BY <1>1, <1>2, <2>3
    <3> QED BY <2>0, <2>1, <2>2, <3>1
  <2>4. CASE i = k
    <3>1. frames'[i] = g /\ (g.copied # NONE => g.fn = UNEXPECTED)
      BY <1>2, <2>4 DEF GoesOn
    <3> SUFFICES ASSUME g.fn = UNEXPECTED
                 PROVE  LET d == frames'[i - 1]
                        IN  /\ i > 1 /\ d.place = SPEC
                            /\ g.place \in {BODY, HANDLER} =>
                                 g.copied = [block |-> d.in, lsda |-> d.fn, switch |-> -1,
                                             base |-> d.fn]
                            /\ g.place = HANDLER => Domestic(objs'[g.in])
                            /\ g.place = DTOR => Allows(SpecOf(d.fn), objs'[g.in])
      BY <2>4, <3>1
    <3>2. /\ i > 1 /\ frames[i - 1].place = SPEC
          /\ frames[k].place \in {BODY, HANDLER} =>
               frames[k].copied = [block |-> frames[i - 1].in, lsda |-> frames[i - 1].fn,
                                   switch |-> -1, base |-> frames[i - 1].fn]
      BY <2>1, <2>4 DEF GoesOn
    <3>3. g.in \in Blocks /\ objs'[g.in] = os[g.in]
      <4>1. g.in \in Blocks
        BY DEF GoesOn
      <4>2. g.in \in Holds(frames'[k]) /\ k \in 1 .. k
        BY <1>1, <1>2, <1>7
      <4> QED BY <1>3, <4>1, <4>2
    <3>4. g.place = HANDLER => Domestic(objs'[g.in])
      BY <2>0, <3>3 DEF GoesOn
    <3>5. g.place = DTOR => Allows(SpecOf(frames[i - 1].fn), objs'[g.in])
      BY <2>0, <2>4, <3>3 DEF GoesOn
    <3>6. g.place \in {BODY, HANDLER} => g.copied = frames[k].copied
                                         /\ frames[k].place \in {BODY, HANDLER}
      BY <2>0 DEF GoesOn
    <3> QED BY <2>2, <3>2, <3>4, <3>5, <3>6
  <2> QED BY <1>6, <2>3, <2>4
<1> QED BY <1>8, <1>9, <1>10, <1>11, <1>12, <1>13, <1>14, <1>15 DEF PInv

\* The state of an unwinding.
LEMMA InFlight ==
  ASSUME PInv, flight # NONE
  PROVE  /\ frames \in Seq(FrameT) /\ Len(frames) \in Nat /\ frames # <<>>
         /\ \A i \in 1 .. Len(frames) : frames[i] \in FrameT
         /\ phase \in {"search", "cleanup"} /\ flight \in Blocks /\ at \in 0 .. Len(frames)
         /\ at > 0 => at \in 1 .. Len(frames) /\ frames[at] \in FrameT
         /\ exc = objs[flight] /\ IsObj(exc)
         /\ SubSeq(frames, 1, Len(frames)) = frames
         /\ \A i \in 1 .. Len(frames) : frames[i].place = SPEC =>
              i # Len(frames) /\ frames[i + 1].fn = UNEXPECTED
<1>1. /\ frames \in Seq(FrameT) /\ phase \in {"search", "cleanup"} /\ flight \in Blocks
      /\ at \in 0 .. Len(frames) /\ frames # <<>> /\ IsObj(objs[flight])
  BY DEF PInv, Typed, InUseLive
<1>2. Len(frames) \in Nat /\ Len(frames) # 0 /\ \A i \in 1 .. Len(frames) : frames[i] \in FrameT
  BY <1>1, EmptySeq, LenProperties, ElementOfSeq
<1>3. SubSeq(frames, 1, Len(frames)) = frames
  <2>1. frames[1] \in FrameT /\ 0 \in 0 .. Len(frames)
    BY <1>2
  <2> QED BY <1>1, <2>1, PrefixOfPushed
<1>4. \A i \in 1 .. Len(frames) : frames[i].place = SPEC =>
        i # Len(frames) /\ frames[i + 1].fn = UNEXPECTED
  BY <1>1 DEF PInv, Violated
<1>5. at > 0 => at \in 1 .. Len(frames) /\ frames[at] \in FrameT
  BY <1>1, <1>2
<1> QED BY <1>1, <1>2, <1>3, <1>4, <1>5 DEF exc

\* A frame without a handler: the exception is one that may pass it.
LEMMA MayPass ==
  ASSUME PInv, flight # NONE, at > 0, ~Handles(frames[at], exc)
  PROVE  /\ Lets(frames[at].fn, exc)
         /\ frames[at].fn = UNEXPECTED => frames[at].place # BODY
<1> DEFINE f == frames[at]
<1>1. /\ Len(frames) \in Nat /\ at \in 1 .. Len(frames) /\ f \in FrameT
      /\ phase \in {"search", "cleanup"}
  BY InFlight
<1>2. f.place \in {BODY, DTOR, HANDLER, SPEC, RESUME}
  BY <1>1 DEF FrameT, Places, BODY, DTOR, HANDLER, SPEC, RESUME
<1> HIDE DEF f
<1>3. f.fn = UNEXPECTED => f.place # BODY
  BY <1>1, NotHandled DEF f
<1>4. CASE f.place = BODY
  BY <1>1, <1>4, <1>3, NotHandled DEF f
<1>5. CASE f.place = HANDLER
  <2>1. HasTry(f.fn)
    BY <1>1, <1>5 DEF PInv, PadsHold, f
  <2> QED BY <1>1, <1>3, <1>5, <2>1, NotHandled DEF f
<1>6. CASE f.place = DTOR
  <2>1. f.fn # NONE
    BY <1>1, <1>6 DEF PInv, PadsHold, f, BODY, DTOR
  <2>2. MustNotThrow(f)
    BY <1>6, <2>1 DEF MustNotThrow, Listed
  <2> QED BY <2>2 DEF Handles, f
<1>7. CASE f.place = SPEC
  <2> DEFINE i == at + 1
  <2>1. at # Len(frames) /\ frames[i].fn = UNEXPECTED
    BY <1>1, <1>7, InFlight DEF f
  <2>2. i \in 1 .. Len(frames) /\ i \in at + 1 .. Len(frames) /\ i - 1 = at
    BY <1>1, <2>1
  <2> HIDE DEF i
  <2>3. frames[i].place # BODY
    BY <2>1, <2>2 DEF PInv, Passed, i
  <2>4. Allows(SpecOf(frames[i - 1].fn), exc)
    BY <2>1, <2>2, <2>3 DEF PInv, Unexpected
  <2> QED BY <1>3, <1>7, <2>2, <2>4 DEF Lets, f, BODY, SPEC
<1>8. CASE f.place = RESUME
  BY <1>1, <1>3, <1>8 DEF PInv, Resumes, f
<1> QED BY <1>2, <1>4, <1>5, <1>6, <1>7, <1>8

LEMMA Passes ==
  ASSUME PInv, flight # NONE, at > 0, ~Handles(frames[at], exc),
         phase = "cleanup" => ~Cleans(frames[at]), NextFrame
  PROVE  PInv'
<1>1. /\ frames \in Seq(FrameT) /\ Len(frames) \in Nat /\ at \in 1 .. Len(frames)
      /\ phase \in {"search", "cleanup"} /\ flight \in Blocks
      /\ SubSeq(frames, 1, Len(frames)) = frames
  BY InFlight
<1>2. at' = at - 1 /\ UNCHANGED <<frames, objs, flight, phase>> /\ exc' = exc
  BY DEF NextFrame, exc
<1>3. Typed'
  BY <1>1, <1>2 DEF PInv, Typed
<1>4. InUseLive' /\ PadsHold'
  BY <1>2 DEF PInv, InUseLive, PadsHold
<1>5. Waits'
  BY <1>2 DEF PInv, Waits
<1>6. InSearch'
  <2> SUFFICES ASSUME phase = "search" PROVE exc.due.frame <= at - 1
    BY <1>2 DEF PInv, InSearch
  <2>1. exc.due = Due(SubSeq(frames, 1, Len(frames)), exc) /\ exc.due.frame <= at
    BY <1>1 DEF PInv, InSearch
  <2>2. Len(frames) \in 0 .. Len(frames)
    BY <1>1
  <2>3. IsDue(frames, Len(frames), exc, exc.due.frame)
    BY <1>1, <2>1, <2>2, DueIs
  <2>4. exc.due.frame \in 0 .. Len(frames) /\ exc.due.frame # at
    BY <1>1, <2>3 DEF IsDue
  <2> QED BY <1>1, <2>1, <2>4
<1>7. InCleanup'
  <2> SUFFICES ASSUME phase = "cleanup" PROVE Bound(frames, exc, at - 1)
    BY <1>2 DEF InCleanup
  <2>1. Bound(frames, exc, at)
    BY DEF PInv, InCleanup
  <2> QED BY <1>1, <2>1, BoundSteps
<1>8. Passed'
  <2> SUFFICES ASSUME NEW i \in at - 1 + 1 .. Len(frames)
               PROVE  /\ Lets(frames[i].fn, exc)
                      /\ frames[i].fn = UNEXPECTED => frames[i].place # BODY
    BY <1>2 DEF Passed
  <2>1. i = at \/ i \in at + 1 .. Len(frames)
    BY <1>1
  <2>2. CASE i = at
    BY <2>2, MayPass
  <2>3. CASE i \in at + 1 .. Len(frames)
    BY <2>3 DEF PInv, Passed
  <2> QED BY <2>1, <2>2, <2>3
<1>9. Resumes' /\ Violated' /\ Unexpected'
  <2>1. Resumes'
    BY <1>2 DEF PInv, Resumes
  <2>2. Violated'
    BY <1>2 DEF PInv, Violated
  <2>3. Unexpected'
    BY <1>2 DEF PInv, Unexpected
  <2> QED BY <2>1, <2>2, <2>3
<1> QED BY <1>3, <1>4, <1>5, <1>6, <1>7, <1>8, <1>9 DEF PInv

\* The end of the program.
LEMMA Dies ==
  ASSUME PInv, Die
  PROVE  PInv'
<1>1. /\ phase' = "dead" /\ frames' = <<>> /\ objs' = [b \in Blocks |-> Obj]
      /\ flight' = NONE /\ at' = 0
  BY DEF Die
<1>2. Len(frames') = 0 /\ frames' \in Seq(FrameT)
  BY <1>1
<1>3. Typed'
  BY <1>1, <1>2 DEF Typed
<1>4. 1 .. Len(frames') = {}
  BY <1>2
<1>5. InUseLive' /\ PadsHold' /\ Waits' /\ InSearch' /\ InCleanup'
  BY <1>1, <1>4 DEF InUseLive, PadsHold, Waits, InSearch, InCleanup
<1>6. Passed' /\ Resumes' /\ Violated' /\ Unexpected'
  BY <1>1, <1>4 DEF Passed, Resumes, Violated, Unexpected
<1> QED BY <1>3, <1>5, <1>6 DEF PInv

\* Phase 1 has found the handler.
LEMMA Finds ==
  ASSUME PInv, phase = "search", at > 0, NEW e, NEW h, ~Domestic(exc) => h = Raw,
         e = EditFound(exc, h, at),
         Domestic(exc) => h = Saved(frames[at], Search(frames[at], exc)),
         Handles(frames[at], exc), objs' = [objs EXCEPT ![flight] = e],
         phase' = "cleanup", at' = Len(frames), UNCHANGED <<frames, flight>>
  PROVE  PInv'
<1> DEFINE n == Len(frames)
<1>1. /\ flight # NONE /\ frames \in Seq(FrameT) /\ n \in Nat /\ frames # <<>>
      /\ \A i \in 1 .. n : frames[i] \in FrameT
      /\ flight \in Blocks /\ at \in 1 .. n /\ exc = objs[flight] /\ IsObj(exc)
      /\ SubSeq(frames, 1, n) = frames /\ n \in 0 .. n
      /\ \A i \in 1 .. n : frames[i].place = SPEC => i # n /\ frames[i + 1].fn = UNEXPECTED
  <2>1. flight # NONE
    BY DEF PInv, Typed
  <2>2. n \in Nat
    BY <2>1, InFlight
  <2> QED BY <2>1, <2>2, InFlight
<1>2. /\ IsObj(e) /\ Alike(exc, e) /\ e.hdr = h
      /\ e.target = at /\ e.due = exc.due /\ e.owed = exc.owed
  BY <1>1, EditHeader
<1>3. /\ objs'[flight] = e /\ exc' = e /\ \A c \in Blocks : c # flight => objs'[c] = objs[c]
      /\ objs' = [c \in Blocks |-> objs'[c]]
  <2>1. objs = [c \in Blocks |-> objs[c]]
    BY DEF PInv, Typed
  <2>2. /\ objs'[flight] = e /\ \A c \in Blocks : c # flight => objs'[c] = objs[c]
        /\ objs' = [c \in Blocks |-> objs'[c]]
    BY <1>1, <2>1
  <2> QED BY <2>2 DEF exc
<1>4. \A c \in Blocks : /\ IsObj(objs[c]) => IsObj(objs'[c]) /\ Alike(objs[c], objs'[c])
                        /\ objs'[c] = Obj \/ IsObj(objs'[c])
  BY <1>1, <1>2, <1>3 DEF PInv, Typed, Alike
<1>5. Typed'
  BY <1>1, <1>3, <1>4 DEF PInv, Typed
<1>6. InUseLive'
  <2>1. ASSUME NEW i \in 1 .. n, NEW c \in Holds(frames[i]), c # NONE
        PROVE  IsObj(objs'[c])
    <3>1. frames[i] \in FrameT
      BY <1>1
    <3>2. c \in Blocks
      BY <2>1, <3>1 DEF Holds, FrameT, Copy
    <3> QED BY <1>4, <2>1, <3>2 DEF PInv, InUseLive
  <2> QED BY <1>1, <1>2, <1>3, <2>1 DEF InUseLive
<1>7. PadsHold'
  BY DEF PInv, PadsHold
<1>8. Waits'
  <2> SUFFICES ASSUME NEW i \in 1 .. n, frames[i].place = DTOR
               PROVE  LET c == frames[i].in
                      IN  /\ c # flight
                          /\ \A j \in i + 1 .. n : c \notin Holds(frames[j])
                          /\ Bound(frames, objs'[c], i - 1)
                          /\ Lets(frames[i].fn, objs'[c])
    BY DEF Waits
  <2>1. frames[i].in \in Blocks /\ frames[i].in # flight
    BY DEF PInv, PadsHold, Waits
  <2>2. objs'[frames[i].in] = objs[frames[i].in]
    BY <1>3, <2>1
  <2> QED BY <2>1, <2>2 DEF PInv, Waits
<1>9. InSearch' /\ Passed'
  BY <1>1 DEF InSearch, Passed
<1>10. exc.due.frame = at
  <2>1. exc.due = Due(SubSeq(frames, 1, n), exc) /\ exc.due.frame <= at
    BY <1>1 DEF PInv, InSearch
  <2>2. IsDue(frames, n, exc, exc.due.frame)
    BY <1>1, <2>1, DueIs
  <2> QED BY <1>1, <2>1, <2>2 DEF IsDue
<1>11. InCleanup'
  <2>1. exc.due = Due(frames, exc) /\ exc.owed = Owed(frames, exc.due) /\ exc.kind # "forced"
    BY DEF PInv, InSearch
  <2>2. Due(SubSeq(frames, 1, n), exc) = Due(SubSeq(frames, 1, n), e)
    <3>1. \A i \in 1 .. n : frames[i] = frames[i]
      OBVIOUS
    <3> QED BY <1>1, <1>2, <3>1, DueSame
  <2>3. frames[at] \in FrameT /\ Search(frames[at], exc) = Search(frames[at], e)
    BY <1>1, <1>2, SearchAlike
  <2>4. e.due = Due(SubSeq(frames, 1, n), e) /\ e.owed = Owed(SubSeq(frames, 1, n), e.due)
    BY <1>1, <1>2, <2>1, <2>2
  <2>5. e.kind # "forced" => e.due.frame # 0 /\ e.target = e.due.frame
    BY <1>1, <1>2, <1>10
  <2>6. Domestic(e) => e.hdr = Saved(frames[e.target], Search(frames[e.target], e))
    BY <1>2, <2>3 DEF Alike, Domestic
  <2>7. Bound(frames, e, n)
    BY <2>4, <2>5, <2>6 DEF Bound
  <2> QED BY <1>3, <2>7 DEF InCleanup
<1>12. Resumes'
  BY DEF PInv, Resumes
<1>13. Violated'
  <2> SUFFICES ASSUME NEW i \in 1 .. n, frames[i].place = SPEC
               PROVE  /\ Domestic(objs'[frames[i].in]) /\ Specified(frames[i].fn)
                      /\ frames[i].fn \in DOMAIN Functions
                      /\ i # n /\ frames[i + 1].fn = UNEXPECTED
    BY DEF Violated
  <2>1. frames[i].in \in Blocks /\ IsObj(objs[frames[i].in])
    BY PersonalityAssumption DEF PInv, PadsHold, InUseLive, Holds
  <2>2. Alike(objs[frames[i].in], objs'[frames[i].in])
    BY <1>4, <2>1
  <2> QED BY <1>1, <2>2 DEF PInv, Violated, Alike, Domestic
<1>14. Unexpected'
  <2>0. \A e1, e2 : Alike(e1, e2) =>
           /\ Domestic(e1) => Domestic(e2)
           /\ \A types : Allows(types, e1) => Allows(types, e2)
    BY DEF Alike, Domestic, Allows
  <2> SUFFICES ASSUME NEW i \in 1 .. n, frames[i].fn = UNEXPECTED
               PROVE  LET f == frames[i] g == frames[i - 1]
                      IN  /\ f.place = HANDLER => Domestic(objs'[f.in])
                          /\ f.place = DTOR => Allows(SpecOf(g.fn), objs'[f.in])
                          /\ f.place # BODY => Allows(SpecOf(g.fn), exc')
    BY <1>1 DEF PInv, Unexpected
  <2> DEFINE f == frames[i]
             g == frames[i - 1]
             types == SpecOf(g.fn)
  <2>1. /\ f.place = HANDLER => Domestic(objs[f.in])
        /\ f.place = DTOR => Allows(types, objs[f.in])
        /\ f.place # BODY => Allows(types, exc)
    BY <1>1 DEF PInv, Unexpected
  <2>2. f.place \in {HANDLER, DTOR} => Alike(objs[f.in], objs'[f.in])
    <3> SUFFICES ASSUME f.place \in {HANDLER, DTOR} PROVE Alike(objs[f.in], objs'[f.in])
      OBVIOUS
    <3>1. f.in \in Blocks /\ f.in # NONE /\ f.in \in Holds(f)
      BY PersonalityAssumption DEF PInv, PadsHold, Holds
    <3>2. IsObj(objs[f.in])
      BY <3>1 DEF PInv, InUseLive
    <3> QED BY <1>4, <3>1, <3>2
  <2> HIDE DEF f, g, types
  <2>3. f.place = HANDLER => Domestic(objs'[f.in])
    BY <2>0, <2>1, <2>2
  <2>4. f.place = DTOR => Allows(types, objs'[f.in])
    BY <2>0, <2>1, <2>2, Zenon
  <2>5. f.place # BODY => Allows(types, exc')
    <3>1. Alike(exc, exc')
      BY <1>2, <1>3
    <3> QED BY <2>0, <2>1, <3>1, Zenon
  <2> QED BY <2>3, <2>4, <2>5 DEF f, g, types
<1> QED BY <1>5, <1>6, <1>7, <1>8, <1>9, <1>11, <1>12, <1>13, <1>14 DEF PInv

LEMMA SearchKeeps ==
  ASSUME PInv, SearchStep
  PROVE  PInv'
<1> DEFINE f == frames[at]
           r == Search(f, exc)
<1>1. phase = "search" /\ at > 0
  BY DEF SearchStep
<1>2. flight # NONE
  BY <1>1 DEF PInv, Typed
<1>3. f \in FrameT /\ IsObj(exc)
  BY <1>1, <1>2, InFlight
<1>4. /\ r.found \in {"handler", "terminate", "cleanup", "nothing"}
      /\ Handles(f, exc) <=> r.found \in {"handler", "terminate"}
  BY <1>3, HandlesIs
<1>5. CASE r.found \in {"nothing", "cleanup"}
  <2>1. NextFrame /\ ~Handles(frames[at], exc)
    BY <1>4, <1>5 DEF SearchStep
  <2> QED BY <1>1, <1>2, <2>1, Passes
<1>6. CASE r.found \notin {"nothing", "cleanup"}
  <2> DEFINE h == IF Domestic(exc) THEN Saved(f, r) ELSE exc.hdr
             e == EditFound(exc, h, at)
  <2>1. objs' = [objs EXCEPT ![flight] = AfterSearch(exc, f, r)]
        /\ phase' = "cleanup" /\ at' = Len(frames) /\ UNCHANGED <<frames, flight>>
    BY <1>6 DEF SearchStep, exc
  <2>2. AfterSearch(exc, f, r) = e
    BY DEF AfterSearch, EditFound
  <2>3. Handles(frames[at], exc)
    BY <1>4, <1>6
  <2>4. ~Domestic(exc) => h = Raw
    BY <1>3 DEF IsObj
  <2>5. Domestic(exc) => h = Saved(frames[at], Search(frames[at], exc))
    OBVIOUS
  <2>6. objs' = [objs EXCEPT ![flight] = e]
    BY <2>1, <2>2
  <2>7. e = EditFound(exc, h, at)
    OBVIOUS
  <2> HIDE DEF f, r, h, e
  <2> QED BY <1>1, <2>1, <2>3, <2>4, <2>5, <2>6, <2>7, Finds
<1> QED BY <1>5, <1>6

\* The catch around the unexpected handler has nothing around it.
LEMMA UnexpectedCatches ==
  ASSUME NEW f \in FrameT, f.fn = UNEXPECTED, f.place = HANDLER
  PROVE  \A i \in 1 .. Len(ClausesOf(f)) : ClausesOf(f)[i].kind # "catch"
<1> DEFINE body == <<Catch(ALL)>>
           o == Outer(body)
           m == LastCatch(body)
<1>1. ClausesOf(f) = <<Cleanup>> \o o
  <2>1. f.fn # NONE
    BY PersonalityAssumption
  <2>2. Code(UNEXPECTED).body = body
    BY DEF Code, CallUnexpectedFn
  <2>3. Clauses[UNEXPECTED][HANDLER] = <<Cleanup>> \o o
    BY <2>2 DEF Clauses, BODY, HANDLER, RESUME
  <2> QED BY <2>1, <2>3 DEF ClausesOf
<1>2. body \in Seq({Catch(ALL)}) /\ Len(body) = 1 /\ body[1].kind = "catch"
  BY DEF Catch
<1>3. o = IF m = 0 THEN <<>> ELSE SubSeq(body, m + 1, Len(body))
  BY DEF Outer, LastCatch
<1> HIDE DEF body, m, o
<1>4. m = 1
  <2>1. Len(body) \in Nat
    BY <1>2
  <2>2. m \in 0 .. Len(body) /\ (m = 0 => \A i \in 1 .. Len(body) : body[i].kind # "catch")
    BY <2>1, LastCatchIs DEF m
  <2> QED BY <1>2, <2>2
<1>5. o \in Seq({Catch(ALL)}) /\ Len(o) = 0
  <2>1. o = SubSeq(body, 2, 1)
    BY <1>2, <1>3, <1>4
  <2>2. 2 \in 1 .. Len(body) + 1 /\ 1 \in 2 - 1 .. Len(body)
    BY <1>2
  <2> QED BY <1>2, <2>1, <2>2, SubSeqProperties
<1> DEFINE t == <<Cleanup>> \o o
<1>6. Len(t) = 1 /\ t[1] = Cleanup
  BY <1>5, Headed
<1> HIDE DEF t
<1>7. \A i \in 1 .. Len(t) : t[i].kind # "catch"
  BY <1>6 DEF Cleanup
<1> QED BY <1>1, <1>7 DEF t

\* A frame in which an exception is caught.
Catching(f) == f.place = HANDLER \/ f.copied # NONE

LEMMA CaughtIs ==
  ASSUME NEW fs, Len(fs) \in Nat
  PROVE  \/ Caught(fs) = NONE /\ \A i \in 1 .. Len(fs) : ~Catching(fs[i])
         \/ \E i \in 1 .. Len(fs) :
              /\ Catching(fs[i]) /\ \A j \in i + 1 .. Len(fs) : ~Catching(fs[j])
              /\ Caught(fs) = IF fs[i].place = HANDLER THEN fs[i].in ELSE fs[i].copied.block
<1> DEFINE I == {i \in 1 .. Len(fs) : Catching(fs[i])}
           d == IF I # {} THEN Max(I) ELSE 0
<1>1. Caught(fs) = IF d = 0 THEN NONE
                   ELSE IF fs[d].place = HANDLER THEN fs[d].in ELSE fs[d].copied.block
  BY DEF Caught, SelectLastInSeq, Catching
<1>2. CASE I = {}
  BY <1>1, <1>2
<1>3. CASE I # {}
  <2>1. \E m \in I : \A i \in I : i <= m
    <3>1. I \in SUBSET (1 .. Len(fs))
      OBVIOUS
    <3> HIDE DEF I
    <3> QED BY <1>3, <3>1, HasGreatest
  <2>2. d \in I /\ \A i \in I : i <= d
    <3> DEFINE J == I
    <3>1. J \in SUBSET Int
      OBVIOUS
    <3> HIDE DEF J
    <3>2. \E m \in J : \A i \in J : m >= i
      <4>1. PICK m \in J : \A i \in J : i <= m
        BY <2>1 DEF J
      <4>2. \A i \in J : m >= i
        BY <3>1, <4>1
      <4> QED BY <4>2
    <3>3. Max(J) \in J /\ \A i \in J : Max(J) >= i
      BY <3>2 DEF Max
    <3>4. Max(J) \in J /\ \A i \in J : i <= Max(J)
      BY <3>1, <3>3
    <3> QED BY <1>3, <3>4 DEF J
  <2> HIDE DEF d
  <2>3. d \in 1 .. Len(fs) /\ Catching(fs[d]) /\ d # 0
    BY <2>2
  <2>4. \A j \in d + 1 .. Len(fs) : ~Catching(fs[j])
    <3> SUFFICES ASSUME NEW j \in d + 1 .. Len(fs), Catching(fs[j]) PROVE FALSE
      OBVIOUS
    <3>1. j \in 1 .. Len(fs) /\ ~(j <= d)
      BY <2>3
    <3>2. j \in I
      BY <3>1
    <3> QED BY <2>2, <3>1, <3>2
  <2> QED BY <1>1, <2>3, <2>4
<1> QED BY <1>2, <1>3

\* The cached answer for the handler is that of a new search.
LEMMA AnswerIs ==
  ASSUME PInv, phase = "cleanup", at > 0
  PROVE  LET f == frames[at]
             r == Answer(exc)
             s == Search(f, exc)
         IN  /\ r.found = s.found /\ r.switch = s.switch
             /\ Handles(f, exc) <=> exc.due.frame = at
             /\ Domestic(exc) /\ Handles(f, exc) => exc.hdr = Saved(f, s)
             /\ exc.due.frame \in 0 .. at /\ exc.due = DueAt(frames, exc.due.frame, exc)
             /\ exc.owed = {i \in exc.due.frame + 1 .. at : Cleans(frames[i])}
             /\ exc.kind # "forced" => exc.due.frame # 0
<1> DEFINE f == frames[at]
           r == Answer(exc)
           s == Search(f, exc)
           d == exc.due.frame
<1>1. flight # NONE
  BY DEF PInv, Typed
<1>2. /\ frames \in Seq(FrameT) /\ at \in 1 .. Len(frames) /\ f \in FrameT /\ IsObj(exc)
      /\ Len(frames) \in Nat
  BY <1>1, InFlight
<1>3. /\ exc.due = Due(SubSeq(frames, 1, at), exc)
      /\ exc.owed = Owed(SubSeq(frames, 1, at), exc.due)
      /\ exc.kind # "forced" => d # 0 /\ exc.target = d
      /\ Domestic(exc) => exc.hdr = Saved(frames[exc.target], Search(frames[exc.target], exc))
  BY DEF PInv, InCleanup, Bound
<1>4. IsDue(frames, at, exc, d) /\ exc.due = DueAt(frames, d, exc)
  <2>1. at \in 0 .. Len(frames)
    BY <1>2
  <2> QED BY <1>2, <1>3, <2>1, DueIs
<1>5. d \in 0 .. at
  BY <1>4 DEF IsDue
<1>6. Handles(f, exc) <=> d = at
  BY <1>2, <1>4 DEF IsDue
<1>7. exc.owed = {i \in d + 1 .. at : Cleans(frames[i])}
  <2>1. at \in 0 .. Len(frames) /\ exc.due.frame \in Nat
    BY <1>2, <1>5
  <2> QED BY <1>2, <1>3, <2>1, OwedIs
<1>8. Domestic(exc) => exc.kind # "forced"
  BY DEF Domestic
<1>9. r.found = s.found /\ r.switch = s.switch
  <2>1. CASE ~(Domestic(exc) /\ at = exc.target)
    BY <2>1 DEF Answer
  <2>2. CASE Domestic(exc) /\ at = exc.target
    <3>1. r = Restored(exc.hdr) /\ exc.hdr = Saved(f, s) /\ Handles(f, exc)
      BY <1>3, <1>6, <1>8, <2>2 DEF Answer
    <3>2. /\ s.found \in {"handler", "terminate"}
          /\ s.found = "terminate" => s.pad = NOPAD
          /\ s.found = "handler" => s.pad # NOPAD
      BY <1>2, <3>1, HandlesIs
    <3> DEFINE sw == s.switch
               pad == s.pad
               h == exc.hdr
    <3>3. h.switch = sw /\ h.temp = pad
      BY <3>1 DEF Saved
    <3>4. r = [found |-> IF h.temp = NOPAD THEN "terminate" ELSE "handler",
               switch |-> h.switch, pad |-> h.temp]
      BY <3>1 DEF Restored
    <3> HIDE DEF sw, pad, h, r
    <3>5. r.found = (IF pad = NOPAD THEN "terminate" ELSE "handler") /\ r.switch = sw
      BY <3>3, <3>4
    <3> QED BY <3>2, <3>5 DEF sw, pad
  <2> QED BY <2>1, <2>2
<1>10. Domestic(exc) /\ Handles(f, exc) => exc.hdr = Saved(f, s)
  BY <1>3, <1>6, <1>8
<1> QED BY <1>3, <1>4, <1>5, <1>6, <1>7, <1>9, <1>10

\* What phase 2 writes into an exception of C++ and into a frame.
EditTemp(e, base) == [e EXCEPT !.hdr.temp = base]
EditFrame(f, place, in, switch, copied) ==
  [f EXCEPT !.place = place, !.in = in, !.switch = switch, !.copied = copied]

LEMMA EditBase ==
  ASSUME NEW e, IsObj(e), Domestic(e), NEW f, NEW r, e.hdr = Saved(f, r), NEW base
  PROVE  LET e2 == EditTemp(e, base)
         IN  /\ IsObj(e2) /\ Alike(e, e2) /\ e2.owed = e.owed
             /\ e2.hdr.switch = r.switch /\ e2.hdr.lsda = f.fn /\ e2.hdr.temp = base
<1> DEFINE k  == e.kind
           ty == e.type
           ta == e.target
           du == e.due
           ow == e.owed
           sw == r.switch
           fn == f.fn
           pa == r.pad
           ad == Adjusted(r.switch)
           h  == e.hdr
           h2 == [h EXCEPT !.temp = base]
           e2 == EditTemp(e, base)
<1>1. /\ e = [kind |-> k, type |-> ty, target |-> ta, hdr |-> h, due |-> du, owed |-> ow]
      /\ k = "gxx"
  BY DEF IsObj, Domestic
<1>2. h = [switch |-> sw, lsda |-> fn, temp |-> pa, adjusted |-> ad]
  BY DEF Saved
<1>3. e2 = [e EXCEPT !.hdr = h2]
  BY DEF EditTemp
<1> HIDE DEF k, ty, ta, du, ow, sw, fn, pa, ad, e2, h
<1>4. h2 = [switch |-> sw, lsda |-> fn, temp |-> base, adjusted |-> ad]
  BY <1>2
<1>5. h2.switch = sw /\ h2.lsda = fn /\ h2.temp = base
  BY <1>4
<1> HIDE DEF h2
<1>6. e2 = [kind |-> k, type |-> ty, target |-> ta, hdr |-> h2, due |-> du, owed |-> ow]
  BY <1>1, <1>3
<1>7. e2.kind = k /\ e2.type = ty /\ e2.target = ta /\ e2.hdr = h2 /\ e2.due = du /\ e2.owed = ow
  BY <1>6
<1>8. IsObj(e2)
  BY <1>1, <1>6, <1>7 DEF IsObj, Domestic
<1> QED BY <1>5, <1>7, <1>8 DEF Alike, k, ty, ow, sw, fn, e2

LEMMA EditedFrame ==
  ASSUME NEW f \in FrameT, NEW place \in Places, NEW in \in Blocks \cup {NONE},
         NEW switch \in -1 .. Len(TypeTable), NEW copied \in {NONE} \cup Copy
  PROVE  LET g == EditFrame(f, place, in, switch, copied)
         IN  /\ g \in FrameT /\ g.fn = f.fn /\ g.place = place /\ g.in = in
             /\ g.switch = switch /\ g.copied = copied
<1> DEFINE g == EditFrame(f, place, in, switch, copied)
           fn == f.fn
           pl == f.place
           i  == f.in
           sw == f.switch
           co == f.copied
           a1 == [f EXCEPT !.place = place]
           a2 == [a1 EXCEPT !.in = in]
           a3 == [a2 EXCEPT !.switch = switch]
           a4 == [a3 EXCEPT !.copied = copied]
           s1 == Fns
           s2 == Places
           s3 == Blocks \cup {NONE}
           s4 == -1 .. Len(TypeTable)
           s5 == {NONE} \cup Copy
<1>1. f = [fn |-> fn, place |-> pl, in |-> i, switch |-> sw, copied |-> co] /\ fn \in s1
  BY DEF FrameT
<1>2. g = a4
  BY Zenon DEF EditFrame
<1> HIDE DEF g, fn, pl, i, sw, co
<1>3. a1 = [fn |-> fn, place |-> place, in |-> i, switch |-> sw, copied |-> co]
  BY <1>1
<1> HIDE DEF a1
<1>4. a2 = [fn |-> fn, place |-> place, in |-> in, switch |-> sw, copied |-> co]
  BY <1>3
<1> HIDE DEF a2
<1>5. a3 = [fn |-> fn, place |-> place, in |-> in, switch |-> switch, copied |-> co]
  BY <1>4
<1> HIDE DEF a3
<1>6. a4 = [fn |-> fn, place |-> place, in |-> in, switch |-> switch, copied |-> copied]
  BY <1>5
<1> HIDE DEF a4
<1>7. place \in s2 /\ in \in s3 /\ switch \in s4 /\ copied \in s5
  OBVIOUS
<1>8. FrameT = [fn : s1, place : s2, in : s3, switch : s4, copied : s5]
  BY DEF FrameT
<1> HIDE DEF s1, s2, s3, s4, s5
<1>9. g = [fn |-> fn, place |-> place, in |-> in, switch |-> switch, copied |-> copied]
  BY <1>2, <1>6
<1>10. g \in FrameT
  BY <1>1, <1>7, <1>8, <1>9
<1>11. g.fn = fn /\ g.place = place /\ g.in = in /\ g.switch = switch /\ g.copied = copied
  BY <1>9
<1> QED BY <1>10, <1>11 DEF g, fn

\* When phase 2 goes on in a frame: to clean up, in the handler, or because the
\* specification is violated.
LEMMA LandingIs ==
  ASSUME PInv, phase = "cleanup", at > 0, Answer(exc).found # "nothing",
         ~Terminates(Answer(exc))
  PROVE  LET f == frames[at]
             s == Answer(exc).switch
             c == ClausesOf(f)[FirstOf(ClausesOf(f), exc)]
         IN  /\ s \in -1 .. Len(TypeTable) /\ f.fn # NONE /\ ~MustNotThrow(f)
             /\ s = 0 <=> ~Handles(f, exc)
             /\ s = 0 => Cleans(f)
             /\ s > 0 => c = Catch(TypeTable[s]) /\ HasTry(f.fn)
             /\ s < 0 => /\ c.kind = "throws" /\ Domestic(exc)
                         /\ Specified(f.fn) /\ f.fn \in DOMAIN Functions
             /\ f.fn = UNEXPECTED /\ s > 0 => f.place = BODY /\ Domestic(exc)
<1> DEFINE f == frames[at]
           r == Answer(exc)
           t == Search(f, exc)
           s == r.switch
           cs == ClausesOf(f)
           c == cs[FirstOf(cs, exc)]
<1>1. flight # NONE
  BY DEF PInv, Typed
<1>2. /\ frames \in Seq(FrameT) /\ at \in 1 .. Len(frames) /\ f \in FrameT /\ IsObj(exc)
      /\ Len(frames) \in Nat /\ exc = objs[flight]
  BY <1>1, InFlight
<1>3. r.found = t.found /\ s = t.switch
  BY AnswerIs
<1>4. /\ t.found \in {"handler", "cleanup"}
      /\ ~Domestic(exc) => ~(s < 0)
      /\ ~Domestic(exc) /\ s > 0 => Caught(SubSeq(frames, 1, at)) \in {NONE, flight}
  <2>1. t.found \in {"handler", "terminate", "cleanup", "nothing"}
    BY <1>2, HandlesIs
  <2> QED BY <1>3, <2>1 DEF Terminates
<1>5. /\ Handles(f, exc) <=> t.found = "handler"
      /\ ~MustNotThrow(f)
      /\ t.found # "handler" => s = 0
      /\ t.found = "cleanup" => \E j \in 1 .. Len(cs) : cs[j] = Cleanup
      /\ t.found = "handler" => FirstOf(cs, exc) \in 1 .. Len(cs)
  BY <1>2, <1>3, <1>4, HandlesIs
<1>6. t.found = "handler" =>
        /\ s \in -1 .. Len(TypeTable) /\ s # 0
        /\ f.place \in {BODY, HANDLER}
        /\ s > 0 => c = Catch(TypeTable[s]) /\ HasTry(f.fn)
        /\ s < 0 => c.kind = "throws" /\ Specified(f.fn) /\ f.fn \in DOMAIN Functions
  BY <1>2, <1>3, SwitchMeans
<1>7. DOMAIN cs = 1 .. Len(cs) /\ \A i \in 1 .. Len(cs) : f.fn # NONE
  BY <1>2, ClausesOfAre
<1>8. Len(TypeTable) \in Nat
  BY PersonalityAssumption, LenProperties
<1>9. t.found = "cleanup" => Cleans(f)
  BY <1>5, <1>7 DEF Cleans
<1>10. ASSUME f.fn = UNEXPECTED, s > 0
       PROVE  f.place = BODY /\ Domestic(exc)
  <2>1. t.found = "handler" /\ c.kind = "catch"
    BY <1>4, <1>5, <1>6, <1>10 DEF Catch
  <2>2. f.place # HANDLER
    BY <1>2, <1>5, <1>10, <2>1, UnexpectedCatches
  <2>3. f.place = BODY
    BY <1>6, <2>1, <2>2
  <2> DEFINE i == at
             g == frames[i - 1]
  <2>4. /\ i > 1 /\ g.place = SPEC
        /\ f.copied = [block |-> g.in, lsda |-> g.fn, switch |-> -1, base |-> g.fn]
    BY <1>2, <1>10, <2>3 DEF PInv, Unexpected
  <2>5. i - 1 \in 1 .. Len(frames)
    BY <1>2, <2>4
  <2>6. g.in \in Blocks /\ Domestic(objs[g.in]) /\ g.fn \in DOMAIN Functions
    BY <2>4, <2>5 DEF PInv, PadsHold, Violated
  <2>7. f.copied # NONE /\ f.copied.block = g.in /\ g.in # NONE
    BY <2>4, <2>6, PersonalityAssumption
  <2>8. Caught(SubSeq(frames, 1, at)) = g.in
    <3> DEFINE fs == SubSeq(frames, 1, at)
    <3>1. Len(fs) = at /\ fs[at] = f /\ at \in Nat
      <4>1. at \in 0 .. Len(frames)
        BY <1>2
      <4> QED BY <1>2, <4>1, Prefix
    <3> HIDE DEF fs, f, g
    <3>2. Catching(fs[at]) /\ at \in 1 .. Len(fs)
      BY <1>2, <2>7, <3>1 DEF Catching
    <3>3. PICK j \in 1 .. Len(fs) :
            /\ \A k \in j + 1 .. Len(fs) : ~Catching(fs[k])
            /\ Caught(fs) = IF fs[j].place = HANDLER THEN fs[j].in ELSE fs[j].copied.block
      BY <3>1, <3>2, CaughtIs
    <3>4. j = at
      BY <3>1, <3>2, <3>3
    <3> QED BY <2>2, <2>7, <3>1, <3>3, <3>4 DEF fs
  <2>9. Domestic(exc)
    BY <1>2, <1>4, <1>10, <2>6, <2>7, <2>8
  <2> QED BY <2>3, <2>9
<1> HIDE DEF f, r, t, s, cs, c
<1>11. s \in -1 .. Len(TypeTable)
  BY <1>4, <1>5, <1>6, <1>8
<1>12. f.fn # NONE
  BY <1>4, <1>5, <1>7
<1>13. s = 0 <=> ~Handles(f, exc)
  BY <1>4, <1>5, <1>6
<1>14. s # 0 => t.found = "handler"
  BY <1>5
<1> QED BY <1>4, <1>5, <1>6, <1>9, <1>10, <1>11, <1>12, <1>13, <1>14 DEF f, r, s, cs, c

\* What is left in the exception when phase 2 goes on in frame at.
LandedIn(e, f, s) == EditLanded(KeepBase(e, f, s), KeepBase(e, f, s).owed \ {at})

LEMMA LandedObj ==
  ASSUME PInv, phase = "cleanup", at > 0, Answer(exc).found # "nothing",
         ~Terminates(Answer(exc))
  PROVE  LET f == frames[at]
             s == Answer(exc).switch
             e == LandedIn(exc, f, s)
         IN  /\ IsObj(e) /\ Alike(exc, e)
             /\ s = 0 => SameBut(exc, e, exc.owed \ {at})
             /\ s < 0 => e.hdr.switch = -1 /\ e.hdr.lsda = f.fn /\ e.hdr.temp = f.fn
<1> DEFINE f == frames[at]
           s == Answer(exc).switch
           k == KeepBase(exc, f, s)
           e == LandedIn(exc, f, s)
           t == Search(f, exc)
<1>1. flight # NONE
  BY DEF PInv, Typed
<1>2. IsObj(exc)
  BY <1>1, InFlight
<1>3. e = EditLanded(k, k.owed \ {at})
  BY DEF LandedIn
<1>4. /\ s \in -1 .. Len(TypeTable) /\ (s = 0 <=> ~Handles(f, exc))
      /\ s < 0 => Domestic(exc) /\ f.fn \in DOMAIN Functions
  BY LandingIs
<1>5. s = t.switch /\ (s < 0 => exc.hdr = Saved(f, t))
  <2>1. s = t.switch /\ (Domestic(exc) /\ Handles(f, exc) => exc.hdr = Saved(f, t))
    BY AnswerIs
  <2> HIDE DEF s, f, t
  <2> QED BY <1>4, <2>1
<1> HIDE DEF e
<1>6. CASE s < 0
  <2> DEFINE base == Lsda[f.fn].base
  <2>1. k = EditTemp(exc, base)
    BY <1>4, <1>6 DEF KeepBase, EditTemp
  <2>2. base = f.fn
    <3>1. f.fn \in Coded
      BY <1>4, <1>6 DEF Coded
    <3> QED BY <3>1, LsdaIs
  <2> HIDE DEF base, f, s, t, k
  <2>3. /\ IsObj(k) /\ Alike(exc, k)
        /\ k.hdr.switch = s /\ k.hdr.lsda = f.fn /\ k.hdr.temp = f.fn
    <3>1. /\ IsObj(k) /\ Alike(exc, k)
          /\ k.hdr.switch = t.switch /\ k.hdr.lsda = f.fn /\ k.hdr.temp = base
      BY <1>2, <1>4, <1>5, <1>6, <2>1, EditBase
    <3> QED BY <1>5, <2>2, <3>1
  <2> DEFINE o == k.owed \ {at}
  <2>4. e = EditLanded(k, o)
    BY <1>3
  <2> HIDE DEF o
  <2>5. IsObj(e) /\ SameBut(k, e, o)
    BY <2>3, <2>4, EditOwed
  <2>6. s = -1 /\ s # 0
    BY <1>4, <1>6
  <2> QED BY <2>3, <2>5, <2>6 DEF SameBut, Alike, e, f, s
<1>7. CASE ~(s < 0)
  <2>1. k = exc
    BY <1>7 DEF KeepBase
  <2> HIDE DEF k, f, s, t
  <2> DEFINE o == exc.owed \ {at}
  <2>2. e = EditLanded(exc, o)
    BY <1>3, <2>1
  <2> HIDE DEF o
  <2>3. IsObj(e) /\ SameBut(exc, e, o)
    BY <1>2, <2>2, EditOwed
  <2> QED BY <1>7, <2>3 DEF SameBut, e, f, s, o
<1> QED BY <1>6, <1>7

LEMMA Landing ==
  ASSUME PInv, phase = "cleanup", at > 0, Answer(exc).found # "nothing",
         ~Terminates(Answer(exc)), InstallContext(Answer(exc))
  PROVE  PInv'
<1> DEFINE f == frames[at]
           s == Answer(exc).switch
           e == LandedIn(exc, f, s)
           place == IF s > 0 THEN HANDLER ELSE IF s < 0 THEN SPEC ELSE DTOR
           copied == IF s = 0 THEN NONE ELSE f.copied
           g == EditFrame(f, place, flight, s, copied)
           os == [objs EXCEPT ![flight] = e]
<1>1. flight # NONE
  BY DEF PInv, Typed
<1>2. /\ frames \in Seq(FrameT) /\ at \in 1 .. Len(frames) /\ f \in FrameT /\ IsObj(exc)
      /\ Len(frames) \in Nat /\ exc = objs[flight] /\ flight \in Blocks
      /\ at \in 1 .. Len(frames)
  BY <1>1, InFlight
<1>3. /\ s \in -1 .. Len(TypeTable) /\ f.fn # NONE
      /\ s = 0 <=> ~Handles(f, exc)
      /\ s = 0 => Cleans(f)
      /\ s > 0 => HasTry(f.fn)
      /\ s < 0 => Domestic(exc) /\ Specified(f.fn) /\ f.fn \in DOMAIN Functions
      /\ f.fn = UNEXPECTED /\ s > 0 => f.place = BODY /\ Domestic(exc)
  BY LandingIs
<1>4. /\ IsObj(e) /\ Alike(exc, e)
      /\ s = 0 => SameBut(exc, e, exc.owed \ {at})
      /\ s < 0 => e.hdr.switch = -1 /\ e.hdr.lsda = f.fn /\ e.hdr.temp = f.fn
  BY LandedObj
<1>5. /\ g \in FrameT /\ g.fn = f.fn /\ g.place = place /\ g.in = flight
      /\ g.copied = copied
  <2>1. place \in Places
    BY DEF Places, BODY, HANDLER, DTOR, SPEC, RESUME
  <2>2. copied \in {NONE} \cup Copy
    BY <1>2 DEF FrameT
  <2>3. flight \in Blocks \cup {NONE}
    BY <1>2
  <2> HIDE DEF f, s, place, copied
  <2> QED BY <1>2, <1>3, <2>1, <2>2, <2>3, EditedFrame
<1>6. Landed(f, Answer(exc)) = g
  BY Zenon DEF Landed, EditFrame
<1> DEFINE kept == KeepBase(exc, f, s)
<1>7. [kept EXCEPT !.owed = @ \ {at}] = e
  BY DEF LandedIn, EditLanded
<1>8. Goes(at, g, os)
  <2>1. /\ frames' = Append(SubSeq(frames, 1, at - 1), g)
        /\ objs' = Swept([objs EXCEPT ![flight] = [kept EXCEPT !.owed = @ \ {at}]],
                         frames', NONE)
        /\ flight' = NONE /\ phase' = "run" /\ at' = 0
    BY <1>6 DEF InstallContext
  <2> QED BY <1>7, <2>1 DEF Goes
<1>9. os[flight] = e /\ \A b \in Blocks : b # flight => os[b] = objs[b]
  <2>1. objs = [b \in Blocks |-> objs[b]]
    BY DEF PInv, Typed
  <2> HIDE DEF e
  <2> QED BY <1>2, <2>1
<1>10. /\ HANDLER # SPEC /\ HANDLER # DTOR /\ SPEC # DTOR /\ BODY # HANDLER /\ BODY # DTOR
       /\ BODY # SPEC /\ RESUME # HANDLER /\ RESUME # SPEC /\ RESUME # DTOR
  BY DEF BODY, HANDLER, DTOR, SPEC, RESUME
<1>11. /\ g.place = HANDLER <=> s > 0
       /\ g.place = SPEC <=> s < 0
       /\ g.place = DTOR <=> s = 0
       /\ g.place \in {HANDLER, SPEC, DTOR}
  BY <1>3, <1>5, <1>10
<1>12. ASSUME s = 0
       PROVE  Bound(frames, e, at - 1) /\ Lets(f.fn, e)
              /\ (f.fn = UNEXPECTED => Allows(SpecOf(frames[at - 1].fn), e))
  <2>0. \A types : Allows(types, exc) => Allows(types, e)
    BY <1>4 DEF Alike, Allows, Domestic
  <2>1. Lets(f.fn, exc) /\ (f.fn = UNEXPECTED => f.place # BODY)
    BY <1>1, <1>3, <1>12, MayPass
  <2>2. Lets(f.fn, e)
    <3> DEFINE types == SpecOf(f.fn)
    <3>1. Specified(f.fn) => Allows(types, exc)
      BY <2>1 DEF Lets
    <3> HIDE DEF types, f, e
    <3>2. Specified(f.fn) => Allows(types, e)
      BY <2>0, <3>1, Zenon
    <3> QED BY <3>2 DEF Lets, types
  <2>3. Bound(frames, e, at - 1)
    <3>1. Bound(frames, exc, at) /\ ~Handles(frames[at], exc)
          /\ SameBut(exc, e, exc.owed \ {at})
      BY <1>3, <1>4, <1>12 DEF PInv, InCleanup
    <3> HIDE DEF e
    <3> QED BY <1>2, <3>1, BoundSteps
  <2>4. f.fn = UNEXPECTED => Allows(SpecOf(frames[at - 1].fn), e)
    <3> DEFINE types == SpecOf(frames[at - 1].fn)
    <3>1. f.fn = UNEXPECTED => Allows(types, exc)
      BY <1>1, <1>2, <2>1 DEF PInv, Unexpected
    <3> HIDE DEF types, f, e
    <3> QED BY <2>0, <3>1, Zenon DEF types
  <2> QED BY <2>2, <2>3, <2>4
<1>13. \A i \in 1 .. at - 1 : frames[i].place = DTOR => frames[i].in # flight
  <2>1. \A i \in 1 .. at - 1 : i \in 1 .. Len(frames)
    BY <1>2
  <2> QED BY <2>1 DEF PInv, Waits
<1>14. f.copied # NONE => f.fn = UNEXPECTED
  BY <1>2 DEF PInv, Unexpected
<1>15. g.fn = UNEXPECTED =>
         \/ /\ g.place = HANDLER /\ g.copied = f.copied
            /\ f.place \in {BODY, HANDLER} /\ Domestic(os[g.in])
         \/ g.place = DTOR /\ Allows(SpecOf(frames[at - 1].fn), os[g.in])
  <2> SUFFICES ASSUME f.fn = UNEXPECTED
               PROVE  \/ /\ g.place = HANDLER /\ g.copied = f.copied
                         /\ f.place \in {BODY, HANDLER} /\ Domestic(e)
                      \/ g.place = DTOR /\ Allows(SpecOf(frames[at - 1].fn), e)
    BY <1>5, <1>9
  <2>1. CASE s > 0
    <3>1. Domestic(e)
      BY <1>3, <1>4, <2>1 DEF Alike, Domestic
    <3>2. g.copied = f.copied
      BY <1>5, <2>1
    <3> QED BY <1>3, <1>11, <2>1, <3>1, <3>2
  <2>2. CASE s = 0
    BY <1>11, <1>12, <2>2
  <2>3. ~(s < 0)
    BY <1>3, PersonalityAssumption
  <2> QED BY <1>3, <2>1, <2>2, <2>3
<1> HIDE DEF f, s, e, place, g, os
<1>16. GoesOn(at, g, os)
  <2>1. /\ \A b \in Blocks : b # g.in => os[b] = objs[b]
        /\ g.in \in Blocks => IsObj(os[g.in]) /\ Alike(objs[g.in], os[g.in])
        /\ g.fn = frames[at].fn
    BY <1>2, <1>4, <1>5, <1>9 DEF f
  <2>2. /\ g.copied = NONE \/ g.copied = frames[at].copied
        /\ g.copied # NONE => g.fn = UNEXPECTED
    BY <1>5, <1>14 DEF f
  <2>3. /\ g.place # RESUME
        /\ g.place \in {DTOR, HANDLER, SPEC} => g.in \in Blocks
        /\ g.place # BODY => g.fn # NONE
        /\ g.place = HANDLER => HasTry(g.fn)
    BY <1>2, <1>3, <1>5, <1>10, <1>11
  <2>4. g.place = DTOR => Bound(frames, os[g.in], at - 1) /\ Lets(g.fn, os[g.in])
    BY <1>5, <1>9, <1>11, <1>12
  <2>5. g.place = SPEC =>
          /\ Domestic(os[g.in]) /\ Specified(g.fn) /\ g.fn \in DOMAIN Functions
          /\ os[g.in].hdr.switch = -1 /\ os[g.in].hdr.lsda = g.fn /\ os[g.in].hdr.temp = g.fn
    BY <1>3, <1>4, <1>5, <1>9, <1>11 DEF Alike, Domestic
  <2>6. \A i \in 1 .. at - 1 : frames[i].place = DTOR => frames[i].in # g.in
    BY <1>5, <1>13
  <2>7. g.fn = UNEXPECTED =>
          \/ /\ g.place = HANDLER /\ g.copied = frames[at].copied
             /\ frames[at].place \in {BODY, HANDLER} /\ Domestic(os[g.in])
          \/ g.place = DTOR /\ Allows(SpecOf(frames[at - 1].fn), os[g.in])
    BY <1>15 DEF f
  <2> QED BY <2>1, <2>2, <2>3, <2>4, <2>5, <2>6, <2>7 DEF GoesOn
<1> QED BY <1>2, <1>5, <1>8, <1>16, Relands

LEMMA CleanupKeeps ==
  ASSUME PInv, CleanupStep
  PROVE  PInv'
<1> DEFINE f == frames[at]
           r == Answer(exc)
           s == Search(f, exc)
<1>1. phase = "cleanup" /\ at > 0
  BY DEF CleanupStep
<1>2. flight # NONE
  BY <1>1 DEF PInv, Typed
<1>3. f \in FrameT
  BY <1>1, <1>2, InFlight
<1>4. CASE r.found = "nothing"
  <2>1. s.found = "nothing"
    BY <1>1, <1>4, AnswerIs
  <2>2. ~Handles(f, exc) /\ \A j \in 1 .. Len(ClausesOf(f)) : ClausesOf(f)[j] # Cleanup
    BY <1>3, <2>1, HandlesIs
  <2>3. ~Cleans(f)
    BY <1>3, <2>2, ClausesOfAre DEF Cleans
  <2>4. NextFrame
    BY <1>4 DEF CleanupStep
  <2> QED BY <1>1, <1>2, <2>2, <2>3, <2>4, Passes
<1>5. CASE r.found # "nothing" /\ Terminates(r)
  <2>1. Die
    BY <1>5 DEF CleanupStep
  <2> QED BY <2>1, Dies
<1>6. CASE r.found # "nothing" /\ ~Terminates(r)
  <2>1. InstallContext(Answer(exc))
    BY <1>6 DEF CleanupStep
  <2> QED BY <1>1, <1>6, <2>1, Landing
<1> QED BY <1>4, <1>5, <1>6

LEMMA ResumedFrame ==
  ASSUME NEW f \in FrameT
  PROVE  LET g == EditFrame(f, RESUME, NONE, f.switch, f.copied)
         IN  /\ g = [[f EXCEPT !.place = RESUME] EXCEPT !.in = NONE]
             /\ g \in FrameT /\ g.fn = f.fn /\ g.place = RESUME /\ g.in = NONE
             /\ g.copied = f.copied
<1> DEFINE fn == f.fn
           pl == f.place
           i  == f.in
           sw == f.switch
           co == f.copied
           p  == RESUME
           o  == NONE
           a1 == [f EXCEPT !.place = p]
           a2 == [a1 EXCEPT !.in = o]
           a3 == [a2 EXCEPT !.switch = sw]
           a4 == [a3 EXCEPT !.copied = co]
           g  == EditFrame(f, p, o, sw, co)
<1>1. /\ f = [fn |-> fn, place |-> pl, in |-> i, switch |-> sw, copied |-> co]
      /\ p \in Places /\ o \in Blocks \cup {NONE} /\ sw \in -1 .. Len(TypeTable)
      /\ co \in {NONE} \cup Copy
  BY DEF FrameT, Places, BODY, RESUME
<1>2. g = a4
  BY Zenon DEF EditFrame
<1> HIDE DEF g, pl, i, sw, co, p, o
<1>3. g \in FrameT /\ g.fn = fn /\ g.place = p /\ g.in = o /\ g.copied = co
  BY <1>1, EditedFrame DEF g
<1> HIDE DEF fn
<1>4. a1 = [fn |-> fn, place |-> p, in |-> i, switch |-> sw, copied |-> co]
  BY <1>1
<1> HIDE DEF a1
<1>5. a2 = [fn |-> fn, place |-> p, in |-> o, switch |-> sw, copied |-> co]
  BY <1>4
<1> HIDE DEF a2
<1>6. a3 = a2
  BY <1>5
<1> HIDE DEF a3
<1>7. a4 = a2
  BY <1>5, <1>6
<1> QED BY <1>2, <1>3, <1>7 DEF g, fn, sw, co, p, o, a1, a2

\* The unwinding goes on behind a destructor: phase 2 knows of the exception
\* what it knew before.
LEMMA FinishKeeps ==
  ASSUME PInv, FinishCleanup
  PROVE  PInv'
<1> DEFINE n == Len(frames)
           b == Top.in
           g == EditFrame(Top, RESUME, NONE, Top.switch, Top.copied)
<1>1. /\ frames \in Seq(FrameT) /\ n \in Nat /\ n \in 1 .. n
      /\ \A i \in 1 .. n : frames[i] \in FrameT /\ frames[i].place # RESUME
      /\ phase = "run" /\ flight = NONE /\ Top = frames[n] /\ Top \in FrameT
  <2>1. Running
    BY DEF FinishCleanup
  <2> QED BY <2>1, AtRun
<1>2. /\ Top.place = DTOR /\ flight' = b /\ phase' = "cleanup" /\ at' = n /\ objs' = objs
  BY DEF FinishCleanup
<1>3. /\ g \in FrameT /\ g.fn = Top.fn /\ g.place = RESUME /\ g.in = NONE
      /\ g.copied = Top.copied
  BY <1>1, ResumedFrame
<1>4. /\ frames' \in Seq(FrameT) /\ Len(frames') = n /\ frames' # <<>>
      /\ \A i \in 1 .. n : i # n => frames'[i] = frames[i]
      /\ frames'[n] = g
  <2>1. frames' = [frames EXCEPT ![n].place = RESUME, ![n].in = NONE]
    BY DEF FinishCleanup
  <2>2. frames' = [frames EXCEPT ![n] = g]
    <3> DEFINE a1 == [frames EXCEPT ![n] = [frames[n] EXCEPT !.place = RESUME]]
    <3>1. frames' = [a1 EXCEPT ![n] = [a1[n] EXCEPT !.in = NONE]]
      BY <2>1, Zenon
    <3>2. n \in DOMAIN frames
      BY <1>1, LenProperties
    <3>3. a1[n] = [frames[n] EXCEPT !.place = RESUME]
      BY <3>2
    <3> DEFINE h == [[frames[n] EXCEPT !.place = RESUME] EXCEPT !.in = NONE]
    <3>4. frames' = [a1 EXCEPT ![n] = h]
      BY <3>1, <3>3
    <3>5. h = g
      <4> DEFINE f == frames[n]
      <4>1. f \in FrameT /\ Top = f
        BY <1>1
      <4> HIDE DEF f
      <4>2. EditFrame(f, RESUME, NONE, f.switch, f.copied)
            = [[f EXCEPT !.place = RESUME] EXCEPT !.in = NONE]
        BY <4>1, ResumedFrame
      <4> QED BY <4>1, <4>2 DEF f
    <3> HIDE DEF h, g
    <3>6. [a1 EXCEPT ![n] = h] = [frames EXCEPT ![n] = h]
      OBVIOUS
    <3> QED BY <3>4, <3>5, <3>6
  <2> HIDE DEF g
  <2>3. DOMAIN frames = 1 .. n
    BY <1>1, LenProperties
  <2>4. [frames EXCEPT ![n] = g] \in Seq(FrameT) /\ Len([frames EXCEPT ![n] = g]) = n
    BY <1>1, <1>3, ExceptSeq
  <2>5. \A i \in 1 .. n : i # n => frames'[i] = frames[i]
    BY <2>2, <2>3
  <2>6. frames'[n] = g
    BY <1>1, <2>2, <2>3
  <2>7. frames' # <<>>
    BY <1>1, <2>2, <2>4
  <2> QED BY <2>2, <2>4, <2>5, <2>6, <2>7
<1> HIDE DEF g, n
<1>5. b \in Blocks /\ b # NONE /\ b \in Holds(frames[n]) /\ IsObj(objs[b])
  <2>1. b \in Blocks /\ b # NONE
    BY <1>1, <1>2, PersonalityAssumption DEF PInv, PadsHold, n
  <2>2. b \in Holds(frames[n])
    BY <1>1 DEF Holds
  <2> QED BY <1>1, <2>1, <2>2 DEF PInv, InUseLive, n
<1>6. /\ Bound(frames, objs[b], n - 1) /\ Lets(Top.fn, objs[b])
      /\ \A i \in 1 .. n : frames[i].place = DTOR /\ i # n => frames[i].in # b
  <2>1. Bound(frames, objs[b], n - 1) /\ Lets(Top.fn, objs[b])
    BY <1>1, <1>2 DEF PInv, Waits, n
  <2>2. ASSUME NEW i \in 1 .. n, frames[i].place = DTOR, i # n
        PROVE  frames[i].in # b
    <3>1. n \in i + 1 .. n
      BY <1>1, <2>2
    <3>2. frames[i].in \notin Holds(frames[n])
      BY <2>2, <3>1 DEF PInv, Waits, n
    <3> QED BY <1>5, <3>2
  <2> QED BY <2>1, <2>2
<1>7. exc' = objs[b]
  BY <1>2 DEF exc
<1>8. Typed'
  <2>1. n \in 0 .. n
    BY <1>1
  <2> QED BY <1>2, <1>4, <1>5, <2>1 DEF PInv, Typed
<1>9. Holds(g) \subseteq Holds(frames[n]) \cup {NONE}
  BY <1>1, <1>3 DEF Holds
<1>10. InUseLive'
  <2> SUFFICES ASSUME NEW i \in 1 .. n, NEW c \in Holds(frames'[i]), c # NONE
               PROVE  IsObj(objs[c])
    BY <1>2, <1>4, <1>5, <1>7 DEF InUseLive
  <2>1. c \in Holds(frames[i])
    BY <1>4, <1>9
  <2> QED BY <2>1 DEF PInv, InUseLive, n
<1>11. PadsHold'
  <2> SUFFICES ASSUME NEW i \in 1 .. n
               PROVE  LET f == frames'[i] IN
                      /\ f.place \in {DTOR, HANDLER, SPEC} => f.in \in Blocks
                      /\ f.place # BODY => f.fn # NONE
                      /\ f.place = HANDLER => HasTry(f.fn)
    BY <1>4 DEF PadsHold
  <2>1. CASE i # n
    BY <1>4, <2>1 DEF PInv, PadsHold, n
  <2>2. CASE i = n
    <3>1. Top.fn # NONE
      BY <1>1, <1>2 DEF PInv, PadsHold, n, BODY, DTOR
    <3> QED BY <1>3, <1>4, <2>2, <3>1 DEF RESUME, DTOR, HANDLER, SPEC
  <2> QED BY <2>1, <2>2
<1>12. Waits'
  <2> SUFFICES ASSUME NEW i \in 1 .. n, frames'[i].place = DTOR
               PROVE  LET c == frames'[i].in
                      IN  /\ c # b
                          /\ \A j \in i + 1 .. n : c \notin Holds(frames'[j])
                          /\ Bound(frames', objs[c], i - 1)
                          /\ Lets(frames'[i].fn, objs[c])
    BY <1>2, <1>4 DEF Waits
  <2>1. i # n /\ frames'[i] = frames[i] /\ frames[i].place = DTOR
    BY <1>3, <1>4 DEF DTOR, RESUME
  <2> DEFINE c == frames[i].in
  <2>2. /\ c # b /\ c \in Blocks /\ c # NONE
        /\ \A j \in i + 1 .. n : c \notin Holds(frames[j])
        /\ Bound(frames, objs[c], i - 1) /\ Lets(frames[i].fn, objs[c])
    BY <1>6, <2>1, PersonalityAssumption DEF PInv, PadsHold, Waits, n
  <2>3. ASSUME NEW j \in i + 1 .. n PROVE c \notin Holds(frames'[j])
    <3>1. j \in 1 .. n
      BY <1>1
    <3> QED BY <1>4, <1>9, <2>2, <3>1
  <2>4. Bound(frames', objs[c], i - 1)
    <3>1. i - 1 \in 0 .. n /\ \A j \in 1 .. i - 1 : j \in 1 .. n /\ j # n
      BY <1>1
    <3>2. SameBut(objs[c], objs[c], objs[c].owed) /\ \A j \in 1 .. i - 1 : frames[j] = frames'[j]
      BY <1>4, <3>1, SameButItself
    <3> HIDE DEF c
    <3> QED BY <1>1, <1>4, <2>2, <3>1, <3>2, BoundMoves DEF n
  <2> QED BY <2>1, <2>2, <2>3, <2>4
<1>13. InSearch' /\ Passed'
  BY <1>1, <1>2, <1>4 DEF InSearch, Passed
<1>14. InCleanup'
  <2> DEFINE e == objs[b]
  <2>1. Bound(frames', e, n - 1)
    <3>1. n - 1 \in 0 .. n /\ \A j \in 1 .. n - 1 : j \in 1 .. n /\ j # n
      BY <1>1
    <3>2. SameBut(e, e, e.owed) /\ \A j \in 1 .. n - 1 : frames[j] = frames'[j]
      BY <1>4, <3>1, SameButItself
    <3>3. Bound(frames, e, n - 1)
      BY <1>6
    <3> HIDE DEF e
    <3> QED BY <1>1, <1>4, <3>1, <3>2, <3>3, BoundMoves DEF n
  <2> HIDE DEF e
  <2>2. ClausesOf(g) = <<>> /\ ~MustNotThrow(g)
    <3>1. g.fn \in Fns /\ g.fn # NONE
      BY <1>1, <1>2, <1>3 DEF PInv, PadsHold, n, BODY, DTOR, FrameT
    <3>2. ClausesOf(g) = <<>>
      BY <1>3, <3>1 DEF ClausesOf, Clauses, Fns, BODY, HANDLER, RESUME
    <3> QED BY <1>3, <3>2 DEF MustNotThrow, Listed, BODY, DTOR, RESUME
  <2>3. ~Handles(g, e) /\ ~Cleans(g)
    <3>1. DOMAIN ClausesOf(g) = {}
      BY <2>2
    <3> QED BY <2>2, <3>1 DEF Handles, Cleans
  <2>4. n \in 1 .. Len(frames') /\ ~Handles(frames'[n], e) /\ ~Cleans(frames'[n])
    BY <1>1, <1>4, <2>3
  <2>5. Bound(frames', e, n)
    BY <1>4, <2>1, <2>4, BoundSteps
  <2> QED BY <1>2, <1>7, <2>5 DEF InCleanup, e
<1>15. Resumes'
  <2> SUFFICES ASSUME NEW i \in 1 .. n, frames'[i].place = RESUME
               PROVE  i = n /\ Lets(frames'[i].fn, objs[b])
    BY <1>2, <1>4, <1>7 DEF Resumes
  <2>1. i = n
    BY <1>1, <1>4 DEF n
  <2> QED BY <1>3, <1>4, <1>6, <2>1
<1>16. Violated'
  <2> SUFFICES ASSUME NEW i \in 1 .. n, frames'[i].place = SPEC
               PROVE  /\ Domestic(objs[frames'[i].in]) /\ Specified(frames'[i].fn)
                      /\ frames'[i].fn \in DOMAIN Functions
                      /\ i # n /\ frames'[i + 1].fn = UNEXPECTED
    BY <1>2, <1>4 DEF Violated
  <2>1. i # n
    BY <1>3, <1>4 DEF RESUME, SPEC
  <2>2. frames'[i] = frames[i] /\ frames[i].place = SPEC
    BY <1>4, <2>1
  <2>3. /\ Domestic(objs[frames[i].in]) /\ Specified(frames[i].fn)
        /\ frames[i].fn \in DOMAIN Functions /\ frames[i + 1].fn = UNEXPECTED
    BY <2>1, <2>2 DEF PInv, Violated, n
  <2>4. frames'[i + 1].fn = frames[i + 1].fn
    <3> DEFINE k == i + 1
    <3>1. k \in 1 .. n
      BY <1>1, <2>1
    <3> HIDE DEF k
    <3>2. frames'[k].fn = frames[k].fn
      BY <1>1, <1>3, <1>4, <3>1
    <3> QED BY <3>2 DEF k
  <2> QED BY <2>1, <2>2, <2>3, <2>4
<1>17. Unexpected'
  <2> SUFFICES ASSUME NEW i \in 1 .. n
               PROVE  LET h == frames'[i] d == frames'[i - 1]
                      IN  /\ h.copied # NONE => h.fn = UNEXPECTED
                          /\ h.fn = UNEXPECTED =>
                               /\ i > 1 /\ d.place = SPEC
                               /\ h.place # BODY => i = n
                               /\ h.place \in {BODY, HANDLER} =>
                                    h.copied = [block |-> d.in, lsda |-> d.fn, switch |-> -1,
                                                base |-> d.fn]
                               /\ h.place = HANDLER => Domestic(objs[h.in])
                               /\ h.place = DTOR => Allows(SpecOf(d.fn), objs[h.in])
                               /\ h.place # BODY => Allows(SpecOf(d.fn), objs[b])
    BY <1>2, <1>4, <1>7 DEF Unexpected
  <2>1. LET h == frames[i] d == frames[i - 1]
        IN  /\ h.copied # NONE => h.fn = UNEXPECTED
            /\ h.fn = UNEXPECTED =>
                 /\ i > 1 /\ d.place = SPEC
                 /\ h.place # BODY => i = n
                 /\ h.place \in {BODY, HANDLER} =>
                      h.copied = [block |-> d.in, lsda |-> d.fn, switch |-> -1, base |-> d.fn]
                 /\ h.place = HANDLER => Domestic(objs[h.in])
                 /\ h.place = DTOR => Allows(SpecOf(d.fn), objs[h.in])
    BY DEF PInv, Unexpected, n
  <2>2. i > 1 => frames'[i - 1] = frames[i - 1]
    <3> SUFFICES ASSUME i > 1 PROVE frames'[i - 1] = frames[i - 1]
      OBVIOUS
    <3> DEFINE k == i - 1
    <3>1. k \in 1 .. n /\ k # n
      BY <1>1
    <3> HIDE DEF k
    <3>2. frames'[k] = frames[k]
      BY <1>4, <3>1
    <3> QED BY <3>2 DEF k
  <2>3. CASE i # n
    <3>1. frames'[i] = frames[i]
      BY <1>4, <2>3
    <3> QED BY <2>1, <2>2, <2>3, <3>1
  <2>4. CASE i = n
    <3>1. /\ frames'[i] = g /\ g.place # BODY /\ g.place # HANDLER /\ g.place # DTOR
          /\ g.fn = frames[i].fn /\ g.copied = frames[i].copied /\ frames[i].in = b
          /\ frames[i].place = DTOR /\ frames[i].place # BODY
      BY <1>1, <1>2, <1>3, <1>4, <2>4 DEF BODY, HANDLER, DTOR, RESUME
    <3> QED BY <2>1, <2>2, <2>4, <3>1
  <2> QED BY <2>3, <2>4
<1> QED BY <1>8, <1>10, <1>11, <1>12, <1>13, <1>14, <1>15, <1>16, <1>17 DEF PInv

LEMMA UserAt ==
  ASSUME PInv, UserCode
  PROVE  /\ Running /\ Top.place \in {BODY, DTOR, HANDLER} /\ Top.place # SPEC
         /\ Top.fn = UNEXPECTED => Top.place = BODY
BY DEF UserCode, BODY, DTOR, HANDLER, SPEC

LEMMA NewFrame ==
  ASSUME NEW fn \in Fns
  PROVE  LET f == Frame(fn)
         IN  /\ f \in FrameT /\ f.fn = fn /\ f.place = BODY /\ f.in = NONE /\ f.copied = NONE
<1>1. BODY \in Places /\ 0 \in -1 .. Len(TypeTable)
  <2>1. Len(TypeTable) \in Nat
    BY PersonalityAssumption, LenProperties
  <2> QED BY <2>1 DEF Places, BODY, RESUME
<1> QED BY <1>1 DEF Frame, FrameT

LEMMA CallKeeps ==
  ASSUME PInv, Call
  PROVE  PInv'
<1>1. PICK fn \in DOMAIN Functions \cup {NONE} : frames' = Append(frames, Frame(fn))
  BY DEF Call
<1>2. UNCHANGED <<objs, flight, phase, at>> /\ UserCode
  BY DEF Call
<1>3. fn # UNEXPECTED /\ fn \in Fns
  BY PersonalityAssumption DEF Fns
<1> DEFINE f == Frame(fn)
<1>4. f \in FrameT /\ f.fn = fn /\ f.place = BODY /\ f.in = NONE /\ f.copied = NONE
  BY <1>3, NewFrame
<1>5. frames' = Append(frames, f)
  BY <1>1
<1> HIDE DEF f
<1> QED BY <1>2, <1>3, <1>4, <1>5, UserAt, Pushes

LEMMA CallUnexpectedKeeps ==
  ASSUME PInv, CallUnexpected
  PROVE  PInv'
<1> DEFINE h == objs[Top.in].hdr
           c == [block |-> Top.in, lsda |-> h.lsda, switch |-> h.switch, base |-> h.temp]
           f == [Frame(UNEXPECTED) EXCEPT !.copied = c]
           n == Len(frames)
<1>1. /\ Running /\ Top.place = SPEC /\ UNCHANGED <<objs, flight, phase, at>>
      /\ frames' = Append(frames, f)
  BY DEF CallUnexpected
<1>2. n \in 1 .. n /\ Top = frames[n]
  BY <1>1, AtRun
<1>3. /\ Top.in \in Blocks /\ Top.fn \in DOMAIN Functions
      /\ h.switch = -1 /\ h.lsda = Top.fn /\ h.temp = Top.fn
  BY <1>1, <1>2 DEF PInv, PadsHold, Violated
<1>4. c = [block |-> Top.in, lsda |-> Top.fn, switch |-> -1, base |-> Top.fn]
  BY <1>3
<1>5. c \in Copy
  BY <1>3, <1>4 DEF Copy
<1> HIDE DEF c
<1>6. f \in FrameT /\ f.fn = UNEXPECTED /\ f.place = BODY /\ f.in = NONE /\ f.copied = c
  <2>1. f = [fn |-> UNEXPECTED, place |-> BODY, in |-> NONE, switch |-> 0, copied |-> c]
    BY DEF Frame
  <2>2. BODY \in Places /\ 0 \in -1 .. Len(TypeTable) /\ UNEXPECTED \in Fns
    <3>1. Len(TypeTable) \in Nat
      BY PersonalityAssumption, LenProperties
    <3> QED BY <3>1 DEF Places, BODY, RESUME, Fns
  <2> HIDE DEF f
  <2>3. f.fn = UNEXPECTED /\ f.place = BODY /\ f.in = NONE /\ f.copied = c
    BY <2>1
  <2> QED BY <1>5, <2>1, <2>2, <2>3 DEF FrameT
<1>7. Top.fn # UNEXPECTED
  BY <1>3, PersonalityAssumption
<1> HIDE DEF f
<1> QED BY <1>1, <1>4, <1>6, <1>7, Pushes

LEMMA ReturnKeeps ==
  ASSUME PInv, Return
  PROVE  PInv'
<1>1. /\ Running /\ Top.fn # UNEXPECTED /\ Len(frames) > 1
      /\ UNCHANGED <<objs, flight, phase, at>>
      /\ frames' = SubSeq(frames, 1, Len(frames) - 1)
  BY DEF Return, UserCode, Front
<1> QED BY <1>1, Pops

LEMMA LeaveKeeps ==
  ASSUME PInv, LeaveHandler
  PROVE  PInv'
<1> DEFINE k == Len(frames)
           g == Frame(Top.fn)
<1>1. /\ Running /\ Top.place = HANDLER /\ Top.fn # UNEXPECTED
      /\ frames' = Append(SubSeq(frames, 1, k - 1), g)
      /\ objs' = Swept(objs, frames', NONE) /\ UNCHANGED <<flight, phase, at>>
  BY DEF LeaveHandler, UserCode, Front, BODY, HANDLER
<1>2. /\ k \in 1 .. k /\ Top = frames[k] /\ Top.fn \in Fns
      /\ phase = "run" /\ flight = NONE /\ at = 0 /\ k \in Nat
  BY <1>1, AtRun DEF FrameT
<1>3. g \in FrameT /\ g.fn = Top.fn /\ g.place = BODY /\ g.in = NONE /\ g.copied = NONE
  BY <1>2, NewFrame
<1>4. \A i \in 1 .. k - 1 : frames[i].place = DTOR => frames[i].in # NONE
  <2>1. \A i \in 1 .. k - 1 : i \in 1 .. Len(frames)
    BY <1>2
  <2> QED BY <2>1, PersonalityAssumption DEF PInv, PadsHold
<1> HIDE DEF g
<1>5. GoesOn(k, g, objs)
  <2>1. NONE \notin Blocks
    BY PersonalityAssumption
  <2> QED BY <1>1, <1>2, <1>3, <1>4, <2>1 DEF GoesOn, BODY, DTOR, HANDLER, SPEC, RESUME
<1>6. Goes(k, g, objs)
  BY <1>1, <1>2 DEF Goes
<1> HIDE DEF k
<1>7. k \in 1 .. Len(frames)
  BY <1>2 DEF k
<1> QED BY <1>3, <1>5, <1>6, <1>7, Relands

\* An exception is thrown in a block that nobody refers to.
LEMMA FreeBlockIs ==
  ASSUME PInv, FreeBlocks # {}
  PROVE  FreeBlock \in Blocks /\ objs[FreeBlock] = Obj /\ ~IsObj(objs[FreeBlock])
         /\ ~Suspended(FreeBlock)
<1>1. FreeBlock \in FreeBlocks
  <2>1. FreeBlocks \in SUBSET Nat
    BY PersonalityAssumption DEF FreeBlocks
  <2>2. \E b \in FreeBlocks : \A c \in FreeBlocks : b <= c
    BY <2>1, HasLeast
  <2> QED BY <2>2 DEF FreeBlock
<1>2. FreeBlock \in Blocks /\ objs[FreeBlock] = Obj
  BY <1>1 DEF FreeBlocks
<1>3. ~IsObj(objs[FreeBlock])
  BY <1>2, PersonalityAssumption DEF IsObj, Obj
<1>4. ~Suspended(FreeBlock)
  <2> SUFFICES ASSUME NEW i \in DOMAIN frames, frames[i].in = FreeBlock PROVE FALSE
    BY DEF Suspended
  <2>1. i \in 1 .. Len(frames)
    BY LenProperties DEF PInv, Typed
  <2>2. FreeBlock \in Holds(frames[i]) /\ FreeBlock # NONE
    BY <1>2, PersonalityAssumption DEF Holds
  <2> QED BY <1>3, <2>1, <2>2 DEF PInv, InUseLive
<1> QED BY <1>2, <1>3, <1>4

LEMMA FreshIs ==
  ASSUME NEW kind \in {"gxx", "foreign", "forced"}, NEW type
  PROVE  IsObj(Fresh(kind, type)) /\ Fresh(kind, type).kind = kind
         /\ Fresh(kind, type).type = type
BY DEF IsObj, Fresh, Domestic

LEMMA ThrowKeeps ==
  ASSUME PInv, Throw
  PROVE  PInv'
<1>1. FreeBlocks # {} /\ UserCode
  BY DEF Throw
<1>2. \E kind \in {"gxx", "foreign", "forced"} : \E type : Raise(FreeBlock, Fresh(kind, type))
  BY DEF Throw
<1>3. PICK e : IsObj(e) /\ Raise(FreeBlock, e)
  BY <1>2, FreshIs
<1> DEFINE b == FreeBlock
<1>4. b \in Blocks /\ ~IsObj(objs[b]) /\ ~Suspended(b) /\ Raise(b, e)
  BY <1>1, <1>3, FreeBlockIs
<1> HIDE DEF b
<1> QED BY <1>1, <1>3, <1>4, UserAt, Raises

LEMMA RethrowKeeps ==
  ASSUME PInv, Rethrow
  PROVE  PInv'
<1> DEFINE b == Caught(frames)
           e == objs[b]
<1>1. UserCode /\ b # NONE /\ ~Suspended(b) /\ Raise(b, e)
  BY DEF Rethrow
<1>2. /\ Len(frames) \in Nat /\ \A i \in 1 .. Len(frames) : frames[i] \in FrameT
  BY <1>1, UserAt, AtRun
<1>3. PICK i \in 1 .. Len(frames) :
        Catching(frames[i])
        /\ b = IF frames[i].place = HANDLER THEN frames[i].in ELSE frames[i].copied.block
  BY <1>1, <1>2, CaughtIs
<1>4. b \in Holds(frames[i])
  BY <1>3 DEF Holds, Catching
<1>5. b \in Blocks
  BY <1>1, <1>2, <1>4 DEF Holds, FrameT, Copy
<1>6. IsObj(e)
  BY <1>1, <1>4 DEF PInv, InUseLive
<1>7. Alike(objs[b], e)
  BY DEF Alike
<1> HIDE DEF b, e
<1> QED BY <1>1, <1>5, <1>6, <1>7, UserAt, Raises

\* The catch around the unexpected handler asks for what the specification of
\* the frame allows that called it.
LEMMA MeetsIs ==
  ASSUME PInv, Running, Top.fn = UNEXPECTED, Top.place = HANDLER
  PROVE  LET types == SpecOf(frames[Len(frames) - 1].fn)
         IN  /\ \A t : Meets(t) <=> \E s \in types : Matches(s, t)
             /\ Top.in \in Blocks /\ IsObj(objs[Top.in]) /\ Domestic(objs[Top.in])
             /\ ~Suspended(Top.in)
<1> DEFINE n == Len(frames)
           g == frames[n - 1]
           types == SpecOf(g.fn)
<1>1. /\ n \in Nat /\ n \in 1 .. n /\ Top = frames[n] /\ frames \in Seq(FrameT)
      /\ DOMAIN frames = 1 .. n
  BY AtRun, LenProperties
<1>2. /\ n > 1 /\ g.place = SPEC /\ Domestic(objs[Top.in])
      /\ Top.copied = [block |-> g.in, lsda |-> g.fn, switch |-> -1, base |-> g.fn]
  BY <1>1 DEF PInv, Unexpected
<1>3. n - 1 \in 1 .. n
  BY <1>1, <1>2
<1>4. g.fn \in DOMAIN Functions
  BY <1>2, <1>3 DEF PInv, Violated
<1>5. Top.in \in Blocks /\ Top.in # NONE
  BY <1>1, PersonalityAssumption DEF PInv, PadsHold
<1>6. Top.in \in Holds(frames[n])
  BY <1>1 DEF Holds
<1>7. IsObj(objs[Top.in])
  BY <1>1, <1>5, <1>6 DEF PInv, InUseLive
<1>8. ~Suspended(Top.in)
  <2> SUFFICES ASSUME NEW i \in 1 .. n, frames[i].place = DTOR, frames[i].in = Top.in
               PROVE  FALSE
    BY <1>1 DEF Suspended
  <2>0. DTOR # HANDLER /\ frames[n].place = HANDLER /\ n \in Nat /\ i \in 1 .. n
    BY <1>1 DEF DTOR, HANDLER
  <2> HIDE DEF n
  <2>1. i # n
    BY <2>0
  <2>2. n \in i + 1 .. n
    BY <2>0, <2>1
  <2>3. frames[i].in \notin Holds(frames[n])
    BY <2>2 DEF PInv, Waits, n
  <2> QED BY <1>6, <2>3
<1>9. ASSUME NEW t PROVE Meets(t) <=> \E s \in types : Matches(s, t)
  <2> DEFINE c == Top.copied
             l == Lsda[g.fn]
             fn == g.fn
  <2>1. c.lsda = fn /\ c.base = fn /\ c.switch = -1
    BY <1>2
  <2>2. l.spec = types /\ l.base = fn
    <3>1. g.fn \in Coded
      BY <1>4 DEF Coded
    <3> QED BY <3>1, LsdaIs
  <2>3. Meets(t) <=> CheckSpec(l, fn, t, -1)
    BY <2>1 DEF Meets, Promised
  <2> HIDE DEF c, l, fn, types
  <2>4. SpecList(l, -1) = types /\ \A s : TypeEntry(l, fn, s) = s
    BY <2>2 DEF SpecList, TypeEntry
  <2> QED BY <2>3, <2>4 DEF CheckSpec
<1> QED BY <1>2, <1>5, <1>7, <1>8, <1>9

LEMMA UnexpectedThrewKeeps ==
  ASSUME PInv, UnexpectedThrew
  PROVE  PInv'
<1> DEFINE types == SpecOf(frames[Len(frames) - 1].fn)
           b == Top.in
           e == objs[b]
           new == Fresh("gxx", BAD)
           free == FreeBlock
<1>1. /\ Running /\ Top.fn = UNEXPECTED /\ Top.place = HANDLER /\ Top.place # SPEC
      /\ \/ Meets(e.type) /\ Raise(b, e)
         \/ Die
         \/ Meets(BAD) /\ FreeBlocks # {} /\ Raise(free, new)
  BY DEF UnexpectedThrew, HANDLER, SPEC
<1>2. /\ \A t : Meets(t) <=> \E s \in types : Matches(s, t)
      /\ b \in Blocks /\ IsObj(e) /\ Domestic(e) /\ ~Suspended(b)
  BY <1>1, MeetsIs
<1>3. IsObj(new) /\ new.kind = "gxx" /\ new.type = BAD
  BY FreshIs
<1> HIDE DEF types, b, new, free
<1>4. CASE Meets(e.type) /\ Raise(b, e)
  <2>1. Allows(types, e)
    BY <1>2, <1>4 DEF Allows
  <2>2. Alike(objs[b], e)
    BY DEF Alike
  <2> HIDE DEF e
  <2> QED BY <1>1, <1>2, <1>4, <2>1, <2>2, Raises DEF types
<1>5. CASE Die
  BY <1>5, Dies
<1>6. CASE Meets(BAD) /\ FreeBlocks # {} /\ Raise(free, new)
  <2>1. Allows(types, new)
    BY <1>2, <1>3, <1>6 DEF Allows, Domestic
  <2>2. free \in Blocks /\ ~IsObj(objs[free]) /\ ~Suspended(free)
    BY <1>6, FreeBlockIs DEF free
  <2> QED BY <1>1, <1>3, <1>6, <2>1, <2>2, Raises DEF types
<1> QED BY <1>1, <1>4, <1>5, <1>6

LEMMA Begins ==
  ASSUME Init
  PROVE  PInv
<1>1. PICK fn \in DOMAIN Functions \cup {NONE} : frames = <<Frame(fn)>>
  BY DEF Init
<1>2. objs = [b \in Blocks |-> Obj] /\ flight = NONE /\ phase = "run" /\ at = 0
  BY DEF Init
<1> DEFINE f == Frame(fn)
<1>3. f \in FrameT /\ f.fn = fn /\ f.place = BODY /\ f.in = NONE /\ f.copied = NONE
      /\ fn # UNEXPECTED
  <2>1. fn \in Fns /\ fn # UNEXPECTED
    BY PersonalityAssumption DEF Fns
  <2> QED BY <2>1, NewFrame
<1>4. frames = <<f>>
  BY <1>1
<1> HIDE DEF f
<1>5. frames \in Seq(FrameT) /\ Len(frames) = 1 /\ frames[1] = f /\ frames # <<>>
  BY <1>3, <1>4
<1>6. \A i \in 1 .. Len(frames) : frames[i] = f
  BY <1>5
<1>7. f.place # DTOR /\ f.place # HANDLER /\ f.place # SPEC /\ f.place # RESUME
  BY <1>3 DEF BODY, DTOR, HANDLER, SPEC, RESUME
<1>8. Typed
  BY <1>2, <1>5 DEF Typed
<1>9. InUseLive
  <2>1. Holds(f) = {NONE}
    BY <1>3 DEF Holds
  <2> QED BY <1>2, <1>6, <2>1 DEF InUseLive
<1>10. PadsHold /\ Waits /\ Resumes /\ Violated
  BY <1>3, <1>6, <1>7 DEF PadsHold, Waits, Resumes, Violated
<1>11. InSearch /\ InCleanup /\ Passed
  BY <1>2 DEF InSearch, InCleanup, Passed
<1>12. Unexpected
  BY <1>3, <1>6 DEF Unexpected
<1> QED BY <1>8, <1>9, <1>10, <1>11, <1>12 DEF PInv

LEMMA Steps ==
  ASSUME PInv, [Next]_vars
  PROVE  PInv'
<1>1. CASE Call \/ Return \/ Throw \/ Rethrow \/ LeaveHandler \/ FinishCleanup
  BY <1>1, CallKeeps, ReturnKeeps, ThrowKeeps, RethrowKeeps, LeaveKeeps, FinishKeeps
<1>2. CASE EndOfStack \/ UnexpectedReturns
  <2>1. Die
    BY <1>2 DEF EndOfStack, UnexpectedReturns
  <2> QED BY <2>1, Dies
<1>3. CASE SearchStep \/ CleanupStep \/ CallUnexpected \/ UnexpectedThrew
  BY <1>3, SearchKeeps, CleanupKeeps, CallUnexpectedKeeps, UnexpectedThrewKeeps
<1>4. CASE UNCHANGED vars
  <2>1. UNCHANGED <<frames, objs, flight, phase, at>> /\ exc' = exc
    BY <1>4 DEF vars, exc
  <2>2. Typed' /\ InUseLive' /\ PadsHold' /\ Waits'
    BY <2>1 DEF PInv, Typed, InUseLive, PadsHold, Waits
  <2>3. InSearch' /\ InCleanup' /\ Passed' /\ Resumes'
    BY <2>1 DEF PInv, InSearch, InCleanup, Passed, Resumes
  <2>4. Violated' /\ Unexpected'
    BY <2>1 DEF PInv, Violated, Unexpected
  <2> QED BY <2>2, <2>3, <2>4 DEF PInv
<1> QED BY <1>1, <1>2, <1>3, <1>4 DEF Next

-----------------------------------------------------------------------------
(* The results.                                                              *)

\* The inductive invariant: through all interruptions every exception on its
\* way, or waiting for a destructor, is bound to its handler.
THEOREM PersonalityInvariant == Spec => []PInv
<1>1. Init => PInv
  BY Begins
<1>2. PInv /\ [Next]_vars => PInv'
  BY Steps
<1> QED BY <1>1, <1>2, PTL DEF Spec

\* eh_personality.cc: what phase 1 saved is what it would find, for every
\* program, every table and every exception that is still on its way.
THEOREM CacheStaysFresh == Spec => []CacheIsFresh
<1>1. ASSUME PInv
      PROVE  TypeOK
  <2>1. /\ frames \in Seq(FrameT) /\ DOMAIN frames = 1 .. Len(frames)
        /\ \A i \in 1 .. Len(frames) : frames[i] \in FrameT
    BY <1>1, LenProperties, ElementOfSeq DEF PInv, Typed
  <2>2. \A i \in DOMAIN frames :
          /\ frames[i].fn \in DOMAIN Functions \cup {NONE, UNEXPECTED}
          /\ frames[i].place \in BODY .. RESUME
          /\ frames[i].in \in Blocks \cup {NONE}
          /\ frames[i].switch \in -1 .. Len(TypeTable)
    <3> TAKE i \in DOMAIN frames
    <3>1. frames[i] \in FrameT
      BY <2>1
    <3> QED BY <3>1 DEF FrameT, Fns, Places
  <2>3. \A b \in Blocks : objs[b] # Obj =>
          /\ objs[b].kind \in {"gxx", "foreign", "forced"}
          /\ ~Domestic(objs[b]) => objs[b].hdr = Raw
    BY <1>1 DEF PInv, Typed, IsObj
  <2> QED BY <1>1, <2>2, <2>3 DEF TypeOK, PInv, Typed
<1>2. ASSUME PInv, NEW b \in Blocks, Domestic(objs[b]),
             Suspended(b) \/ (flight = b /\ phase = "cleanup")
      PROVE  LET f == frames[objs[b].target] IN objs[b].hdr = Saved(f, Search(f, objs[b]))
  <2>1. CASE Suspended(b)
    <3>1. PICK i \in DOMAIN frames : frames[i].place = DTOR /\ frames[i].in = b
      BY <2>1 DEF Suspended
    <3>2. i \in 1 .. Len(frames)
      BY <1>2, LenProperties DEF PInv, Typed
    <3>3. Bound(frames, objs[b], i - 1)
      BY <1>2, <3>1, <3>2 DEF PInv, Waits
    <3> QED BY <1>2, <3>3 DEF Bound
  <2>2. CASE flight = b /\ phase = "cleanup"
    BY <1>2, <2>2 DEF PInv, InCleanup, Bound, exc
  <2> QED BY <1>2, <2>1, <2>2
<1>3. PInv => CacheIsFresh
  BY <1>1, <1>2 DEF CacheIsFresh
<1> QED BY <1>3, PersonalityInvariant, PTL

\* An exception lands in phase 2, in the frame that the unwinder asks.
LEMMA LandsIs ==
  ASSUME PInv, Next, Lands
  PROVE  /\ phase = "cleanup" /\ at > 0 /\ Answer(exc).found # "nothing"
         /\ ~Terminates(Answer(exc)) /\ InstallContext(Answer(exc))
         /\ Len(frames') = at /\ Pad.switch = Answer(exc).switch
<1>1. flight # NONE /\ phase' = "run"
  BY DEF Lands
<1>2. phase \in {"search", "cleanup"}
  BY <1>1, InFlight
<1>3. ~(SearchStep \/ EndOfStack)
  BY <1>1, <1>2 DEF SearchStep, EndOfStack, Die, NextFrame
<1>4. CleanupStep
  BY <1>2, <1>3 DEF Next, Call, Return, Throw, Rethrow, LeaveHandler, FinishCleanup,
     CallUnexpected, UnexpectedReturns, UnexpectedThrew, UserCode, Running
<1>5. /\ phase = "cleanup" /\ at > 0 /\ Answer(exc).found # "nothing"
      /\ ~Terminates(Answer(exc)) /\ InstallContext(Answer(exc))
  BY <1>1, <1>4 DEF CleanupStep, NextFrame, Die
<1>6. /\ frames \in Seq(FrameT) /\ at \in 1 .. Len(frames) /\ Len(frames) \in Nat
      /\ frames[at] \in FrameT /\ flight \in Blocks
  BY <1>1, <1>5, InFlight
<1> DEFINE f == frames[at]
           s == Answer(exc).switch
           place == IF s > 0 THEN HANDLER ELSE IF s < 0 THEN SPEC ELSE DTOR
           copied == IF s = 0 THEN NONE ELSE f.copied
           g == EditFrame(f, place, flight, s, copied)
           gs == SubSeq(frames, 1, at - 1)
<1>7. g \in FrameT /\ g.switch = s
  <2>1. place \in Places /\ flight \in Blocks \cup {NONE} /\ copied \in {NONE} \cup Copy
    BY <1>6 DEF Places, BODY, HANDLER, DTOR, SPEC, RESUME, FrameT
  <2>2. s \in -1 .. Len(TypeTable)
    BY <1>5, LandingIs
  <2> HIDE DEF f, s, place, copied
  <2> QED BY <1>6, <2>1, <2>2, EditedFrame DEF f
<1>8. frames' = Append(gs, g)
  <2>1. Landed(f, Answer(exc)) = g
    BY Zenon DEF Landed, EditFrame
  <2> QED BY <1>5, <2>1 DEF InstallContext
<1>9. gs \in Seq(FrameT) /\ Len(gs) = at - 1
  <2>1. at - 1 \in 0 .. Len(frames)
    BY <1>6
  <2> QED BY <1>6, <2>1, Prefix
<1> HIDE DEF gs, g
<1>10. Len(frames') = at /\ frames'[Len(frames')] = g
  <2>1. Len(gs) + 1 = at
    BY <1>6, <1>9
  <2> QED BY <1>7, <1>8, <1>9, <2>1, Pushed
<1> QED BY <1>5, <1>7, <1>10 DEF Pad, Last, g, s

\* eh_personality.cc: an exception ends up in the innermost frame that the
\* source says takes it, in the clause the source says.
THEOREM HandlersAreInnermost == Spec => HandlerIsInnermost
<1> DEFINE Step ==
      /\ Lands /\ Pad.switch # 0 =>
           /\ exc.due.frame = Len(frames')
           /\ IF Pad.switch > 0 THEN exc.due.how = Catch(TypeTable[Pad.switch])
                                ELSE exc.due.how.kind = "throws"
           /\ Domestic(exc) /\ Pad.switch > 0 =>
                exc.hdr.adjusted = IF exc.due.how.type = ALL THEN "whole"
                                                             ELSE exc.due.how.type
      /\ flight # NONE /\ phase' = "dead" /\ Domestic(exc) =>
           exc.due.how.kind \in {"none", "terminate"}
<1>1. ASSUME PInv, Next, Lands, Pad.switch # 0
      PROVE  /\ exc.due.frame = Len(frames')
             /\ IF Pad.switch > 0 THEN exc.due.how = Catch(TypeTable[Pad.switch])
                                  ELSE exc.due.how.kind = "throws"
             /\ Domestic(exc) /\ Pad.switch > 0 =>
                  exc.hdr.adjusted = IF exc.due.how.type = ALL THEN "whole"
                                                               ELSE exc.due.how.type
  <2> DEFINE f == frames[at]
             s == Answer(exc).switch
             t == Search(f, exc)
             c == ClausesOf(f)[FirstOf(ClausesOf(f), exc)]
  <2>1. /\ phase = "cleanup" /\ at > 0 /\ Answer(exc).found # "nothing"
        /\ ~Terminates(Answer(exc)) /\ Len(frames') = at /\ Pad.switch = s
    BY <1>1, LandsIs
  <2>2. /\ s \in -1 .. Len(TypeTable) /\ ~MustNotThrow(f)
        /\ s = 0 <=> ~Handles(f, exc)
        /\ s > 0 => c = Catch(TypeTable[s])
        /\ s < 0 => c.kind = "throws"
    BY <1>1, <2>1, LandingIs
  <2>3. /\ s = t.switch
        /\ Handles(f, exc) <=> exc.due.frame = at
        /\ Domestic(exc) /\ Handles(f, exc) => exc.hdr = Saved(f, t)
        /\ exc.due = DueAt(frames, exc.due.frame, exc)
    BY <1>1, <2>1, AnswerIs
  <2>4. exc.due.frame = at /\ at # 0
    BY <1>1, <2>1, <2>2, <2>3
  <2>5. exc.due.how = c
    <3>1. exc.due = DueAt(frames, at, exc)
      BY <2>3, <2>4
    <3> HIDE DEF c
    <3>2. DueAt(frames, at, exc).how = c
      BY <2>2, <2>4 DEF DueAt, c
    <3> QED BY <3>1, <3>2
  <2>6. Domestic(exc) => exc.hdr.adjusted = Adjusted(s)
    <3>1. Domestic(exc) => exc.hdr = Saved(f, t)
      BY <2>3, <2>4
    <3> HIDE DEF f, t
    <3>2. Saved(f, t).adjusted = Adjusted(t.switch)
      BY DEF Saved
    <3> QED BY <2>3, <3>1, <3>2
  <2> HIDE DEF c, s, f, t
  <2>7. s > 0 => exc.due.how.type = TypeTable[s]
    BY <2>2, <2>5 DEF Catch
  <2>8. Domestic(exc) /\ s > 0 => exc.hdr.adjusted = IF exc.due.how.type = ALL THEN "whole"
                                                     ELSE exc.due.how.type
    BY <2>6, <2>7 DEF Adjusted
  <2>9. IF s > 0 THEN exc.due.how = Catch(TypeTable[s]) ELSE exc.due.how.kind = "throws"
    BY <1>1, <2>1, <2>2, <2>5
  <2> QED BY <2>1, <2>4, <2>8, <2>9
<1>2. ASSUME PInv, Next, flight # NONE, phase' = "dead", Domestic(exc)
      PROVE  exc.due.how.kind \in {"none", "terminate"}
  <2>1. phase \in {"search", "cleanup"} /\ at \in 0 .. Len(frames) /\ Len(frames) \in Nat
        /\ frames \in Seq(FrameT) /\ SubSeq(frames, 1, Len(frames)) = frames
    BY <1>2, InFlight
  <2>2. EndOfStack \/ CleanupStep
    BY <1>2, <2>1 DEF Next, Call, Return, Throw, Rethrow, LeaveHandler, FinishCleanup,
       CallUnexpected, UnexpectedReturns, UnexpectedThrew, UserCode, Running, SearchStep,
       NextFrame
  <2>3. DueAt(frames, 0, exc).how.kind = "none"
    BY DEF DueAt
  <2>4. CASE EndOfStack /\ phase = "search"
    <3>1. exc.due = Due(SubSeq(frames, 1, Len(frames)), exc) /\ exc.due.frame <= 0
      BY <1>2, <2>1, <2>4 DEF PInv, InSearch, EndOfStack
    <3>2. Len(frames) \in 0 .. Len(frames)
      BY <2>1
    <3>3. exc.due.frame \in 0 .. Len(frames) /\ exc.due = DueAt(frames, exc.due.frame, exc)
      BY <2>1, <3>1, <3>2, DueIs DEF IsDue
    <3>4. exc.due.frame = 0
      BY <2>1, <3>1, <3>3
    <3> QED BY <2>3, <3>3, <3>4
  <2>5. CASE EndOfStack /\ phase = "cleanup"
    <3>1. Bound(frames, exc, 0)
      BY <1>2, <2>5 DEF PInv, InCleanup, EndOfStack
    <3>2. exc.due = Due(SubSeq(frames, 1, 0), exc) /\ exc.due.frame # 0
      BY <1>2, <3>1 DEF Bound, Domestic
    <3> DEFINE k == 0
    <3>3. k \in 0 .. Len(frames) /\ exc.due = Due(SubSeq(frames, 1, k), exc) /\ k = 0
      BY <2>1, <3>2
    <3> HIDE DEF k
    <3>4. exc.due.frame \in 0 .. k
      BY <2>1, <3>3, DueIs DEF IsDue
    <3> QED BY <3>2, <3>3, <3>4
  <2>6. CASE CleanupStep
    <3> DEFINE f == frames[at]
               t == Search(f, exc)
    <3>1. phase = "cleanup" /\ at > 0 /\ Terminates(Answer(exc))
      BY <1>2, <2>6 DEF CleanupStep, NextFrame, InstallContext
    <3>2. /\ Answer(exc).found = t.found
          /\ Handles(f, exc) <=> exc.due.frame = at
          /\ exc.due = DueAt(frames, exc.due.frame, exc)
      BY <1>2, <3>1, AnswerIs
    <3>3. t.found = "terminate"
      BY <1>2, <3>1, <3>2 DEF Terminates
    <3>4. f \in FrameT
      BY <1>2, <3>1, InFlight
    <3>5. MustNotThrow(f) /\ Handles(f, exc)
      BY <3>3, <3>4, HandlesIs
    <3>6. exc.due = DueAt(frames, at, exc) /\ at # 0
      BY <2>1, <3>1, <3>2, <3>5
    <3>7. DueAt(frames, at, exc).how.kind = "terminate"
      BY <3>5, <3>6 DEF DueAt
    <3> QED BY <3>6, <3>7
  <2> QED BY <2>1, <2>2, <2>4, <2>5, <2>6
<1>3. PInv /\ [Next]_vars => [Step]_vars
  BY <1>1, <1>2
<1>4. Spec => [][Step]_vars
  BY <1>3, PersonalityInvariant, PTL DEF Spec
<1> QED BY <1>4 DEF HandlerIsInnermost

\* eh_personality.cc: before the handler every frame that is left cleans up,
\* once, the innermost first; without a handler none does.
THEOREM CleanupsRunOnce == Spec => CleanupsOnce
<1> DEFINE Step ==
      Lands => IF Pad.switch = 0
               THEN /\ Len(frames') \in exc.owed
                    /\ \A i \in exc.owed : i <= Len(frames')
                    /\ exc.due.frame # 0 \/ exc.kind = "forced"
               ELSE exc.owed = {}
<1>1. ASSUME PInv, Next, Lands
      PROVE  IF Pad.switch = 0
             THEN /\ Len(frames') \in exc.owed
                  /\ \A i \in exc.owed : i <= Len(frames')
                  /\ exc.due.frame # 0 \/ exc.kind = "forced"
             ELSE exc.owed = {}
  <2> DEFINE f == frames[at]
             s == Answer(exc).switch
             d == exc.due.frame
  <2>1. /\ phase = "cleanup" /\ at > 0 /\ Answer(exc).found # "nothing"
        /\ ~Terminates(Answer(exc)) /\ Len(frames') = at /\ Pad.switch = s
    BY <1>1, LandsIs
  <2>2. (s = 0 <=> ~Handles(f, exc)) /\ (s = 0 => Cleans(f))
    BY <1>1, <2>1, LandingIs
  <2>3. /\ Handles(f, exc) <=> d = at
        /\ d \in 0 .. at
        /\ exc.owed = {i \in d + 1 .. at : Cleans(frames[i])}
        /\ exc.kind # "forced" => d # 0
    BY <1>1, <2>1, AnswerIs
  <2>4. at \in Nat
    <3>1. at \in 0 .. Len(frames) /\ Len(frames) \in Nat
      BY <1>1, InFlight DEF Lands
    <3> QED BY <3>1
  <2> HIDE DEF s, d
  <2>5. CASE s = 0
    <3>1. at \in d + 1 .. at
      BY <2>2, <2>3, <2>4, <2>5
    <3>2. at \in exc.owed /\ \A i \in exc.owed : i <= at
      BY <2>2, <2>3, <2>4, <2>5, <3>1
    <3> QED BY <2>1, <2>3, <2>5, <3>2 DEF d
  <2>6. CASE s # 0
    <3>1. d + 1 .. at = {}
      BY <2>2, <2>3, <2>4, <2>6
    <3> QED BY <2>1, <2>3, <2>6, <3>1
  <2> QED BY <2>5, <2>6
<1>2. PInv /\ [Next]_vars => [Step]_vars
  BY <1>1
<1>3. Spec => [][Step]_vars
  BY <1>2, PersonalityInvariant, PTL DEF Spec
<1> QED BY <1>3 DEF CleanupsOnce

\* eh_personality.cc: no exception leaves a function whose specification does
\* not allow it, and what the unexpected handler throws goes on, is replaced by
\* bad_exception, or is the end, as the violated specification says.
THEOREM SpecificationsHold == Spec => SpecKept
<1> DEFINE Step ==
      /\ Lands => \A i \in Len(frames') + 1 .. Len(frames) :
                    Specified(frames[i].fn) => Allows(SpecOf(frames[i].fn), exc)
      /\ UnexpectedThrew =>
           LET types == SpecOf(frames[Len(frames) - 1].fn)
               new   == objs[Top.in]
           IN  IF Allows(types, new) THEN flight' = Top.in
               ELSE IF Allows(types, Fresh("gxx", BAD))
               THEN flight' \notin {NONE, Top.in} /\ objs'[flight'].type = BAD
               ELSE phase' = "dead"
<1>1. ASSUME PInv, Next, Lands
      PROVE  \A i \in Len(frames') + 1 .. Len(frames) :
               Specified(frames[i].fn) => Allows(SpecOf(frames[i].fn), exc)
  <2>1. Len(frames') = at /\ flight # NONE
    BY <1>1, LandsIs DEF Lands
  <2> QED BY <1>1, <2>1 DEF PInv, Passed, Lets
<1>2. ASSUME PInv, UnexpectedThrew
      PROVE  LET types == SpecOf(frames[Len(frames) - 1].fn)
                 new   == objs[Top.in]
             IN  IF Allows(types, new) THEN flight' = Top.in
                 ELSE IF Allows(types, Fresh("gxx", BAD))
                 THEN flight' \notin {NONE, Top.in} /\ objs'[flight'].type = BAD
                 ELSE phase' = "dead"
  <2> DEFINE types == SpecOf(frames[Len(frames) - 1].fn)
             b     == Top.in
             new   == objs[b]
             bad   == Fresh("gxx", BAD)
             free  == FreeBlock
  <2>1. /\ Running /\ Top.fn = UNEXPECTED /\ Top.place = HANDLER
        /\ IF Meets(new.type) THEN Raise(b, new)
           ELSE IF ~Meets(BAD) THEN Die
           ELSE FreeBlocks # {} /\ Raise(free, bad)
    BY <1>2 DEF UnexpectedThrew
  <2>2. /\ \A t : Meets(t) <=> \E s \in types : Matches(s, t)
        /\ b \in Blocks /\ IsObj(new) /\ Domestic(new)
    BY <1>2, <2>1, MeetsIs
  <2>3. IsObj(bad) /\ bad.kind = "gxx" /\ bad.type = BAD
    BY FreshIs
  <2>4. (Meets(new.type) <=> Allows(types, new)) /\ (Meets(BAD) <=> Allows(types, bad))
    <3> HIDE DEF types, new, bad
    <3> QED BY <2>2, <2>3 DEF Allows, Domestic
  <2>5. CASE Meets(new.type)
    <3>1. flight' = b
      BY <2>1, <2>5 DEF Raise
    <3> QED BY <2>4, <2>5, <3>1
  <2>6. CASE ~Meets(new.type) /\ ~Meets(BAD)
    <3>1. phase' = "dead"
      BY <2>1, <2>6 DEF Die
    <3> QED BY <2>4, <2>6, <3>1
  <2>7. CASE ~Meets(new.type) /\ Meets(BAD)
    <3>1. free \in Blocks /\ ~IsObj(objs[free])
      BY <1>2, <2>1, <2>7, FreeBlockIs
    <3>2. free # b /\ free # NONE
      BY <2>2, <3>1, PersonalityAssumption
    <3> DEFINE due == Due(frames, bad)
               o   == Owed(frames, due)
               e   == EditRaise(bad, 0, due, o)
    <3>3. flight' = free /\ objs' = [objs EXCEPT ![free] = e]
      BY <2>1, <2>7 DEF Raise, EditRaise
    <3> HIDE DEF bad, due, o
    <3>4. e.type = BAD
      BY <2>3, EditRaised DEF Alike
    <3> HIDE DEF e
    <3>5. objs = [c \in Blocks |-> objs[c]]
      BY <1>2 DEF PInv, Typed
    <3>6. objs'[free] = e
      BY <3>1, <3>3, <3>5
    <3>7. flight' \notin {NONE, b} /\ objs'[flight'].type = BAD
      BY <3>2, <3>3, <3>4, <3>6
    <3> QED BY <2>4, <2>7, <3>7 DEF bad
  <2> QED BY <2>5, <2>6, <2>7
<1>3. PInv /\ [Next]_vars => [Step]_vars
  BY <1>1, <1>2
<1>4. Spec => [][Step]_vars
  BY <1>3, PersonalityInvariant, PTL DEF Spec
<1> QED BY <1>4 DEF SpecKept
=============================================================================
