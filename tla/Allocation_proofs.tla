------------------------- MODULE Allocation_proofs -------------------------
(* Proofs about the memory of module Allocation: every block and every slot  *)
(* has one owner, nothing leaks as long as each header began with a count of *)
(* 0, and malloc and free are used as module Allocator allows.               *)
EXTENDS Allocation, FiniteSetTheorems,
        SequenceTheorems, WellFoundedInduction, TLAPS

-----------------------------------------------------------------------------
(* Sets of numbers, and sequences that are used as stacks.                   *)

\* A set of numbers that is not empty has a least one.
LEMMA HasLeast ==
  ASSUME NEW T \in SUBSET Nat, T # {}
  PROVE  \E m \in T : \A n \in T : m <= n
<1>1. PICK m \in T : \A n \in T : <<n, m>> \notin OpToRel(<, Nat)
  BY NatLessThanWellFounded, WFMin
<1>2. \A n \in T : ~(n < m)
  BY <1>1 DEF OpToRel
<1> QED BY <1>2

\* A set of indices that is not empty has a greatest one.
LEMMA HasGreatest ==
  ASSUME NEW n \in Nat, NEW T \in SUBSET (1 .. n), T # {}
  PROVE  \E m \in T : \A i \in T : i <= m
<1> DEFINE U == {u \in 0 .. n : n - u \in T}
<1>1. \A i \in T : n - i \in U
  OBVIOUS
<1>2. PICK i \in T : TRUE
  OBVIOUS
<1>3. n - i \in U
  BY <1>1
<1>4. U \subseteq 0 .. n
  OBVIOUS
<1>5. PICK u \in U : \A v \in U : u <= v
  <2> HIDE DEF U
  <2>1. U \in SUBSET Nat /\ U # {}
    BY <1>3, <1>4
  <2> QED BY <2>1, HasLeast
<1> QED BY <1>1, <1>5

\* A sequence with an element more.
LEMMA Pushed ==
  ASSUME NEW S, NEW s \in Seq(S), NEW a \in S
  PROVE  /\ Append(s, a) \in Seq(S) /\ Append(s, a) # <<>>
         /\ Len(s) \in Nat /\ DOMAIN s = 1 .. Len(s)
         /\ Len(Append(s, a)) = Len(s) + 1
         /\ DOMAIN Append(s, a) = 1 .. Len(s) + 1
         /\ \A i \in 1 .. Len(s) : Append(s, a)[i] = s[i] /\ s[i] \in S
         /\ Append(s, a)[Len(s) + 1] = a
BY AppendProperties, LenProperties, ElementOfSeq

\* The prefixes of a sequence with an element more.
LEMMA PrefixOfPushed ==
  ASSUME NEW S, NEW s \in Seq(S), NEW a \in S, NEW n \in 0 .. Len(s)
  PROVE  SubSeq(Append(s, a), 1, n) = SubSeq(s, 1, n) /\ SubSeq(s, 1, Len(s)) = s
<1>1. <<a>> \in Seq(S) /\ Len(s) \in Nat
  BY LenProperties
<1>2. Append(s, a) = s \o <<a>>
  BY AppendIsConcat
<1>3. SubSeq(s \o <<a>>, 1, n) = SubSeq(s, 1, n)
  BY <1>1, SubSeqOfConcat1
<1> QED BY <1>2, <1>3, SubSeqFull

-----------------------------------------------------------------------------
(* The inductive invariant.                                                  *)

Call ==
  [run : {"user"}, base : Nat, size : {0}, flag : {FALSE}]
    \cup [run : {"new", "throw"}, base : Nat, size : Allocs, flag : BOOLEAN]

\* main is at the bottom of the stack, and no call has taken away handlers that
\* an outer one had when it began.
Stacked ==
  /\ calls \in Seq(Call) /\ calls # <<>> /\ calls[1].run = "user"
  /\ \A i \in DOMAIN calls : calls[i].base <= Len(handlers)
  /\ \A i, j \in DOMAIN calls : i <= j => calls[i].base <= calls[j].base

\* At most one exception is in flight; until the program dies it has a target.
Flight ==
  \/ fly = NoFlight
  \/ \E e \in Exception, t \in 0 .. Len(calls) :
       fly = [to |-> t, exc |-> <<e>>] /\ (dead = "no" => t > 0)

Distinct(L) == \A b, c \in L : b.ptr = c.ptr => b = c

Memory ==
  /\ live \subseteq Block /\ ret \in Arena \cup {0} /\ mine \subseteq Block
  /\ Distinct(live)
  /\ pool \in [Slots -> BOOLEAN] /\ count \in [Places -> Int]

Flags ==
  /\ handler \in BOOLEAN /\ clean \in BOOLEAN
  /\ dead \in {"no", "uncaught", "pool empty", "no memory"}

\* The handlers' exceptions are on the chain, in the order of the handlers:
\* when end_catch takes the head of the chain, this is either the exception of
\* the handler that ends or one that no handler has.
Sorted(h, ch) ==
  /\ NoRepeats(h) /\ NoRepeats(ch)
  /\ Range(h) \subseteq Range(ch)
  /\ \A p, q \in DOMAIN ch, i, j \in DOMAIN h :
       ch[p] = h[i] /\ ch[q] = h[j] /\ p < q => i < j

Chained ==
  /\ chain \in Seq(Exception) /\ handlers \in Seq(Exception)
  /\ Sorted(handlers, chain)
  /\ Range(chain) \cap Range(fly.exc) = {}

Counted == \A e \in Range(chain) : count[At(e)] >= 1

\* As long as each header began with 0, the counts are right.
Cleanly ==
  clean => /\ chain = handlers
           /\ \A e \in Range(chain) : count[At(e)] = 1
           /\ \A e \in Range(fly.exc) : count[At(e)] = 0

\* Who owns what, for any set of exceptions.
Owned(X, L, M, P) ==
  /\ L = M \cup {e.block : e \in {x \in X : x.in = "heap"}}
  /\ \A e \in X : e.block \notin M
  /\ \A e, f \in X : e # f => e.block # f.block \/ e.slot # f.slot
  /\ {i \in Slots : P[i]} = {e.slot : e \in {x \in X : x.in = "pool"}}

OneOwnerEach == Owned(Kept, live, mine, pool)

AllMarked == dead = "pool empty" => \A i \in Slots : pool[i]

AllocInv == /\ Stacked /\ Flight /\ Memory /\ Flags
            /\ Chained /\ Counted /\ Cleanly
            /\ OneOwnerEach /\ AllMarked

-----------------------------------------------------------------------------
(* Ranges of sequences.                                                      *)

\* The range of a sequence with an element more.
LEMMA AddFacts ==
  ASSUME NEW S, NEW s \in Seq(S), NEW e \in S
  PROVE  /\ s \o <<e>> \in Seq(S)
         /\ Range(s \o <<e>>) = Range(s) \cup {e}
         /\ NoRepeats(s) /\ e \notin Range(s) => NoRepeats(s \o <<e>>)
<1>1. s \o <<e>> = Append(s, e)
  BY AppendIsConcat
<1> DEFINE t == Append(s, e)
<1>2. /\ t \in Seq(S) /\ Len(s) \in Nat /\ DOMAIN s = 1 .. Len(s)
      /\ DOMAIN t = 1 .. Len(s) + 1 /\ t[Len(s) + 1] = e
      /\ \A i \in 1 .. Len(s) : t[i] = s[i]
  BY AppendProperties, LenProperties
<1> HIDE DEF t
<1>3. Range(t) = Range(s) \cup {e}
  BY <1>2 DEF Range
<1>4. ASSUME NoRepeats(s), e \notin Range(s)
      PROVE  NoRepeats(t)
  <2>1. \A i \in 1 .. Len(s) : s[i] # e
    BY <1>2, <1>4 DEF Range
  <2> QED BY <1>2, <1>4, <2>1 DEF NoRepeats
<1> QED BY <1>1, <1>2, <1>3, <1>4 DEF t

\* A sequence without its last element, by indices.
LEMMA FrontIndices ==
  ASSUME NEW S, NEW s \in Seq(S), s # <<>>
  PROVE  /\ Front(s) \in Seq(S) /\ Len(Front(s)) = Len(s) - 1
         /\ DOMAIN Front(s) = 1 .. Len(s) - 1
         /\ \A i \in 1 .. Len(s) - 1 : Front(s)[i] = s[i]
<1>1. /\ Len(s) \in Nat \ {0} /\ DOMAIN s = 1 .. Len(s)
      /\ \A i \in 1 .. Len(s) : s[i] \in S
  BY EmptySeq, LenProperties, ElementOfSeq
<1>2. /\ Front(s) \in Seq(S) /\ Len(Front(s)) = Len(s) - 1
      /\ \A i \in 1 .. Len(s) - 1 : Front(s)[i] = s[i]
  BY <1>1, SubSeqProperties DEF Front
<1>3. DOMAIN Front(s) = 1 .. Len(s) - 1
  BY <1>2, LenProperties
<1> QED BY <1>2, <1>3

\* The range of a sequence without its last element.
LEMMA FrontFacts ==
  ASSUME NEW S, NEW s \in Seq(S), s # <<>>
  PROVE  /\ Last(s) \in S /\ Last(s) \in Range(s)
         /\ Front(s) \in Seq(S)
         /\ NoRepeats(s) => NoRepeats(Front(s)) /\ Range(Front(s)) = Range(s) \ {Last(s)}
<1>1. /\ Len(s) \in Nat \ {0} /\ DOMAIN s = 1 .. Len(s)
      /\ \A i \in 1 .. Len(s) : s[i] \in S
  BY EmptySeq, LenProperties, ElementOfSeq
<1>2. Front(s) \in Seq(S) /\ \A i \in 1 .. Len(s) - 1 : Front(s)[i] = s[i]
  BY FrontIndices
<1>3. DOMAIN Front(s) = 1 .. Len(s) - 1
  BY FrontIndices
<1>4. Last(s) \in S /\ Last(s) \in Range(s)
  BY <1>1 DEF Last, Range
<1>5. ASSUME NoRepeats(s)
      PROVE  NoRepeats(Front(s)) /\ Range(Front(s)) = Range(s) \ {Last(s)}
  <2>1. NoRepeats(Front(s))
    BY <1>1, <1>2, <1>3, <1>5 DEF NoRepeats
  <2>2. \A i \in 1 .. Len(s) - 1 : s[i] # s[Len(s)]
    BY <1>1, <1>5 DEF NoRepeats
  <2>3. Range(Front(s)) = {s[i] : i \in 1 .. Len(s) - 1}
    BY <1>2, <1>3 DEF Range
  <2>4. Range(s) = {s[i] : i \in 1 .. Len(s) - 1} \cup {s[Len(s)]}
    BY <1>1 DEF Range
  <2> QED BY <2>1, <2>2, <2>3, <2>4 DEF Last
<1> QED BY <1>2, <1>4, <1>5

\* The empty sequence has no elements.
LEMMA NoneThere == Range(<<>>) = {} /\ NoRepeats(<<>>)
<1>1. DOMAIN <<>> = {}
  OBVIOUS
<1> QED BY <1>1 DEF Range, NoRepeats

\* Range and elements of a typed sequence.
LEMMA SeqFacts ==
  ASSUME NEW S, NEW s \in Seq(S)
  PROVE  /\ Len(s) \in Nat /\ DOMAIN s = 1 .. Len(s)
         /\ \A i \in 1 .. Len(s) : s[i] \in S
         /\ Range(s) \subseteq S
         /\ s # <<>> <=> Len(s) > 0
BY LenProperties, ElementOfSeq, EmptySeq DEF Range

\* A new exception at the end of the chain, caught by a handler or by none.
LEMMA SortedPush ==
  ASSUME NEW S, NEW h \in Seq(S), NEW ch \in Seq(S), Sorted(h, ch),
         NEW e \in S, e \notin Range(ch)
  PROVE  Sorted(h, ch \o <<e>>) /\ Sorted(h \o <<e>>, ch \o <<e>>)
<1> DEFINE hh == h \o <<e>>
           cc == ch \o <<e>>
<1>1. /\ NoRepeats(hh) /\ NoRepeats(cc)
      /\ Range(hh) = Range(h) \cup {e} /\ Range(cc) = Range(ch) \cup {e}
  BY AddFacts DEF Sorted
<1>2. /\ Len(h) \in Nat /\ DOMAIN h = 1 .. Len(h)
      /\ DOMAIN hh = 1 .. Len(h) + 1 /\ hh[Len(h) + 1] = e
      /\ \A i \in 1 .. Len(h) : hh[i] = h[i] /\ h[i] \in Range(ch)
  <2>1. hh = Append(h, e)
    BY AppendIsConcat
  <2>2. \A i \in DOMAIN h : h[i] \in Range(ch)
    BY DEF Sorted, Range
  <2> QED BY <2>1, <2>2, Pushed, SeqFacts
<1>3. /\ Len(ch) \in Nat /\ DOMAIN ch = 1 .. Len(ch)
      /\ DOMAIN cc = 1 .. Len(ch) + 1 /\ cc[Len(ch) + 1] = e
      /\ \A i \in 1 .. Len(ch) : cc[i] = ch[i] /\ ch[i] # e
  <2>1. cc = Append(ch, e)
    BY AppendIsConcat
  <2>2. \A i \in DOMAIN ch : ch[i] # e
    BY DEF Range
  <2> QED BY <2>1, <2>2, Pushed, SeqFacts
<1>4. \A i \in DOMAIN h : h[i] # e
  BY <1>2
<1> HIDE DEF hh, cc
<1>5. ASSUME NEW p \in DOMAIN cc, NEW q \in DOMAIN cc, p < q,
             NEW i \in DOMAIN h, NEW j \in DOMAIN h, cc[p] = h[i], cc[q] = h[j]
      PROVE  i < j
  <2>1. p \in DOMAIN ch /\ q \in DOMAIN ch
    BY <1>3, <1>4, <1>5
  <2>2. ch[p] = h[i] /\ ch[q] = h[j]
    BY <1>3, <1>5, <2>1
  <2> QED BY <1>5, <2>1, <2>2 DEF Sorted
<1>6. Sorted(h, cc)
  BY <1>1, <1>5 DEF Sorted
<1>7. ASSUME NEW p \in DOMAIN cc, NEW q \in DOMAIN cc, p < q,
             NEW i \in DOMAIN hh, NEW j \in DOMAIN hh, cc[p] = hh[i], cc[q] = hh[j]
      PROVE  i < j
  <2>1. p \in 1 .. Len(ch) /\ cc[p] # e
    BY <1>3, <1>7
  <2>2. i \in DOMAIN h /\ hh[i] = h[i]
    BY <1>2, <1>7, <2>1
  <2>3. CASE j = Len(h) + 1
    BY <1>2, <2>2, <2>3
  <2>4. CASE j # Len(h) + 1
    <3>1. j \in DOMAIN h /\ hh[j] = h[j]
      BY <1>2, <2>4
    <3> QED BY <1>5, <1>7, <2>2, <3>1
  <2> QED BY <2>3, <2>4
<1>8. Sorted(hh, cc)
  BY <1>1, <1>7 DEF Sorted
<1> QED BY <1>6, <1>8 DEF hh, cc

\* The innermost handler ends: whether end_catch takes the head off the chain or
\* leaves it there, the exceptions of the other handlers stay.
LEMMA SortedPop ==
  ASSUME NEW S, NEW h \in Seq(S), NEW ch \in Seq(S), Sorted(h, ch), h # <<>>
  PROVE  ch # <<>> /\ Sorted(Front(h), ch) /\ Sorted(Front(h), Front(ch))
<1> DEFINE hh == Front(h)
           cc == Front(ch)
           n == Len(h)
           m == Len(ch)
<1>1. /\ n \in Nat \ {0} /\ DOMAIN h = 1 .. n
      /\ DOMAIN hh = 1 .. n - 1 /\ \A i \in 1 .. n - 1 : hh[i] = h[i]
  BY SeqFacts, FrontIndices
<1>2. h[n] \in Range(ch)
  <2>1. h[n] \in Range(h)
    BY <1>1 DEF Range
  <2> QED BY <2>1 DEF Sorted
<1>3. ch # <<>>
  BY <1>2, NoneThere
<1>4. /\ m \in Nat \ {0} /\ DOMAIN ch = 1 .. m
      /\ DOMAIN cc = 1 .. m - 1 /\ \A i \in 1 .. m - 1 : cc[i] = ch[i]
  BY <1>3, SeqFacts, FrontIndices
<1>5. /\ NoRepeats(hh) /\ Range(hh) = Range(h) \ {Last(h)}
      /\ NoRepeats(cc) /\ Range(cc) = Range(ch) \ {Last(ch)}
      /\ Last(h) = h[n] /\ Last(ch) = ch[m]
  BY <1>3, FrontFacts DEF Sorted, Last
<1>6. PICK p \in 1 .. m : ch[p] = h[n]
  BY <1>2, <1>4 DEF Range
<1>7. ASSUME NEW i \in 1 .. n - 1, h[i] = ch[m]
      PROVE  FALSE
  <2>1. h[i] # h[n]
    BY <1>1 DEF Sorted, NoRepeats
  <2>2. p < m
    BY <1>4, <1>6, <1>7, <2>1
  <2>3. \A k, q \in DOMAIN ch, a, b \in DOMAIN h :
          ch[k] = h[a] /\ ch[q] = h[b] /\ k < q => a < b
    BY DEF Sorted
  <2>4. p \in DOMAIN ch /\ m \in DOMAIN ch /\ n \in DOMAIN h /\ i \in DOMAIN h
    BY <1>1, <1>4
  <2> HIDE DEF m, n
  <2>5. n < i
    BY <1>6, <1>7, <2>2, <2>3, <2>4
  <2> QED BY <1>1, <2>5
<1> HIDE DEF hh, cc, n, m
<1>8. Range(hh) \subseteq Range(ch)
  BY <1>5 DEF Sorted
<1>9. Range(hh) \subseteq Range(cc)
  <2>1. Last(ch) \notin Range(hh)
    BY <1>1, <1>5, <1>7 DEF Range
  <2> QED BY <1>5, <1>8, <2>1
<1>10. Sorted(hh, ch)
  BY <1>1, <1>5, <1>8 DEF Sorted
<1>11. Sorted(hh, cc)
  BY <1>1, <1>4, <1>5, <1>9 DEF Sorted
<1> QED BY <1>3, <1>10, <1>11 DEF hh, cc

\* The pool has NUM_OBJS slots.
LEMMA SlotsFacts == IsFiniteSet(Slots) /\ Cardinality(Slots) = NUM_OBJS
<1>1. NUM_OBJS \in Nat
  BY AllocationAssumption
<1>2. Cardinality(1 .. NUM_OBJS) = IF 1 > NUM_OBJS THEN 0 ELSE NUM_OBJS - 1 + 1
  BY <1>1, FS_Interval
<1>3. IsFiniteSet(1 .. NUM_OBJS)
  BY <1>1, FS_Interval
<1>4. Cardinality(1 .. NUM_OBJS) = NUM_OBJS
  BY <1>1, <1>2
<1> QED BY <1>3, <1>4 DEF Slots

-----------------------------------------------------------------------------
(* Owners.                                                                   *)

\* What exceptions and blocks look like.
LEMMA ExceptionFacts ==
  /\ \A b \in Block, d \in BOOLEAN : InBlock(b, d) \in Exception
  /\ \A i \in Slots, d \in BOOLEAN : InSlot(i, d) \in Exception
  /\ \A e \in Exception :
       /\ e.bad \in BOOLEAN
       /\ \/ e.in = "heap" /\ e.block \in Block /\ e.slot = 0
          \/ e.in = "pool" /\ e.block = [ptr |-> 0, size |-> 0] /\ e.slot \in Slots
  /\ [ptr |-> 0, size |-> 0] \notin Block
  /\ Allocs \subseteq Nat \ {0} /\ 0 \notin Slots
<1>1. Allocs \subseteq Nat \ {0}
  <2>1. \A s \in Thrown \cup {BAD_ALLOC} : HEADER + s \in Nat \ {0}
    BY AllocationAssumption
  <2>2. Sizes \ {0} \subseteq Nat \ {0}
    BY AllocationAssumption
  <2> QED BY <2>1, <2>2 DEF Allocs
<1>2. 0 \notin Slots
  BY AllocationAssumption DEF Slots
<1>3. [ptr |-> 0, size |-> 0] \notin Block
  BY <1>1 DEF Block
<1>4. ASSUME NEW e \in Exception
      PROVE  /\ e.bad \in BOOLEAN
             /\ \/ e.in = "heap" /\ e.block \in Block /\ e.slot = 0
                \/ e.in = "pool" /\ e.block = [ptr |-> 0, size |-> 0] /\ e.slot \in Slots
  <2>1. CASE \E b \in Block, d \in BOOLEAN : e = InBlock(b, d)
    BY <2>1 DEF InBlock
  <2>2. CASE \E i \in Slots, d \in BOOLEAN : e = InSlot(i, d)
    BY <2>2 DEF InSlot
  <2> QED BY <2>1, <2>2 DEF Exception
<1>5. /\ \A b \in Block, d \in BOOLEAN : InBlock(b, d) \in Exception
      /\ \A i \in Slots, d \in BOOLEAN : InSlot(i, d) \in Exception
  BY DEF Exception
<1> QED BY <1>1, <1>2, <1>3, <1>4, <1>5

\* The program gets a new block.
LEMMA OwnNew ==
  ASSUME NEW X \in SUBSET Exception, NEW L \in SUBSET Block, NEW M, NEW P,
         NEW b \in Block \ L, Owned(X, L, M, P)
  PROVE  Owned(X, L \cup {b}, M \cup {b}, P)
<1>1. \A e \in X : e.block # b
  BY ExceptionFacts DEF Owned
<1> QED BY <1>1 DEF Owned

\* The program deletes a block.
LEMMA OwnDelete ==
  ASSUME NEW X, NEW L, NEW M, NEW P, NEW b \in M, Owned(X, L, M, P)
  PROVE  b \in L /\ Owned(X, L \ {b}, M \ {b}, P)
<1>1. \A e \in X : e.block # b
  BY DEF Owned
<1> QED BY <1>1 DEF Owned

\* An exception gets a new block.
LEMMA OwnBlock ==
  ASSUME NEW X \in SUBSET Exception, NEW L \in SUBSET Block, NEW M, NEW P,
         NEW b \in Block \ L, NEW d \in BOOLEAN, Owned(X, L, M, P)
  PROVE  /\ InBlock(b, d) \notin X
         /\ Owned(X \cup {InBlock(b, d)}, L \cup {b}, M, P)
<1> DEFINE f == InBlock(b, d)
<1>1. f.in = "heap" /\ f.block = b
  BY DEF InBlock
<1> HIDE DEF f
<1>2. b \notin M /\ \A e \in X : e.block # b
  BY ExceptionFacts DEF Owned
<1>3. L \cup {b} = M \cup {e.block : e \in {x \in X \cup {f} : x.in = "heap"}}
  BY <1>1 DEF Owned
<1>4. {e.slot : e \in {x \in X \cup {f} : x.in = "pool"}}
        = {e.slot : e \in {x \in X : x.in = "pool"}}
  BY <1>1
<1>5. f \notin X /\ \A e \in X \cup {f} : e.block \notin M
  BY <1>1, <1>2 DEF Owned
<1>6. \A e, g \in X \cup {f} : e # g => e.block # g.block \/ e.slot # g.slot
  BY <1>1, <1>2 DEF Owned
<1> QED BY <1>3, <1>4, <1>5, <1>6 DEF Owned, f

\* An exception gets a slot that was free.
LEMMA OwnSlot ==
  ASSUME NEW X \in SUBSET Exception, NEW L \in SUBSET Block, NEW M, NEW P \in [Slots -> BOOLEAN],
         NEW i \in Slots, ~P[i], NEW d \in BOOLEAN, Owned(X, L, M, P)
  PROVE  /\ InSlot(i, d) \notin X
         /\ Owned(X \cup {InSlot(i, d)}, L, M, [P EXCEPT ![i] = TRUE])
<1> DEFINE f == InSlot(i, d)
           Q == [P EXCEPT ![i] = TRUE]
<1>1. f.in = "pool" /\ f.slot = i /\ f.block = [ptr |-> 0, size |-> 0]
  BY DEF InSlot
<1>2. \A j \in Slots : Q[j] <=> P[j] \/ j = i
  OBVIOUS
<1> HIDE DEF f, Q
<1>3. M \subseteq L
  BY DEF Owned
<1>4. \A e \in X : e.in = "pool" => e.slot # i
  BY DEF Owned
<1>5. f \notin X
  BY <1>1, <1>4
<1>6. L = M \cup {e.block : e \in {x \in X \cup {f} : x.in = "heap"}}
  BY <1>1 DEF Owned
<1>7. \A e \in X \cup {f} : e.block \notin M
  BY <1>1, <1>3, ExceptionFacts DEF Owned
<1>8. \A e \in X : e.block # f.block \/ e.slot # f.slot
  BY <1>1, <1>4, ExceptionFacts
<1>9. \A e, g \in X \cup {f} : e # g => e.block # g.block \/ e.slot # g.slot
  BY <1>8 DEF Owned
<1>10. {j \in Slots : Q[j]} = {e.slot : e \in {x \in X \cup {f} : x.in = "pool"}}
  <2>1. {j \in Slots : Q[j]} = {j \in Slots : P[j]} \cup {i}
    BY <1>2
  <2>2. {e.slot : e \in {x \in X \cup {f} : x.in = "pool"}}
          = {e.slot : e \in {x \in X : x.in = "pool"}} \cup {i}
    BY <1>1
  <2> QED BY <2>1, <2>2 DEF Owned
<1> QED BY <1>5, <1>6, <1>7, <1>9, <1>10 DEF Owned, f, Q

\* An exception in a block is freed.
LEMMA OwnFreeBlock ==
  ASSUME NEW X \in SUBSET Exception, NEW L, NEW M, NEW P, NEW e \in X, e.in = "heap",
         Owned(X, L, M, P)
  PROVE  e.block \in L /\ Owned(X \ {e}, L \ {e.block}, M, P)
<1>1. e.block \in L /\ e.block \notin M
  BY DEF Owned
<1>2. \A f \in X : f.in = "heap" /\ f # e => f.block # e.block
  BY ExceptionFacts DEF Owned
<1>3. L \ {e.block} = M \cup {f.block : f \in {x \in X \ {e} : x.in = "heap"}}
  BY <1>1, <1>2 DEF Owned
<1>4. {f.slot : f \in {x \in X \ {e} : x.in = "pool"}}
        = {f.slot : f \in {x \in X : x.in = "pool"}}
  OBVIOUS
<1> QED BY <1>1, <1>3, <1>4 DEF Owned

\* An exception in a slot is freed.
LEMMA OwnFreeSlot ==
  ASSUME NEW X \in SUBSET Exception, NEW L, NEW M, NEW P \in [Slots -> BOOLEAN],
         NEW e \in X, e.in = "pool", Owned(X, L, M, P)
  PROVE  Owned(X \ {e}, L, M, [P EXCEPT ![e.slot] = FALSE])
<1> DEFINE Q == [P EXCEPT ![e.slot] = FALSE]
<1>1. e.slot \in Slots
  BY ExceptionFacts
<1>2. \A j \in Slots : Q[j] <=> P[j] /\ j # e.slot
  BY <1>1
<1> HIDE DEF Q
<1>3. \A f \in X : f.in = "pool" /\ f # e => f.slot # e.slot
  BY ExceptionFacts DEF Owned
<1>4. {f.block : f \in {x \in X \ {e} : x.in = "heap"}}
        = {f.block : f \in {x \in X : x.in = "heap"}}
  OBVIOUS
<1>5. {j \in Slots : Q[j]} = {f.slot : f \in {x \in X \ {e} : x.in = "pool"}}
  <2>1. {j \in Slots : Q[j]} = {j \in Slots : P[j]} \ {e.slot}
    BY <1>2
  <2>2. {f.slot : f \in {x \in X \ {e} : x.in = "pool"}}
          = {f.slot : f \in {x \in X : x.in = "pool"}} \ {e.slot}
    BY <1>3
  <2> QED BY <2>1, <2>2 DEF Owned
<1> QED BY <1>4, <1>5 DEF Owned, Q

-----------------------------------------------------------------------------
(* The stack of calls.                                                       *)

\* The kinds of calls.
LEMMA CallFacts ==
  ASSUME handlers \in Seq(Exception)
  PROVE  /\ User \in Call /\ User.base = Len(handlers)
         /\ \A n \in Allocs, f \in BOOLEAN :
              /\ New(n, f) \in Call /\ New(n, f).base = Len(handlers)
              /\ Throwing(n, f) \in Call /\ Throwing(n, f).base = Len(handlers)
         /\ \A c \in Call :
              /\ c.base \in Nat /\ c.flag \in BOOLEAN
              /\ c.run \in {"user", "new", "throw"}
              /\ c.size \in IF c.run = "user" THEN {0} ELSE Allocs
<1>1. Len(handlers) \in Nat
  BY LenProperties
<1> QED BY <1>1 DEF Call, User, New, Throwing

\* The stack, its top and what lies below.
LEMMA StackFacts ==
  ASSUME Stacked
  PROVE  /\ Len(calls) \in Nat \ {0} /\ DOMAIN calls = 1 .. Len(calls)
         /\ \A i \in DOMAIN calls : calls[i] \in Call /\ calls[i].base \in Nat
         /\ Top = calls[Len(calls)] /\ Top \in Call
         /\ Below \in Seq(Call) /\ Len(Below) = Len(calls) - 1
         /\ DOMAIN Below = 1 .. Len(calls) - 1
         /\ \A i \in 1 .. Len(calls) - 1 : Below[i] = calls[i]
         /\ Top.run # "user" => Len(calls) > 1
<1>1. Below = Front(calls)
  BY DEF Below, Front
<1>2. /\ Len(calls) \in Nat \ {0} /\ DOMAIN calls = 1 .. Len(calls)
      /\ \A i \in DOMAIN calls : calls[i] \in Call
  BY SeqFacts DEF Stacked
<1>3. \A c \in Call : c.base \in Nat
  BY DEF Call
<1>4. /\ Below \in Seq(Call) /\ Len(Below) = Len(calls) - 1
      /\ DOMAIN Below = 1 .. Len(calls) - 1
      /\ \A i \in 1 .. Len(calls) - 1 : Below[i] = calls[i]
  BY <1>1, FrontIndices DEF Stacked
<1>5. Top = calls[Len(calls)] /\ Top \in Call
  BY <1>2 DEF Top
<1>6. ASSUME Top.run # "user"
      PROVE  Len(calls) > 1
  <2>1. Len(calls) # 1
    BY <1>5, <1>6 DEF Stacked
  <2> QED BY <1>2, <2>1
<1> QED BY <1>2, <1>3, <1>4, <1>5, <1>6

\* A call begins.
LEMMA PushStep ==
  ASSUME Stacked, handlers \in Seq(Exception), NEW c \in Call, c.base = Len(handlers),
         calls' = Append(calls, c), handlers' = handlers
  PROVE  Stacked' /\ Len(calls') = Len(calls) + 1
<1>1. /\ calls' \in Seq(Call) /\ calls' # <<>> /\ Len(calls') = Len(calls) + 1
      /\ Len(calls) \in Nat \ {0} /\ DOMAIN calls = 1 .. Len(calls)
      /\ DOMAIN calls' = 1 .. Len(calls) + 1 /\ calls'[Len(calls) + 1] = c
      /\ \A i \in 1 .. Len(calls) : calls'[i] = calls[i]
  <2>1. calls \in Seq(Call) /\ Len(calls) \in Nat \ {0}
    BY StackFacts DEF Stacked
  <2> QED BY <2>1, Pushed
<1>2. \A i \in DOMAIN calls' : calls'[i].base <= Len(handlers')
  BY <1>1, LenProperties DEF Stacked
<1>3. ASSUME NEW i \in DOMAIN calls', NEW j \in DOMAIN calls', i <= j
      PROVE  calls'[i].base <= calls'[j].base
  <2>1. CASE j = Len(calls) + 1
    BY <1>1, <1>2, <2>1
  <2>2. CASE j # Len(calls) + 1
    BY <1>1, <1>3, <2>2 DEF Stacked
  <2> QED BY <2>1, <2>2
<1>4. calls'[1].run = "user"
  BY <1>1 DEF Stacked
<1> QED BY <1>1, <1>2, <1>3, <1>4 DEF Stacked

\* A call ends.
LEMMA DropStep ==
  ASSUME Stacked, Len(calls) > 1, calls' = Below, handlers' = handlers
  PROVE  Stacked' /\ Len(calls') = Len(calls) - 1
<1>1. /\ Len(calls) \in Nat \ {0} /\ DOMAIN calls = 1 .. Len(calls)
      /\ calls' \in Seq(Call) /\ Len(calls') = Len(calls) - 1
      /\ DOMAIN calls' = 1 .. Len(calls) - 1
      /\ \A i \in 1 .. Len(calls) - 1 : calls'[i] = calls[i]
  BY StackFacts
<1>2. calls' # <<>> /\ calls'[1].run = "user"
  BY <1>1, SeqFacts DEF Stacked
<1>3. /\ \A i \in DOMAIN calls' : calls'[i].base <= Len(handlers')
      /\ \A i, j \in DOMAIN calls' : i <= j => calls'[i].base <= calls'[j].base
  BY <1>1 DEF Stacked
<1> QED BY <1>1, <1>2, <1>3 DEF Stacked

\* Handlers of the top call begin or end.
LEMMA KeepStep ==
  ASSUME Stacked, calls' = calls, Len(handlers') \in Nat, Top.base <= Len(handlers')
  PROVE  Stacked'
<1>1. \A i \in DOMAIN calls : calls[i].base <= Top.base
  BY StackFacts DEF Stacked
<1>2. \A i \in DOMAIN calls' : calls'[i].base <= Len(handlers')
  BY <1>1, StackFacts
<1> QED BY <1>2 DEF Stacked

-----------------------------------------------------------------------------
(* Memory that is handed out and comes back.                                 *)

\* Exceptions with memory of their own have headers of their own.
LEMMA OwnHeader ==
  ASSUME NEW X \in SUBSET Exception, NEW L \in SUBSET Block, NEW M, NEW P,
         Owned(X, L, M, P), Distinct(L)
  PROVE  /\ \A e \in X : At(e) \in Places
         /\ \A e, f \in X : At(e) = At(f) => e = f
<1>1. ASSUME NEW e \in X
      PROVE  /\ At(e) \in Places
             /\ \/ e.block \in L /\ e.slot = 0
                \/ e.block = [ptr |-> 0, size |-> 0] /\ e.slot \in Slots
  <2>1. CASE e.in = "heap" /\ e.block \in Block /\ e.slot = 0
    <3>1. e.block \in L
      BY <2>1 DEF Owned
    <3>2. e.block.ptr \in Arena
      BY <2>1 DEF Block
    <3> QED BY <2>1, <3>1, <3>2 DEF At, Places
  <2>2. CASE e.block = [ptr |-> 0, size |-> 0] /\ e.slot \in Slots
    BY <2>2 DEF At, Places
  <2> QED BY <2>1, <2>2, ExceptionFacts
<1>2. ASSUME NEW e \in X, NEW f \in X, At(e) = At(f)
      PROVE  e = f
  <2>1. e.block.ptr = f.block.ptr /\ e.slot = f.slot
    BY <1>2 DEF At
  <2>2. e.block = f.block
    BY <1>1, <2>1, ExceptionFacts DEF Distinct
  <2> QED BY <2>1, <2>2 DEF Owned
<1> QED BY <1>1, <1>2

\* malloc returns a block that was not in use.
LEMMA GrantFacts ==
  ASSUME Memory, NEW n \in Allocs, A!Grant(n)
  PROVE  /\ \E b \in Block \ live : live' = live \cup {b} /\ live' \ live = {b}
         /\ ret' \in Arena \cup {0} /\ A!Next /\ Distinct(live')
<1>1. PICK b \in [ptr : {a \in Arena : a # A!NULL /\ a % ALIGN = 0}, size : {n}] :
        /\ \A c \in live : c.ptr # b.ptr
        /\ live' = live \cup {b} /\ ret' = b.ptr
  BY DEF A!Grant
<1>2. b \in Block /\ b \notin live /\ ret' \in Arena
  BY <1>1 DEF Block
<1>3. Distinct(live')
  BY <1>1 DEF Distinct, Memory
<1> QED BY <1>1, <1>2, <1>3 DEF A!Next

\* The memory of an exception goes back to where it came from.
LEMMA FreeStep ==
  ASSUME Memory, NEW X \in SUBSET Exception, NEW e \in X, Owned(X, live, mine, pool),
         FreeException(e), mine' = mine
  PROVE  /\ live' \subseteq live /\ ret' = ret /\ pool' \in [Slots -> BOOLEAN]
         /\ Owned(X \ {e}, live', mine', pool')
         /\ A!Next \/ UNCHANGED <<live, ret>>
<1>1. CASE e.in = "heap"
  <2>1. e.block \in live /\ Owned(X \ {e}, live \ {e.block}, mine, pool)
    BY <1>1, OwnFreeBlock
  <2>2. A!Release(e.block) /\ pool' = pool
    BY <1>1, <2>1 DEF FreeException, GivesBack, Free, ClearSlot
  <2>3. live' = live \ {e.block} /\ ret' = ret /\ A!Next
    BY <2>1, <2>2 DEF A!Release, A!Next
  <2> QED BY <2>1, <2>2, <2>3 DEF Memory
<1>2. CASE e.in = "pool"
  <2>1. pool' = [pool EXCEPT ![e.slot] = FALSE] /\ UNCHANGED <<live, ret>>
    BY <1>2 DEF FreeException, GivesBack, ClearSlot
  <2>2. Owned(X \ {e}, live, mine, pool')
    BY <1>2, <2>1, OwnFreeSlot DEF Memory
  <2> QED BY <2>1, <2>2 DEF Memory
<1> QED BY <1>1, <1>2, ExceptionFacts

\* __cxa_end_catch, with a chain and counts, and the exceptions Y in flight.
LEMMA EndFacts ==
  ASSUME Memory, NEW ch \in Seq(Exception), ch # <<>>, NoRepeats(ch),
         NEW ct \in [Places -> Int], \A x \in Range(ch) : ct[At(x)] >= 1,
         NEW Y \in SUBSET Exception, Y \cap Range(ch) = {},
         Owned(Range(ch) \cup Y, live, mine, pool),
         CxaEndCatch(ch, ct), mine' = mine
  PROVE  /\ Memory' /\ chain' \in Seq(Exception)
         /\ Owned(Range(chain') \cup Y, live', mine', pool')
         /\ \A x \in Range(chain') : count'[At(x)] >= 1
         /\ A!Next \/ UNCHANGED <<live, ret>>
         /\ \/ ct[At(Last(ch))] = 1 /\ chain' = Front(ch) /\ count' = ct
            \/ ct[At(Last(ch))] # 1 /\ chain' = ch
         /\ \A y \in Y : count'[At(y)] = ct[At(y)]
<1> DEFINE e == Last(ch)
           X == Range(ch) \cup Y
<1>1. /\ e \in Range(ch) /\ Front(ch) \in Seq(Exception)
      /\ Range(Front(ch)) = Range(ch) \ {e} /\ X \subseteq Exception
  BY FrontFacts, SeqFacts
<1>2. /\ \A x \in X : At(x) \in Places
      /\ \A x, y \in X : At(x) = At(y) => x = y
  BY <1>1, OwnHeader DEF Memory
<1>3. CASE ct[At(e)] = 1
  <2>1. chain' = Front(ch) /\ count' = ct /\ FreeException(e)
    BY <1>3 DEF CxaEndCatch, IsHandled
  <2>2. Range(chain') \cup Y = X \ {e}
    BY <1>1, <2>1
  <2>3. /\ live' \subseteq live /\ ret' = ret /\ pool' \in [Slots -> BOOLEAN]
        /\ Owned(X \ {e}, live', mine', pool')
        /\ A!Next \/ UNCHANGED <<live, ret>>
    BY <1>1, <2>1, FreeStep
  <2>4. Memory'
    BY <2>1, <2>3 DEF Memory, Distinct
  <2> HIDE DEF e, X
  <2>5. \A x \in Range(chain') : count'[At(x)] >= 1
    BY <1>1, <2>1
  <2> QED BY <1>1, <1>3, <2>1, <2>2, <2>3, <2>4, <2>5 DEF e
<1>4. CASE ct[At(e)] # 1
  <2>1. /\ chain' = ch /\ count' = [ct EXCEPT ![At(e)] = ct[At(e)] - 1]
        /\ UNCHANGED <<live, ret, pool>>
    BY <1>4 DEF CxaEndCatch, IsHandled, memory
  <2>2. At(e) \in Places /\ ct[At(e)] \in Int /\ ct[At(e)] >= 1
    BY <1>1, <1>2
  <2> HIDE DEF e, X
  <2>3. /\ count' \in [Places -> Int] /\ count'[At(e)] = ct[At(e)] - 1
        /\ \A p \in Places \ {At(e)} : count'[p] = ct[p]
    BY <2>1, <2>2
  <2>4. Memory'
    BY <2>1, <2>3 DEF Memory
  <2>5. ASSUME NEW x \in Range(ch)
        PROVE  count'[At(x)] >= 1
    <3>1. CASE x = e
      BY <1>4, <2>2, <2>3, <3>1
    <3>2. CASE x # e
      <4>1. At(x) # At(e) /\ At(x) \in Places
        BY <1>1, <1>2, <3>2 DEF X
      <4> QED BY <2>3, <4>1
    <3> QED BY <3>1, <3>2
  <2>6. \A y \in Y : count'[At(y)] = ct[At(y)]
    <3>1. \A y \in Y : At(y) \in Places \ {At(e)}
      BY <1>1, <1>2 DEF X
    <3> QED BY <2>3, <3>1
  <2> QED BY <1>4, <2>1, <2>4, <2>5, <2>6 DEF e
<1> QED BY <1>3, <1>4

-----------------------------------------------------------------------------
(* The actions keep the invariant and use the allocator as it allows.        *)

Sound == AllocInv' /\ (A!Next \/ UNCHANGED <<live, ret>>)

\* The exceptions are typed, and the one in flight is the only one there.
LEMMA KeptFacts ==
  ASSUME AllocInv
  PROVE  /\ Kept \subseteq Exception /\ Range(chain) \subseteq Exception
         /\ fly = NoFlight => Range(fly.exc) = {} /\ Kept = Range(chain)
         /\ fly # NoFlight => /\ fly.to \in 0 .. Len(calls) /\ (dead = "no" => fly.to > 0)
                              /\ fly.exc[1] \in Exception /\ fly.exc = <<fly.exc[1]>>
                              /\ Range(fly.exc) = {fly.exc[1]}
<1>1. Range(chain) \subseteq Exception
  BY SeqFacts DEF AllocInv, Chained
<1>2. CASE fly = NoFlight
  <2>1. fly.exc = <<>>
    BY <1>2 DEF NoFlight
  <2> QED BY <1>1, <1>2, <2>1, NoneThere DEF Kept
<1>3. CASE fly # NoFlight
  <2>1. PICK e \in Exception, t \in 0 .. Len(calls) :
          fly = [to |-> t, exc |-> <<e>>] /\ (dead = "no" => t > 0)
    BY <1>3 DEF AllocInv, Flight
  <2>2. fly.to = t /\ fly.exc = <<e>> /\ fly.exc[1] = e
    BY <2>1
  <2>3. Range(<<e>>) = {e}
    BY DEF Range
  <2> QED BY <1>1, <1>3, <2>1, <2>2, <2>3 DEF Kept
<1> QED BY <1>2, <1>3

\* What the actions of user code and of operator new leave alone, when they
\* change the owners of memory at most.
LEMMA QuietStep ==
  ASSUME AllocInv, Running, Stacked',
         UNCHANGED <<pool, runtime, handlers, fly, dead, clean>>, handler' \in BOOLEAN
  PROVE  /\ Flight' /\ Flags' /\ Chained' /\ Counted' /\ Cleanly' /\ AllMarked'
         /\ Kept' = Kept
<1>1. UNCHANGED <<pool, count, chain, handlers, fly, dead, clean>>
  BY DEF runtime
<1>2. Flight'
  BY <1>1 DEF Flight, Running
<1>3. Flags' /\ AllMarked'
  BY <1>1 DEF AllocInv, Flags, AllMarked
<1>4. Chained' /\ Counted' /\ Cleanly' /\ Kept' = Kept
  BY <1>1 DEF AllocInv, Chained, Counted, Cleanly, Kept
<1> QED BY <1>2, <1>3, <1>4

\* A step of user code that changes only the stack.
LEMMA StackStep ==
  ASSUME AllocInv, Running, Stacked',
         UNCHANGED <<memory, runtime, handlers, mine, fly, dead, clean>>,
         handler' \in BOOLEAN
  PROVE  Sound
<1>1. UNCHANGED <<live, ret, pool, count>>
  BY DEF memory, runtime
<1>2. /\ Flight' /\ Flags' /\ Chained' /\ Counted' /\ Cleanly' /\ AllMarked'
      /\ Kept' = Kept
  BY <1>1, QuietStep
<1>3. Memory' /\ OneOwnerEach'
  BY <1>1, <1>2 DEF AllocInv, Memory, OneOwnerEach
<1> QED BY <1>1, <1>2, <1>3 DEF AllocInv, Sound

LEMMA CallNewSound == AllocInv /\ CallNew => Sound
<1> SUFFICES ASSUME AllocInv, CallNew
             PROVE  Sound
  OBVIOUS
<1>1. PICK n \in Sizes, nothrow \in BOOLEAN : calls' = Append(calls, New(NewSize(n), nothrow))
  BY DEF CallNew
<1>2. NewSize(n) \in Allocs
  BY DEF NewSize, Allocs
<1>3. Stacked'
  BY <1>1, <1>2, CallFacts, PushStep DEF CallNew, AllocInv, Chained
<1> QED BY <1>3, StackStep DEF CallNew, InUser, AllocInv, Flags

LEMMA CallThrowSound == AllocInv /\ CallThrow => Sound
<1> SUFFICES ASSUME AllocInv, CallThrow
             PROVE  Sound
  OBVIOUS
<1>1. PICK n \in Allocs, bad \in BOOLEAN : calls' = Append(calls, Throwing(n, bad))
  BY DEF CallThrow, Allocs
<1>2. Stacked'
  BY <1>1, CallFacts, PushStep DEF CallThrow, AllocInv, Chained
<1> QED BY <1>2, StackStep DEF CallThrow, InUser, AllocInv, Flags

LEMMA SetNewHandlerSound == AllocInv /\ SetNewHandler => Sound
<1> SUFFICES ASSUME AllocInv, SetNewHandler
             PROVE  Sound
  OBVIOUS
<1>1. Stacked'
  BY DEF AllocInv, Stacked, SetNewHandler
<1> QED BY <1>1, StackStep DEF SetNewHandler, InUser

LEMMA HandlerReturnsSound == AllocInv /\ HandlerReturns => Sound
<1> SUFFICES ASSUME AllocInv, HandlerReturns
             PROVE  Sound
  OBVIOUS
<1>1. Stacked'
  BY DropStep DEF HandlerReturns, AllocInv
<1> QED BY <1>1, StackStep DEF HandlerReturns, InUser, AllocInv, Flags

LEMMA DeleteSound == AllocInv /\ Delete => Sound
<1> SUFFICES ASSUME AllocInv, Delete
             PROVE  Sound
  OBVIOUS
<1>1. PICK b \in mine : Free(b) /\ mine' = mine \ {b}
  BY DEF Delete
<1>2. b \in live /\ Owned(Kept, live \ {b}, mine \ {b}, pool)
  BY OwnDelete DEF AllocInv, OneOwnerEach
<1>3. live' = live \ {b} /\ ret' = ret /\ A!Next
  BY <1>1, <1>2 DEF Free, A!Release, A!Next
<1>4. /\ Running /\ UNCHANGED <<pool, runtime, handler, calls, handlers, fly, dead, clean>>
      /\ count' = count
  BY DEF Delete, InUser, runtime
<1>5. Stacked'
  BY <1>4 DEF AllocInv, Stacked
<1>6. /\ Flight' /\ Flags' /\ Chained' /\ Counted' /\ Cleanly' /\ AllMarked'
      /\ Kept' = Kept
  BY <1>4, <1>5, QuietStep DEF AllocInv, Flags
<1>7. Memory'
  BY <1>1, <1>3, <1>4 DEF AllocInv, Memory, Distinct
<1>8. OneOwnerEach'
  BY <1>1, <1>2, <1>3, <1>4, <1>6 DEF OneOwnerEach
<1> QED BY <1>3, <1>5, <1>6, <1>7, <1>8 DEF AllocInv, Sound

LEMMA NewSucceedsSound == AllocInv /\ NewSucceeds => Sound
<1> SUFFICES ASSUME AllocInv, NewSucceeds
             PROVE  Sound
  OBVIOUS
<1>1. /\ Running /\ Top.run = "new" /\ A!Grant(Top.size)
      /\ mine' = mine \cup (live' \ live) /\ calls' = Below
      /\ UNCHANGED <<pool, runtime, handler, handlers, fly, dead, clean>>
      /\ count' = count
  BY DEF NewSucceeds, runtime
<1>2. Top.size \in Allocs
  BY <1>1, StackFacts, CallFacts DEF AllocInv, Chained
<1>3. PICK b \in Block \ live : live' = live \cup {b} /\ mine' = mine \cup {b}
  BY <1>1, <1>2, GrantFacts DEF AllocInv
<1>4. ret' \in Arena \cup {0} /\ A!Next /\ Distinct(live')
  BY <1>1, <1>2, GrantFacts DEF AllocInv
<1>5. Stacked'
  BY <1>1, StackFacts, DropStep DEF AllocInv
<1>6. /\ Flight' /\ Flags' /\ Chained' /\ Counted' /\ Cleanly' /\ AllMarked'
      /\ Kept' = Kept
  BY <1>1, <1>5, QuietStep DEF AllocInv, Flags
<1>7. Owned(Kept, live', mine', pool)
  BY <1>3, KeptFacts, OwnNew DEF AllocInv, OneOwnerEach, Memory
<1>8. OneOwnerEach'
  BY <1>1, <1>6, <1>7 DEF OneOwnerEach
<1>9. Memory'
  BY <1>1, <1>3, <1>4 DEF AllocInv, Memory
<1> QED BY <1>4, <1>5, <1>6, <1>8, <1>9 DEF AllocInv, Sound

LEMMA NewRefusedSound == AllocInv /\ NewRefused => Sound
<1> SUFFICES ASSUME AllocInv, NewRefused
             PROVE  Sound
  OBVIOUS
<1>1. /\ Running /\ Top.run = "new" /\ ret' = 0 /\ live' = live /\ A!Next
      /\ calls' = AfterRefusal(calls)
      /\ UNCHANGED <<pool, runtime, handler, handlers, mine, fly, dead, clean>>
      /\ count' = count
  BY DEF NewRefused, A!Refuse, A!NULL, A!Next, runtime
<1>2. handlers \in Seq(Exception) /\ HEADER + BAD_ALLOC \in Allocs
  BY DEF AllocInv, Chained, Allocs
<1>3. Stacked'
  <2>1. CASE calls' = Append(calls, User)
    BY <1>1, <1>2, <2>1, CallFacts, PushStep DEF AllocInv
  <2>2. CASE calls' = Append(calls, Throwing(HEADER + BAD_ALLOC, TRUE))
    BY <1>1, <1>2, <2>2, CallFacts, PushStep DEF AllocInv
  <2>3. CASE calls' = Below
    BY <1>1, <2>3, StackFacts, DropStep DEF AllocInv
  <2> QED BY <1>1, <2>1, <2>2, <2>3 DEF AfterRefusal, Below
<1>4. /\ Flight' /\ Flags' /\ Chained' /\ Counted' /\ Cleanly' /\ AllMarked'
      /\ Kept' = Kept
  BY <1>1, <1>3, QuietStep DEF AllocInv, Flags
<1>5. OneOwnerEach' /\ Memory'
  BY <1>1, <1>4 DEF AllocInv, OneOwnerEach, Memory
<1> QED BY <1>1, <1>3, <1>4, <1>5 DEF AllocInv, Sound

\* What is thrown goes to a call below the throw expression, or to nobody.
LEMMA TargetFacts ==
  ASSUME Stacked, Top.run = "throw", NEW bad, NEW t \in Targets(bad)
  PROVE  t \in 0 .. Len(calls) - 1
<1>1. /\ Len(calls) \in Nat \ {0} /\ DOMAIN calls = 1 .. Len(calls)
      /\ calls[Len(calls)].run = "throw"
  BY StackFacts
<1> DEFINE B == {i \in DOMAIN calls : calls[i].run = "new" /\ calls[i].flag}
<1>2. Barrier \in B \cup {0}
  <2>1. CASE B = {}
    BY <2>1 DEF Barrier
  <2>2. CASE B # {}
    <3>1. \E m \in B : \A j \in B : j <= m
      BY <1>1, <2>2, HasGreatest
    <3>2. Barrier = CHOOSE m \in B : \A j \in B : j <= m
      BY <2>2 DEF Barrier
    <3> QED BY <3>1, <3>2
  <2> QED BY <2>1, <2>2
<1>3. Barrier \in 0 .. Len(calls) - 1
  BY <1>1, <1>2
<1>4. \A i \in DOMAIN calls : calls[i].run = "user" => i \in 0 .. Len(calls) - 1
  BY <1>1
<1> QED BY <1>3, <1>4 DEF Targets

\* The throw expression ends; its exception is in flight, and has a header that
\* no other exception has.
LEMMA RaiseStep ==
  ASSUME AllocInv, Running, Top.run = "throw",
         NEW e \in Exception, e \notin Kept, NEW old \in Int, Raise(e, old),
         NEW L \in SUBSET Block, NEW P, Owned(Kept \cup {e}, L, mine, P), Distinct(L),
         UNCHANGED <<chain, handler, handlers>>
  PROVE  /\ Stacked' /\ Flight' /\ Flags' /\ Chained' /\ Counted' /\ Cleanly'
         /\ Kept' = Kept \cup {e} /\ dead' \in {"no", "uncaught"}
         /\ count' \in [Places -> Int]
<1>1. PICK t \in Targets(e.bad) :
        /\ fly' = [to |-> t, exc |-> <<e>>]
        /\ (t = 0 /\ dead' = "uncaught") \/ (t # 0 /\ dead' = dead)
  BY DEF Raise
<1>2. /\ calls' = Below /\ clean' = (clean /\ old = 0)
      /\ count' = [count EXCEPT ![At(e)] = old]
  BY DEF Raise
<1>3. Stacked' /\ Len(calls') = Len(calls) - 1
  BY <1>2, StackFacts, DropStep DEF AllocInv
<1>4. t \in 0 .. Len(calls')
  BY <1>3, TargetFacts DEF AllocInv
<1>5. Flight' /\ dead' \in {"no", "uncaught"}
  <2>1. dead' = "no" => t > 0
    BY <1>1, <1>4
  <2>2. dead = "no"
    BY DEF Running
  <2> QED BY <1>1, <1>4, <2>1, <2>2 DEF Flight
<1>6. Range(fly'.exc) = {e}
  BY <1>1 DEF Range
<1>7. Kept = Range(chain) /\ Kept \subseteq Exception
  BY KeptFacts DEF Running
<1>8. Kept' = Kept \cup {e}
  BY <1>6, <1>7 DEF Kept
<1>9. Chained'
  BY <1>6, <1>7 DEF AllocInv, Chained
<1>10. /\ At(e) \in Places
       /\ \A x \in Range(chain) : At(x) \in Places /\ At(x) # At(e)
  BY <1>7, OwnHeader
<1>11. /\ count' \in [Places -> Int] /\ count'[At(e)] = old
       /\ \A x \in Range(chain) : count'[At(x)] = count[At(x)]
  <2>1. count \in [Places -> Int]
    BY DEF AllocInv, Memory
  <2> QED BY <1>2, <1>10, <2>1
<1>12. Counted'
  BY <1>11 DEF AllocInv, Counted
<1>13. clean \in BOOLEAN /\ clean' \in BOOLEAN /\ Flags'
  BY <1>2, <1>5 DEF AllocInv, Flags
<1>14. Cleanly'
  <2> SUFFICES ASSUME clean'
               PROVE  /\ chain' = handlers'
                      /\ \A x \in Range(chain') : count'[At(x)] = 1
                      /\ \A x \in Range(fly'.exc) : count'[At(x)] = 0
    BY DEF Cleanly
  <2>1. clean /\ old = 0
    BY <1>2, <1>13
  <2> QED BY <1>6, <1>11, <2>1 DEF AllocInv, Cleanly
<1> QED BY <1>3, <1>5, <1>8, <1>9, <1>11, <1>12, <1>13, <1>14

LEMMA ThrowFromHeapSound == AllocInv /\ ThrowFromHeap => Sound
<1> SUFFICES ASSUME AllocInv, ThrowFromHeap
             PROVE  Sound
  OBVIOUS
<1>1. /\ Running /\ Top.run = "throw" /\ A!Grant(Top.size)
      /\ UNCHANGED <<pool, chain, handler, handlers, mine>>
  BY DEF ThrowFromHeap
<1>2. Top.size \in Allocs /\ Top.flag \in BOOLEAN
  BY <1>1, StackFacts, CallFacts DEF AllocInv, Chained
<1>3. PICK b \in Block \ live : live' = live \cup {b} /\ live' \ live = {b}
  BY <1>1, <1>2, GrantFacts DEF AllocInv
<1>4. ret' \in Arena \cup {0} /\ A!Next /\ Distinct(live')
  BY <1>1, <1>2, GrantFacts DEF AllocInv
<1> DEFINE e == InBlock(b, Top.flag)
<1>5. PICK old \in {count[At(e)]} \cup Garbage : Raise(e, old)
  BY <1>3 DEF ThrowFromHeap
<1>6. e \in Exception /\ e \notin Kept /\ Owned(Kept \cup {e}, live', mine, pool)
  BY <1>2, <1>3, ExceptionFacts, KeptFacts, OwnBlock DEF AllocInv, OneOwnerEach, Memory
<1> HIDE DEF e
<1>7. live' \in SUBSET Block
  BY <1>3 DEF AllocInv, Memory
<1>8. old \in Int
  <2>1. At(e) \in Places
    BY <1>4, <1>6, <1>7, KeptFacts, OwnHeader
  <2> QED BY <1>5, <2>1, AllocationAssumption DEF AllocInv, Memory
<1>9. /\ Stacked' /\ Flight' /\ Flags' /\ Chained' /\ Counted' /\ Cleanly'
      /\ Kept' = Kept \cup {e} /\ dead' \in {"no", "uncaught"}
      /\ count' \in [Places -> Int]
  BY <1>1, <1>4, <1>5, <1>6, <1>7, <1>8, RaiseStep
<1>10. OneOwnerEach'
  BY <1>1, <1>6, <1>9 DEF OneOwnerEach
<1>11. Memory' /\ AllMarked'
  BY <1>1, <1>4, <1>7, <1>9 DEF AllocInv, Memory, AllMarked
<1> QED BY <1>4, <1>9, <1>10, <1>11 DEF AllocInv, Sound

LEMMA ThrowFromPoolSound == AllocInv /\ ThrowFromPool => Sound
<1> SUFFICES ASSUME AllocInv, ThrowFromPool
             PROVE  Sound
  OBVIOUS
<1> DEFINE In(i) == InSlot(i, Top.flag)
<1>1. PICK i \in Slots : /\ FirstFree(i) /\ pool' = MarkSlot(pool, i)
                         /\ Raise(In(i), count[At(In(i))])
  BY DEF ThrowFromPool
<1>2. /\ Running /\ Top.run = "throw" /\ ret' = 0 /\ live' = live /\ A!Next
      /\ UNCHANGED <<chain, handler, handlers, mine>>
  BY DEF ThrowFromPool, A!Refuse, A!NULL, A!Next
<1>3. Top.flag \in BOOLEAN /\ ~pool[i] /\ pool' = [pool EXCEPT ![i] = TRUE]
  BY <1>1, StackFacts, CallFacts DEF AllocInv, Chained, FirstFree, MarkSlot
<1> DEFINE e == In(i)
<1>4. e \in Exception /\ e \notin Kept /\ Owned(Kept \cup {e}, live, mine, pool')
  BY <1>3, ExceptionFacts, KeptFacts, OwnSlot DEF AllocInv, OneOwnerEach, Memory
<1>5. Raise(e, count[At(e)])
  BY <1>1
<1> HIDE DEF e
<1>6. live \in SUBSET Block /\ Distinct(live)
  BY DEF AllocInv, Memory
<1>7. count[At(e)] \in Int
  <2>1. At(e) \in Places
    BY <1>4, <1>6, KeptFacts, OwnHeader
  <2> QED BY <2>1 DEF AllocInv, Memory
<1>8. /\ Stacked' /\ Flight' /\ Flags' /\ Chained' /\ Counted' /\ Cleanly'
      /\ Kept' = Kept \cup {e} /\ dead' \in {"no", "uncaught"}
      /\ count' \in [Places -> Int]
  BY <1>2, <1>4, <1>5, <1>6, <1>7, RaiseStep
<1>9. OneOwnerEach'
  BY <1>2, <1>4, <1>8 DEF OneOwnerEach
<1>10. Memory' /\ AllMarked'
  BY <1>2, <1>3, <1>6, <1>8 DEF AllocInv, Memory, AllMarked
<1> QED BY <1>2, <1>8, <1>9, <1>10 DEF AllocInv, Sound

LEMMA ThrowFailsSound == AllocInv /\ ThrowFails => Sound
<1> SUFFICES ASSUME AllocInv, ThrowFails
             PROVE  Sound
  OBVIOUS
<1>1. /\ Running /\ ret' = 0 /\ live' = live /\ A!Next /\ fly' = fly /\ fly = NoFlight
      /\ UNCHANGED <<pool, count, chain, handler, calls, handlers, mine, clean>>
      /\ dead' \in {"pool empty", "no memory"}
  BY DEF ThrowFails, A!Refuse, A!NULL, A!Next, Terminate, Running, runtime
<1>2. ASSUME dead' = "pool empty"
      PROVE  \A i \in Slots : pool[i]
  <2>1. \A i \in Slots : ~FirstFree(i)
    BY <1>2 DEF ThrowFails, Terminate
  <2> DEFINE F == {i \in Slots : ~pool[i]}
  <2>2. SUFFICES ASSUME F # {}
                 PROVE  FALSE
    OBVIOUS
  <2>3. Slots \subseteq Nat
    BY AllocationAssumption DEF Slots
  <2>4. PICK m \in F : \A n \in F : m <= n
    BY <2>2, <2>3, HasLeast
  <2>5. \A j \in 1 .. m - 1 : pool[j]
    BY <2>4, AllocationAssumption DEF Slots
  <2> QED BY <2>1, <2>4, <2>5 DEF FirstFree
<1>3. AllMarked'
  BY <1>1, <1>2 DEF AllMarked
<1>4. Kept' = Kept /\ Flight' /\ Stacked'
  BY <1>1 DEF Kept, Flight, AllocInv, Stacked
<1>5. OneOwnerEach' /\ Memory' /\ Flags'
  BY <1>1, <1>4 DEF AllocInv, OneOwnerEach, Memory, Flags
<1>6. Chained' /\ Counted' /\ Cleanly'
  BY <1>1 DEF AllocInv, Chained, Counted, Cleanly
<1> QED BY <1>1, <1>3, <1>4, <1>5, <1>6 DEF AllocInv, Sound

\* The innermost handler ends, and end_catch takes the head of the chain.
LEMMA HandlerEnds ==
  ASSUME AllocInv, dead = "no", Handles, CxaEndCatch(chain, count),
         handlers' = Front(handlers),
         UNCHANGED <<handler, calls, mine, fly, dead, clean>>
  PROVE  Sound
<1>1. /\ chain \in Seq(Exception) /\ handlers \in Seq(Exception)
      /\ Sorted(handlers, chain) /\ Range(chain) \cap Range(fly.exc) = {}
  BY DEF AllocInv, Chained
<1>2. handlers # <<>> /\ Stacked'
  <2>1. Len(handlers) > Top.base /\ Top.base \in Nat
    BY StackFacts, CallFacts, <1>1 DEF AllocInv, Handles
  <2>2. handlers # <<>> /\ Len(handlers) \in Nat
    BY <1>1, <2>1, SeqFacts
  <2>3. Len(handlers') = Len(handlers) - 1
    BY <1>1, <2>2, FrontIndices
  <2>4. Len(handlers') \in Nat /\ Top.base <= Len(handlers')
    BY <2>1, <2>2, <2>3
  <2> QED BY <2>2, <2>4, KeepStep DEF AllocInv
<1>3. /\ chain # <<>>
      /\ Sorted(Front(handlers), chain) /\ Sorted(Front(handlers), Front(chain))
  BY <1>1, <1>2, SortedPop
<1> DEFINE Y == Range(fly.exc)
<1>4. Y \in SUBSET Exception /\ Y \cap Range(chain) = {} /\ NoRepeats(chain)
  BY <1>1, KeptFacts DEF Kept, Sorted
<1>5. /\ Memory' /\ chain' \in Seq(Exception)
      /\ Owned(Range(chain') \cup Y, live', mine', pool')
      /\ \A x \in Range(chain') : count'[At(x)] >= 1
      /\ A!Next \/ UNCHANGED <<live, ret>>
      /\ \/ count[At(Last(chain))] = 1 /\ chain' = Front(chain) /\ count' = count
         \/ count[At(Last(chain))] # 1 /\ chain' = chain
      /\ \A y \in Y : count'[At(y)] = count[At(y)]
  <2>1. \A x \in Range(chain) : count[At(x)] >= 1
    BY DEF AllocInv, Counted
  <2>2. Memory /\ count \in [Places -> Int]
    BY DEF AllocInv, Memory
  <2>3. Owned(Range(chain) \cup Y, live, mine, pool)
    BY DEF AllocInv, OneOwnerEach, Kept
  <2> HIDE DEF Y
  <2> QED BY <1>1, <1>3, <1>4, <2>1, <2>2, <2>3, EndFacts
<1>6. Kept' = Range(chain') \cup Y
  BY DEF Kept
<1>7. OneOwnerEach'
  BY <1>5, <1>6 DEF OneOwnerEach
<1>8. /\ Last(chain) \in Range(chain) /\ Range(Front(chain)) \subseteq Range(chain)
      /\ Front(handlers) \in Seq(Exception)
  BY <1>1, <1>2, <1>3, <1>4, FrontFacts
<1>9. Chained'
  BY <1>1, <1>3, <1>5, <1>8 DEF Chained
<1>10. Counted'
  BY <1>5 DEF Counted
<1>11. Cleanly'
  <2> SUFFICES ASSUME clean
               PROVE  /\ chain' = handlers'
                      /\ \A x \in Range(chain') : count'[At(x)] = 1
                      /\ \A x \in Range(fly'.exc) : count'[At(x)] = 0
    BY DEF Cleanly
  <2>1. /\ chain = handlers /\ \A x \in Range(chain) : count[At(x)] = 1
        /\ \A x \in Y : count[At(x)] = 0
    BY DEF AllocInv, Cleanly
  <2>2. chain' = Front(chain) /\ count' = count
    BY <1>5, <1>8, <2>1
  <2> QED BY <1>8, <2>1, <2>2
<1>12. Flight' /\ Flags' /\ AllMarked'
  BY DEF AllocInv, Flight, Flags, AllMarked
<1> QED BY <1>2, <1>5, <1>7, <1>9, <1>10, <1>11, <1>12 DEF AllocInv, Sound

LEMMA EndCatchSound == AllocInv /\ EndCatch => Sound
BY HandlerEnds DEF EndCatch, InUser, Running

LEMMA UnwindPastSound == AllocInv /\ UnwindPast => Sound
<1> SUFFICES ASSUME AllocInv, UnwindPast
             PROVE  Sound
  OBVIOUS
<1>1. /\ Unwinding /\ dead = "no" /\ fly # NoFlight
      /\ UNCHANGED <<handler, mine, fly, dead, clean>>
  BY DEF UnwindPast, Unwinding
<1>2. CASE Handles
  BY <1>1, <1>2, HandlerEnds DEF UnwindPast
<1>3. CASE ~Handles
  <2>1. /\ calls' = Below /\ Len(calls) > fly.to
        /\ UNCHANGED <<live, ret, pool, count, chain, handlers>>
    BY <1>3 DEF UnwindPast, memory, runtime
  <2>2. PICK e \in Exception, t \in 0 .. Len(calls) :
          fly = [to |-> t, exc |-> <<e>>] /\ t > 0
    BY <1>1 DEF AllocInv, Flight
  <2>3. Len(calls) > 1 /\ Len(calls) \in Nat /\ t <= Len(calls) - 1
    BY <2>1, <2>2, StackFacts DEF AllocInv
  <2>4. Stacked' /\ Len(calls') = Len(calls) - 1
    BY <2>1, <2>3, DropStep DEF AllocInv
  <2>5. Flight'
    <3>1. t \in 0 .. Len(calls')
      BY <2>2, <2>3, <2>4
    <3> QED BY <1>1, <2>2, <3>1 DEF Flight
  <2>6. Kept' = Kept
    BY <1>1, <2>1 DEF Kept
  <2>7. Memory' /\ Flags' /\ OneOwnerEach' /\ AllMarked'
    BY <1>1, <2>1, <2>6 DEF AllocInv, Memory, Flags, OneOwnerEach, AllMarked
  <2>8. Chained' /\ Counted' /\ Cleanly'
    BY <1>1, <2>1 DEF AllocInv, Chained, Counted, Cleanly
  <2> QED BY <2>1, <2>4, <2>5, <2>7, <2>8 DEF AllocInv, Sound
<1> QED BY <1>2, <1>3

\* begin_catch puts the exception in flight at the head of the chain.
LEMMA BeginFacts ==
  ASSUME AllocInv, Unwinding
  PROVE  LET e  == fly.exc[1]
             ch == chain \o fly.exc
             ct == Begun(e)
         IN  /\ e \in Exception /\ e \notin Range(chain) /\ fly.exc = <<e>>
             /\ ch \in Seq(Exception) /\ Range(ch) = Range(chain) \cup {e} /\ Kept = Range(ch)
             /\ ch # <<>> /\ Last(ch) = e /\ Front(ch) = chain
             /\ Sorted(handlers, ch) /\ Sorted(handlers \o fly.exc, ch)
             /\ ct \in [Places -> Int]
             /\ \A x \in Range(ch) : ct[At(x)] >= 1
             /\ clean => /\ \A x \in Range(ch) : ct[At(x)] = 1
                         /\ chain = handlers
<1> DEFINE e == fly.exc[1]
           ch == chain \o fly.exc
           ct == Begun(e)
<1>1. /\ e \in Exception /\ fly.exc = <<e>> /\ Range(fly.exc) = {e}
      /\ Kept = Range(chain) \cup {e} /\ Kept \subseteq Exception
  BY KeptFacts DEF Unwinding, Kept
<1>2. /\ chain \in Seq(Exception) /\ handlers \in Seq(Exception)
      /\ Sorted(handlers, chain) /\ e \notin Range(chain)
  BY <1>1 DEF AllocInv, Chained
<1>3. /\ ct = [count EXCEPT ![At(e)] = Recount(count[At(e)])]
      /\ ch = chain \o <<e>>
  BY <1>1 DEF Begun
<1> HIDE DEF e, ch, ct
<1>4. ch \in Seq(Exception) /\ Range(ch) = Range(chain) \cup {e}
  BY <1>1, <1>2, <1>3, AddFacts
<1>5. Sorted(handlers, ch) /\ Sorted(handlers \o fly.exc, ch)
  BY <1>1, <1>2, <1>3, SortedPush
<1>6. ch # <<>> /\ Last(ch) = e /\ Front(ch) = chain
  <2>1. ch = Append(chain, e)
    BY <1>1, <1>2, <1>3, AppendIsConcat
  <2>2. /\ ch # <<>> /\ Len(ch) = Len(chain) + 1 /\ Len(chain) \in Nat
        /\ ch[Len(chain) + 1] = e
    BY <1>1, <1>2, <2>1, Pushed
  <2>3. SubSeq(ch, 1, Len(chain)) = chain
    BY <1>1, <1>2, <2>1, <2>2, PrefixOfPushed
  <2> QED BY <2>2, <2>3 DEF Last, Front
<1>7. /\ At(e) \in Places
      /\ \A x \in Range(chain) : At(x) \in Places /\ At(x) # At(e)
  <2>1. /\ \A x \in Kept : At(x) \in Places
        /\ \A x, y \in Kept : At(x) = At(y) => x = y
    BY <1>1, OwnHeader DEF AllocInv, OneOwnerEach, Memory
  <2> QED BY <1>1, <1>2, <2>1
<1>8. count \in [Places -> Int]
  BY DEF AllocInv, Memory
<1>9. \A c \in Int : Recount(c) \in Int /\ Recount(c) >= 1 /\ (c = 0 => Recount(c) = 1)
  BY DEF Recount
<1>10. /\ ct \in [Places -> Int] /\ ct[At(e)] = Recount(count[At(e)])
       /\ \A x \in Range(chain) : ct[At(x)] = count[At(x)]
  BY <1>3, <1>7, <1>8, <1>9
<1>11. \A x \in Range(ch) : ct[At(x)] >= 1
  BY <1>4, <1>7, <1>8, <1>9, <1>10 DEF AllocInv, Counted
<1>12. ASSUME clean
       PROVE  (\A x \in Range(ch) : ct[At(x)] = 1) /\ chain = handlers
  <2>1. /\ chain = handlers /\ count[At(e)] = 0
        /\ \A x \in Range(chain) : count[At(x)] = 1
    BY <1>1, <1>12 DEF AllocInv, Cleanly
  <2> QED BY <1>4, <1>9, <1>10, <2>1
<1> QED BY <1>1, <1>2, <1>4, <1>5, <1>6, <1>10, <1>11, <1>12 DEF e, ch, ct

LEMMA LandSound == AllocInv /\ Land => Sound
<1> SUFFICES ASSUME AllocInv, Land
             PROVE  Sound
  OBVIOUS
<1> DEFINE e == fly.exc[1]
           ch == chain \o fly.exc
           ct == Begun(e)
<1>1. /\ Unwinding /\ dead = "no" /\ fly' = NoFlight /\ chain' = ch /\ count' = ct
      /\ handlers' = handlers \o <<e>>
      /\ UNCHANGED <<live, ret, pool, handler, calls, mine, dead, clean>>
  BY BeginFacts DEF Land, memory, Unwinding
<1>2. /\ e \in Exception /\ e \notin Range(chain) /\ fly.exc = <<e>>
      /\ ch \in Seq(Exception) /\ Kept = Range(ch)
      /\ Sorted(handlers \o fly.exc, ch) /\ ct \in [Places -> Int]
      /\ \A x \in Range(ch) : ct[At(x)] >= 1
      /\ clean => chain = handlers /\ \A x \in Range(ch) : ct[At(x)] = 1
  BY <1>1, BeginFacts
<1> HIDE DEF e, ch, ct
<1>3. Range(fly'.exc) = {}
  BY <1>1, NoneThere DEF NoFlight
<1>4. Kept' = Kept
  BY <1>1, <1>2, <1>3 DEF Kept
<1>5. handlers' \in Seq(Exception) /\ Stacked'
  <2>1. handlers \in Seq(Exception)
    BY DEF AllocInv, Chained
  <2>2. handlers' = Append(handlers, e)
    BY <1>1, <1>2, <2>1, AppendIsConcat
  <2>3. /\ handlers' \in Seq(Exception) /\ Len(handlers) \in Nat
        /\ Len(handlers') = Len(handlers) + 1
    BY <1>2, <2>1, <2>2, Pushed
  <2>4. Top.base <= Len(handlers) /\ Top.base \in Nat
    BY StackFacts DEF AllocInv, Stacked
  <2>5. Len(handlers') \in Nat /\ Top.base <= Len(handlers')
    BY <2>3, <2>4
  <2> QED BY <1>1, <2>3, <2>5, KeepStep DEF AllocInv
<1>6. Chained' /\ Counted'
  BY <1>1, <1>2, <1>3, <1>5 DEF Chained, Counted
<1>7. Cleanly'
  <2>1. clean => chain' = handlers'
    BY <1>1, <1>2 DEF ch
  <2> QED BY <1>1, <1>2, <1>3, <2>1 DEF Cleanly
<1>8. Memory' /\ Flags' /\ Flight' /\ AllMarked'
  BY <1>1, <1>2 DEF AllocInv, Memory, Flags, Flight, AllMarked
<1>9. OneOwnerEach'
  BY <1>1, <1>4 DEF AllocInv, OneOwnerEach
<1> QED BY <1>1, <1>5, <1>6, <1>7, <1>8, <1>9 DEF AllocInv, Sound

LEMMA LandInNothrowSound == AllocInv /\ LandInNothrow => Sound
<1> SUFFICES ASSUME AllocInv, LandInNothrow
             PROVE  Sound
  OBVIOUS
<1> DEFINE e == fly.exc[1]
           ch == chain \o fly.exc
           ct == Begun(e)
<1>1. /\ Unwinding /\ dead = "no" /\ Top.run = "new" /\ fly' = NoFlight /\ calls' = Below
      /\ CxaEndCatch(ch, ct) /\ UNCHANGED <<handler, handlers, mine, dead, clean>>
  BY DEF LandInNothrow, Unwinding
<1>2. /\ e \in Exception /\ e \notin Range(chain)
      /\ ch \in Seq(Exception) /\ Kept = Range(ch) /\ Range(ch) = Range(chain) \cup {e}
      /\ ch # <<>> /\ Last(ch) = e /\ Front(ch) = chain
      /\ Sorted(handlers, ch) /\ ct \in [Places -> Int]
      /\ \A x \in Range(ch) : ct[At(x)] >= 1
      /\ clean => chain = handlers /\ \A x \in Range(ch) : ct[At(x)] = 1
  BY <1>1, BeginFacts
<1> HIDE DEF e, ch, ct
<1>3. /\ Memory' /\ chain' \in Seq(Exception)
      /\ Owned(Range(chain'), live', mine', pool')
      /\ \A x \in Range(chain') : count'[At(x)] >= 1
      /\ A!Next \/ UNCHANGED <<live, ret>>
      /\ \/ ct[At(e)] = 1 /\ chain' = chain /\ count' = ct
         \/ ct[At(e)] # 1 /\ chain' = ch
  <2>1. Memory /\ Owned(Range(ch) \cup {}, live, mine, pool) /\ NoRepeats(ch)
    BY <1>2 DEF AllocInv, OneOwnerEach, Sorted
  <2>2. {} \in SUBSET Exception /\ {} \cap Range(ch) = {} /\ mine' = mine
    BY <1>1
  <2>3. /\ Memory' /\ chain' \in Seq(Exception)
        /\ Owned(Range(chain') \cup {}, live', mine', pool')
        /\ \A x \in Range(chain') : count'[At(x)] >= 1
        /\ A!Next \/ UNCHANGED <<live, ret>>
        /\ \/ ct[At(Last(ch))] = 1 /\ chain' = Front(ch) /\ count' = ct
           \/ ct[At(Last(ch))] # 1 /\ chain' = ch
    BY <1>1, <1>2, <2>1, <2>2, EndFacts
  <2> QED BY <1>2, <2>3
<1>4. Range(fly'.exc) = {} /\ Kept' = Range(chain')
  BY <1>1, NoneThere DEF NoFlight, Kept
<1>5. OneOwnerEach'
  BY <1>3, <1>4 DEF OneOwnerEach
<1>6. Stacked'
  BY <1>1, StackFacts, DropStep DEF AllocInv
<1>7. Chained' /\ Counted'
  BY <1>1, <1>2, <1>3, <1>4 DEF AllocInv, Chained, Counted
<1>8. Cleanly'
  <2> SUFFICES ASSUME clean
               PROVE  chain' = handlers' /\ \A x \in Range(chain') : count'[At(x)] = 1
    BY <1>1, <1>4 DEF Cleanly
  <2>1. ct[At(e)] = 1
    BY <1>2
  <2> QED BY <1>1, <1>2, <1>3, <2>1
<1>9. Flags' /\ Flight' /\ AllMarked'
  BY <1>1 DEF AllocInv, Flags, Flight, AllMarked
<1> QED BY <1>3, <1>5, <1>6, <1>7, <1>8, <1>9 DEF AllocInv, Sound

-----------------------------------------------------------------------------
(* The theorems.                                                             *)

LEMMA InitSound == Init => AllocInv /\ A!Init
<1> SUFFICES ASSUME Init
             PROVE  AllocInv /\ A!Init
  OBVIOUS
<1>1. /\ live = {} /\ ret = 0 /\ pool = [i \in Slots |-> FALSE] /\ handler = FALSE
      /\ count = [p \in Places |-> 0] /\ chain = <<>> /\ handlers = <<>>
      /\ calls = <<User>> /\ mine = {} /\ fly = NoFlight /\ dead = "no" /\ clean = TRUE
  BY DEF Init, A!Init, A!NULL
<1>2. chain \in Seq(Exception) /\ handlers \in Seq(Exception) /\ Len(handlers) = 0
  BY <1>1, EmptySeq
<1>3. User \in Call /\ User.base = 0 /\ User.run = "user"
  BY <1>2, CallFacts DEF User
<1>4. calls \in Seq(Call) /\ calls # <<>> /\ DOMAIN calls = {1} /\ calls[1] = User
  BY <1>1, <1>3
<1>5. Stacked
  BY <1>2, <1>3, <1>4 DEF Stacked
<1>6. Range(chain) = {} /\ Range(handlers) = {} /\ Range(fly.exc) = {} /\ NoRepeats(<<>>)
  BY <1>1, NoneThere DEF NoFlight
<1>7. DOMAIN chain = {}
  BY <1>1
<1>8. Chained /\ Counted /\ Cleanly
  BY <1>1, <1>2, <1>6, <1>7 DEF Chained, Sorted, Counted, Cleanly
<1>9. OneOwnerEach
  BY <1>1, <1>6 DEF OneOwnerEach, Owned, Kept
<1>10. Memory
  BY <1>1 DEF Memory, Distinct
<1>11. Flags /\ AllMarked /\ Flight
  BY <1>1 DEF Flags, AllMarked, Flight
<1> QED BY <1>5, <1>8, <1>9, <1>10, <1>11 DEF AllocInv, Init

LEMMA StepSound == AllocInv /\ [Next]_vars => Sound
<1>1. ASSUME AllocInv, UNCHANGED vars
      PROVE  Sound
  <2>1. UNCHANGED <<live, ret, pool, count, chain, handler, calls, handlers, mine, fly,
                    dead, clean>>
    BY <1>1 DEF vars, memory, runtime
  <2>2. Kept' = Kept
    BY <2>1 DEF Kept
  <2>3. Stacked' /\ Flight' /\ Memory' /\ Flags'
    BY <1>1, <2>1 DEF AllocInv, Stacked, Flight, Memory, Flags
  <2>4. Chained' /\ Counted' /\ Cleanly' /\ OneOwnerEach' /\ AllMarked'
    BY <1>1, <2>1, <2>2 DEF AllocInv, Chained, Counted, Cleanly, OneOwnerEach, AllMarked
  <2> QED BY <2>1, <2>3, <2>4 DEF Sound, AllocInv
<1> QED
  BY <1>1, CallNewSound, DeleteSound, SetNewHandlerSound, CallThrowSound,
     HandlerReturnsSound, NewSucceedsSound, NewRefusedSound, ThrowFromHeapSound,
     ThrowFromPoolSound, ThrowFailsSound, EndCatchSound, UnwindPastSound, LandSound,
     LandInNothrowSound DEF Next

\* The sets of the properties, by the kind of the exceptions.
LEMMA KindFacts ==
  ASSUME NEW X \in SUBSET Exception
  PROVE  /\ BlocksOf(X) = {e.block : e \in {x \in X : x.in = "heap"}}
         /\ SlotsOf(X) = {e.slot : e \in {x \in X : x.in = "pool"}}
<1>1. X \ InPool(X) = {x \in X : x.in = "heap"}
  BY ExceptionFacts DEF InPool
<1> QED BY <1>1 DEF BlocksOf, SlotsOf, InPool

\* The inductive invariant holds: the stack of calls, the chain of exceptions
\* with its counts, and who owns the memory.
THEOREM AllocationInvariant == Spec => []AllocInv
<1>1. AllocInv /\ [Next]_vars => AllocInv'
  BY StepSound DEF Sound
<1> QED BY <1>1, InitSound, PTL DEF Spec

\* Every live block and every marked slot has exactly one owner, and active
\* handlers keep their exceptions, whatever counts the headers begin with.
THEOREM EachHasOneOwner == Spec => []OneOwner
<1>1. AllocInv => OneOwner
  <2> SUFFICES ASSUME AllocInv
               PROVE  OneOwner
    OBVIOUS
  <2>1. /\ Len(handlers) \in Nat /\ Range(handlers) \subseteq Exception
        /\ Sorted(handlers, chain) /\ Range(chain) \cap Range(fly.exc) = {}
    BY SeqFacts DEF AllocInv, Chained
  <2>2. Kept \subseteq Exception /\ Range(chain) \cup InUse \subseteq Exception
    BY <2>1, KeptFacts DEF Kept, InUse
  <2>3. \A i \in DOMAIN calls :
          /\ calls[i].run \in {"user", "new", "throw"}
          /\ calls[i].size \in IF calls[i].run = "user" THEN {0} ELSE Allocs
          /\ calls[i].base \in 0 .. Len(handlers)
    <3>1. \A i \in DOMAIN calls : calls[i] \in Call /\ calls[i].base <= Len(handlers)
      BY StackFacts DEF AllocInv, Stacked
    <3>2. handlers \in Seq(Exception)
      BY DEF AllocInv, Chained
    <3> QED BY <2>1, <3>1, <3>2, CallFacts
  <2>4. fly.to \in 0 .. Len(calls)
    <3>1. NoFlight.to = 0 /\ Len(calls) \in Nat
      BY StackFacts DEF NoFlight, AllocInv
    <3> QED BY <3>1, KeptFacts
  <2>5. TypeOK
    BY <2>2, <2>3, <2>4 DEF TypeOK, AllocInv, Memory, Flags
  <2>6. /\ live = mine \cup BlocksOf(Kept) /\ {i \in Slots : pool[i]} = SlotsOf(Kept)
        /\ \A e \in Kept : e.block \notin mine
        /\ \A e, f \in Kept : e # f => e.block # f.block \/ e.slot # f.slot
    BY <2>2, KindFacts DEF AllocInv, OneOwnerEach, Owned
  <2> QED BY <2>1, <2>5, <2>6 DEF OneOwner, Sorted
<1> QED BY <1>1, AllocationInvariant, PTL

\* As long as headers begin with 0, the chain has no exception but those of
\* the active handlers.
LEMMA CleanFacts ==
  ASSUME AllocInv, clean
  PROVE  Kept = InUse
BY DEF AllocInv, Cleanly, Kept, InUse

\* As long as headers begin with 0, every block and every slot belongs to the
\* program, to an active handler or to the exception in flight.
THEOREM CleanDoesNotLeak == Spec => []NothingLeaks
<1>1. AllocInv => NothingLeaks
  BY KeptFacts, KindFacts, CleanFacts DEF NothingLeaks, AllocInv, OneOwnerEach, Owned
<1> QED BY <1>1, AllocationInvariant, PTL

\* The runtime uses malloc and free as their contract allows.
THEOREM UsesAllocator == Spec => AllocatorSpec
<1>1. AllocInv /\ [Next]_vars => [A!Next]_A!vars
  BY StepSound DEF Sound, A!vars
<1> QED BY <1>1, InitSound, AllocationInvariant, PTL DEF Spec, AllocatorSpec, A!Spec

\* A throw of what fits a slot finds no memory only when the pool is full of
\* exceptions of the runtime; and, as long as headers begin with 0, of
\* exceptions that are not handled yet.
THEOREM PoolIsUsedUp == Spec => []PoolServes
<1>1. ASSUME AllocInv, dead = "pool empty"
      PROVE  Cardinality(InPool(Kept)) = NUM_OBJS
  <2> DEFINE P == InPool(Kept)
  <2>1. Kept \subseteq Exception /\ P = {e \in Kept : e.in = "pool"}
    BY <1>1, KeptFacts DEF InPool
  <2>2. {i \in Slots : pool[i]} = Slots
    BY <1>1 DEF AllocInv, AllMarked
  <2> HIDE DEF P
  <2>3. {e.slot : e \in P} = Slots
    BY <1>1, <2>1, <2>2 DEF AllocInv, OneOwnerEach, Owned
  <2>4. \A e, f \in P : e.slot = f.slot => e = f
    <3>1. \A e \in P : e \in Kept /\ e.block = [ptr |-> 0, size |-> 0]
      BY <2>1, ExceptionFacts
    <3>2. \A e, f \in Kept : e # f => e.block # f.block \/ e.slot # f.slot
      BY <1>1 DEF AllocInv, OneOwnerEach, Owned
    <3> QED BY <3>1, <3>2
  <2> DEFINE owner == [i \in Slots |-> CHOOSE e \in P : e.slot = i]
  <2>5. \A i \in Slots : owner[i] \in P /\ owner[i].slot = i
    BY <2>3
  <2>6. ExistsBijection(Slots, P)
    <3> HIDE DEF P, owner
    <3>1. owner \in [Slots -> P]
      BY <2>5 DEF owner
    <3>2. \A i, j \in Slots : owner[i] = owner[j] => i = j
      BY <2>5
    <3>3. ASSUME NEW e \in P
          PROVE  \E i \in Slots : owner[i] = e
      <4>1. PICK i \in Slots : i = e.slot
        BY <2>3
      <4>2. owner[i] \in P /\ owner[i].slot = e.slot
        BY <2>5, <4>1
      <4> QED BY <2>4, <4>2
    <3>4. owner \in Bijection(Slots, P)
      BY <3>1, <3>2, <3>3 DEF Bijection, Injection, Surjection, IsInjective
    <3> QED BY <3>4 DEF ExistsBijection
  <2>7. IsFiniteSet(Slots) /\ Cardinality(Slots) = NUM_OBJS
    BY SlotsFacts
  <2> HIDE DEF P
  <2>8. Cardinality(P) = NUM_OBJS
    BY <2>6, <2>7, FS_Bijection
  <2> QED BY <2>8 DEF P
<1>2. AllocInv => PoolServes
  BY <1>1, CleanFacts DEF PoolServes
<1> QED BY <1>2, AllocationInvariant, PTL
=============================================================================
