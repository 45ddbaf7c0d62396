---------------------------- MODULE Output_proofs ---------------------------
(* Theorems about Output: what a program hands to _putChar is on the screen *)
(* and on the wire, for every program, screen and queue of the device.      *)
EXTENDS Output, FiniteSetTheorems,
        SequenceTheorems, WellFoundedInduction, TLAPS

-----------------------------------------------------------------------------
(* Sets of numbers, sequences and quotients.                                 *)

\* A set of numbers that is not empty has a least one.
LEMMA HasLeast ==
  ASSUME NEW T \in SUBSET Nat, T # {}
  PROVE  \E m \in T : \A n \in T : m <= n
<1>1. PICK m \in T : \A n \in T : <<n, m>> \notin OpToRel(<, Nat)
  BY NatLessThanWellFounded, WFMin
<1>2. \A n \in T : ~(n < m)
  BY <1>1 DEF OpToRel
<1> QED BY <1>2

\* A set of indices that is not empty has a greatest one.
LEMMA HasGreatest ==
  ASSUME NEW n \in Nat, NEW T \in SUBSET (1 .. n), T # {}
  PROVE  \E m \in T : \A i \in T : i <= m
<1> DEFINE U == {u \in 0 .. n : n - u \in T}
<1>1. \A i \in T : n - i \in U
  OBVIOUS
<1>2. PICK i \in T : TRUE
  OBVIOUS
<1>3. n - i \in U
  BY <1>1
<1>4. U \subseteq 0 .. n
  OBVIOUS
<1>5. PICK u \in U : \A v \in U : u <= v
  <2> HIDE DEF U
  <2>1. U \in SUBSET Nat /\ U # {}
    BY <1>3, <1>4
  <2> QED BY <2>1, HasLeast
<1> QED BY <1>1, <1>5

\* A sequence with an element more.
LEMMA Pushed ==
  ASSUME NEW S, NEW s \in Seq(S), NEW a \in S
  PROVE  /\ Append(s, a) \in Seq(S) /\ Append(s, a) # <<>>
         /\ Len(s) \in Nat /\ DOMAIN s = 1 .. Len(s)
         /\ Len(Append(s, a)) = Len(s) + 1
         /\ DOMAIN Append(s, a) = 1 .. Len(s) + 1
         /\ \A i \in 1 .. Len(s) : Append(s, a)[i] = s[i] /\ s[i] \in S
         /\ Append(s, a)[Len(s) + 1] = a
BY AppendProperties, LenProperties, ElementOfSeq

\* The only way to write a number as k times q and a rest.
LEMMA QuotientIs ==
  ASSUME NEW q \in Nat \ {0}, NEW k \in Nat, NEW s \in 0 .. q - 1
  PROVE  (k * q + s) \div q = k /\ (k * q + s) % q = s
OBVIOUS

\* A number is its quotient times q and its rest.
LEMMA Divided ==
  ASSUME NEW q \in Nat \ {0}, NEW a \in Nat
  PROVE  /\ a \div q \in Nat /\ a % q \in 0 .. q - 1
         /\ a = (a \div q) * q + (a % q)
OBVIOUS

\* Multiples, which the prover does not find by itself.
LEMMA Multiples ==
  ASSUME NEW q \in Nat, NEW j \in Nat, NEW k \in Nat
  PROVE  j * q \in Nat /\ (j + k) * q = j * q + k * q
OBVIOUS

\* The rest of the number after a number.
LEMMA NextRest ==
  ASSUME NEW q \in Nat \ {0}, NEW a \in Nat
  PROVE  (a + 1) % q = IF (a % q) + 1 = q THEN 0 ELSE (a % q) + 1
<1> DEFINE k == a \div q
           r == a % q
<1>1. k \in Nat /\ r \in 0 .. q - 1 /\ a = k * q + r
  BY Divided
<1> HIDE DEF k, r
<1>2. CASE r + 1 = q
  <2>1. (k + 1) * q = k * q + 1 * q /\ k * q \in Nat /\ 1 * q = q
    BY <1>1, Multiples
  <2>2. a + 1 = (k + 1) * q + 0
    BY <1>1, <1>2, <2>1
  <2>3. ((k + 1) * q + 0) % q = 0
    BY <1>1, QuotientIs
  <2> QED BY <1>2, <2>2, <2>3 DEF r
<1>3. CASE r + 1 # q
  <2>1. k * q \in Nat /\ r + 1 \in 0 .. q - 1
    BY <1>1, <1>3, Multiples
  <2>2. a + 1 = k * q + (r + 1)
    BY <1>1, <2>1
  <2>3. (k * q + (r + 1)) % q = r + 1
    BY <1>1, <2>1, QuotientIs
  <2> QED BY <1>3, <2>2, <2>3 DEF r
<1> QED BY <1>2, <1>3

\* Between two numbers of the same rest lies a multiple.
LEMMA Between ==
  ASSUME NEW q \in Nat \ {0}, NEW a \in Nat, NEW b \in Nat, a < b, a % q = b % q
  PROVE  b - a >= q /\ \E k \in a + 1 .. b : k % q = 0
<1> DEFINE i == a \div q
           j == b \div q
           r == a % q
<1>1. /\ i \in Nat /\ j \in Nat /\ r \in 0 .. q - 1
      /\ a = i * q + r /\ b = j * q + r
  BY Divided
<1> HIDE DEF i, j, r
<1>2. i < j
  <2> SUFFICES ASSUME j <= i PROVE FALSE
    BY <1>1
  <2>1. PICK d \in Nat : i = j + d
    BY <1>1
  <2>2. i * q = j * q + d * q /\ d * q \in Nat /\ j * q \in Nat
    BY <1>1, <2>1, Multiples
  <2> QED BY <1>1, <2>2
<1>3. PICK d \in Nat : j = (i + 1) + d
  BY <1>1, <1>2
<1>4. /\ j * q = (i + 1) * q + d * q /\ (i + 1) * q = i * q + 1 * q
      /\ d * q \in Nat /\ i * q \in Nat /\ 1 * q = q
  BY <1>1, <1>3, Multiples
<1> DEFINE k == i * q + q
<1>5. k \in a + 1 .. b /\ k = (i + 1) * q + 0 /\ b - a >= q
  BY <1>1, <1>4
<1>6. ((i + 1) * q + 0) % q = 0
  BY <1>1, QuotientIs
<1> HIDE DEF k
<1> QED BY <1>5, <1>6

-----------------------------------------------------------------------------
(* Columns and lines of a text.                                              *)

\* The last new line among the first i characters, 0 without one.
Break(text, i) == Max({0} \cup {j \in 1 .. i : text[j] = LF})

LEMMA BreakIs ==
  ASSUME NEW text, NEW i \in Nat
  PROVE  /\ Break(text, i) \in 0 .. i
         /\ Break(text, i) # 0 => text[Break(text, i)] = LF
         /\ \A j \in Break(text, i) + 1 .. i : text[j] # LF
<1> DEFINE T == {j \in 1 .. i : text[j] = LF}
           b == Break(text, i)
<1>1. \E m \in {0} \cup T : \A j \in {0} \cup T : m >= j
  <2>1. CASE T = {}
    BY <2>1
  <2>2. CASE T # {}
    <3>1. T \in SUBSET (1 .. i)
      OBVIOUS
    <3> HIDE DEF T
    <3>2. PICK m \in T : \A j \in T : j <= m
      BY <2>2, <3>1, HasGreatest
    <3>3. m \in 1 .. i /\ T \subseteq 1 .. i
      BY <3>1, <3>2
    <3> QED BY <3>2, <3>3
  <2> QED BY <2>1, <2>2
<1>2. b = CHOOSE m \in {0} \cup T : \A j \in {0} \cup T : m >= j
  BY DEF Break, Max
<1>3. b \in {0} \cup T /\ \A j \in {0} \cup T : b >= j
  <2> HIDE DEF T, b
  <2> QED BY <1>1, <1>2
<1>4. \A j \in b + 1 .. i : text[j] # LF
  <2> SUFFICES ASSUME NEW j \in b + 1 .. i, text[j] = LF PROVE FALSE
    OBVIOUS
  <2>1. b \in 0 .. i
    BY <1>3
  <2>2. j \in T /\ j > b
    BY <2>1
  <2> HIDE DEF T, b
  <2> QED BY <1>3, <2>1, <2>2
<1>5. b \in 0 .. i /\ (b # 0 => text[b] = LF)
  <2> HIDE DEF b
  <2> QED BY <1>3
<1> QED BY <1>4, <1>5

\* Without a new line between, the last new line is the same.
LEMMA SameBreak ==
  ASSUME NEW text, NEW i \in Nat, NEW j \in Nat, i <= j,
         \A k \in i + 1 .. j : text[k] # LF
  PROVE  Break(text, j) = Break(text, i)
<1> DEFINE a == Break(text, i)
           b == Break(text, j)
<1>1. a \in 0 .. i /\ (a # 0 => text[a] = LF) /\ \A k \in a + 1 .. i : text[k] # LF
  BY BreakIs
<1>2. b \in 0 .. j /\ (b # 0 => text[b] = LF) /\ \A k \in b + 1 .. j : text[k] # LF
  BY BreakIs
<1> HIDE DEF a, b
<1>3. b <= i
  BY <1>2
<1>4. ~(a < b)
  BY <1>1, <1>2, <1>3
<1>5. ~(b < a)
  BY <1>1, <1>2
<1> QED BY <1>1, <1>2, <1>4, <1>5 DEF a, b

LEMMA ColumnIs ==
  ASSUME NEW text, NEW i \in Nat
  PROVE  /\ Column(text, i) = (i - Break(text, i)) % VGA_WIDTH
         /\ Column(text, i) \in Columns
<1>1. i - Break(text, i) \in Nat
  BY BreakIs
<1>2. Column(text, i) = (i - Break(text, i)) % VGA_WIDTH
  BY DEF Column, Break
<1>3. VGA_WIDTH \in Nat \ {0}
  BY ConsoleAssumption
<1>4. (i - Break(text, i)) % VGA_WIDTH \in 0 .. VGA_WIDTH - 1
  BY <1>1, <1>3, Divided
<1> QED BY <1>2, <1>4 DEF Columns

\* The column behind one more character.
LEMMA NextColumn ==
  ASSUME NEW text, NEW i \in Nat
  PROVE  Column(text, i + 1)
           = IF text[i + 1] = LF \/ Column(text, i) + 1 = VGA_WIDTH THEN 0
             ELSE Column(text, i) + 1
<1>1. VGA_WIDTH \in Nat \ {0}
  BY ConsoleAssumption
<1>2. CASE text[i + 1] = LF
  <2>1. /\ Break(text, i + 1) \in 0 .. i + 1
        /\ \A j \in Break(text, i + 1) + 1 .. i + 1 : text[j] # LF
    BY BreakIs
  <2>2. Break(text, i + 1) = i + 1
    BY <1>2, <2>1
  <2>3. Column(text, i + 1) = ((i + 1) - (i + 1)) % VGA_WIDTH
    BY <2>2, ColumnIs
  <2>4. (0 * VGA_WIDTH + 0) % VGA_WIDTH = 0
    BY <1>1, QuotientIs
  <2> QED BY <1>1, <1>2, <2>3, <2>4
<1>3. CASE text[i + 1] # LF
  <2> DEFINE b == Break(text, i)
  <2>1. Break(text, i + 1) = b
    BY <1>3, SameBreak
  <2>2. i - b \in Nat
    BY BreakIs
  <2>3. /\ Column(text, i) = (i - b) % VGA_WIDTH
        /\ Column(text, i + 1) = ((i + 1) - b) % VGA_WIDTH
    BY <2>1, ColumnIs
  <2> HIDE DEF b
  <2>4. b \in Int
    BY BreakIs DEF b
  <2>5. (i + 1) - b = (i - b) + 1
    BY <2>4
  <2>6. ((i - b) + 1) % VGA_WIDTH = IF ((i - b) % VGA_WIDTH) + 1 = VGA_WIDTH THEN 0
                                    ELSE ((i - b) % VGA_WIDTH) + 1
    BY <1>1, <2>2, NextRest
  <2> QED BY <1>3, <2>3, <2>5, <2>6
<1> QED BY <1>2, <1>3

\* The line behind one more character.
LEMMA NextLine ==
  ASSUME NEW text, NEW i \in Nat
  PROVE  /\ Line(text, i) \in Nat
         /\ Line(text, i + 1) = IF Column(text, i + 1) = 0 THEN Line(text, i) + 1
                                ELSE Line(text, i)
<1> DEFINE T(n) == {j \in 1 .. n : Column(text, j) = 0}
<1>1. IsFiniteSet(T(i))
  <2>1. T(i) \in SUBSET (1 .. i) /\ IsFiniteSet(1 .. i)
    BY FS_Interval
  <2> HIDE DEF T
  <2> QED BY <2>1, FS_Subset
<1>2. Line(text, i) = Cardinality(T(i)) /\ Line(text, i + 1) = Cardinality(T(i + 1))
  BY DEF Line
<1>3. T(i + 1) = IF Column(text, i + 1) = 0 THEN T(i) \cup {i + 1} ELSE T(i)
  OBVIOUS
<1>4. i + 1 \notin T(i)
  OBVIOUS
<1> HIDE DEF T
<1>5. Cardinality(T(i)) \in Nat
  BY <1>1, FS_CardinalityType
<1>6. Cardinality(T(i) \cup {i + 1}) = Cardinality(T(i)) + 1
  BY <1>1, <1>4, FS_AddElement
<1> QED BY <1>2, <1>3, <1>5, <1>6

\* Lines follow each other; on one line no column is 0 but the first.
LEMMA LineOrder ==
  ASSUME NEW text, NEW i \in Nat, NEW j \in Nat, i <= j
  PROVE  /\ Line(text, i) <= Line(text, j)
         /\ Line(text, i) = Line(text, j)
              => \A k \in i + 1 .. j : Column(text, k) # 0
<1> DEFINE T(n) == {k \in 1 .. n : Column(text, k) = 0}
<1>1. IsFiniteSet(T(j))
  <2>1. T(j) \in SUBSET (1 .. j) /\ IsFiniteSet(1 .. j)
    BY FS_Interval
  <2> HIDE DEF T
  <2> QED BY <2>1, FS_Subset
<1>2. T(i) \in SUBSET T(j)
  OBVIOUS
<1>3. Line(text, i) = Cardinality(T(i)) /\ Line(text, j) = Cardinality(T(j))
  BY DEF Line
<1>4. T(j) = T(i) => \A k \in i + 1 .. j : Column(text, k) # 0
  <2> SUFFICES ASSUME T(j) = T(i), NEW k \in i + 1 .. j, Column(text, k) = 0
               PROVE  FALSE
    OBVIOUS
  <2>1. k \in T(j) /\ k \notin T(i)
    OBVIOUS
  <2> QED BY <2>1
<1> HIDE DEF T
<1>5. /\ Cardinality(T(i)) <= Cardinality(T(j))
      /\ Cardinality(T(j)) = Cardinality(T(i)) => T(j) = T(i)
  BY <1>1, <1>2, FS_Subset
<1> QED BY <1>3, <1>4, <1>5

\* No column of a line is used twice.
LEMMA ColumnsDiffer ==
  ASSUME NEW text, NEW i \in Nat, NEW j \in Nat, i < j,
         Line(text, i) = Line(text, j)
  PROVE  Column(text, i) # Column(text, j)
<1> SUFFICES ASSUME Column(text, i) = Column(text, j) PROVE FALSE
  OBVIOUS
<1> DEFINE b == Break(text, i)
<1>1. VGA_WIDTH \in Nat \ {0}
  BY ConsoleAssumption
<1>2. \A k \in i + 1 .. j : Column(text, k) # 0
  BY LineOrder
<1>3. \A k \in i + 1 .. j : text[k] # LF
  <2> SUFFICES ASSUME NEW k \in i + 1 .. j, text[k] = LF PROVE FALSE
    OBVIOUS
  <2>1. k - 1 \in Nat /\ (k - 1) + 1 = k
    OBVIOUS
  <2>2. Column(text, k) = 0
    BY <2>1, NextColumn
  <2> QED BY <1>2, <2>2
<1>4. \A k \in i .. j : Break(text, k) = b
  <2> SUFFICES ASSUME NEW k \in i .. j PROVE Break(text, k) = Break(text, i)
    OBVIOUS
  <2>1. \A l \in i + 1 .. k : text[l] # LF
    BY <1>3
  <2> QED BY <2>1, SameBreak
<1>5. b \in 0 .. i
  BY BreakIs
<1>6. \A k \in i .. j : Column(text, k) = (k - b) % VGA_WIDTH
  <2> SUFFICES ASSUME NEW k \in i .. j PROVE Column(text, k) = (k - b) % VGA_WIDTH
    OBVIOUS
  <2>1. Break(text, k) = b
    BY <1>4
  <2> HIDE DEF b
  <2> QED BY <2>1, ColumnIs
<1> HIDE DEF b
<1>7. i - b \in Nat /\ j - b \in Nat /\ i - b < j - b
  BY <1>5
<1>8. (i - b) % VGA_WIDTH = (j - b) % VGA_WIDTH
  BY <1>6
<1>9. PICK k \in (i - b) + 1 .. j - b : k % VGA_WIDTH = 0
  BY <1>1, <1>7, <1>8, Between
<1>10. k + b \in i + 1 .. j /\ (k + b) - b = k
  BY <1>5, <1>9
<1>11. Column(text, k + b) = 0
  BY <1>6, <1>9, <1>10
<1> QED BY <1>2, <1>10, <1>11

\* One more character moves none of those before it.
LEMMA Extended ==
  ASSUME NEW S, NEW text \in Seq(S), NEW c \in S, NEW i \in 0 .. Len(text)
  PROVE  /\ Column(Append(text, c), i) = Column(text, i)
         /\ Line(Append(text, c), i) = Line(text, i)
<1> DEFINE more == Append(text, c)
<1>1. Len(text) \in Nat /\ \A j \in 1 .. Len(text) : more[j] = text[j]
  BY LenProperties, AppendProperties
<1> HIDE DEF more
<1>2. ASSUME NEW k \in 0 .. Len(text)
      PROVE  Column(more, k) = Column(text, k)
  <2>1. {j \in 1 .. k : more[j] = LF} = {j \in 1 .. k : text[j] = LF}
    BY <1>1
  <2> QED BY <2>1 DEF Column
<1>3. {j \in 1 .. i : Column(more, j) = 0} = {j \in 1 .. i : Column(text, j) = 0}
  BY <1>1, <1>2
<1>4. Line(more, i) = Line(text, i)
  BY <1>3 DEF Line
<1> QED BY <1>2, <1>4 DEF more

-----------------------------------------------------------------------------
(* The text with its carriage returns.                                       *)

\* The first i of the sequences ss, one behind the other, as FlattenSeq does.
Joined(ss, f, i) == IF i = 1 THEN ss[i] ELSE f[i - 1] \o ss[i]
Agree(f, g, n) == \A i \in 1 .. n : f[i] = g[i]
IsJoined(ss, n, f) == f = [i \in 1 .. n |-> Joined(ss, f, i)]

LEMMA JoinedExists ==
  ASSUME NEW ss, NEW n \in Nat
  PROVE  \E f : IsJoined(ss, n, f)
<1> DEFINE T == {m \in 0 .. n : ~\E f : IsJoined(ss, m, f)}
<1>1. \E f : IsJoined(ss, 0, f)
  <2> DEFINE f == [i \in 1 .. 0 |-> 0]
  <2>1. f = [i \in 1 .. 0 |-> Joined(ss, f, i)]
    OBVIOUS
  <2> QED BY <2>1 DEF IsJoined
<1>2. ASSUME NEW m \in Nat, NEW f, IsJoined(ss, m, f)
      PROVE  \E g : IsJoined(ss, m + 1, g)
  <2> DEFINE g == [i \in 1 .. m + 1 |-> IF i = m + 1 THEN Joined(ss, f, i) ELSE f[i]]
  <2>1. \A i \in 1 .. m : g[i] = f[i] /\ f[i] = Joined(ss, f, i)
    BY <1>2 DEF IsJoined
  <2>2. g[m + 1] = Joined(ss, f, m + 1)
    OBVIOUS
  <2>3. g = [i \in 1 .. m + 1 |-> g[i]]
    OBVIOUS
  <2> HIDE DEF g
  <2>4. \A i \in 1 .. m + 1 : Joined(ss, g, i) = Joined(ss, f, i)
    BY <2>1 DEF Joined
  <2>5. \A i \in 1 .. m + 1 : g[i] = Joined(ss, g, i)
    BY <2>1, <2>2, <2>4
  <2> QED BY <2>3, <2>5 DEF IsJoined
<1>3. T = {}
  <2> SUFFICES ASSUME T # {} PROVE FALSE
    OBVIOUS
  <2>1. T \in SUBSET Nat
    OBVIOUS
  <2>2. PICK m \in T : \A k \in T : m <= k
    <3> HIDE DEF T
    <3> QED BY <2>1, HasLeast
  <2>3. m # 0 /\ m \in 0 .. n
    BY <1>1
  <2>4. m - 1 \in 0 .. n /\ m - 1 \notin T /\ (m - 1) + 1 = m /\ m - 1 \in Nat
    BY <2>2, <2>3
  <2>5. \E f : IsJoined(ss, m - 1, f)
    BY <2>4
  <2>6. \E g : IsJoined(ss, m, g)
    BY <1>2, <2>4, <2>5
  <2> QED BY <2>6
<1> QED BY <1>3

\* There is no other, and more sequences do not change it.
LEMMA JoinedAgree ==
  ASSUME NEW ss, NEW tt, NEW m \in Nat, NEW n \in Nat, NEW f, NEW g,
         IsJoined(ss, m, f), IsJoined(tt, n, g),
         m <= n, Agree(ss, tt, m)
  PROVE  Agree(f, g, m)
<1> DEFINE T == {i \in 1 .. m : f[i] # g[i]}
<1> SUFFICES ASSUME T # {} PROVE FALSE
  BY DEF Agree
<1>1. T \in SUBSET Nat
  OBVIOUS
<1>2. PICK i \in T : \A k \in T : i <= k
  <2> HIDE DEF T
  <2> QED BY <1>1, HasLeast
<1>3. i \in 1 .. m /\ f[i] # g[i]
  OBVIOUS
<1>4. f[i] = Joined(ss, f, i) /\ g[i] = Joined(tt, g, i)
  <2>1. i \in 1 .. n
    BY <1>3
  <2> HIDE DEF T
  <2> QED BY <1>3, <2>1 DEF IsJoined
<1>5. i # 1
  BY <1>3, <1>4 DEF Joined, Agree
<1>6. i - 1 \in 1 .. m /\ i - 1 \notin T
  BY <1>2, <1>3, <1>5
<1>7. f[i - 1] = g[i - 1]
  BY <1>6
<1> QED BY <1>3, <1>4, <1>5, <1>7 DEF Joined, Agree

LEMMA FlattenIs ==
  ASSUME NEW S, NEW ss \in Seq(S), ss # <<>>
  PROVE  /\ Len(ss) \in Nat \ {0}
         /\ \E f : IsJoined(ss, Len(ss), f) /\ FlattenSeq(ss) = f[Len(ss)]
<1> DEFINE n == Len(ss)
           f == CHOOSE g : g = [i \in 1 .. n |-> IF i = 1 THEN ss[i] ELSE g[i - 1] \o ss[i]]
<1>1. n \in Nat \ {0}
  BY EmptySeq
<1>2. FlattenSeq(ss) = f[n]
  BY <1>1 DEF FlattenSeq
<1>3. IsJoined(ss, n, f)
  <2>1. \E g : g = [i \in 1 .. n |-> IF i = 1 THEN ss[i] ELSE g[i - 1] \o ss[i]]
    BY <1>1, JoinedExists DEF IsJoined, Joined
  <2> QED BY <2>1 DEF IsJoined, Joined
<1> HIDE DEF f
<1> QED BY <1>1, <1>2, <1>3

LEMMA FlattenEmpty == FlattenSeq(<<>>) = <<>>
<1>1. Len(<<>>) = 0
  BY EmptySeq
<1> QED BY <1>1 DEF FlattenSeq

LEMMA FlattenPushed ==
  ASSUME NEW S, NEW ss \in Seq(Seq(S)), NEW s \in Seq(S)
  PROVE  FlattenSeq(Append(ss, s)) = FlattenSeq(ss) \o s
<1> DEFINE tt == Append(ss, s)
           n == Len(ss)
<1>1. /\ tt \in Seq(Seq(S)) /\ tt # <<>> /\ n \in Nat /\ Len(tt) = n + 1
      /\ \A i \in 1 .. n : ss[i] = tt[i]
      /\ tt[n + 1] = s
  BY Pushed
<1> HIDE DEF tt
<1>2. PICK g : IsJoined(tt, n + 1, g) /\ FlattenSeq(tt) = g[n + 1]
  BY <1>1, FlattenIs
<1> HIDE DEF n
<1>3. g[n + 1] = IF n + 1 = 1 THEN s ELSE g[n] \o s
  <2>1. n + 1 \in 1 .. n + 1 /\ (n + 1) - 1 = n
    BY <1>1
  <2>2. g[n + 1] = Joined(tt, g, n + 1)
    BY <1>2, <2>1 DEF IsJoined
  <2> QED BY <1>1, <2>1, <2>2 DEF Joined
<1>4. CASE ss = <<>>
  <2>1. n = 0
    BY <1>4, EmptySeq DEF n
  <2>2. FlattenSeq(ss) \o s = s
    BY <1>4, FlattenEmpty, ConcatEmptySeq
  <2> QED BY <1>2, <1>3, <2>1, <2>2 DEF tt
<1>5. CASE ss # <<>>
  <2>1. n \in Nat \ {0}
    BY <1>5, EmptySeq DEF n
  <2>2. PICK f : IsJoined(ss, n, f) /\ FlattenSeq(ss) = f[n]
    BY <1>5, FlattenIs DEF n
  <2>3. \A i \in 1 .. n : f[i] = g[i]
    <3>1. n \in Nat /\ n + 1 \in Nat /\ n <= n + 1
      BY <1>1
    <3>2. Agree(ss, tt, n)
      BY <1>1 DEF Agree
    <3>3. Agree(f, g, n)
      BY <1>2, <2>2, <3>1, <3>2, JoinedAgree
    <3> QED BY <3>3 DEF Agree
  <2>4. FlattenSeq(ss) = g[n]
    BY <2>1, <2>2, <2>3
  <2> QED BY <1>2, <1>3, <2>1, <2>4 DEF tt
<1> QED BY <1>4, <1>5

\* What FlattenSeq makes of sequences is a sequence.
LEMMA FlattenType ==
  ASSUME NEW S, NEW ss \in Seq(Seq(S))
  PROVE  FlattenSeq(ss) \in Seq(S)
<1>1. CASE ss = <<>>
  BY <1>1, FlattenEmpty, EmptySeq
<1>2. CASE ss # <<>>
  <2> DEFINE n == Len(ss)
  <2>1. n \in Nat \ {0} /\ \A i \in 1 .. n : ss[i] \in Seq(S)
    BY <1>2, EmptySeq, ElementOfSeq
  <2>2. PICK f : IsJoined(ss, n, f) /\ FlattenSeq(ss) = f[n]
    BY <1>2, FlattenIs
  <2> HIDE DEF n
  <2> DEFINE T == {i \in 1 .. n : f[i] \notin Seq(S)}
  <2>3. T = {}
    <3> SUFFICES ASSUME T # {} PROVE FALSE
      OBVIOUS
    <3>1. T \in SUBSET Nat
      OBVIOUS
    <3>2. PICK i \in T : \A k \in T : i <= k
      <4> HIDE DEF T
      <4> QED BY <3>1, HasLeast
    <3>3. f[i] = Joined(ss, f, i) /\ i \in 1 .. n
      BY <2>2 DEF IsJoined
    <3>4. i # 1
      BY <2>1, <3>3 DEF Joined
    <3>5. i - 1 \in 1 .. n /\ ~(i <= i - 1)
      BY <2>1, <3>3, <3>4
    <3>6. f[i - 1] \in Seq(S) /\ ss[i] \in Seq(S)
      BY <2>1, <3>2, <3>3, <3>5
    <3>7. f[i - 1] \o ss[i] \in Seq(S)
      BY <3>6, ConcatProperties
    <3> QED BY <3>3, <3>4, <3>7 DEF Joined
  <2> QED BY <2>1, <2>2, <2>3
<1> QED BY <1>1, <1>2

\* One more character is sent behind the others.
LEMMA ReturnsPushed ==
  ASSUME NEW S, LF \in S, CR \in S, NEW text \in Seq(S), NEW c \in S
  PROVE  /\ Serial(c) \in Seq(S)
         /\ WithReturns(text) \in Seq(S)
         /\ WithReturns(Append(text, c)) = WithReturns(text) \o Serial(c)
<1> DEFINE ss == [i \in DOMAIN text |-> Serial(text[i])]
           more == Append(text, c)
           tt == [i \in DOMAIN more |-> Serial(more[i])]
           n == Len(text)
<1>1. /\ n \in Nat /\ DOMAIN text = 1 .. n /\ DOMAIN more = 1 .. n + 1
      /\ \A i \in 1 .. n : more[i] = text[i] /\ text[i] \in S
      /\ more[n + 1] = c
  BY Pushed
<1> HIDE DEF more, n
<1>2. \A d \in S : Serial(d) \in Seq(S)
  BY DEF Serial
<1>3. ss \in Seq(Seq(S)) /\ Len(ss) = n
  BY <1>1, <1>2
<1>4. tt \in Seq(Seq(S)) /\ Len(tt) = n + 1
  <2>1. tt = [i \in 1 .. n + 1 |-> Serial(more[i])] /\ n + 1 \in Nat
    BY <1>1
  <2>2. \A i \in 1 .. n + 1 : more[i] \in S
    BY <1>1
  <2>3. \A i \in 1 .. n + 1 : Serial(more[i]) \in Seq(S)
    BY <1>2, <2>2
  <2> HIDE DEF tt
  <2> QED BY <2>1, <2>3
<1>5. /\ Append(ss, Serial(c)) \in Seq(Seq(S)) /\ Len(Append(ss, Serial(c))) = n + 1
      /\ \A i \in 1 .. n : Append(ss, Serial(c))[i] = ss[i]
      /\ Append(ss, Serial(c))[n + 1] = Serial(c)
  <2> HIDE DEF ss
  <2>1. Serial(c) \in Seq(S)
    BY <1>2
  <2> QED BY <1>3, <2>1, AppendProperties
<1>6. \A i \in 1 .. n + 1 : tt[i] = Append(ss, Serial(c))[i]
  <2>1. \A i \in 1 .. n : tt[i] = ss[i]
    BY <1>1
  <2>2. tt[n + 1] = Serial(c)
    BY <1>1
  <2> HIDE DEF tt, ss
  <2> QED BY <1>1, <1>5, <2>1, <2>2
<1>7. WithReturns(text) = FlattenSeq(ss) /\ WithReturns(more) = FlattenSeq(tt)
  BY DEF WithReturns
<1> HIDE DEF ss, tt
<1>8. tt = Append(ss, Serial(c))
  BY <1>4, <1>5, <1>6, SeqEqual
<1>9. Serial(c) \in Seq(S)
  BY <1>2
<1> QED BY <1>3, <1>7, <1>8, <1>9, FlattenPushed, FlattenType DEF more

-----------------------------------------------------------------------------
(* The inductive invariant, for characters of a set C. *)

ConsoleTypeOK(C) ==
  /\ {LF, CR, BLANK, "?"} \subseteq C
  /\ platform \in Platforms /\ cpu \in {"boots", "runs", "halted"}
  /\ said \in Seq(C) /\ serial \in Seq(C) /\ fifo \in Seq(C) /\ wire \in Seq(C)
  /\ screen \in [Rows -> [Columns -> C]]

\* Until _initIo only the device is at work, on what the firmware left.
NothingSaid ==
  cpu = "boots" =>
    /\ said = <<>> /\ serial = <<>> /\ cursor = [row |-> 0, column |-> 0]
    /\ wire \in {<<>>, <<"?">>} /\ fifo \in {<<>>, <<"?">>}
    /\ wire = <<>> \/ fifo = <<>>

\* The system takes every character at once.
NothingWaits == platform = "linux" => cpu # "boots" /\ serial = <<>> /\ fifo = <<>>

ConsoleInv(C) == /\ ConsoleTypeOK(C) /\ NothingSaid /\ NothingWaits
                 /\ ScreenShowsText /\ WireFollowsText

\* The first of one sequence goes behind the other.
LEMMA Moved ==
  ASSUME NEW S, NEW s \in Seq(S), NEW t \in Seq(S), t # <<>>
  PROVE  /\ Head(t) \in S /\ Tail(t) \in Seq(S) /\ Append(s, Head(t)) \in Seq(S)
         /\ Append(s, Head(t)) \o Tail(t) = s \o t
<1>1. Head(t) \in S /\ Tail(t) \in Seq(S)
  BY HeadTailProperties
<1>2. Append(s, Head(t)) \in Seq(S) /\ Append(s, Head(t)) = s \o <<Head(t)>>
  BY <1>1, AppendProperties, AppendIsConcat
<1>3. <<Head(t)>> \in Seq(S)
  BY <1>1
<1>4. t = <<Head(t)>> \o Tail(t)
  <2>1. Len(t) \in Nat \ {0} /\ 1 \in 1 .. Len(t) /\ Len(t) \in 1 .. Len(t)
    BY EmptySeq
  <2>2. SubSeq(t, 1, Len(t)) = <<t[1]>> \o SubSeq(t, 2, Len(t))
    BY <2>1, SubSeqRecursiveFirst
  <2>3. SubSeq(t, 1, Len(t)) = t /\ Tail(t) = SubSeq(t, 2, Len(t))
    BY SubSeqFull, TailIsSubSeq
  <2> QED BY <2>2, <2>3
<1>5. (s \o <<Head(t)>>) \o Tail(t) = s \o (<<Head(t)>> \o Tail(t))
  BY <1>1, <1>3, ConcatAssociative
<1> QED BY <1>1, <1>2, <1>4, <1>5

LEMMA Starts ==
  ASSUME NEW text
  PROVE  Column(text, 0) = 0 /\ Line(text, 0) = 0
<1>1. Break(text, 0) = 0
  BY BreakIs
<1>2. Column(text, 0) = (0 - 0) % VGA_WIDTH
  BY <1>1, ColumnIs
<1>3. VGA_WIDTH \in Nat \ {0} /\ 0 * VGA_WIDTH + 0 = 0
  BY ConsoleAssumption
<1>4. (0 * VGA_WIDTH + 0) % VGA_WIDTH = 0
  BY <1>3, QuotientIs
<1>5. {j \in 1 .. 0 : Column(text, j) = 0} = {}
  OBVIOUS
<1>6. Line(text, 0) = 0
  BY <1>5, FS_EmptySet DEF Line
<1> QED BY <1>2, <1>3, <1>4, <1>6

\* What ScreenShowsText says of a text, a screen and a cursor.
Shown(text, cells, at) ==
  /\ at = [row |-> Line(text, Len(text)) % VGA_HEIGHT, column |-> Column(text, Len(text))]
  /\ \A i \in 1 .. Len(text) :
       text[i] # LF /\ Line(text, Len(text)) - Line(text, i - 1) < VGA_HEIGHT
         => cells[Line(text, i - 1) % VGA_HEIGHT][Column(text, i - 1)] = text[i]

\* A text without a character.
LEMMA NothingShown ==
  ASSUME NEW cells
  PROVE  Shown(<<>>, cells, [row |-> 0, column |-> 0])
<1>1. Len(<<>>) = 0
  BY EmptySeq
<1>2. VGA_HEIGHT \in Nat \ {0} /\ 0 * VGA_HEIGHT + 0 = 0
  BY ConsoleAssumption
<1>3. (0 * VGA_HEIGHT + 0) % VGA_HEIGHT = 0
  BY <1>2, QuotientIs
<1>4. Column(<<>>, 0) = 0 /\ Line(<<>>, 0) = 0
  BY Starts
<1>5. 1 .. Len(<<>>) = {}
  BY <1>1
<1> QED BY <1>1, <1>2, <1>3, <1>4, <1>5 DEF Shown

\* A row is used again only when the screen has scrolled past it.
LEMMA SameRow ==
  ASSUME NEW l \in Nat, NEW r \in Nat, l <= r, r - l < VGA_HEIGHT,
         l % VGA_HEIGHT = r % VGA_HEIGHT
  PROVE  l = r
<1> SUFFICES ASSUME l < r PROVE FALSE
  OBVIOUS
<1>1. VGA_HEIGHT \in Nat \ {0}
  BY ConsoleAssumption
<1>2. r - l >= VGA_HEIGHT
  BY <1>1, Between
<1> QED BY <1>1, <1>2

\* putCharVga puts one more character on the screen.
LEMMA OneMoreShown ==
  ASSUME NEW C, NEW text \in Seq(C), NEW c \in C,
         NEW cells \in [Rows -> [Columns -> C]], NEW at, Shown(text, cells, at)
  PROVE  LET next  == [row |-> IF at.row + 1 = VGA_HEIGHT THEN 0 ELSE at.row + 1,
                       column |-> 0]
             moved == IF c = LF \/ at.column + 1 = VGA_WIDTH THEN next
                      ELSE [at EXCEPT !.column = @ + 1]
             drawn == IF c = LF THEN cells
                      ELSE [cells EXCEPT ![at.row][at.column] = c]
         IN  Shown(Append(text, c), drawn, moved) /\ drawn \in [Rows -> [Columns -> C]]
<1> DEFINE next == [row |-> IF at.row + 1 = VGA_HEIGHT THEN 0 ELSE at.row + 1,
                    column |-> 0]
           moved == IF c = LF \/ at.column + 1 = VGA_WIDTH THEN next
                    ELSE [at EXCEPT !.column = @ + 1]
           drawn == IF c = LF THEN cells
                    ELSE [cells EXCEPT ![at.row][at.column] = c]
           more == Append(text, c)
           n == Len(text)
           r == Line(text, n)
           k == Column(text, n)
           s == Line(more, n + 1)
           j == Column(more, n + 1)
<1>1. /\ n \in Nat /\ Len(more) = n + 1 /\ more[n + 1] = c
      /\ \A i \in 1 .. n : more[i] = text[i]
  BY Pushed
<1>2. VGA_HEIGHT \in Nat \ {0}
  BY ConsoleAssumption
<1>3. \A i \in 0 .. n : Column(more, i) = Column(text, i) /\ Line(more, i) = Line(text, i)
  BY Extended
<1>4. Column(more, n) = k /\ Line(more, n) = r
  BY <1>1, <1>3
<1> HIDE DEF more, n
<1>5. j = IF c = LF \/ k + 1 = VGA_WIDTH THEN 0 ELSE k + 1
  <2>1. j = IF more[n + 1] = LF \/ Column(more, n) + 1 = VGA_WIDTH THEN 0
            ELSE Column(more, n) + 1
    BY <1>1, NextColumn
  <2> QED BY <1>1, <1>4, <2>1
<1>6. k \in Columns /\ r \in Nat
  BY <1>1, ColumnIs, NextLine
<1>7. s = IF j = 0 THEN r + 1 ELSE r
  BY <1>1, <1>4, NextLine
<1>8. at = [row |-> r % VGA_HEIGHT, column |-> k]
  BY DEF Shown, n
<1> HIDE DEF r, k, s, j
<1>9. /\ r % VGA_HEIGHT \in Rows
      /\ (r + 1) % VGA_HEIGHT = IF (r % VGA_HEIGHT) + 1 = VGA_HEIGHT THEN 0
                                ELSE (r % VGA_HEIGHT) + 1
  <2>1. r % VGA_HEIGHT \in 0 .. VGA_HEIGHT - 1
    BY <1>2, <1>6, Divided
  <2> QED BY <1>2, <1>6, <2>1, NextRest DEF Rows
<1> DEFINE a == r % VGA_HEIGHT
<1>10. moved = [row |-> s % VGA_HEIGHT, column |-> j]
  <2>1. at.row = a /\ at.column = k /\ [at EXCEPT !.column = @ + 1] = [row |-> a, column |-> k + 1]
    BY <1>8
  <2>2. k + 1 # 0
    BY <1>6 DEF Columns
  <2>3. next = [row |-> (r + 1) % VGA_HEIGHT, column |-> 0]
    BY <1>9, <2>1
  <2> HIDE DEF next
  <2>4. CASE c = LF \/ k + 1 = VGA_WIDTH
    BY <1>5, <1>7, <2>1, <2>3, <2>4
  <2>5. CASE ~(c = LF \/ k + 1 = VGA_WIDTH)
    BY <1>5, <1>7, <2>1, <2>2, <2>5
  <2> QED BY <2>4, <2>5
<1>11. drawn = IF c = LF THEN cells ELSE [cells EXCEPT ![a][k] = c]
  BY <1>8
<1> HIDE DEF moved, drawn, a
<1>12. /\ drawn \in [Rows -> [Columns -> C]]
       /\ c # LF => drawn[a][k] = c
       /\ \A u \in Rows, v \in Columns :
            c = LF \/ u # a \/ v # k => drawn[u][v] = cells[u][v]
  <2>1. a \in Rows
    BY <1>9 DEF a
  <2> QED BY <1>6, <1>11, <2>1
<1>13. ASSUME NEW i \in 1 .. n + 1, more[i] # LF,
              s - Line(more, i - 1) < VGA_HEIGHT
       PROVE  drawn[Line(more, i - 1) % VGA_HEIGHT][Column(more, i - 1)] = more[i]
  <2>1. CASE i = n + 1
    <3>1. i - 1 = n
      BY <1>1, <2>1
    <3> QED BY <1>1, <1>4, <1>12, <1>13, <2>1, <3>1 DEF a
  <2>2. CASE i # n + 1
    <3> DEFINE l == Line(text, i - 1)
               q == Column(text, i - 1)
    <3>1. i \in 1 .. n /\ i - 1 \in 0 .. n /\ i - 1 \in Nat /\ i - 1 < n
      BY <1>1, <2>2
    <3>2. Line(more, i - 1) = l /\ Column(more, i - 1) = q /\ more[i] = text[i]
      BY <1>1, <1>3, <3>1
    <3>3. l \in Nat /\ q \in Columns /\ l <= r
      BY <1>1, <3>1, ColumnIs, NextLine, LineOrder DEF r
    <3>4. l = r => q # k
      BY <1>1, <3>1, ColumnsDiffer DEF r, k
    <3>5. \A p \in 1 .. n :
            text[p] # LF /\ r - Line(text, p - 1) < VGA_HEIGHT
              => cells[Line(text, p - 1) % VGA_HEIGHT][Column(text, p - 1)] = text[p]
      BY DEF Shown, n, r
    <3>6. text[i] # LF /\ r - l < VGA_HEIGHT
      <4> HIDE DEF l
      <4> QED BY <1>2, <1>6, <1>7, <1>13, <3>2, <3>3
    <3>7. cells[l % VGA_HEIGHT][q] = text[i]
      BY <3>1, <3>5, <3>6
    <3> HIDE DEF l, q
    <3>8. l % VGA_HEIGHT \in Rows
      BY <1>2, <3>3, Divided DEF Rows
    <3>9. l % VGA_HEIGHT = a => l = r
      BY <1>6, <3>3, <3>6, SameRow DEF a
    <3>10. drawn[l % VGA_HEIGHT][q] = cells[l % VGA_HEIGHT][q]
      BY <1>12, <3>3, <3>4, <3>8, <3>9
    <3> QED BY <3>2, <3>7, <3>10
  <2> QED BY <2>1, <2>2
<1>14. Shown(more, drawn, moved)
  BY <1>1, <1>10, <1>13 DEF Shown, s, j
<1> QED BY <1>12, <1>14 DEF more, drawn, moved

LEMMA SaysNothing == WithReturns(<<>>) = <<>>
<1>1. [i \in DOMAIN <<>> |-> Serial(<<>>[i])] = <<>>
  OBVIOUS
<1> QED BY <1>1, FlattenEmpty DEF WithReturns

LEMMA Begins ==
  ASSUME NEW C, {LF, CR, BLANK, "?"} \subseteq C, ConsoleInit
  PROVE  ConsoleInv(C)
<1>1. ConsoleTypeOK(C)
  <2>1. screen \in [Rows -> [Columns -> C]]
    BY DEF ConsoleInit
  <2>2. fifo \in Seq(C)
    BY DEF ConsoleInit
  <2> QED BY <2>1, <2>2 DEF ConsoleInit, ConsoleTypeOK
<1>2. NothingSaid
  BY DEF ConsoleInit, NothingSaid
<1>3. NothingWaits
  BY DEF ConsoleInit, NothingWaits
<1>4. ScreenShowsText
  BY DEF ConsoleInit, ScreenShowsText
<1>5. WireFollowsText
  <2>1. AsSent(<<>>) = <<>>
    BY SaysNothing DEF AsSent
  <2>2. /\ wire = <<>> /\ serial = <<>> /\ said = <<>> /\ fifo \in {<<>>, <<"?">>}
        /\ fifo \in Seq(C)
    BY DEF ConsoleInit
  <2>3. wire \o fifo \o serial = fifo /\ fifo \o <<>> = fifo
    BY <2>2, ConcatEmptySeq
  <2> QED BY <2>1, <2>2, <2>3 DEF WireFollowsText
<1> QED BY <1>1, <1>2, <1>3, <1>4, <1>5 DEF ConsoleInv

\* The two halves of the invariant that speak of what a reader sees.
LEMMA ScreenIs == ScreenShowsText <=> (platform = "x86_64" /\ cpu # "boots"
                                        => Shown(said, screen, cursor))
BY DEF ScreenShowsText, Shown

LEMMA InitIoStep ==
  ASSUME NEW C, ConsoleInv(C), InitIo
  PROVE  ConsoleInv(C)'
<1>1. ConsoleTypeOK(C)'
  <2>1. screen' \in [Rows -> [Columns -> C]]
    BY DEF ConsoleInv, ConsoleTypeOK, InitIo
  <2>2. fifo' \in Seq(C)
    <3>1. fifo \in Seq(C) /\ <<>> \in Seq(C)
      BY EmptySeq DEF ConsoleInv, ConsoleTypeOK
    <3>2. fifo' = fifo \/ fifo' = <<>>
      BY DEF InitIo
    <3> QED BY <3>1, <3>2
  <2> QED BY <2>1, <2>2 DEF ConsoleInv, ConsoleTypeOK, InitIo
<1>2. NothingSaid'
  BY DEF InitIo, NothingSaid
<1>3. NothingWaits'
  BY DEF ConsoleInv, InitIo, NothingWaits
<1>4. ScreenShowsText'
  <2>1. said' = <<>> /\ cursor' = [row |-> 0, column |-> 0]
    BY DEF ConsoleInv, InitIo, NothingSaid
  <2>2. Shown(said', screen', cursor')
    BY <2>1, NothingShown
  <2> QED BY <2>2 DEF ScreenShowsText, Shown
<1>5. WireFollowsText'
  <2>1. CASE fifo' = fifo
    <3>1. WireFollowsText /\ UNCHANGED <<platform, wire, fifo, serial, said>>
      BY <2>1 DEF ConsoleInv, InitIo
    <3> QED BY <3>1 DEF WireFollowsText, AsSent
  <2>2. CASE fifo' # fifo
    <3>1. /\ fifo' = <<>> /\ serial' = <<>> /\ said' = <<>>
          /\ wire' \in {<<>>, <<"?">>} /\ wire' \in Seq(C)
      BY <2>2 DEF ConsoleInv, ConsoleTypeOK, NothingSaid, InitIo
    <3>2. wire' \o <<>> = wire'
      BY <3>1, ConcatEmptySeq
    <3>3. AsSent(said)' = <<>>
      BY <3>1, SaysNothing DEF AsSent
    <3> QED BY <3>1, <3>2, <3>3 DEF WireFollowsText
  <2> QED BY <2>1, <2>2
<1> QED BY <1>1, <1>2, <1>3, <1>4, <1>5 DEF ConsoleInv

LEMMA WriteSerialStep ==
  ASSUME NEW C, ConsoleInv(C), WriteSerial
  PROVE  ConsoleInv(C)'
<1>1. /\ serial # <<>> /\ serial \in Seq(C) /\ fifo \in Seq(C) /\ wire \in Seq(C)
      /\ UNCHANGED <<platform, cpu, queue, said, screen, cursor, wire>>
      /\ serial' = Tail(serial)
  BY DEF ConsoleInv, ConsoleTypeOK, WriteSerial
\* The line status register has promised that there is room.
<1>2. fifo' = Append(fifo, Head(serial))
  <2>1. FIFO_SIZE > 0 /\ Len(<<>>) = 0
    BY ConsoleAssumption, EmptySeq
  <2>2. Len(fifo) < FIFO_SIZE
    BY <2>1 DEF WriteSerial, Ready
  <2> QED BY <2>2 DEF WriteSerial
<1>3. /\ serial' \in Seq(C) /\ fifo' \in Seq(C)
      /\ fifo' \o serial' = fifo \o serial
  BY <1>1, <1>2, Moved
<1>4. ConsoleTypeOK(C)'
  BY <1>1, <1>3 DEF ConsoleInv, ConsoleTypeOK
<1>5. NothingSaid'
  BY <1>1 DEF ConsoleInv, NothingSaid
<1>6. NothingWaits'
  BY <1>1 DEF ConsoleInv, NothingWaits
<1>7. ScreenShowsText'
  <2>1. platform = "x86_64" /\ cpu # "boots" => Shown(said, screen, cursor)
    BY ScreenIs DEF ConsoleInv
  <2>2. platform' = "x86_64" /\ cpu' # "boots" => Shown(said', screen', cursor')
    BY <1>1, <2>1
  <2> QED BY <2>2 DEF ScreenShowsText, Shown
<1>8. WireFollowsText'
  <2>1. wire' \o fifo' \o serial' = wire \o fifo \o serial
    <3>1. (wire \o fifo') \o serial' = wire \o (fifo' \o serial')
      <4>1. wire \in Seq(C) /\ fifo' \in Seq(C) /\ serial' \in Seq(C)
        BY <1>1, <1>3
      <4> QED BY ONLY <4>1, ConcatAssociative
    <3>2. (wire \o fifo) \o serial = wire \o (fifo \o serial)
      BY <1>1, ConcatAssociative
    <3> QED BY <1>1, <1>3, <3>1, <3>2
  <2>2. AsSent(said)' = AsSent(said)
    BY <1>1 DEF AsSent
  <2> QED BY <2>1, <2>2 DEF ConsoleInv, WireFollowsText
<1> QED BY <1>4, <1>5, <1>6, <1>7, <1>8 DEF ConsoleInv

LEMMA TransmitStep ==
  ASSUME NEW C, ConsoleInv(C), Transmit
  PROVE  ConsoleInv(C)'
<1>1. /\ fifo # <<>> /\ serial \in Seq(C) /\ fifo \in Seq(C) /\ wire \in Seq(C)
      /\ UNCHANGED <<platform, cpu, queue, said, screen, cursor, serial>>
      /\ wire' = Append(wire, Head(fifo)) /\ fifo' = Tail(fifo)
  BY DEF ConsoleInv, ConsoleTypeOK, Transmit, cpuVars
<1>2. /\ wire' \in Seq(C) /\ fifo' \in Seq(C)
      /\ wire' \o fifo' = wire \o fifo
  BY <1>1, Moved
<1>3. ConsoleTypeOK(C)'
  BY <1>1, <1>2 DEF ConsoleInv, ConsoleTypeOK
<1>4. NothingSaid'
  <2> SUFFICES ASSUME cpu = "boots" PROVE wire' = <<"?">> /\ fifo' = <<>>
    BY <1>1 DEF ConsoleInv, NothingSaid
  <2>1. fifo = <<"?">> /\ wire = <<>>
    BY <1>1 DEF ConsoleInv, NothingSaid
  <2> QED BY <1>1, <2>1
<1>5. NothingWaits'
  BY <1>1 DEF ConsoleInv, NothingWaits
<1>6. ScreenShowsText'
  <2>1. platform = "x86_64" /\ cpu # "boots" => Shown(said, screen, cursor)
    BY ScreenIs DEF ConsoleInv
  <2>2. platform' = "x86_64" /\ cpu' # "boots" => Shown(said', screen', cursor')
    BY <1>1, <2>1
  <2> QED BY <2>2 DEF ScreenShowsText, Shown
<1>7. WireFollowsText'
  <2>1. AsSent(said)' = AsSent(said)
    BY <1>1 DEF AsSent
  <2> QED BY <1>1, <1>2, <2>1 DEF ConsoleInv, WireFollowsText
<1> QED BY <1>3, <1>4, <1>5, <1>6, <1>7 DEF ConsoleInv

LEMMA PutCharStep ==
  ASSUME NEW C, ConsoleInv(C), queue \in Seq(C), PutChar
  PROVE  ConsoleInv(C)'
<1> DEFINE c == Head(queue)
<1>1. /\ cpu = "runs" /\ serial = <<>> /\ queue # <<>>
      /\ said' = Append(said, c) /\ UNCHANGED <<platform, cpu, fifo>>
  BY DEF PutChar
<1>2. /\ c \in C /\ LF \in C /\ CR \in C
      /\ said \in Seq(C) /\ fifo \in Seq(C) /\ wire \in Seq(C) /\ serial \in Seq(C)
      /\ screen \in [Rows -> [Columns -> C]]
  BY <1>1, HeadTailProperties DEF ConsoleInv, ConsoleTypeOK
<1>3. /\ platform = "x86_64" => PutCharVga(c)
      /\ platform # "x86_64" => UNCHANGED <<screen, cursor>>
      /\ platform = "linux" => wire' = Append(wire, c) /\ UNCHANGED serial
      /\ platform # "linux" => serial' = Serial(c) /\ UNCHANGED wire
  BY DEF PutChar
<1> HIDE DEF c
<1>4. said' \in Seq(C)
  BY <1>1, <1>2, AppendProperties
<1>5. wire' \in Seq(C) /\ serial' \in Seq(C)
  <2>1. Serial(c) \in Seq(C) /\ Append(wire, c) \in Seq(C)
    BY <1>2, ReturnsPushed, AppendProperties
  <2> QED BY <1>2, <1>3, <2>1
<1>6. /\ screen' \in [Rows -> [Columns -> C]]
      /\ platform = "x86_64" => Shown(said', screen', cursor')
  <2>1. CASE platform = "x86_64"
    <3>1. Shown(said, screen, cursor)
      BY <1>1, <2>1, ScreenIs DEF ConsoleInv
    <3>2. /\ cursor' = IF c = LF \/ cursor.column + 1 = VGA_WIDTH
                       THEN [row |-> IF cursor.row + 1 = VGA_HEIGHT THEN 0
                                     ELSE cursor.row + 1,
                             column |-> 0]
                       ELSE [cursor EXCEPT !.column = @ + 1]
          /\ screen' = IF c = LF THEN screen
                       ELSE [screen EXCEPT ![cursor.row][cursor.column] = c]
      BY <1>3, <2>1 DEF PutCharVga, Advance, NextRow
    <3> QED BY <1>1, <1>2, <3>1, <3>2, OneMoreShown
  <2>2. CASE platform # "x86_64"
    BY <1>2, <1>3, <2>2
  <2> QED BY <2>1, <2>2
<1>7. ConsoleTypeOK(C)'
  BY <1>1, <1>2, <1>4, <1>5, <1>6 DEF ConsoleInv, ConsoleTypeOK
<1>8. NothingSaid'
  BY <1>1 DEF NothingSaid
<1>9. NothingWaits'
  BY <1>1, <1>3 DEF ConsoleInv, NothingWaits
<1>10. ScreenShowsText'
  BY <1>1, <1>6 DEF ScreenShowsText, Shown
<1>11. WireFollowsText'
  <2>1. PICK before \in {<<>>, <<"?">>} : wire \o fifo \o serial = before \o AsSent(said)
    BY DEF ConsoleInv, WireFollowsText
  <2>2. before \in Seq(C)
    <3>1. "?" \in C
      BY DEF ConsoleInv, ConsoleTypeOK
    <3>2. <<>> \in Seq(C) /\ <<"?">> \in Seq(C)
      BY <3>1
    <3> QED BY <3>2
  <2>3. wire \o fifo \in Seq(C) /\ wire \o fifo \o serial = wire \o fifo
    BY <1>1, <1>2, ConcatProperties, ConcatEmptySeq
  <2>4. CASE platform = "linux"
    <3>1. /\ fifo = <<>> /\ fifo' = <<>> /\ serial' = <<>>
          /\ AsSent(said) = said /\ AsSent(said)' = said'
      BY <1>1, <1>3, <2>4 DEF ConsoleInv, NothingWaits, AsSent
    <3>2. wire = before \o said
      BY <1>2, <2>1, <2>3, <3>1, ConcatEmptySeq
    <3>3. wire' = wire \o <<c>> /\ said' = said \o <<c>>
      <4>1. Append(wire, c) = wire \o <<c>> /\ Append(said, c) = said \o <<c>>
        BY <1>2, AppendIsConcat
      <4> QED BY <1>1, <1>3, <2>4, <4>1
    <3>4. (before \o said) \o <<c>> = before \o (said \o <<c>>)
      <4>1. said \in Seq(C) /\ <<c>> \in Seq(C)
        BY <1>2
      <4> QED BY ONLY <2>2, <4>1, ConcatAssociative
    <3>5. wire' \o fifo' \o serial' = wire'
      BY <1>5, <3>1, ConcatEmptySeq
    <3>6. wire' \o fifo' \o serial' = before \o AsSent(said)'
      BY <3>1, <3>2, <3>3, <3>4, <3>5
    <3> QED BY <3>6 DEF WireFollowsText
  <2>5. CASE platform # "linux"
    <3>1. /\ AsSent(said) = WithReturns(said) /\ AsSent(said)' = WithReturns(said')
          /\ wire' \o fifo' \o serial' = (wire \o fifo) \o Serial(c)
      BY <1>1, <1>3, <2>5 DEF AsSent
    <3>2. /\ WithReturns(said') = WithReturns(said) \o Serial(c)
          /\ WithReturns(said) \in Seq(C) /\ Serial(c) \in Seq(C)
      BY <1>1, <1>2, ReturnsPushed
    <3>3. (before \o WithReturns(said)) \o Serial(c)
            = before \o (WithReturns(said) \o Serial(c))
      BY <2>2, <3>2, ConcatAssociative
    <3>4. wire' \o fifo' \o serial' = before \o AsSent(said)'
      BY <2>1, <2>3, <3>1, <3>2, <3>3
    <3> QED BY <3>4 DEF WireFollowsText
  <2> QED BY <2>4, <2>5
<1> QED BY <1>7, <1>8, <1>9, <1>10, <1>11 DEF ConsoleInv

\* The console stays as it is, or only stops.
LEMMA QuietStep ==
  ASSUME NEW C, ConsoleInv(C),
         UNCHANGED <<platform, said, screen, cursor, serial, fifo, wire>>,
         cpu' = cpu \/ (cpu = "runs" /\ cpu' = "halted")
  PROVE  ConsoleInv(C)'
<1>1. ConsoleTypeOK(C)'
  BY DEF ConsoleInv, ConsoleTypeOK
<1>2. NothingSaid' /\ NothingWaits'
  BY DEF ConsoleInv, NothingSaid, NothingWaits
<1>3. ScreenShowsText'
  <2>1. platform = "x86_64" /\ cpu # "boots" => Shown(said, screen, cursor)
    BY ScreenIs DEF ConsoleInv
  <2>2. platform' = "x86_64" /\ cpu' # "boots" => Shown(said', screen', cursor')
    BY <2>1
  <2> QED BY <2>2 DEF ScreenShowsText, Shown
<1>4. WireFollowsText'
  <2>1. WireFollowsText /\ AsSent(said)' = AsSent(said)
    BY DEF ConsoleInv, AsSent
  <2> QED BY <2>1 DEF WireFollowsText
<1> QED BY <1>1, <1>2, <1>3, <1>4 DEF ConsoleInv

LEMMA NextStep ==
  ASSUME NEW C, ConsoleInv(C), queue \in Seq(C), [Next]_vars
  PROVE  ConsoleInv(C)'
<1>1. CASE Printf \/ PutString \/ PutStringSize
  BY <1>1, QuietStep DEF Printf, PutString, PutStringSize, NextCall
<1>2. CASE Format
  BY <1>2, QuietStep DEF Format
<1>3. CASE Halt
  BY <1>3, QuietStep DEF Halt, Abort
<1>4. CASE Processor
  BY <1>4, InitIoStep, PutCharStep, WriteSerialStep DEF Processor
<1>5. CASE Device
  BY <1>5, TransmitStep DEF Device
<1>6. CASE UNCHANGED vars
  BY <1>6, QuietStep DEF vars, consoleVars, cpuVars
<1> QED BY <1>1, <1>2, <1>3, <1>4, <1>5, <1>6 DEF Next

-----------------------------------------------------------------------------
(* The theorems.  What a program prints are characters of some set; which    *)
(* ones, and what printf makes of its format, is nothing to the console.     *)

\* The invariant of the console, of whatever is printed (_putChar, _initIo,
\* abort and the device).
THEOREM ConsoleInvariant ==
  ASSUME NEW Characters
  PROVE  Spec /\ [](queue \in Seq(Characters))
           => []ConsoleInv(Characters \cup {LF, CR, BLANK, "?"})
<1> DEFINE C == Characters \cup {LF, CR, BLANK, "?"}
           Q == queue \in Seq(Characters)
           I == ConsoleInv(C)
<1>1. Init => I
  BY Begins DEF Init
<1>2. Q /\ I /\ [Next]_vars => I'
  <2>1. Q => queue \in Seq(C)
    OBVIOUS
  <2> HIDE DEF C, Q
  <2> QED BY <2>1, NextStep
<1> HIDE DEF C, Q, I
<1>3. Spec /\ []Q => []I
  BY <1>1, <1>2, PTL DEF Spec
<1> QED BY <1>3 DEF C, Q, I

\* The last lines of what was printed are on a screen of any size, each
\* character where it belongs, and the cursor is behind the last one: scrolling
\* by wrapping around overwrites no line that is still to be seen (putCharVga).
THEOREM ScreenIsRight ==
  ASSUME NEW Characters
  PROVE  Spec /\ [](queue \in Seq(Characters)) => []ScreenShowsText
<1>1. ConsoleInv(Characters \cup {LF, CR, BLANK, "?"}) => ScreenShowsText
  BY DEF ConsoleInv
<1> QED BY <1>1, ConsoleInvariant, PTL

\* Whatever the size of the device's queue and however slowly it sends, the
\* busy wait leaves room for the byte that follows it: none is lost, doubled or
\* reordered, and each new line has its carriage return (_putChar).
THEOREM WireIsRight ==
  ASSUME NEW Characters
  PROVE  Spec /\ [](queue \in Seq(Characters)) => []WireFollowsText
<1>1. ConsoleInv(Characters \cup {LF, CR, BLANK, "?"}) => WireFollowsText
  BY DEF ConsoleInv
<1> QED BY <1>1, ConsoleInvariant, PTL
=============================================================================
