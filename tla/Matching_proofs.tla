-------------------------- MODULE Matching_proofs --------------------------
(* Theorems about Matching.                                                  *)
EXTENDS Matching, FiniteSetTheorems, SequenceTheorems,
        WellFoundedInduction, TLAPS

-----------------------------------------------------------------------------
(* Recursive functions.  Those of Rtti descend to the bases of a class, which *)
(* have smaller numbers, or to the base looked at before.                     *)

\* A set of numbers that is not empty has a least one.
LEMMA HasLeast ==
  ASSUME NEW T \in SUBSET Nat, T # {}
  PROVE  \E m \in T : \A n \in T : m <= n
<1>1. PICK m \in T : \A n \in T : <<n, m>> \notin OpToRel(<, Nat)
  BY NatLessThanWellFounded, WFMin
<1>2. \A n \in T : ~(n < m)
  BY <1>1 DEF OpToRel
<1> QED BY <1>2

\* What holds of an argument when it holds of all of smaller rank holds of all.
LEMMA ByRank ==
  ASSUME NEW D, NEW rank \in [D -> Nat], NEW G,
         \A x \in D : (\A y \in D : rank[y] < rank[x] => y \in G) => x \in G
  PROVE  D \subseteq G
<1> SUFFICES ASSUME NEW z \in D, z \notin G PROVE FALSE
  OBVIOUS
<1> DEFINE T == {rank[x] : x \in {y \in D : y \notin G}}
<1>1. T \in SUBSET Nat /\ T # {}
  OBVIOUS
<1>2. PICK m \in T : \A n \in T : m <= n
  <2> HIDE DEF T
  <2> QED BY <1>1, HasLeast
<1>3. PICK x \in D : x \notin G /\ rank[x] = m
  BY <1>2
<1>4. \A y \in D : y \notin G => rank[x] <= rank[y]
  BY <1>2, <1>3
<1>5. \A y \in D : rank[y] < rank[x] => y \in G
  <2> SUFFICES ASSUME NEW y \in D, rank[y] < rank[x], y \notin G PROVE FALSE
    OBVIOUS
  <2>1. rank[x] <= rank[y] /\ rank[x] \in Nat /\ rank[y] \in Nat
    BY <1>4
  <2> QED BY <2>1
<1> QED BY <1>3, <1>5

\* The same, counted up to n.
LEMMA ByCount ==
  ASSUME NEW n \in Nat, NEW G, 0 \in G, \A k \in 1 .. n : k - 1 \in G => k \in G
  PROVE  \A k \in 0 .. n : k \in G
<1> DEFINE D == 0 .. n
           rank == [k \in D |-> k]
<1>1. rank \in [D -> Nat]
  OBVIOUS
<1>2. ASSUME NEW k \in D, \A y \in D : rank[y] < rank[k] => y \in G
      PROVE  k \in G
  <2>1. k # 0 => k - 1 \in D /\ rank[k - 1] < rank[k] /\ k \in 1 .. n
    OBVIOUS
  <2> HIDE DEF D, rank
  <2> QED BY <1>2, <2>1
<1>3. D \subseteq G
  <2> HIDE DEF D, rank
  <2> QED BY <1>1, <1>2, ByRank
<1> QED BY <1>3

\* H makes the value for an argument from those for arguments of smaller rank.
Descends(D, R, rank, H) ==
  \A f, g \in [D -> R], x \in D :
    (\A y \in D : rank[y] < rank[x] => f[y] = g[y]) => H[f][x] = H[g][x]

\* Some function is what H makes of it.
Recursive(D, R, H) == \E f \in [D -> R] : f = H[f]

\* A step that descends has a function that it leaves as it is.
LEMMA Recursion ==
  ASSUME NEW D, NEW R, R # {}, NEW rank, rank \in [D -> Nat],
         NEW H, H \in [[D -> R] -> [D -> R]], Descends(D, R, rank, H)
  PROVE  Recursive(D, R, H)
<1> USE DEF Descends
<1> DEFINE Good(f, n) == \A x \in D : rank[x] < n => f[x] = H[f][x]
           T == {n \in Nat : ~\E f \in [D -> R] : Good(f, n)}
<1>1. \A f \in [D -> R] : H[f] \in [D -> R]
  OBVIOUS
<1>2. \A f, g \in [D -> R], n \in Nat, x \in D :
        Good(f, n) /\ Good(g, n) /\ rank[x] < n => f[x] = g[x]
  <2> TAKE f, g \in [D -> R], n \in Nat
  <2> SUFFICES ASSUME Good(f, n), Good(g, n)
               PROVE  \A x \in D : rank[x] < n => f[x] = g[x]
    OBVIOUS
  <2> DEFINE G == {x \in D : rank[x] < n => f[x] = g[x]}
  <2>1. ASSUME NEW x \in D, \A y \in D : rank[y] < rank[x] => y \in G
        PROVE  x \in G
    <3> SUFFICES ASSUME rank[x] < n PROVE f[x] = g[x]
      OBVIOUS
    <3>1. \A y \in D : rank[y] < rank[x] => f[y] = g[y]
      <4> SUFFICES ASSUME NEW y \in D, rank[y] < rank[x] PROVE f[y] = g[y]
        OBVIOUS
      <4>1. rank[y] < n
        OBVIOUS
      <4> QED BY <2>1, <4>1
    <3>2. H[f][x] = H[g][x]
      BY <3>1
    <3> QED BY <3>2
  <2> HIDE DEF G
  <2>2. D \subseteq G
    BY <2>1, ByRank
  <2> QED BY <2>2 DEF G
<1>3. T = {}
  <2> SUFFICES ASSUME T # {} PROVE FALSE
    OBVIOUS
  <2>1. PICK m \in T : \A n \in T : m <= n
    <3>1. T \in SUBSET Nat
      OBVIOUS
    <3> HIDE DEF T
    <3> QED BY <3>1, HasLeast
  <2>2. m # 0
    <3>1. PICK r \in R : TRUE
      OBVIOUS
    <3>2. [x \in D |-> r] \in [D -> R] /\ Good([x \in D |-> r], 0)
      OBVIOUS
    <3> QED BY <3>2
  <2>3. m - 1 \in Nat /\ m - 1 \notin T
    BY <2>1, <2>2
  <2>4. PICK f \in [D -> R] : Good(f, m - 1)
    BY <2>3
  <2>5. H[f] \in [D -> R]
    BY <1>1
  <2> DEFINE g == H[f]
  <2>6. ASSUME NEW x \in D, rank[x] < m PROVE g[x] = H[g][x]
    <3>1. \A y \in D : rank[y] < rank[x] => f[y] = g[y]
      <4> SUFFICES ASSUME NEW y \in D, rank[y] < rank[x] PROVE f[y] = g[y]
        OBVIOUS
      <4>1. rank[y] < m - 1
        BY <2>6
      <4> QED BY <2>4, <4>1
    <3> HIDE DEF g
    <3>2. H[f][x] = H[g][x]
      BY <2>5, <3>1 DEF g
    <3> QED BY <3>2 DEF g
  <2>7. Good(g, m)
    BY <2>6
  <2> QED BY <2>1, <2>5, <2>7
<1> DEFINE Pick(n) == CHOOSE f \in [D -> R] : Good(f, n)
<1>4. \A n \in Nat : Pick(n) \in [D -> R] /\ Good(Pick(n), n)
  <2> SUFFICES ASSUME NEW n \in Nat
               PROVE  \E f \in [D -> R] : Good(f, n)
    <3> HIDE DEF Good
    <3> QED OBVIOUS
  <2> QED BY <1>3
<1> DEFINE h == [x \in D |-> Pick(rank[x] + 1)[x]]
<1> HIDE DEF Pick
<1>5. h \in [D -> R]
  BY <1>4
<1>6. ASSUME NEW x \in D PROVE h[x] = H[h][x]
  <2> DEFINE p == Pick(rank[x] + 1)
  <2>1. p \in [D -> R] /\ Good(p, rank[x] + 1) /\ rank[x] \in Nat
    BY <1>4
  <2>2. h[x] = p[x]
    OBVIOUS
  <2>3. p[x] = H[p][x]
    BY <2>1
  <2>4. \A y \in D : rank[y] < rank[x] => p[y] = h[y]
    <3> SUFFICES ASSUME NEW y \in D, rank[y] < rank[x] PROVE p[y] = h[y]
      OBVIOUS
    <3> DEFINE q == Pick(rank[y] + 1)
    <3>1. q \in [D -> R] /\ Good(q, rank[y] + 1) /\ rank[y] \in Nat
      BY <1>4
    <3>2. h[y] = q[y]
      OBVIOUS
    <3> HIDE DEF p, q
    <3>3. Good(p, rank[y] + 1)
      BY <2>1, <3>1
    <3>4. rank[y] < rank[y] + 1 /\ rank[y] + 1 \in Nat
      BY <3>1
    <3> HIDE DEF Good
    <3>5. q[y] = p[y]
      BY <1>2, <2>1, <3>1, <3>3, <3>4
    <3> QED BY <3>2, <3>5
  <2> HIDE DEF p, h
  <2>5. H[p][x] = H[h][x]
    BY <1>5, <2>1, <2>4
  <2> QED BY <2>2, <2>3, <2>5
<1>7. h = H[h]
  <2> HIDE DEF h
  <2>1. H[h] \in [D -> R]
    BY <1>1, <1>5
  <2> QED BY <1>5, <1>6, <2>1
<1> QED BY <1>5, <1>7 DEF Recursive

-----------------------------------------------------------------------------
(* The hierarchies. *)

BaseInfo == [type : Classes, virtual : BOOLEAN, public : BOOLEAN]

Hierarchy ==
  /\ whole \in Classes
  /\ bases \in [Classes -> Seq(BaseInfo)]
  /\ \A c \in Classes : \A i \in DOMAIN bases[c] : bases[c][i].type < c
  /\ flags = [c \in Classes |-> Flags(c)]

LEMMA ClassFacts ==
  /\ Cardinality(Classes) \in Nat
  /\ \A c \in Classes : c \in Nat /\ c # 0 /\ 1 .. c \subseteq Classes
  /\ Origin \in Nat
<1>1. Cardinality(Classes) \in Nat
  BY RttiAssumption, FS_CardinalityType
<1> QED BY <1>1, RttiAssumption

LEMMA BaseFacts ==
  ASSUME Hierarchy, NEW c \in Classes
  PROVE  /\ Len(bases[c]) \in Nat /\ DOMAIN bases[c] = 1 .. Len(bases[c])
         /\ bases[c] = <<>> <=> Len(bases[c]) = 0
         /\ \A i \in DOMAIN bases[c] :
              /\ bases[c][i].type \in Classes /\ bases[c][i].type < c
              /\ bases[c][i].virtual \in BOOLEAN
              /\ bases[c][i].public \in BOOLEAN
<1>1. bases[c] \in Seq(BaseInfo)
  BY DEF Hierarchy
<1>2. \A i \in 1 .. Len(bases[c]) : bases[c][i] \in BaseInfo
  BY <1>1, ElementOfSeq
<1>3. Len(bases[c]) \in Nat /\ DOMAIN bases[c] = 1 .. Len(bases[c])
  BY <1>1, LenProperties
<1>4. bases[c] = <<>> <=> Len(bases[c]) = 0
  BY <1>1, EmptySeq
<1>5. \A i \in DOMAIN bases[c] : bases[c][i].type < c
  BY DEF Hierarchy
<1> QED BY <1>2, <1>3, <1>4, <1>5 DEF BaseInfo

\* The sums of the first numbers of s, as a function.
AreSums(f, s, n) == /\ f \in [0 .. n -> Nat]
                    /\ f[0] = 0 /\ \A k \in 1 .. n : f[k] = f[k - 1] + s[k]

LEMMA SumIsFunction ==
  ASSUME NEW n \in Nat, NEW s, \A k \in 1 .. n : s[k] \in Nat
  PROVE  \E f : AreSums(f, s, n) /\ SumTo(s, n) = f[n]
<1> DEFINE D == 0 .. n
           rank == [k \in D |-> k]
           H == [f \in [D -> Nat] |->
                   [k \in D |-> IF k = 0 THEN 0 ELSE f[k - 1] + s[k]]]
           sum == CHOOSE f : f = [k \in D |-> IF k = 0 THEN 0 ELSE f[k - 1] + s[k]]
<1>1. rank \in [D -> Nat]
  OBVIOUS
<1>2. H \in [[D -> Nat] -> [D -> Nat]]
  <2>1. ASSUME NEW f \in [D -> Nat], NEW k \in D
        PROVE  (IF k = 0 THEN 0 ELSE f[k - 1] + s[k]) \in Nat
    <3>1. CASE k # 0
      <4>1. k - 1 \in D /\ k \in 1 .. n
        BY <3>1
      <4>2. f[k - 1] \in Nat /\ s[k] \in Nat
        BY <4>1
      <4> QED BY <3>1, <4>2
    <3> QED BY <3>1
  <2> QED BY <2>1
<1>3. ASSUME NEW f \in [D -> Nat], NEW g \in [D -> Nat], NEW x \in D,
             \A y \in D : rank[y] < rank[x] => f[y] = g[y]
      PROVE  H[f][x] = H[g][x]
  <2>1. x # 0 => f[x - 1] = g[x - 1]
    BY <1>3
  <2> QED BY <2>1
<1>4. Recursive(D, Nat, H)
  <2> HIDE DEF D, rank, H
  <2>1. Descends(D, Nat, rank, H)
    BY <1>3 DEF Descends
  <2>2. Nat # {}
    OBVIOUS
  <2> QED BY <1>1, <1>2, <2>1, <2>2, Recursion
<1>5. PICK f \in [D -> Nat] : f = [k \in D |-> IF k = 0 THEN 0 ELSE f[k - 1] + s[k]]
  BY <1>4 DEF Recursive
<1>6. sum = [k \in D |-> IF k = 0 THEN 0 ELSE sum[k - 1] + s[k]]
  BY <1>5
<1>7. SumTo(s, n) = sum[n]
  BY DEF SumTo
<1> HIDE DEF sum
<1>8. sum[0] = 0 /\ \A k \in 1 .. n : sum[k] = sum[k - 1] + s[k]
  BY <1>6
<1> DEFINE G == {k \in D : sum[k] \in Nat}
<1>9. ASSUME NEW k \in D, \A y \in D : rank[y] < rank[k] => y \in G
      PROVE  k \in G
  <2>1. CASE k = 0
    BY <1>8, <2>1
  <2>2. CASE k # 0
    <3>1. k - 1 \in D /\ k - 1 \in G /\ k \in 1 .. n
      BY <1>9, <2>2
    <3>2. sum[k] = sum[k - 1] + s[k]
      BY <1>8, <3>1
    <3> QED BY <3>1, <3>2
  <2> QED BY <2>1, <2>2
<1>10. D \subseteq G
  <2> HIDE DEF D, rank, G
  <2> QED BY <1>1, <1>9, ByRank
<1>11. sum \in [D -> Nat]
  BY <1>6, <1>10
<1> QED BY <1>7, <1>8, <1>11 DEF AreSums

\* Each number adds to the sum, and the sums grow.
LEMMA SumFacts ==
  ASSUME NEW n \in Nat, NEW s, \A k \in 1 .. n : s[k] \in Nat
  PROVE  /\ \A k \in 0 .. n : SumTo(s, k) \in Nat
         /\ \A k \in 1 .. n : SumTo(s, k) = SumTo(s, k - 1) + s[k]
         /\ \A j, k \in 0 .. n : j <= k => SumTo(s, j) <= SumTo(s, k)
<1>0. PICK f : AreSums(f, s, n)
  BY SumIsFunction
<1>1. /\ f \in [0 .. n -> Nat]
      /\ f[0] = 0 /\ \A k \in 1 .. n : f[k] = f[k - 1] + s[k]
  BY <1>0 DEF AreSums
<1>2. ASSUME NEW m \in 0 .. n PROVE SumTo(s, m) = f[m]
  <2>1. m \in Nat /\ \A k \in 1 .. m : s[k] \in Nat
    OBVIOUS
  <2>0. PICK g : AreSums(g, s, m) /\ SumTo(s, m) = g[m]
    BY <2>1, SumIsFunction
  <2>2. /\ SumTo(s, m) = g[m]
        /\ g[0] = 0 /\ \A k \in 1 .. m : g[k] = g[k - 1] + s[k]
    BY <2>0 DEF AreSums
  <2> DEFINE D == 0 .. m
             rank == [k \in D |-> k]
             G == {k \in D : f[k] = g[k]}
  <2>3. ASSUME NEW k \in D, \A y \in D : rank[y] < rank[k] => y \in G
        PROVE  k \in G
    <3>1. CASE k = 0
      BY <1>1, <2>2, <3>1
    <3>2. CASE k # 0
      <4>1. k - 1 \in D /\ k - 1 \in G /\ k \in 1 .. m /\ k \in 1 .. n
        BY <2>3, <3>2
      <4> QED BY <1>1, <2>2, <4>1
    <3> QED BY <3>1, <3>2
  <2>4. rank \in [D -> Nat]
    OBVIOUS
  <2>5. D \subseteq G
    <3> HIDE DEF D, rank, G
    <3> QED BY <2>3, <2>4, ByRank
  <2> QED BY <2>2, <2>5
<1>3. ASSUME NEW j \in 0 .. n PROVE \A k \in 0 .. n : j <= k => f[j] <= f[k]
  <2> DEFINE D == 0 .. n
             rank == [k \in D |-> k]
             G == {k \in D : j <= k => f[j] <= f[k]}
  <2>1. ASSUME NEW k \in D, \A y \in D : rank[y] < rank[k] => y \in G
        PROVE  k \in G
    <3>1. CASE k <= j
      <4>1. f[j] \in Nat /\ f[k] \in Nat /\ (j <= k => j = k)
        BY <1>1, <3>1
      <4> QED BY <4>1
    <3>2. CASE ~(k <= j)
      <4>1. k - 1 \in D /\ k - 1 \in G /\ k \in 1 .. n /\ j <= k - 1
        BY <2>1, <3>2
      <4>2. f[k] = f[k - 1] + s[k] /\ f[j] <= f[k - 1]
        BY <1>1, <4>1
      <4>3. f[k] \in Nat /\ f[k - 1] \in Nat /\ s[k] \in Nat /\ f[j] \in Nat
        BY <1>1, <4>1
      <4> QED BY <4>2, <4>3
    <3> QED BY <3>1, <3>2
  <2>2. rank \in [D -> Nat]
    OBVIOUS
  <2>3. D \subseteq G
    <3> HIDE DEF D, rank, G
    <3> QED BY <2>1, <2>2, ByRank
  <2> QED BY <2>3
<1>4. \A k \in 0 .. n : f[k] \in Nat
  BY <1>1
<1>5. ASSUME NEW k \in 1 .. n PROVE SumTo(s, k) = SumTo(s, k - 1) + s[k]
  <2>1. k \in 0 .. n /\ k - 1 \in 0 .. n
    OBVIOUS
  <2>2. SumTo(s, k) = f[k] /\ SumTo(s, k - 1) = f[k - 1]
    BY <1>2, <2>1
  <2> QED BY <1>1, <2>2
<1> QED BY <1>2, <1>3, <1>4, <1>5

\* What a class takes from the sizes of its bases.
LEMMA PartsFacts ==
  ASSUME Hierarchy, NEW c \in Classes, NEW f,
         \A y \in Classes : y < c => f[y] \in Nat
  PROVE  /\ \A k \in 1 .. Len(bases[c]) : Parts(c, f)[k] \in Nat
         /\ \A k \in 0 .. Len(bases[c]) : SumTo(Parts(c, f), k) \in Nat
<1>1. \A k \in 1 .. Len(bases[c]) : Parts(c, f)[k] \in Nat
  BY BaseFacts DEF Parts
<1>2. Len(bases[c]) \in Nat
  BY BaseFacts
<1> QED BY <1>1, <1>2, SumFacts

LEMMA SizeFacts ==
  ASSUME Hierarchy
  PROVE  /\ \A c \in Classes : Size[c] \in Nat
         /\ \A c \in Classes : Size[c] = 1 + SumTo(Parts(c, Size), Len(bases[c]))
         /\ \A c \in Classes : \A k \in 0 .. Len(bases[c]) : SumTo(Parts(c, Size), k) \in Nat
<1> DEFINE rank == [c \in Classes |-> c]
           H == [f \in [Classes -> Nat] |->
                   [c \in Classes |-> 1 + SumTo(Parts(c, f), Len(bases[c]))]]
<1>1. rank \in [Classes -> Nat]
  BY ClassFacts
<1>2. H \in [[Classes -> Nat] -> [Classes -> Nat]]
  <2>1. ASSUME NEW f \in [Classes -> Nat], NEW c \in Classes
        PROVE  1 + SumTo(Parts(c, f), Len(bases[c])) \in Nat
    <3>1. Len(bases[c]) \in 0 .. Len(bases[c])
      BY BaseFacts
    <3> QED BY <3>1, PartsFacts
  <2> QED BY <2>1
<1>3. ASSUME NEW f \in [Classes -> Nat], NEW g \in [Classes -> Nat], NEW x \in Classes,
             \A y \in Classes : rank[y] < rank[x] => f[y] = g[y]
      PROVE  H[f][x] = H[g][x]
  <2>1. \A y \in Classes : y < x => f[y] = g[y]
    BY <1>3
  <2>2. Parts(x, f) = Parts(x, g)
    BY <2>1, BaseFacts DEF Parts
  <2> QED BY <2>2
<1>4. Recursive(Classes, Nat, H)
  <2> HIDE DEF rank, H
  <2>1. Descends(Classes, Nat, rank, H)
    BY <1>3 DEF Descends
  <2>2. Nat # {}
    OBVIOUS
  <2> QED BY <1>1, <1>2, <2>1, <2>2, Recursion
<1>5. PICK f \in [Classes -> Nat] :
        f = [c \in Classes |-> 1 + SumTo(Parts(c, f), Len(bases[c]))]
  BY <1>4 DEF Recursive
<1>6. Size = [c \in Classes |-> 1 + SumTo(Parts(c, Size), Len(bases[c]))]
  BY <1>5 DEF Size
<1> DEFINE G == {c \in Classes : Size[c] \in Nat}
<1>7. ASSUME NEW c \in Classes, \A y \in Classes : rank[y] < rank[c] => y \in G
      PROVE  c \in G
  <2>1. \A y \in Classes : y < c => Size[y] \in Nat
    BY <1>7
  <2>2. SumTo(Parts(c, Size), Len(bases[c])) \in Nat
    BY <2>1, PartsFacts, BaseFacts
  <2> QED BY <1>6, <2>2
<1>8. Classes \subseteq G
  <2> HIDE DEF rank, G
  <2> QED BY <1>1, <1>7, ByRank
<1>9. \A c \in Classes : Size[c] \in Nat
  BY <1>8
<1>10. \A c \in Classes : Size[c] = 1 + SumTo(Parts(c, Size), Len(bases[c]))
  BY <1>6
<1> QED BY <1>9, <1>10, PartsFacts

\* A base that is not virtual lies within its class.
LEMMA OffsetFacts ==
  ASSUME Hierarchy, NEW c \in Classes, NEW i \in DOMAIN bases[c]
  PROVE  /\ Offset(c, i) \in Nat
         /\ ~bases[c][i].virtual => Offset(c, i) + Size[bases[c][i].type] < Size[c]
<1> DEFINE p == Parts(c, Size)
           n == Len(bases[c])
<1>1. n \in Nat /\ \A k \in 1 .. n : p[k] \in Nat
  BY PartsFacts, SizeFacts, BaseFacts
<1>2. i \in 1 .. n /\ i - 1 \in 0 .. n /\ i \in 0 .. n /\ n \in 0 .. n /\ i <= n
  BY BaseFacts
<1>3. Size[c] = 1 + SumTo(p, n) /\ Size[c] \in Nat
  BY SizeFacts
<1>4. Offset(c, i) = SumTo(p, i - 1)
  BY DEF Offset
<1>5. ~bases[c][i].virtual => p[i] = Size[bases[c][i].type]
  BY DEF Parts
<1> HIDE DEF p, n
<1>6. SumTo(p, i - 1) \in Nat /\ SumTo(p, i) \in Nat /\ SumTo(p, n) \in Nat
  BY <1>1, <1>2, SumFacts
<1>7. SumTo(p, i) = SumTo(p, i - 1) + p[i] /\ SumTo(p, i) <= SumTo(p, n)
  BY <1>1, <1>2, SumFacts
<1> QED BY <1>1, <1>2, <1>3, <1>4, <1>5, <1>6, <1>7

\* The virtual bases lie behind the object, one behind the other.
LEMMA VirtualFacts ==
  ASSUME Hierarchy, NEW v \in Classes
  PROVE  /\ VirtualAt(v) \in Nat /\ (Origin # 0 => VirtualAt(v) # 0)
         /\ Origin + Size[whole] <= VirtualAt(v)
         /\ \A u \in Classes : IsVirtualBase(u) /\ u < v
                                 => VirtualAt(u) + Size[u] <= VirtualAt(v)
<1> DEFINE s == [u \in Classes |-> IF IsVirtualBase(u) THEN Size[u] ELSE 0]
           n == v - 1
           start == Origin + Size[whole]
<1>1. n \in Nat /\ n \in 0 .. n /\ \A k \in 1 .. n : k \in Classes
  BY ClassFacts
<1>2. \A k \in 1 .. n : s[k] \in Nat
  BY <1>1, SizeFacts
<1>3. start \in Nat /\ (Origin # 0 => start # 0)
  BY SizeFacts, ClassFacts DEF Hierarchy
<1>4. \A u \in Classes : VirtualAt(u) = start + SumTo(s, u - 1)
  BY DEF VirtualAt
<1>5. \A u \in Classes : IsVirtualBase(u) => s[u] = Size[u]
  OBVIOUS
<1>6. \A u \in Classes : u < v => u \in 1 .. n /\ u - 1 \in 0 .. n /\ u \in 0 .. n /\ u <= n
  BY ClassFacts
<1>7. VirtualAt(v) = start + SumTo(s, n) /\ start = Origin + Size[whole]
  BY <1>4
<1> HIDE DEF s, n, start
<1>8. /\ \A k \in 0 .. n : SumTo(s, k) \in Nat
      /\ \A k \in 1 .. n : SumTo(s, k) = SumTo(s, k - 1) + s[k]
      /\ \A k \in 0 .. n : k <= n => SumTo(s, k) <= SumTo(s, n)
  BY <1>1, <1>2, SumFacts
<1>9. ASSUME NEW u \in Classes, IsVirtualBase(u), u < v
      PROVE  VirtualAt(u) + Size[u] <= VirtualAt(v)
  <2>1. u \in 1 .. n /\ u - 1 \in 0 .. n /\ u \in 0 .. n /\ u <= n
    BY <1>6, <1>9
  <2>2. SumTo(s, u - 1) \in Nat /\ SumTo(s, u) \in Nat /\ SumTo(s, n) \in Nat /\ s[u] \in Nat
    BY <1>1, <1>2, <1>8, <2>1
  <2>3. SumTo(s, u) = SumTo(s, u - 1) + s[u] /\ SumTo(s, u) <= SumTo(s, n)
    BY <1>8, <2>1
  <2>4. VirtualAt(u) = start + SumTo(s, u - 1) /\ s[u] = Size[u]
    BY <1>4, <1>5, <1>9
  <2> QED BY <1>3, <1>7, <2>2, <2>3, <2>4
<1> QED BY <1>1, <1>3, <1>7, <1>8, <1>9

\* Where subobjects lie: a number, and the address of no null pointer but for
\* an object at address 0.
LEMMA Converted ==
  ASSUME Hierarchy, NEW c \in Classes, NEW i \in DOMAIN bases[c], NEW at \in Nat
  PROVE  /\ ConvertToBase(c, i, 0) \in Nat
         /\ ConvertToBase(c, i, at) \in Nat
         /\ ConvertToBase(c, i, at) = IF bases[c][i].virtual
                                      THEN ConvertToBase(c, i, 0)
                                      ELSE at + ConvertToBase(c, i, 0)
         /\ at # 0 /\ Origin # 0 => ConvertToBase(c, i, at) # 0
<1>1. Offset(c, i) \in Nat
  BY OffsetFacts
<1>2. bases[c][i].type \in Classes
  BY BaseFacts
<1>3. /\ VirtualAt(bases[c][i].type) \in Nat
      /\ Origin # 0 => VirtualAt(bases[c][i].type) # 0
  BY <1>2, VirtualFacts
<1> QED BY <1>1, <1>3 DEF ConvertToBase

-----------------------------------------------------------------------------
(* The ways down from a class. *)

Way == [type : Classes, at : Nat, public : BOOLEAN, virtual : BOOLEAN, route : Seq(Nat)]

\* What a way becomes when it is taken from a class that has its class as base.
LEMMA ThroughFacts ==
  ASSUME Hierarchy, NEW c \in Classes, NEW i \in DOMAIN bases[c], NEW w \in Way
  PROVE  /\ Through(c, i, w) \in Way
         /\ Through(c, i, w).type = w.type
         /\ Through(c, i, w).at = IF w.virtual THEN w.at ELSE ConvertToBase(c, i, 0) + w.at
         /\ Through(c, i, w).public = (w.public /\ bases[c][i].public)
         /\ Through(c, i, w).virtual = (w.virtual \/ bases[c][i].virtual)
<1> DEFINE t == [type |-> w.type,
                 at |-> IF w.virtual THEN w.at ELSE ConvertToBase(c, i, 0) + w.at,
                 public |-> w.public /\ bases[c][i].public,
                 virtual |-> w.virtual \/ bases[c][i].virtual,
                 route |-> <<i>> \o w.route]
<1>1. /\ w.type \in Classes /\ w.at \in Nat /\ w.public \in BOOLEAN
      /\ w.virtual \in BOOLEAN /\ w.route \in Seq(Nat)
  BY DEF Way
<1>2. Through(c, i, w) = t
  BY DEF Through, Way
<1>3. ConvertToBase(c, i, 0) \in Nat
  BY Converted
<1>4. <<i>> \o w.route \in Seq(Nat)
  <2>1. i \in Nat
    BY BaseFacts
  <2>2. <<i>> \in Seq(Nat)
    BY <2>1
  <2> QED BY <1>1, <2>2, ConcatProperties
<1>5. /\ t.type \in Classes /\ t.at \in Nat /\ t.public \in BOOLEAN
      /\ t.virtual \in BOOLEAN /\ t.route \in Seq(Nat)
  BY <1>1, <1>3, <1>4
<1>6. t \in Way
  BY <1>5 DEF Way
<1> HIDE DEF Way, Through
<1> QED BY <1>2, <1>6

LEMMA HereFacts ==
  ASSUME NEW c \in Classes
  PROVE  /\ Here(c) \in Way /\ Here(c).type = c /\ Here(c).at = 0
         /\ Here(c).public /\ ~Here(c).virtual
BY DEF Here, Way

LEMMA RoutesFacts ==
  ASSUME Hierarchy
  PROVE  /\ Routes \in [Classes -> SUBSET Way]
         /\ \A c \in Classes :
              Routes[c] = {Here(c)} \cup UNION {{Through(c, i, w) : w \in Routes[bases[c][i].type]} :
                                                i \in DOMAIN bases[c]}
<1> DEFINE rank == [c \in Classes |-> c]
           Step(c, f) == {Here(c)} \cup UNION {{Through(c, i, w) : w \in f[bases[c][i].type]} :
                                             i \in DOMAIN bases[c]}
           H == [f \in [Classes -> SUBSET Way] |-> [c \in Classes |-> Step(c, f)]]
<1>1. rank \in [Classes -> Nat]
  BY ClassFacts
<1>2. H \in [[Classes -> SUBSET Way] -> [Classes -> SUBSET Way]]
  <2>1. ASSUME NEW f \in [Classes -> SUBSET Way], NEW c \in Classes
        PROVE  Step(c, f) \in SUBSET Way
    <3>1. ASSUME NEW i \in DOMAIN bases[c], NEW w \in f[bases[c][i].type]
          PROVE  Through(c, i, w) \in Way
      <4>1. w \in Way
        BY BaseFacts
      <4> QED BY <4>1, ThroughFacts
    <3> QED BY <3>1, HereFacts
  <2> HIDE DEF Step
  <2> QED BY <2>1
<1>3. ASSUME NEW f \in [Classes -> SUBSET Way], NEW g \in [Classes -> SUBSET Way],
             NEW x \in Classes, \A y \in Classes : rank[y] < rank[x] => f[y] = g[y]
      PROVE  H[f][x] = H[g][x]
  <2>1. \A y \in Classes : y < x => f[y] = g[y]
    BY <1>3
  <2>2. \A i \in DOMAIN bases[x] : f[bases[x][i].type] = g[bases[x][i].type]
    BY <2>1, BaseFacts
  <2>3. Step(x, f) = Step(x, g)
    BY <2>2
  <2> HIDE DEF Step
  <2> QED BY <2>3
<1>4. Recursive(Classes, SUBSET Way, H)
  <2> HIDE DEF rank, H
  <2>1. Descends(Classes, SUBSET Way, rank, H)
    BY <1>3 DEF Descends
  <2>2. SUBSET Way # {}
    OBVIOUS
  <2> QED BY <1>1, <1>2, <2>1, <2>2, Recursion
<1>5. PICK f \in [Classes -> SUBSET Way] : f = [c \in Classes |-> Step(c, f)]
  <2> HIDE DEF Step
  <2> QED BY <1>4 DEF Recursive
<1>6. Routes = [c \in Classes |-> Step(c, Routes)]
  BY <1>5 DEF Routes
<1>7. Routes \in [Classes -> SUBSET Way]
  <2> DEFINE G == {c \in Classes : Routes[c] \in SUBSET Way}
  <2>1. ASSUME NEW c \in Classes, \A y \in Classes : rank[y] < rank[c] => y \in G
        PROVE  c \in G
    <3>1. \A i \in DOMAIN bases[c] : Routes[bases[c][i].type] \in SUBSET Way
      BY <2>1, BaseFacts
    <3>2. ASSUME NEW i \in DOMAIN bases[c], NEW w \in Routes[bases[c][i].type]
          PROVE  Through(c, i, w) \in Way
      BY <3>1, ThroughFacts
    <3>3. Step(c, Routes) \in SUBSET Way
      BY <3>2, HereFacts
    <3> HIDE DEF Step
    <3> QED BY <1>6, <3>3
  <2>2. Classes \subseteq G
    <3> HIDE DEF rank, G
    <3> QED BY <1>1, <2>1, ByRank
  <2> HIDE DEF Step
  <2> QED BY <1>6, <2>2
<1> HIDE DEF Step
<1>8. \A c \in Classes : Routes[c] = Step(c, Routes)
  BY <1>6
<1> QED BY <1>7, <1>8 DEF Step

\* A way stays in the class, or goes to a base first.
LEMMA RoutesSplit ==
  ASSUME Hierarchy, NEW c \in Classes
  PROVE  /\ \A w \in Routes[c] : w \in Way
         /\ Here(c) \in Routes[c]
         /\ \A i \in DOMAIN bases[c] : \A v \in Routes[bases[c][i].type] :
              v \in Way /\ Through(c, i, v) \in Routes[c]
         /\ \A w \in Routes[c] :
              \/ w = Here(c)
              \/ \E i \in DOMAIN bases[c] : \E v \in Routes[bases[c][i].type] :
                   w = Through(c, i, v)
<1>1. \A b \in Classes : Routes[b] \subseteq Way
  BY RoutesFacts
<1>2. Routes[c] = {Here(c)} \cup UNION {{Through(c, i, w) : w \in Routes[bases[c][i].type]} :
                                        i \in DOMAIN bases[c]}
  BY RoutesFacts
<1>3. \A i \in DOMAIN bases[c] : bases[c][i].type \in Classes
  BY BaseFacts
<1> QED BY <1>1, <1>2, <1>3

\* Where a way ends that goes through no virtual base, and where one that does.
Inside(c, w) == ~w.virtual => w.at < Size[c]
Behind(c, w) == w.virtual => \E u \in Classes : /\ u < c /\ IsVirtualBase(u)
                                                /\ VirtualAt(u) <= w.at
                                                /\ w.at < VirtualAt(u) + Size[u]

LEMMA WayFacts ==
  ASSUME Hierarchy
  PROVE  \A c \in Classes : \A w \in Routes[c] :
           /\ w.type <= c /\ (w.type = c => w = Here(c))
           /\ Inside(c, w) /\ Behind(c, w)
<1> DEFINE rank == [c \in Classes |-> c]
           G == {c \in Classes : \A w \in Routes[c] :
                   /\ w.type <= c /\ (w.type = c => w = Here(c))
                   /\ Inside(c, w) /\ Behind(c, w)}
<1>1. rank \in [Classes -> Nat]
  BY ClassFacts
<1>2. ASSUME NEW c \in Classes, \A y \in Classes : rank[y] < rank[c] => y \in G
      PROVE  c \in G
  <2> SUFFICES ASSUME NEW w \in Routes[c]
               PROVE  /\ w.type <= c /\ (w.type = c => w = Here(c))
                      /\ Inside(c, w) /\ Behind(c, w)
    OBVIOUS
  <2>1. CASE w = Here(c)
    <3>1. Size[c] \in Nat /\ c \in Nat
      BY SizeFacts, ClassFacts
    <3>2. Size[c] > 0
      <4>1. SumTo(Parts(c, Size), Len(bases[c])) \in Nat
        BY SizeFacts, BaseFacts
      <4>2. Size[c] = 1 + SumTo(Parts(c, Size), Len(bases[c]))
        BY SizeFacts
      <4> QED BY <4>1, <4>2
    <3> QED BY <2>1, <3>1, <3>2, HereFacts DEF Inside, Behind
  <2>2. CASE \E i \in DOMAIN bases[c] : \E v \in Routes[bases[c][i].type] : w = Through(c, i, v)
    <3>0. PICK i \in DOMAIN bases[c] : \E v \in Routes[bases[c][i].type] : w = Through(c, i, v)
      BY <2>2
    <3>1. PICK v \in Routes[bases[c][i].type] : w = Through(c, i, v)
      BY <3>0
    <3> DEFINE b == bases[c][i].type
    <3>2. b \in Classes /\ b < c /\ b \in Nat /\ c \in Nat
      BY BaseFacts, ClassFacts
    <3>3. v.type <= b /\ Inside(b, v) /\ Behind(b, v)
      BY <1>2, <3>1, <3>2
    <3>4. v \in Way
      BY <3>1, RoutesSplit
    <3>5. v.type \in Nat /\ v.at \in Nat /\ v.virtual \in BOOLEAN
      BY <3>4, ClassFacts DEF Way
    <3>6. /\ w.type = v.type
          /\ w.at = IF v.virtual THEN v.at ELSE ConvertToBase(c, i, 0) + v.at
          /\ w.virtual = (v.virtual \/ bases[c][i].virtual)
      BY <3>1, <3>4, ThroughFacts
    <3>7. w.type < c
      BY <3>2, <3>3, <3>5, <3>6
    <3>8. Size[b] \in Nat /\ Size[c] \in Nat
      BY <3>2, SizeFacts
    <3>9. bases[c][i].virtual \in BOOLEAN
      BY BaseFacts
    <3>10. Inside(c, w)
      <4> SUFFICES ASSUME ~w.virtual PROVE w.at < Size[c]
        BY DEF Inside
      <4>1. ~v.virtual /\ ~bases[c][i].virtual
        BY <3>6, <3>5, <3>9
      <4>2. v.at < Size[b]
        BY <3>3, <4>1 DEF Inside
      <4>3. ConvertToBase(c, i, 0) = Offset(c, i) /\ Offset(c, i) \in Nat
        BY <4>1, OffsetFacts DEF ConvertToBase
      <4>4. Offset(c, i) + Size[b] < Size[c]
        BY <4>1, OffsetFacts
      <4>5. w.at = Offset(c, i) + v.at
        BY <3>6, <4>1, <4>3
      <4> HIDE DEF b
      <4> QED BY <3>5, <3>8, <4>2, <4>3, <4>4, <4>5
    <3>11. Behind(c, w)
      <4> SUFFICES ASSUME w.virtual
                   PROVE  \E u \in Classes : /\ u < c /\ IsVirtualBase(u)
                                             /\ VirtualAt(u) <= w.at
                                             /\ w.at < VirtualAt(u) + Size[u]
        BY DEF Behind
      <4>1. CASE v.virtual
        <5>1. PICK u \in Classes : /\ u < b /\ IsVirtualBase(u)
                                   /\ VirtualAt(u) <= v.at
                                   /\ v.at < VirtualAt(u) + Size[u]
          BY <3>3, <4>1 DEF Behind
        <5>2. u < c /\ w.at = v.at
          BY <3>2, <3>6, <4>1, <5>1, ClassFacts
        <5> QED BY <5>1, <5>2
      <4>2. CASE ~v.virtual
        <5>1. bases[c][i].virtual
          BY <3>5, <3>6, <3>9, <4>2
        <5>2. v.at < Size[b]
          BY <3>3, <4>2 DEF Inside
        <5>3. VirtualAt(b) \in Nat /\ w.at = VirtualAt(b) + v.at
          BY <3>2, <3>6, <4>2, <5>1, VirtualFacts DEF ConvertToBase
        <5>4. IsVirtualBase(b)
          BY <5>1 DEF IsVirtualBase
        <5>5. VirtualAt(b) <= w.at /\ w.at < VirtualAt(b) + Size[b]
          <6> HIDE DEF b
          <6> QED BY <3>5, <3>8, <5>2, <5>3
        <5> QED BY <3>2, <5>4, <5>5
      <4> QED BY <4>1, <4>2
    <3>12. w.type # c /\ w.type <= c
      BY <3>2, <3>5, <3>6, <3>7
    <3> QED BY <3>10, <3>11, <3>12
  <2> QED BY <2>1, <2>2, RoutesSplit
<1>3. Classes \subseteq G
  <2> HIDE DEF rank, G
  <2> QED BY <1>1, <1>2, ByRank
<1> QED BY <1>3

\* A base that a class has twice, its bases have twice in it.
LEMMA RepeatsBelow ==
  ASSUME Hierarchy, NEW c \in Classes, NEW i \in DOMAIN bases[c],
         Repeats(bases[c][i].type)
  PROVE  Repeats(c)
<1> DEFINE b == bases[c][i].type
<1>1. b \in Classes /\ b < c
  BY BaseFacts
<1>2. PICK v, w \in Routes[b] : v.type = w.type /\ ~SameObject(v, w)
  BY DEF Repeats
<1>3. v \in Way /\ w \in Way
  BY <1>2, RoutesSplit
<1>4. Through(c, i, v) \in Routes[c] /\ Through(c, i, w) \in Routes[c]
  BY <1>2, RoutesSplit
<1>5. /\ v.virtual \in BOOLEAN /\ w.virtual \in BOOLEAN /\ v.at \in Nat /\ w.at \in Nat
      /\ bases[c][i].virtual \in BOOLEAN /\ ConvertToBase(c, i, 0) \in Nat
  BY <1>3, BaseFacts, Converted DEF Way
<1>6. /\ Through(c, i, v).type = v.type
      /\ Through(c, i, v).at = IF v.virtual THEN v.at ELSE ConvertToBase(c, i, 0) + v.at
      /\ Through(c, i, v).virtual = (v.virtual \/ bases[c][i].virtual)
  BY <1>3, ThroughFacts
<1>7. /\ Through(c, i, w).type = w.type
      /\ Through(c, i, w).at = IF w.virtual THEN w.at ELSE ConvertToBase(c, i, 0) + w.at
      /\ Through(c, i, w).virtual = (w.virtual \/ bases[c][i].virtual)
  BY <1>3, ThroughFacts
<1>8. ASSUME NEW x \in Routes[b], NEW y \in Routes[b], x.virtual, ~y.virtual,
             bases[c][i].virtual
      PROVE  x.at < ConvertToBase(c, i, 0) + y.at
  <2>1. x \in Way /\ y \in Way
    BY <1>8, RoutesSplit
  <2>2. PICK u \in Classes : /\ u < b /\ IsVirtualBase(u)
                             /\ x.at < VirtualAt(u) + Size[u]
    BY <1>1, <1>8, WayFacts DEF Behind
  <2>3. VirtualAt(u) + Size[u] <= VirtualAt(b) /\ VirtualAt(u) \in Nat /\ VirtualAt(b) \in Nat
    BY <1>1, <2>2, VirtualFacts
  <2>4. ConvertToBase(c, i, 0) = VirtualAt(b)
    BY <1>8 DEF ConvertToBase
  <2>5. x.at \in Nat /\ y.at \in Nat /\ Size[u] \in Nat
    BY <2>1, SizeFacts DEF Way
  <2> HIDE DEF b
  <2> QED BY <2>2, <2>3, <2>4, <2>5
<1>9. ~SameObject(Through(c, i, v), Through(c, i, w))
  <2>1. v.at # w.at \/ v.virtual # w.virtual
    BY <1>2 DEF SameObject
  <2>2. CASE v.virtual = w.virtual
    <3>1. Through(c, i, v).at # Through(c, i, w).at
      BY <1>5, <1>6, <1>7, <2>1, <2>2
    <3> QED BY <3>1 DEF SameObject
  <2>3. CASE v.virtual # w.virtual /\ ~bases[c][i].virtual
    <3>1. Through(c, i, v).virtual # Through(c, i, w).virtual
      BY <1>5, <1>6, <1>7, <2>3
    <3> QED BY <3>1 DEF SameObject
  <2>4. CASE v.virtual /\ ~w.virtual /\ bases[c][i].virtual
    <3>1. Through(c, i, v).at = v.at /\ Through(c, i, w).at = ConvertToBase(c, i, 0) + w.at
      BY <1>6, <1>7, <2>4
    <3>2. v.at < ConvertToBase(c, i, 0) + w.at
      BY <1>2, <1>8, <2>4
    <3> QED BY <1>5, <3>1, <3>2 DEF SameObject
  <2>5. CASE ~v.virtual /\ w.virtual /\ bases[c][i].virtual
    <3>1. Through(c, i, w).at = w.at /\ Through(c, i, v).at = ConvertToBase(c, i, 0) + v.at
      BY <1>6, <1>7, <2>5
    <3>2. w.at < ConvertToBase(c, i, 0) + v.at
      BY <1>2, <1>8, <2>5
    <3> QED BY <1>5, <3>1, <3>2 DEF SameObject
  <2> QED BY <1>5, <2>2, <2>3, <2>4, <2>5
<1> QED BY <1>2, <1>4, <1>6, <1>7, <1>9 DEF Repeats

-----------------------------------------------------------------------------
(* The walk of __do_upcast. *)

Result == [dst : Nat, part : SUBSET BITS, base : Int, found : BOOLEAN]

LEMMA ResultFields ==
  ASSUME NEW r
  PROVE  r \in Result <=> /\ r = [dst |-> r.dst, part |-> r.part, base |-> r.base,
                                 found |-> r.found]
                          /\ r.dst \in Nat /\ r.part \in SUBSET BITS
                          /\ r.base \in Int /\ r.found \in BOOLEAN
BY DEF Result

LEMMA InBaseFields ==
  ASSUME Hierarchy, NEW c \in Classes, NEW i \in DOMAIN bases[c], NEW r \in Result
  PROVE  /\ InBase(c, i, r) \in Result
         /\ InBase(c, i, r).dst = r.dst
         /\ InBase(c, i, r).part = IF Contained(r.part) /\ ~bases[c][i].public
                                   THEN r.part \ {"public"} ELSE r.part
         /\ InBase(c, i, r).base = IF r.base = NONVIRTUAL /\ bases[c][i].virtual
                                   THEN bases[c][i].type ELSE r.base
         /\ InBase(c, i, r).found = r.found
<1>1. bases[c][i].type \in Int
  BY BaseFacts, ClassFacts
<1> QED BY <1>1 DEF InBase, Result

LEMMA MergeUpFields ==
  ASSUME NEW c, NEW r \in Result, NEW s \in Result
  PROVE  /\ MergeUp(c, r, s) \in Result
         /\ r.base = NULL =>
              /\ MergeUp(c, r, s).dst = s.dst /\ MergeUp(c, r, s).part = s.part
              /\ MergeUp(c, r, s).base = s.base /\ (MergeUp(c, r, s).found <=> Settled(c, s))
         /\ r.base # NULL /\ r.dst # s.dst =>
              /\ MergeUp(c, r, s).dst = NULL /\ MergeUp(c, r, s).part = AMBIG
              /\ MergeUp(c, r, s).base = r.base /\ MergeUp(c, r, s).found
         /\ r.base # NULL /\ r.dst = s.dst /\ r.dst # NULL =>
              /\ MergeUp(c, r, s).dst = r.dst /\ MergeUp(c, r, s).part = r.part \cup s.part
              /\ MergeUp(c, r, s).base = r.base /\ MergeUp(c, r, s).found = r.found
<1>1. CASE r.base = NULL
  BY <1>1 DEF MergeUp, Result, Settled
<1>2. CASE r.base # NULL /\ r.dst # s.dst
  BY <1>2 DEF MergeUp, Result, NULL, AMBIG, BITS
<1>3. CASE r.base # NULL /\ r.dst = s.dst
  BY <1>3 DEF MergeUp, Result, AMBIG, BITS, NULL
<1> QED BY <1>1, <1>2, <1>3

LEMMA FlagsFacts ==
  ASSUME Hierarchy, NEW c \in Classes
  PROVE  /\ "repeat" \in flags[c] <=> Repeats(c)
         /\ \A d \in SUBSET DETAILS :
              /\ Details(c, d) \in SUBSET DETAILS
              /\ "repeat" \in Details(c, d) => "repeat" \in d \/ Repeats(c)
<1>1. flags[c] = Flags(c)
  BY DEF Hierarchy
<1> QED BY <1>1 DEF Flags, Details, DETAILS

LEMMA AskBaseFields ==
  ASSUME Hierarchy, NEW a \in Upcasts, NEW i \in DOMAIN bases[a.class]
  PROVE  /\ AskBase(a, i) \in Upcasts
         /\ AskBase(a, i).class = bases[a.class][i].type
         /\ AskBase(a, i).dst = a.dst
         /\ AskBase(a, i).obj = IF a.obj = NULL THEN NULL
                                ELSE ConvertToBase(a.class, i, a.obj)
         /\ AskBase(a, i).details = Details(a.class, a.details)
<1>1. a.class \in Classes /\ a.dst \in Classes /\ a.obj \in Nat /\ a.details \in SUBSET DETAILS
  BY DEF Upcasts
<1>2. Details(a.class, a.details) \in SUBSET DETAILS
  BY <1>1, FlagsFacts
<1>3. bases[a.class][i].type \in Classes
  BY <1>1, BaseFacts
<1>4. ConvertToBase(a.class, i, a.obj) \in Nat
  BY <1>1, Converted
<1> HIDE DEF Details
<1> QED BY <1>1, <1>2, <1>3, <1>4 DEF AskBase, Upcasts, NULL

\* The results after each base, from the last base to the first.
AreResults(after, a, answers) ==
  LET n == Len(bases[a.class])
  IN  /\ after \in [0 .. n -> Result]
      /\ after[0] = NotFound
      /\ \A k \in 1 .. n : after[k] = Visit(a, after[k - 1], n + 1 - k, answers[n + 1 - k])

LEMMA VisitType ==
  ASSUME Hierarchy, NEW a \in Upcasts, NEW i \in DOMAIN bases[a.class],
         NEW r \in Result, NEW r2 \in Result
  PROVE  Visit(a, r, i, r2) \in Result
<1>1. a.class \in Classes
  BY DEF Upcasts
<1>2. InBase(a.class, i, r2) \in Result
  BY <1>1, InBaseFields
<1>3. MergeUp(a.class, r, InBase(a.class, i, r2)) \in Result
  BY <1>2, MergeUpFields
<1> QED BY <1>3 DEF Visit

\* The return of a vmi class: found, if the part is known.
Returned(r) == [r EXCEPT !.found = r.part # UNKNOWN]

LEMMA ReturnedFields ==
  ASSUME NEW r \in Result
  PROVE  /\ Returned(r) \in Result
         /\ Returned(r).dst = r.dst /\ Returned(r).part = r.part
         /\ Returned(r).base = r.base
         /\ r.part # UNKNOWN => Returned(r).found
         /\ r = NotFound => Returned(r) = NotFound
<1>1. CASE r.part = UNKNOWN
  <2>1. (r.part # UNKNOWN) = FALSE
    BY <1>1
  <2>2. Returned(r) = [r EXCEPT !.found = FALSE]
    BY <2>1, Zenon DEF Returned
  <2>3. [r EXCEPT !.found = FALSE] \in Result
    BY DEF Result
  <2>4. r = NotFound => [r EXCEPT !.found = FALSE] = NotFound
    <3>1. [r EXCEPT !.found = r.found] = r
      BY Zenon DEF Result
    <3>2. r = NotFound => r.found = FALSE
      BY DEF NotFound
    <3> QED BY <3>1, <3>2, Zenon
  <2> QED BY <1>1, <2>2, <2>3, <2>4 DEF Result
<1>2. CASE r.part # UNKNOWN
  <2>1. (r.part # UNKNOWN) = TRUE
    BY <1>2
  <2>2. Returned(r) = [r EXCEPT !.found = TRUE]
    BY <2>1, Zenon DEF Returned
  <2>3. [r EXCEPT !.found = TRUE] \in Result
    BY DEF Result
  <2>4. r # NotFound
    BY <1>2 DEF NotFound
  <2> QED BY <2>2, <2>3, <2>4 DEF Result
<1> QED BY <1>1, <1>2

LEMMA NotFoundType == NotFound \in Result
BY DEF NotFound, Result, NULL, UNKNOWN, BITS

LEMMA AllVisitedFacts ==
  ASSUME Hierarchy, NEW a \in Upcasts, NEW answers,
         \A i \in DOMAIN bases[a.class] : answers[i] \in Result
  PROVE  \E after : /\ AreResults(after, a, answers)
                    /\ AllVisited(a, answers) = after[Len(bases[a.class])]
<1> DEFINE n == Len(bases[a.class])
           D == 0 .. n
           Step(k, f) == IF k = 0 THEN NotFound
                         ELSE Visit(a, f[k - 1], n + 1 - k, answers[n + 1 - k])
           rank == [k \in D |-> k]
           H == [f \in [D -> Result] |-> [k \in D |-> Step(k, f)]]
           after == CHOOSE f : f = [k \in D |-> Step(k, f)]
<1>0. a.class \in Classes
  BY DEF Upcasts
<1>n. n \in Nat /\ \A k \in 1 .. n : n + 1 - k \in DOMAIN bases[a.class]
  BY <1>0, BaseFacts
<1>1. rank \in [D -> Nat]
  BY <1>n
<1>s. ASSUME NEW f, NEW k \in D, k # 0 => f[k - 1] \in Result
      PROVE  Step(k, f) \in Result
  <2>1. CASE k = 0
    BY <2>1, NotFoundType
  <2>2. CASE k # 0
    <3>1. n + 1 - k \in DOMAIN bases[a.class]
      BY <1>n, <2>2
    <3>2. answers[n + 1 - k] \in Result
      BY <3>1
    <3>3. Visit(a, f[k - 1], n + 1 - k, answers[n + 1 - k]) \in Result
      BY <1>s, <2>2, <3>1, <3>2, VisitType
    <3> QED BY <2>2, <3>3
  <2> QED BY <2>1, <2>2
<1>2. H \in [[D -> Result] -> [D -> Result]]
  <2>1. ASSUME NEW f \in [D -> Result], NEW k \in D PROVE Step(k, f) \in Result
    <3>1. k # 0 => f[k - 1] \in Result
      BY <1>n
    <3> HIDE DEF Step, n
    <3> QED BY <1>s, <3>1
  <2> HIDE DEF Step
  <2> QED BY <2>1
<1>3. ASSUME NEW f \in [D -> Result], NEW g \in [D -> Result], NEW x \in D,
             \A y \in D : rank[y] < rank[x] => f[y] = g[y]
      PROVE  H[f][x] = H[g][x]
  <2>1. x # 0 => x - 1 \in D /\ rank[x - 1] < rank[x]
    BY <1>n
  <2>2. x # 0 => f[x - 1] = g[x - 1]
    <3> HIDE DEF D, rank, H
    <3> QED BY <1>3, <2>1
  <2>3. Step(x, f) = Step(x, g)
    BY <2>2
  <2> HIDE DEF Step
  <2> QED BY <2>3
<1>4. Recursive(D, Result, H)
  <2> HIDE DEF D, rank, H
  <2>1. Descends(D, Result, rank, H)
    BY <1>3 DEF Descends
  <2>2. Result # {}
    BY NotFoundType
  <2> QED BY <1>1, <1>2, <2>1, <2>2, Recursion
<1>5. PICK f \in [D -> Result] : f = [k \in D |-> Step(k, f)]
  <2> HIDE DEF Step
  <2> QED BY <1>4 DEF Recursive
<1>6. after = [k \in D |-> Step(k, after)]
  BY <1>5
<1>7. AllVisited(a, answers) = after[n]
  BY DEF AllVisited
<1> HIDE DEF after
<1>8. \A k \in D : after[k] = Step(k, after)
  <2> HIDE DEF Step
  <2> QED BY <1>6
<1> DEFINE G == {k \in D : after[k] \in Result}
<1>9. ASSUME NEW k \in D, \A y \in D : rank[y] < rank[k] => y \in G
      PROVE  k \in G
  <2>1. k # 0 => after[k - 1] \in Result
    <3> SUFFICES ASSUME k # 0 PROVE after[k - 1] \in Result
      OBVIOUS
    <3>1. k - 1 \in D /\ rank[k - 1] < rank[k]
      BY <1>n
    <3>2. k - 1 \in G
      <4> HIDE DEF D, rank, G
      <4> QED BY <1>9, <3>1
    <3> QED BY <3>2
  <2> HIDE DEF Step, D
  <2> QED BY <1>s, <1>8, <2>1
<1>10. D \subseteq G
  <2> HIDE DEF D, rank, G
  <2> QED BY <1>1, <1>9, ByRank
<1>11. after \in [D -> Result]
  <2> HIDE DEF Step
  <2> QED BY <1>6, <1>10
<1>12. after[0] = NotFound
  BY <1>n, <1>8
<1>13. \A k \in 1 .. n : after[k] = Visit(a, after[k - 1], n + 1 - k, answers[n + 1 - k])
  BY <1>n, <1>8
<1>14. AreResults(after, a, answers)
  BY <1>11, <1>12, <1>13 DEF AreResults
<1> QED BY <1>7, <1>14

\* __do_upcast of a class asks its bases and puts their answers together.
Answers(a) == [i \in DOMAIN bases[a.class] |-> DoUpcast[AskBase(a, i)]]

LEMMA UpcastByType ==
  ASSUME Hierarchy, NEW a \in Upcasts, NEW answers,
         \A i \in DOMAIN bases[a.class] : answers[i] \in Result
  PROVE  UpcastBy(a, answers) \in Result
<1>1. a.class \in Classes /\ a.obj \in Nat
  BY DEF Upcasts
<1>2. PICK after : /\ AreResults(after, a, answers)
                   /\ AllVisited(a, answers) = after[Len(bases[a.class])]
  BY AllVisitedFacts
<1> DEFINE all == AllVisited(a, answers)
<1>3. all \in Result
  BY <1>1, <1>2, BaseFacts DEF AreResults
<1>4. Returned(all) \in Result
  <2> HIDE DEF all
  <2> QED BY <1>3, ReturnedFields
<1>5. [dst |-> a.obj, part |-> PUBLIC, base |-> NONVIRTUAL, found |-> TRUE] \in Result
  BY <1>1 DEF Result, PUBLIC, BITS, NONVIRTUAL
<1>6. ~IsLeaf(a.class) /\ IsSi(a.class) => answers[1] \in Result
  BY <1>1, BaseFacts DEF IsSi
<1>7. CASE a.class # a.dst /\ ~IsLeaf(a.class) /\ ~IsSi(a.class)
  <2>1. UpcastBy(a, answers) = Returned(all)
    BY <1>7, Zenon DEF UpcastBy, Returned
  <2> QED BY <1>4, <2>1
<1>8. CASE ~(a.class # a.dst /\ ~IsLeaf(a.class) /\ ~IsSi(a.class))
  BY <1>5, <1>6, <1>8, NotFoundType, Zenon DEF UpcastBy
<1> QED BY <1>7, <1>8

LEMMA DoUpcastFacts ==
  ASSUME Hierarchy
  PROVE  \A a \in Upcasts : DoUpcast[a] \in Result /\ DoUpcast[a] = UpcastBy(a, Answers(a))
<1> DEFINE rank == [a \in Upcasts |-> a.class]
           Ask(a, f) == [i \in DOMAIN bases[a.class] |-> f[AskBase(a, i)]]
           H == [f \in [Upcasts -> Result] |-> [a \in Upcasts |-> UpcastBy(a, Ask(a, f))]]
<1>1. rank \in [Upcasts -> Nat]
  BY ClassFacts DEF Upcasts
<1>2. ASSUME NEW a \in Upcasts, NEW i \in DOMAIN bases[a.class]
      PROVE  AskBase(a, i) \in Upcasts /\ rank[AskBase(a, i)] < rank[a]
  <2>1. a.class \in Classes
    BY DEF Upcasts
  <2> QED BY <2>1, BaseFacts, AskBaseFields
<1>3. H \in [[Upcasts -> Result] -> [Upcasts -> Result]]
  <2>1. ASSUME NEW f \in [Upcasts -> Result], NEW a \in Upcasts
        PROVE  UpcastBy(a, Ask(a, f)) \in Result
    <3>1. \A i \in DOMAIN bases[a.class] : Ask(a, f)[i] \in Result
      BY <1>2
    <3> HIDE DEF Ask
    <3> QED BY <3>1, UpcastByType
  <2> HIDE DEF Ask
  <2> QED BY <2>1
<1>4. ASSUME NEW f \in [Upcasts -> Result], NEW g \in [Upcasts -> Result],
             NEW x \in Upcasts, \A y \in Upcasts : rank[y] < rank[x] => f[y] = g[y]
      PROVE  H[f][x] = H[g][x]
  <2>1. \A i \in DOMAIN bases[x.class] : f[AskBase(x, i)] = g[AskBase(x, i)]
    <3> HIDE DEF rank, H
    <3> QED BY <1>2, <1>4
  <2>2. Ask(x, f) = Ask(x, g)
    BY <2>1
  <2> HIDE DEF Ask
  <2> QED BY <2>2
<1>5. Recursive(Upcasts, Result, H)
  <2> HIDE DEF rank, H
  <2>1. Descends(Upcasts, Result, rank, H)
    BY <1>4 DEF Descends
  <2>2. Result # {}
    BY NotFoundType
  <2> QED BY <1>1, <1>3, <2>1, <2>2, Recursion
<1>6. PICK f \in [Upcasts -> Result] : f = [a \in Upcasts |-> UpcastBy(a, Ask(a, f))]
  <2> HIDE DEF Ask
  <2> QED BY <1>5 DEF Recursive
<1>7. DoUpcast = [a \in Upcasts |-> UpcastBy(a, Ask(a, DoUpcast))]
  BY <1>6 DEF DoUpcast
<1>8. \A a \in Upcasts : DoUpcast[a] = UpcastBy(a, Answers(a))
  <2>1. \A a \in Upcasts : Answers(a) = Ask(a, DoUpcast)
    BY DEF Answers
  <2> HIDE DEF Ask
  <2> QED BY <1>7, <2>1
<1> DEFINE G == {a \in Upcasts : DoUpcast[a] \in Result}
<1>9. ASSUME NEW a \in Upcasts, \A y \in Upcasts : rank[y] < rank[a] => y \in G
      PROVE  a \in G
  <2>1. \A i \in DOMAIN bases[a.class] : DoUpcast[AskBase(a, i)] \in Result
    <3> HIDE DEF rank
    <3> QED BY <1>2, <1>9
  <2>2. \A i \in DOMAIN bases[a.class] : Answers(a)[i] \in Result
    BY <2>1 DEF Answers
  <2>3. UpcastBy(a, Answers(a)) \in Result
    BY <2>2, UpcastByType
  <2> QED BY <1>8, <2>3
<1>10. Upcasts \subseteq G
  <2> HIDE DEF rank, G
  <2> QED BY <1>1, <1>9, ByRank
<1> QED BY <1>8, <1>10

-----------------------------------------------------------------------------
(* The ways to a class, and where the walk finds it. *)

To(c, d) == {w \in Routes[c] : w.type = d}
WhereIs(w, obj) == IF obj = NULL THEN NULL ELSE Place(w, obj)

\* An object at an address has no base at the null address.
Somewhere(obj) == obj # NULL => Origin # NULL

LEMMA WhereFacts ==
  ASSUME Hierarchy, NEW c \in Classes, NEW w \in Routes[c], NEW obj \in Nat
  PROVE  /\ WhereIs(w, obj) \in Nat
         /\ Somewhere(obj) => (WhereIs(w, obj) = NULL <=> obj = NULL)
         /\ WhereIs(Here(c), obj) = obj
<1>1. w \in Way
  BY RoutesSplit
<1>2. w.at \in Nat /\ w.virtual \in BOOLEAN
  BY <1>1 DEF Way
<1>3. w.virtual /\ Origin # 0 => w.at # 0
  <2> SUFFICES ASSUME w.virtual, Origin # 0 PROVE w.at # 0
    OBVIOUS
  <2>1. PICK u \in Classes : VirtualAt(u) <= w.at
    BY WayFacts DEF Behind
  <2>2. VirtualAt(u) \in Nat /\ VirtualAt(u) # 0
    BY VirtualFacts
  <2> QED BY <1>2, <2>1, <2>2
<1> QED BY <1>2, <1>3, HereFacts DEF WhereIs, Somewhere, Place, NULL

\* The ways from a base are the ways from the class through that base.
LEMMA BelowFacts ==
  ASSUME Hierarchy, NEW a \in Upcasts, NEW i \in DOMAIN bases[a.class], Somewhere(a.obj),
         NEW v \in To(bases[a.class][i].type, a.dst)
  PROVE  /\ Through(a.class, i, v) \in To(a.class, a.dst)
         /\ WhereIs(Through(a.class, i, v), a.obj) = WhereIs(v, AskBase(a, i).obj)
         /\ Through(a.class, i, v).public = (v.public /\ bases[a.class][i].public)
<1> DEFINE c == a.class
           obj == a.obj
           t == Through(c, i, v)
<1>1. c \in Classes /\ obj \in Nat
  BY DEF Upcasts
<1>2. v \in Way /\ t \in Routes[c] /\ v.type = a.dst
  BY <1>1, RoutesSplit DEF To
<1>3. v.at \in Nat /\ v.virtual \in BOOLEAN /\ bases[c][i].virtual \in BOOLEAN
  BY <1>1, <1>2, BaseFacts DEF Way
<1>4. /\ t.type = v.type
      /\ t.at = IF v.virtual THEN v.at ELSE ConvertToBase(c, i, 0) + v.at
      /\ t.public = (v.public /\ bases[c][i].public)
      /\ t.virtual = (v.virtual \/ bases[c][i].virtual)
  BY <1>1, <1>2, ThroughFacts
<1>5. AskBase(a, i).obj = IF obj = NULL THEN NULL ELSE ConvertToBase(c, i, obj)
  BY AskBaseFields
<1>6. /\ ConvertToBase(c, i, 0) \in Nat /\ ConvertToBase(c, i, obj) \in Nat
      /\ ConvertToBase(c, i, obj) = IF bases[c][i].virtual THEN ConvertToBase(c, i, 0)
                                    ELSE obj + ConvertToBase(c, i, 0)
      /\ obj # 0 /\ Origin # 0 => ConvertToBase(c, i, obj) # 0
  BY <1>1, Converted
<1>7. t \in To(c, a.dst)
  BY <1>2, <1>4 DEF To
<1>8. WhereIs(t, obj) = WhereIs(v, AskBase(a, i).obj)
  <2> HIDE DEF c, obj, t
  <2>1. CASE obj = NULL
    BY <1>5, <2>1 DEF WhereIs
  <2>2. CASE obj # NULL
    <3>1. AskBase(a, i).obj = ConvertToBase(c, i, obj) /\ ConvertToBase(c, i, obj) # NULL
      BY <1>5, <1>6, <2>2 DEF obj, Somewhere, NULL
    <3>2. Place(t, obj) = Place(v, ConvertToBase(c, i, obj))
      BY <1>1, <1>3, <1>4, <1>6 DEF Place
    <3> QED BY <2>2, <3>1, <3>2 DEF WhereIs
  <2> QED BY <2>1, <2>2
<1> QED BY <1>4, <1>7, <1>8

\* Nothing else leads to another class.
LEMMA ToFacts ==
  ASSUME Hierarchy, NEW c \in Classes, NEW d
  PROVE  /\ c = d => To(c, d) = {Here(c)}
         /\ c # d => \A w \in To(c, d) : \E i \in DOMAIN bases[c] :
                       \E v \in To(bases[c][i].type, d) : w = Through(c, i, v)
<1>1. c = d => To(c, d) = {Here(c)}
  BY RoutesSplit, HereFacts, WayFacts DEF To
<1>2. ASSUME c # d, NEW w \in To(c, d)
      PROVE  \E i \in DOMAIN bases[c] : \E v \in To(bases[c][i].type, d) : w = Through(c, i, v)
  <2>1. w \in Routes[c] /\ w.type = d
    BY DEF To
  <2>2. w # Here(c)
    BY <1>2, <2>1, HereFacts
  <2>3. PICK i \in DOMAIN bases[c] : \E v \in Routes[bases[c][i].type] : w = Through(c, i, v)
    BY <2>1, <2>2, RoutesSplit
  <2>4. PICK v \in Routes[bases[c][i].type] : w = Through(c, i, v)
    BY <2>3
  <2>5. v.type = d
    BY <2>1, <2>4, RoutesSplit, ThroughFacts
  <2> QED BY <2>4, <2>5 DEF To
<1> QED BY <1>1, <1>2

-----------------------------------------------------------------------------
(* No base is repeated: the walk skips the bases that are not public, and its *)
(* first answer is the right one.                                             *)

\* The result of a walk that found the one place p, or several.
IsAt(r, p) == r.found /\ r.part = PUBLIC /\ r.dst = p /\ r.base # NULL
IsTwice(r) == r.found /\ r.part = AMBIG /\ r.dst = NULL /\ r.base # NULL

Lone(a) == /\ ~Repeats(a.class) /\ "repeat" \notin a.details
           /\ Somewhere(a.obj)

\* r says where the class is, if some way to it is public.
RightLone(a, r) ==
  /\ (\E w \in To(a.class, a.dst) : w.public)
       => \A w \in To(a.class, a.dst) : IsAt(r, WhereIs(w, a.obj))
  /\ (\A w \in To(a.class, a.dst) : ~w.public) => r = NotFound

LEMMA LoneBelow ==
  ASSUME Hierarchy, NEW a \in Upcasts, NEW i \in DOMAIN bases[a.class], Lone(a)
  PROVE  Lone(AskBase(a, i)) /\ "repeat" \notin Details(a.class, a.details)
<1>1. a.class \in Classes /\ a.details \in SUBSET DETAILS
  BY DEF Upcasts
<1>2. ~Repeats(bases[a.class][i].type)
  BY <1>1, RepeatsBelow DEF Lone
<1>3. "repeat" \notin Details(a.class, a.details)
  BY <1>1, FlagsFacts DEF Lone
<1>4. Somewhere(AskBase(a, i).obj)
  BY AskBaseFields DEF Lone, Somewhere
<1> QED BY <1>2, <1>3, <1>4, AskBaseFields DEF Lone

LEMMA OnePlace ==
  ASSUME NEW c, ~Repeats(c), NEW d, NEW v \in To(c, d), NEW w \in To(c, d), NEW obj
  PROVE  WhereIs(v, obj) = WhereIs(w, obj)
BY DEF To, Repeats, SameObject, WhereIs, Place

\* One more base, in a class that has more than one or a virtual one.
LEMMA LoneVisit ==
  ASSUME Hierarchy, NEW a \in Upcasts, NEW i \in DOMAIN bases[a.class], Lone(a),
         NEW r \in Result, NEW r2 \in Result, RightLone(AskBase(a, i), r2)
  PROVE  /\ r.found => Visit(a, r, i, r2) = r
         /\ (\A v \in To(bases[a.class][i].type, a.dst) : ~(v.public /\ bases[a.class][i].public))
              => Visit(a, r, i, r2) = r
         /\ r = NotFound =>
              \A v \in To(bases[a.class][i].type, a.dst) :
                v.public /\ bases[a.class][i].public
                  => \A w \in To(a.class, a.dst) :
                       IsAt(Visit(a, r, i, r2), WhereIs(w, a.obj))
<1> DEFINE c == a.class
           b == bases[c][i].type
           d == a.dst
<1>1. c \in Classes /\ b \in Classes /\ bases[c][i].public \in BOOLEAN
  BY BaseFacts DEF Upcasts
<1>2. AskBase(a, i).class = b /\ AskBase(a, i).dst = d
  BY AskBaseFields
<1>3. "repeat" \notin Details(c, a.details) /\ ~Repeats(c) /\ Somewhere(a.obj)
  BY LoneBelow DEF Lone
<1>4. r.found => Visit(a, r, i, r2) = r
  BY DEF Visit
<1>5. ASSUME \A v \in To(b, d) : ~(v.public /\ bases[c][i].public)
      PROVE  Visit(a, r, i, r2) = r
  <2>1. CASE ~bases[c][i].public
    BY <1>3, <2>1 DEF Visit
  <2>2. CASE bases[c][i].public
    <3>1. \A v \in To(b, d) : ~v.public
      BY <1>5, <2>2
    <3>2. r2 = NotFound
      BY <1>2, <3>1 DEF RightLone
    <3>3. ~r2.found
      BY <3>2 DEF NotFound
    <3> QED BY <3>3 DEF Visit
  <2> QED BY <2>1, <2>2
<1>6. ASSUME r = NotFound, NEW v \in To(b, d), v.public, bases[c][i].public,
             NEW w \in To(c, d)
      PROVE  IsAt(Visit(a, r, i, r2), WhereIs(w, a.obj))
  <2>1. IsAt(r2, WhereIs(v, AskBase(a, i).obj))
    BY <1>2, <1>6 DEF RightLone
  <2>2. ~r.found /\ r.base = NULL
    BY <1>6 DEF NotFound
  <2> DEFINE s == InBase(c, i, r2)
  <2>3. Visit(a, r, i, r2) = MergeUp(c, r, s)
    BY <1>6, <2>1, <2>2 DEF Visit, IsAt
  <2>4. s \in Result /\ s.dst = r2.dst /\ s.part = PUBLIC /\ s.base # NULL
    <3>1. b # NULL
      BY <1>1, ClassFacts DEF NULL
    <3>2. r2.part = PUBLIC /\ r2.base # NULL
      BY <2>1 DEF IsAt
    <3> HIDE DEF b
    <3> QED BY <1>1, <1>6, <3>1, <3>2, InBaseFields DEF b
  <2>5. Settled(c, s)
    <3>1. "repeat" \notin flags[c]
      BY <1>1, <1>3, FlagsFacts
    <3> HIDE DEF s
    <3> QED BY <2>4, <3>1 DEF Settled, PUBLIC
  <2> HIDE DEF s
  <2>6. /\ MergeUp(c, r, s).dst = s.dst /\ MergeUp(c, r, s).part = s.part
        /\ MergeUp(c, r, s).base = s.base /\ (MergeUp(c, r, s).found <=> Settled(c, s))
    BY <2>2, <2>4, MergeUpFields
  <2>7. WhereIs(v, AskBase(a, i).obj) = WhereIs(w, a.obj)
    <3>1. /\ Through(c, i, v) \in To(c, d)
          /\ WhereIs(Through(c, i, v), a.obj) = WhereIs(v, AskBase(a, i).obj)
      BY <1>3, BelowFacts
    <3>2. WhereIs(Through(c, i, v), a.obj) = WhereIs(w, a.obj)
      BY <1>3, <3>1, OnePlace
    <3> QED BY <3>1, <3>2
  <2> QED BY <2>1, <2>3, <2>4, <2>5, <2>6, <2>7 DEF IsAt
<1> QED BY <1>4, <1>5, <1>6

LEMMA LoneVisited ==
  ASSUME Hierarchy, NEW a \in Upcasts, NEW answers, Lone(a), a.class # a.dst,
         \A i \in DOMAIN bases[a.class] :
           answers[i] \in Result /\ RightLone(AskBase(a, i), answers[i])
  PROVE  RightLone(a, Returned(AllVisited(a, answers)))
<1> DEFINE c == a.class
           n == Len(bases[c])
           Leads(i) == \E v \in To(bases[c][i].type, a.dst) : v.public /\ bases[c][i].public
           All(r) == \A w \in To(c, a.dst) : IsAt(r, WhereIs(w, a.obj))
<1>1. c \in Classes /\ a.obj \in Nat
  BY DEF Upcasts
<1>2. /\ n \in Nat /\ DOMAIN bases[c] = 1 .. n
      /\ \A k \in 1 .. n : n + 1 - k \in DOMAIN bases[c]
  BY <1>1, BaseFacts
<1>3. PICK after : AreResults(after, a, answers) /\ AllVisited(a, answers) = after[n]
  BY AllVisitedFacts
<1>4. /\ after \in [0 .. n -> Result] /\ after[0] = NotFound
      /\ \A k \in 1 .. n : after[k] = Visit(a, after[k - 1], n + 1 - k, answers[n + 1 - k])
  BY <1>3 DEF AreResults
<1> DEFINE G == {k \in 0 .. n :
                   \/ /\ after[k] = NotFound
                      /\ \A i \in DOMAIN bases[c] : i > n - k => ~Leads(i)
                   \/ /\ \E i \in DOMAIN bases[c] : Leads(i)
                      /\ after[k].found /\ All(after[k])}
<1>5. 0 \in G
  BY <1>2, <1>4
<1>6. ASSUME NEW k \in 1 .. n, k - 1 \in G PROVE k \in G
  <2> DEFINE i == n + 1 - k
             r == after[k - 1]
  <2>a. i \in DOMAIN bases[c] /\ k \in 0 .. n /\ k - 1 \in 0 .. n
    BY <1>2
  <2>b. r \in Result
    BY <1>4, <2>a
  <2>c. after[k] = Visit(a, r, i, answers[i])
    BY <1>4
  <2>d. \A j \in DOMAIN bases[c] : j > n - k => j = i \/ j > n - (k - 1)
    <3> HIDE DEF n
    <3> QED BY <1>2
  <2>e. answers[i] \in Result /\ RightLone(AskBase(a, i), answers[i])
    <3> HIDE DEF i
    <3> QED BY <2>a
  <2> HIDE DEF i
  <2>1. /\ i \in DOMAIN bases[c] /\ k \in 0 .. n
        /\ \A j \in DOMAIN bases[c] : j > n - k => j = i \/ j > n - (k - 1)
    BY <2>a, <2>d
  <2>2. /\ r.found => after[k] = r
        /\ ~Leads(i) => after[k] = r
        /\ r = NotFound /\ Leads(i) => All(after[k])
    <3> HIDE DEF r
    <3>1. r.found => Visit(a, r, i, answers[i]) = r
      BY <2>a, <2>b, <2>e, LoneVisit
    <3>2. ~Leads(i) => Visit(a, r, i, answers[i]) = r
      BY <2>a, <2>b, <2>e, LoneVisit
    <3>3. r = NotFound /\ Leads(i) => All(Visit(a, r, i, answers[i]))
      BY <2>a, <2>b, <2>e, LoneVisit
    <3> HIDE DEF Leads, All
    <3> QED BY <2>c, <3>1, <3>2, <3>3
  <2> HIDE DEF Leads, All
  <2>3. CASE r.found /\ All(r) /\ \E j \in DOMAIN bases[c] : Leads(j)
    BY <2>1, <2>2, <2>3
  <2>4. CASE /\ r = NotFound
             /\ \A j \in DOMAIN bases[c] : j > n - (k - 1) => ~Leads(j)
    <3>1. CASE Leads(i)
      <4>1. All(after[k])
        BY <2>2, <2>4, <3>1
      <4>2. after[k].found
        <5>1. PICK v \in To(bases[c][i].type, a.dst) : v.public
          BY <3>1 DEF Leads
        <5>2. Through(c, i, v) \in To(c, a.dst)
          BY <2>1, <5>1, BelowFacts DEF Lone
        <5> QED BY <4>1, <5>2 DEF All, IsAt
      <4> QED BY <2>1, <3>1, <4>1, <4>2
    <3>2. CASE ~Leads(i)
      BY <2>1, <2>2, <2>4, <3>2
    <3> QED BY <3>1, <3>2
  <2> QED BY <1>6, <2>3, <2>4
<1>7. n \in G
  <2>1. \A k \in 0 .. n : k \in G
    <3> HIDE DEF G
    <3> QED BY <1>2, <1>5, <1>6, ByCount
  <2> QED BY <1>2, <2>1
<1>8. (\E w \in To(c, a.dst) : w.public) <=> \E i \in DOMAIN bases[c] : Leads(i)
  <2>1. ASSUME NEW w \in To(c, a.dst), w.public PROVE \E i \in DOMAIN bases[c] : Leads(i)
    <3>1. PICK i \in DOMAIN bases[c] : \E v \in To(bases[c][i].type, a.dst) : w = Through(c, i, v)
      BY <1>1, ToFacts
    <3>2. PICK v \in To(bases[c][i].type, a.dst) : w = Through(c, i, v)
      BY <3>1
    <3>3. Through(c, i, v).public = (v.public /\ bases[c][i].public)
      BY BelowFacts DEF Lone
    <3>4. v.public /\ bases[c][i].public
      BY <2>1, <3>2, <3>3
    <3> QED BY <3>4
  <2>2. ASSUME NEW i \in DOMAIN bases[c], Leads(i) PROVE \E w \in To(c, a.dst) : w.public
    <3>1. PICK v \in To(bases[c][i].type, a.dst) : v.public /\ bases[c][i].public
      BY <2>2
    <3>2. /\ Through(c, i, v) \in To(c, a.dst)
          /\ Through(c, i, v).public = (v.public /\ bases[c][i].public)
      BY BelowFacts DEF Lone
    <3> QED BY <3>1, <3>2
  <2> QED BY <2>1, <2>2
<1>9. after[n] \in Result
  BY <1>2, <1>4
<1>10. /\ Returned(after[n]).dst = after[n].dst /\ Returned(after[n]).part = after[n].part
       /\ Returned(after[n]).base = after[n].base
       /\ after[n].part # UNKNOWN => Returned(after[n]).found
       /\ after[n] = NotFound => Returned(after[n]) = NotFound
  BY <1>9, ReturnedFields
<1>11. CASE \E i \in DOMAIN bases[c] : Leads(i)
  <2>1. All(after[n])
    <3>1. \A i \in DOMAIN bases[c] : i > n - n
      BY <1>2
    <3> HIDE DEF Leads, All
    <3> QED BY <1>7, <1>11, <3>1
  <2>2. \A w \in To(c, a.dst) : IsAt(Returned(after[n]), WhereIs(w, a.obj))
    <3> SUFFICES ASSUME NEW w \in To(c, a.dst)
                 PROVE  IsAt(Returned(after[n]), WhereIs(w, a.obj))
      OBVIOUS
    <3>1. IsAt(after[n], WhereIs(w, a.obj))
      BY <2>1
    <3>2. after[n].part # UNKNOWN
      BY <3>1 DEF IsAt, PUBLIC, UNKNOWN
    <3> QED BY <1>10, <3>1, <3>2 DEF IsAt
  <2>3. \E w \in To(c, a.dst) : w.public
    BY <1>8, <1>11
  <2> QED BY <1>3, <2>2, <2>3 DEF RightLone
<1>12. CASE ~\E i \in DOMAIN bases[c] : Leads(i)
  <2>1. after[n] = NotFound
    <3> HIDE DEF Leads
    <3> QED BY <1>7, <1>12
  <2>2. \A w \in To(c, a.dst) : ~w.public
    BY <1>8, <1>12
  <2> QED BY <1>3, <1>10, <2>1, <2>2 DEF RightLone
<1> QED BY <1>11, <1>12

\* A class, or one with a single public base that is not virtual.
LEMMA LoneUpcast ==
  ASSUME Hierarchy
  PROVE  \A a \in Upcasts : Lone(a) => RightLone(a, DoUpcast[a])
<1> DEFINE rank == [a \in Upcasts |-> a.class]
           G == {a \in Upcasts : Lone(a) => RightLone(a, DoUpcast[a])}
<1>1. rank \in [Upcasts -> Nat]
  BY ClassFacts DEF Upcasts
<1>2. ASSUME NEW a \in Upcasts, \A y \in Upcasts : rank[y] < rank[a] => y \in G
      PROVE  a \in G
  <2> SUFFICES ASSUME Lone(a) PROVE RightLone(a, DoUpcast[a])
    OBVIOUS
  <2> DEFINE c == a.class
  <2>1. c \in Classes /\ a.obj \in Nat
    BY DEF Upcasts
  <2>2. DoUpcast[a] = UpcastBy(a, Answers(a))
    BY DoUpcastFacts
  <2>3. ASSUME NEW i \in DOMAIN bases[c]
        PROVE  /\ Answers(a)[i] \in Result
               /\ RightLone(AskBase(a, i), Answers(a)[i])
    <3>1. AskBase(a, i) \in Upcasts /\ AskBase(a, i).class < c
      BY <2>1, AskBaseFields, BaseFacts
    <3>2. Answers(a)[i] = DoUpcast[AskBase(a, i)]
      BY DEF Answers
    <3>3. Lone(AskBase(a, i))
      BY LoneBelow
    <3> QED BY <1>2, <3>1, <3>2, <3>3, DoUpcastFacts
  <2>4. CASE c = a.dst
    <3>1. UpcastBy(a, Answers(a)) =
            [dst |-> a.obj, part |-> PUBLIC, base |-> NONVIRTUAL, found |-> TRUE]
      BY <2>4 DEF UpcastBy
    <3>2. To(c, a.dst) = {Here(c)} /\ Here(c).public /\ WhereIs(Here(c), a.obj) = a.obj
      BY <2>1, <2>4, ToFacts, HereFacts, WhereFacts, RoutesSplit
    <3>3. IsAt(DoUpcast[a], a.obj)
      BY <2>2, <3>1 DEF IsAt, NONVIRTUAL, NULL
    <3> QED BY <3>2, <3>3 DEF RightLone
  <2>5. CASE c # a.dst /\ IsLeaf(c)
    <3>1. DoUpcast[a] = NotFound
      BY <2>2, <2>5 DEF UpcastBy
    <3>2. DOMAIN bases[c] = {}
      BY <2>1, <2>5, BaseFacts DEF IsLeaf
    <3>3. To(c, a.dst) = {}
      BY <2>1, <2>5, <3>2, ToFacts
    <3> QED BY <3>1, <3>3 DEF RightLone
  <2>6. CASE c # a.dst /\ ~IsLeaf(c) /\ IsSi(c)
    <3>1. DoUpcast[a] = Answers(a)[1]
      BY <2>2, <2>6 DEF UpcastBy
    <3>2. DOMAIN bases[c] = {1} /\ bases[c][1].public
      BY <2>1, <2>6, BaseFacts DEF IsSi
    <3> DEFINE b == bases[c][1].type
    <3>3. RightLone(AskBase(a, 1), DoUpcast[a])
      BY <2>3, <3>1, <3>2
    <3>4. AskBase(a, 1).class = b /\ AskBase(a, 1).dst = a.dst
      BY <3>2, AskBaseFields
    <3>5. ASSUME NEW w \in To(c, a.dst)
          PROVE  \E v \in To(b, a.dst) : /\ WhereIs(w, a.obj) = WhereIs(v, AskBase(a, 1).obj)
                                         /\ w.public => v.public
      <4>1. PICK i \in DOMAIN bases[c] : \E v \in To(bases[c][i].type, a.dst) : w = Through(c, i, v)
        BY <2>1, <2>6, ToFacts
      <4>2. i = 1
        BY <3>2
      <4>3. PICK v \in To(b, a.dst) : w = Through(c, 1, v)
        BY <4>1, <4>2
      <4>4. WhereIs(w, a.obj) = WhereIs(v, AskBase(a, 1).obj) /\ w.public = (v.public /\ bases[c][1].public)
        BY <3>2, <4>3, BelowFacts DEF Lone
      <4> QED BY <3>2, <4>4
    <3>6. ASSUME NEW v \in To(b, a.dst), v.public PROVE \E w \in To(c, a.dst) : w.public
      <4>1. Through(c, 1, v) \in To(c, a.dst) /\ Through(c, 1, v).public
        BY <3>2, <3>6, BelowFacts DEF Lone
      <4> QED BY <4>1
    <3> HIDE DEF b
    <3>7. CASE \E w \in To(c, a.dst) : w.public
      <4>1. \E v \in To(b, a.dst) : v.public
        BY <3>5, <3>7
      <4>2. \A v \in To(b, a.dst) : IsAt(DoUpcast[a], WhereIs(v, AskBase(a, 1).obj))
        BY <3>3, <3>4, <4>1 DEF RightLone
      <4>3. \A w \in To(c, a.dst) : IsAt(DoUpcast[a], WhereIs(w, a.obj))
        BY <3>5, <4>2
      <4> QED BY <3>7, <4>3 DEF RightLone
    <3>8. CASE \A w \in To(c, a.dst) : ~w.public
      <4>1. \A v \in To(b, a.dst) : ~v.public
        BY <3>6, <3>8
      <4>2. DoUpcast[a] = NotFound
        BY <3>3, <3>4, <4>1 DEF RightLone
      <4> QED BY <3>8, <4>2 DEF RightLone
    <3> QED BY <3>7, <3>8
  <2>7. CASE c # a.dst /\ ~IsLeaf(c) /\ ~IsSi(c)
    <3>1. DoUpcast[a] = Returned(AllVisited(a, Answers(a)))
      BY <2>2, <2>7, Zenon DEF UpcastBy, Returned
    <3> QED BY <2>3, <2>7, <3>1, LoneVisited
  <2> QED BY <2>4, <2>5, <2>6, <2>7
<1>3. Upcasts \subseteq G
  <2> HIDE DEF rank, G
  <2> QED BY <1>1, <1>2, ByRank
<1> QED BY <1>3

-----------------------------------------------------------------------------
(* All bases are public, and there is an object: the walk compares places.    *)

AllPublic(c) == \A w \in Routes[c] : w.public
Open(a) == AllPublic(a.class) /\ a.obj # NULL /\ Origin # NULL

Places(a) == {WhereIs(w, a.obj) : w \in To(a.class, a.dst)}

\* r says where the class is, if it is in one place.
RightOpen(places, r) ==
  /\ places = {} => r = NotFound
  /\ \A p \in places : places = {p} => IsAt(r, p)
  /\ \A p, q \in places : p # q => IsTwice(r)

\* p is where all bases that were looked at have the class.
IsSeen(r, p) == ~r.found /\ r.part = PUBLIC /\ r.dst = p /\ r.base # NULL

LEMMA OpenBelow ==
  ASSUME Hierarchy, NEW a \in Upcasts, NEW i \in DOMAIN bases[a.class], Open(a)
  PROVE  Open(AskBase(a, i)) /\ bases[a.class][i].public
<1> DEFINE c == a.class
           b == bases[c][i].type
<1>1. c \in Classes /\ a.obj \in Nat /\ b \in Classes /\ bases[c][i].public \in BOOLEAN
  BY BaseFacts DEF Upcasts
<1>2. ASSUME NEW v \in Routes[b] PROVE v.public /\ bases[c][i].public
  <2>1. v \in Way /\ Through(c, i, v) \in Routes[c]
    BY <1>1, RoutesSplit
  <2>2. Through(c, i, v).public
    BY <2>1 DEF Open, AllPublic
  <2>3. Through(c, i, v).public = (v.public /\ bases[c][i].public) /\ v.public \in BOOLEAN
    BY <1>1, <2>1, ThroughFacts DEF Way
  <2> QED BY <1>1, <2>2, <2>3
<1>3. Here(b) \in Routes[b]
  BY <1>1, RoutesSplit
<1>4. AskBase(a, i).obj = ConvertToBase(c, i, a.obj) /\ ConvertToBase(c, i, a.obj) # NULL
  BY <1>1, AskBaseFields, Converted DEF Open, NULL
<1> QED BY <1>2, <1>3, <1>4, AskBaseFields DEF Open, AllPublic

\* The places in a class are those in its bases.
LEMMA PlacesFacts ==
  ASSUME Hierarchy, NEW a \in Upcasts, Somewhere(a.obj)
  PROVE  /\ a.class = a.dst => Places(a) = {a.obj}
         /\ a.class # a.dst =>
              Places(a) = UNION {Places(AskBase(a, i)) : i \in DOMAIN bases[a.class]}
         /\ ~Repeats(a.class) => \A p, q \in Places(a) : p = q
         /\ \A p \in Places(a) : p \in Nat /\ (p = NULL <=> a.obj = NULL)
<1> DEFINE c == a.class
<1>1. c \in Classes /\ a.obj \in Nat
  BY DEF Upcasts
<1>2. c = a.dst => Places(a) = {a.obj}
  BY <1>1, ToFacts, WhereFacts, RoutesSplit DEF Places
<1>3. ASSUME NEW i \in DOMAIN bases[c], NEW v \in To(bases[c][i].type, a.dst)
      PROVE  WhereIs(v, AskBase(a, i).obj) \in Places(a)
  BY <1>3, BelowFacts DEF Places
<1>4. ASSUME c # a.dst, NEW w \in To(c, a.dst)
      PROVE  \E i \in DOMAIN bases[c] : WhereIs(w, a.obj) \in Places(AskBase(a, i))
  <2>1. PICK i \in DOMAIN bases[c] : \E v \in To(bases[c][i].type, a.dst) : w = Through(c, i, v)
    BY <1>1, <1>4, ToFacts
  <2>2. PICK v \in To(bases[c][i].type, a.dst) : w = Through(c, i, v)
    BY <2>1
  <2>3. WhereIs(w, a.obj) = WhereIs(v, AskBase(a, i).obj)
    BY <2>2, BelowFacts
  <2> QED BY <2>3, AskBaseFields DEF Places
<1>5. \A i \in DOMAIN bases[c] : \A p \in Places(AskBase(a, i)) : p \in Places(a)
  BY <1>3, AskBaseFields DEF Places
<1>6. c # a.dst => \A p \in Places(a) : \E i \in DOMAIN bases[c] : p \in Places(AskBase(a, i))
  BY <1>4 DEF Places
<1>7. c # a.dst => Places(a) = UNION {Places(AskBase(a, i)) : i \in DOMAIN bases[c]}
  <2> HIDE DEF c
  <2> QED BY <1>5, <1>6
<1>8. ~Repeats(c) => \A p, q \in Places(a) : p = q
  BY OnePlace DEF Places
<1>9. \A p \in Places(a) : p \in Nat /\ (p = NULL <=> a.obj = NULL)
  <2>1. \A w \in To(c, a.dst) : w \in Routes[c]
    BY DEF To
  <2> QED BY <1>1, <2>1, WhereFacts DEF Places
<1> QED BY <1>2, <1>7, <1>8, <1>9

\* One more base.
LEMMA OpenVisit ==
  ASSUME Hierarchy, NEW a \in Upcasts, NEW i \in DOMAIN bases[a.class], Open(a),
         NEW r \in Result, NEW r2 \in Result
  PROVE  /\ r.found \/ r2 = NotFound => Visit(a, r, i, r2) = r
         /\ r = NotFound /\ IsTwice(r2) => IsTwice(Visit(a, r, i, r2))
         /\ \A p : r = NotFound /\ IsAt(r2, p) =>
              IF Repeats(a.class) THEN IsSeen(Visit(a, r, i, r2), p)
                                  ELSE IsAt(Visit(a, r, i, r2), p)
         /\ \A p : IsSeen(r, p) /\ p # NULL /\ IsTwice(r2) => IsTwice(Visit(a, r, i, r2))
         /\ \A p, q : IsSeen(r, p) /\ p # q /\ IsAt(r2, q) => IsTwice(Visit(a, r, i, r2))
         /\ \A p : IsSeen(r, p) /\ p # NULL /\ IsAt(r2, p) => IsSeen(Visit(a, r, i, r2), p)
<1> DEFINE c == a.class
           s == InBase(c, i, r2)
           m == MergeUp(c, r, s)
<1>1. c \in Classes /\ bases[c][i].public /\ bases[c][i].type # NULL
  BY OpenBelow, BaseFacts, ClassFacts DEF Upcasts, NULL
<1>2. /\ s \in Result /\ s.dst = r2.dst /\ s.part = r2.part /\ (r2.base # NULL => s.base # NULL)
      /\ s.found = r2.found
  BY <1>1, InBaseFields
<1>3. r.found \/ r2 = NotFound => Visit(a, r, i, r2) = r
  BY DEF Visit, NotFound
<1>4. ~r.found /\ r2.found => Visit(a, r, i, r2) = m
  BY <1>1 DEF Visit
<1>5. "repeat" \in flags[c] <=> Repeats(c)
  BY <1>1, FlagsFacts
<1>6. /\ r2.part = AMBIG => Settled(c, s)
      /\ r2.part = PUBLIC => (Settled(c, s) <=> ~Repeats(c))
  <2> HIDE DEF c, s
  <2> QED BY <1>2, <1>5 DEF Settled, AMBIG, PUBLIC, Contained
<1>7. r = NotFound => ~r.found /\ r.base = NULL
  BY DEF NotFound
<1>8. /\ r.base = NULL => /\ m.dst = s.dst /\ m.part = s.part
                          /\ m.base = s.base /\ (m.found <=> Settled(c, s))
      /\ r.base # NULL /\ r.dst # s.dst =>
           m.dst = NULL /\ m.part = AMBIG /\ m.base = r.base /\ m.found
      /\ r.base # NULL /\ r.dst = s.dst /\ r.dst # NULL =>
           /\ m.dst = r.dst /\ m.part = r.part \cup s.part
           /\ m.base = r.base /\ m.found = r.found
  <2>1. s \in Result
    BY <1>2
  <2> HIDE DEF s, c
  <2> QED BY <2>1, MergeUpFields
<1> HIDE DEF m, s, c
<1>9. r = NotFound /\ IsTwice(r2) => IsTwice(m)
  BY <1>2, <1>6, <1>7, <1>8 DEF IsTwice
<1>10. ASSUME NEW p, r = NotFound, IsAt(r2, p)
       PROVE  IF Repeats(c) THEN IsSeen(m, p) ELSE IsAt(m, p)
  BY <1>2, <1>6, <1>7, <1>8, <1>10 DEF IsAt, IsSeen
<1>11. ASSUME NEW p, IsSeen(r, p), p # NULL, IsTwice(r2) PROVE IsTwice(m)
  BY <1>2, <1>8, <1>11 DEF IsTwice, IsSeen
<1>12. ASSUME NEW p, NEW q, IsSeen(r, p), p # q, IsAt(r2, q) PROVE IsTwice(m)
  BY <1>2, <1>8, <1>12 DEF IsTwice, IsSeen, IsAt
<1>13. ASSUME NEW p, IsSeen(r, p), p # NULL, IsAt(r2, p) PROVE IsSeen(m, p)
  BY <1>2, <1>8, <1>13 DEF IsSeen, IsAt
<1>14. IsTwice(r2) => r2.found
  BY DEF IsTwice
<1>15. \A p : (IsAt(r2, p) => r2.found) /\ (IsSeen(r, p) => ~r.found)
  BY DEF IsAt, IsSeen
<1> QED BY <1>3, <1>4, <1>7, <1>9, <1>10, <1>11, <1>12, <1>13, <1>14, <1>15 DEF c

\* The state of the walk when the bases behind the first m have been looked at:
\* nothing, one place so far, the only place, several.
SoFar(a, r, m) ==
  LET later == {i \in DOMAIN bases[a.class] : i > m}
  IN  \/ r = NotFound /\ \A i \in later : Places(AskBase(a, i)) = {}
      \/ \E p \in Places(a) : IsSeen(r, p) /\ \A i \in later : Places(AskBase(a, i)) \subseteq {p}
      \/ \E p \in Places(a) : IsAt(r, p) /\ Places(a) = {p}
      \/ IsTwice(r) /\ \E p, q \in Places(a) : p # q

LEMMA OpenStep ==
  ASSUME Hierarchy, NEW a \in Upcasts, NEW i \in DOMAIN bases[a.class], Open(a),
         a.class # a.dst, NEW r \in Result, NEW r2 \in Result,
         RightOpen(Places(AskBase(a, i)), r2), SoFar(a, r, i)
  PROVE  SoFar(a, Visit(a, r, i, r2), i - 1)
<1> DEFINE here == Places(AskBase(a, i))
           all == Places(a)
           m == Visit(a, r, i, r2)
           later == {j \in DOMAIN bases[a.class] : j > i}
           laterNow == {j \in DOMAIN bases[a.class] : j > i - 1}
<1>1. a.class \in Classes
  BY DEF Upcasts
<1>2. Somewhere(a.obj) /\ a.obj # NULL
  BY DEF Open, Somewhere
<1>3. here \subseteq all /\ \A p \in all : p # NULL
  BY <1>2, PlacesFacts
<1>4. \A j \in laterNow : j = i \/ j \in later
  BY <1>1, BaseFacts
<1>5. ~Repeats(a.class) => \A p, q \in all : p = q
  BY <1>2, PlacesFacts
<1>6. /\ r.found \/ r2 = NotFound => m = r
      /\ r = NotFound /\ IsTwice(r2) => IsTwice(m)
      /\ \A p : r = NotFound /\ IsAt(r2, p) =>
                  IF Repeats(a.class) THEN IsSeen(m, p) ELSE IsAt(m, p)
      /\ \A p : IsSeen(r, p) /\ p # NULL /\ IsTwice(r2) => IsTwice(m)
      /\ \A p, q : IsSeen(r, p) /\ p # q /\ IsAt(r2, q) => IsTwice(m)
      /\ \A p : IsSeen(r, p) /\ p # NULL /\ IsAt(r2, p) => IsSeen(m, p)
  BY OpenVisit
<1>7. /\ here = {} => r2 = NotFound
      /\ \A p \in here : here = {p} => IsAt(r2, p)
      /\ \A p, q \in here : p # q => IsTwice(r2)
  BY DEF RightOpen
<1>8. \/ r = NotFound /\ \A j \in later : Places(AskBase(a, j)) = {}
      \/ \E p \in all : IsSeen(r, p) /\ \A j \in later : Places(AskBase(a, j)) \subseteq {p}
      \/ \E p \in all : IsAt(r, p) /\ all = {p}
      \/ IsTwice(r) /\ \E p, q \in all : p # q
  BY DEF SoFar
<1> SUFFICES
      \/ m = NotFound /\ \A j \in laterNow : Places(AskBase(a, j)) = {}
      \/ \E p \in all : IsSeen(m, p) /\ \A j \in laterNow : Places(AskBase(a, j)) \subseteq {p}
      \/ \E p \in all : IsAt(m, p) /\ all = {p}
      \/ IsTwice(m) /\ \E p, q \in all : p # q
  BY DEF SoFar
<1>9. here = Places(AskBase(a, i))
  OBVIOUS
<1> HIDE DEF here, all, m, later, laterNow
<1>10. CASE r = NotFound /\ \A j \in later : Places(AskBase(a, j)) = {}
  <2>1. CASE here = {}
    BY <1>4, <1>6, <1>7, <1>9, <1>10, <2>1
  <2>2. CASE \E p \in here : here = {p}
    <3>1. PICK p \in here : here = {p}
      BY <2>2
    <3>2. p \in all /\ IsAt(r2, p)
      BY <1>3, <1>7, <3>1
    <3>3. CASE Repeats(a.class)
      <4>1. IsSeen(m, p)
        BY <1>6, <1>10, <3>2, <3>3
      <4>2. \A j \in laterNow : Places(AskBase(a, j)) \subseteq {p}
        BY <1>4, <1>9, <1>10, <3>1
      <4> QED BY <3>2, <4>1, <4>2
    <3>4. CASE ~Repeats(a.class)
      <4>1. IsAt(m, p)
        BY <1>6, <1>10, <3>2, <3>4
      <4>2. all = {p}
        BY <1>5, <3>2, <3>4
      <4> QED BY <3>2, <4>1, <4>2
    <3> QED BY <3>3, <3>4
  <2>3. CASE \E p, q \in here : p # q
    <3>1. IsTwice(r2)
      BY <1>7, <2>3
    <3>2. IsTwice(m)
      BY <1>6, <1>10, <3>1
    <3> QED BY <1>3, <2>3, <3>2
  <2> QED BY <2>1, <2>2, <2>3
<1>11. CASE \E p \in all : IsSeen(r, p) /\ \A j \in later : Places(AskBase(a, j)) \subseteq {p}
  <2>1. PICK p \in all : IsSeen(r, p) /\ \A j \in later : Places(AskBase(a, j)) \subseteq {p}
    BY <1>11
  <2>2. p # NULL
    BY <1>3
  <2>3. CASE here = {}
    <3>1. m = r
      BY <1>6, <1>7, <2>3
    <3>2. \A j \in laterNow : Places(AskBase(a, j)) \subseteq {p}
      BY <1>4, <1>9, <2>1, <2>3
    <3> QED BY <2>1, <3>1, <3>2
  <2>4. CASE here = {p}
    <3>1. IsAt(r2, p)
      BY <1>7, <2>4
    <3>2. IsSeen(m, p)
      BY <1>6, <2>1, <2>2, <3>1
    <3>3. \A j \in laterNow : Places(AskBase(a, j)) \subseteq {p}
      BY <1>4, <1>9, <2>1, <2>4
    <3> QED BY <3>2, <3>3
  <2>5. CASE \E q \in here : here = {q} /\ q # p
    <3>1. PICK q \in here : here = {q} /\ q # p
      BY <2>5
    <3>2. IsAt(r2, q)
      BY <1>7, <3>1
    <3>3. IsTwice(m)
      BY <1>6, <2>1, <3>1, <3>2
    <3> QED BY <1>3, <3>1, <3>3
  <2>6. CASE \E q, s \in here : q # s
    <3>1. IsTwice(r2)
      BY <1>7, <2>6
    <3>2. IsTwice(m)
      BY <1>6, <2>1, <2>2, <3>1
    <3> QED BY <1>3, <2>6, <3>2
  <2> QED BY <2>3, <2>4, <2>5, <2>6
<1>12. CASE \E p \in all : IsAt(r, p) /\ all = {p}
  BY <1>6, <1>12 DEF IsAt
<1>13. CASE IsTwice(r) /\ \E p, q \in all : p # q
  BY <1>6, <1>13 DEF IsTwice
<1> QED BY <1>8, <1>10, <1>11, <1>12, <1>13

LEMMA OpenVisited ==
  ASSUME Hierarchy, NEW a \in Upcasts, NEW answers, Open(a), a.class # a.dst,
         \A i \in DOMAIN bases[a.class] :
           answers[i] \in Result /\ RightOpen(Places(AskBase(a, i)), answers[i])
  PROVE  RightOpen(Places(a), Returned(AllVisited(a, answers)))
<1> DEFINE n == Len(bases[a.class])
           all == Places(a)
<1>1. a.class \in Classes
  BY DEF Upcasts
<1>2. n \in Nat /\ DOMAIN bases[a.class] = 1 .. n
  BY <1>1, BaseFacts
<1>3. PICK after : AreResults(after, a, answers) /\ AllVisited(a, answers) = after[n]
  BY AllVisitedFacts
<1>4. /\ after \in [0 .. n -> Result] /\ after[0] = NotFound
      /\ \A k \in 1 .. n : after[k] = Visit(a, after[k - 1], n + 1 - k, answers[n + 1 - k])
  BY <1>3 DEF AreResults
<1> DEFINE G == {k \in 0 .. n : SoFar(a, after[k], n - k)}
<1>5. 0 \in G
  <2>1. \A i \in DOMAIN bases[a.class] : ~(i > n - 0)
    BY <1>2
  <2>2. SoFar(a, after[0], n - 0)
    <3> HIDE DEF n
    <3> QED BY <1>4, <2>1 DEF SoFar
  <2> QED BY <1>2, <2>2
<1>6. ASSUME NEW k \in 1 .. n, k - 1 \in G PROVE k \in G
  <2> DEFINE i == n + 1 - k
             r == after[k - 1]
  <2>1. i \in DOMAIN bases[a.class] /\ k \in 0 .. n /\ k - 1 \in 0 .. n
        /\ n - (k - 1) = i /\ n - k = i - 1
    <3> HIDE DEF n
    <3> QED BY <1>2
  <2>2. r \in Result
    BY <1>4, <2>1
  <2>3. after[k] = Visit(a, r, i, answers[i])
    BY <1>4
  <2>4. SoFar(a, r, n - (k - 1))
    BY <1>6
  <2> HIDE DEF i, r, n
  <2>5. answers[i] \in Result /\ RightOpen(Places(AskBase(a, i)), answers[i])
    BY <2>1
  <2>6. SoFar(a, Visit(a, r, i, answers[i]), i - 1)
    BY <2>1, <2>2, <2>4, <2>5, OpenStep
  <2> QED BY <2>1, <2>3, <2>6
<1>7. n \in G
  <2>1. \A k \in 0 .. n : k \in G
    <3> HIDE DEF G
    <3> QED BY <1>2, <1>5, <1>6, ByCount
  <2> QED BY <1>2, <2>1
<1> DEFINE r == after[n]
<1>8. r \in Result
  BY <1>2, <1>4
<1>9. /\ Returned(r).dst = r.dst /\ Returned(r).part = r.part /\ Returned(r).base = r.base
      /\ r.part # UNKNOWN => Returned(r).found
      /\ r = NotFound => Returned(r) = NotFound
  BY <1>8, ReturnedFields
<1>10. \A i \in DOMAIN bases[a.class] : i > n - n
  BY <1>2
<1>11. \A p \in all : \E i \in DOMAIN bases[a.class] : p \in Places(AskBase(a, i))
  BY PlacesFacts DEF Open, Somewhere
<1>12. \/ r = NotFound /\ all = {}
       \/ \E p \in all : IsSeen(r, p) /\ all = {p}
       \/ \E p \in all : IsAt(r, p) /\ all = {p}
       \/ IsTwice(r) /\ \E p, q \in all : p # q
  <2>1. SoFar(a, r, n - n)
    BY <1>7
  <2>2. \/ r = NotFound /\ \A i \in DOMAIN bases[a.class] : Places(AskBase(a, i)) = {}
        \/ \E p \in all : /\ IsSeen(r, p)
                          /\ \A i \in DOMAIN bases[a.class] : Places(AskBase(a, i)) \subseteq {p}
        \/ \E p \in all : IsAt(r, p) /\ all = {p}
        \/ IsTwice(r) /\ \E p, q \in all : p # q
    <3> HIDE DEF r, n
    <3> QED BY <1>10, <2>1 DEF SoFar
  <2> HIDE DEF r, all
  <2> QED BY <1>11, <2>2
<1> SUFFICES RightOpen(all, Returned(r))
  BY <1>3
<1> HIDE DEF r, all
<1>13. CASE r = NotFound /\ all = {}
  BY <1>9, <1>13 DEF RightOpen
<1>14. CASE \E p \in all : (IsSeen(r, p) \/ IsAt(r, p)) /\ all = {p}
  <2>1. PICK p \in all : (IsSeen(r, p) \/ IsAt(r, p)) /\ all = {p}
    BY <1>14
  <2>2. IsAt(Returned(r), p)
    BY <1>9, <2>1 DEF IsSeen, IsAt, PUBLIC, UNKNOWN
  <2> QED BY <2>1, <2>2 DEF RightOpen
<1>15. CASE IsTwice(r) /\ \E p, q \in all : p # q
  <2>1. IsTwice(Returned(r))
    BY <1>9, <1>15 DEF IsTwice, AMBIG, UNKNOWN
  <2> QED BY <1>15, <2>1 DEF RightOpen
<1> QED BY <1>12, <1>13, <1>14, <1>15

LEMMA OpenUpcast ==
  ASSUME Hierarchy
  PROVE  \A a \in Upcasts : Open(a) => RightOpen(Places(a), DoUpcast[a])
<1> DEFINE rank == [a \in Upcasts |-> a.class]
           G == {a \in Upcasts : Open(a) => RightOpen(Places(a), DoUpcast[a])}
<1>1. rank \in [Upcasts -> Nat]
  BY ClassFacts DEF Upcasts
<1>2. ASSUME NEW a \in Upcasts, \A y \in Upcasts : rank[y] < rank[a] => y \in G
      PROVE  a \in G
  <2> SUFFICES ASSUME Open(a) PROVE RightOpen(Places(a), DoUpcast[a])
    OBVIOUS
  <2> DEFINE c == a.class
  <2>1. c \in Classes /\ a.obj \in Nat
    BY DEF Upcasts
  <2>2. DoUpcast[a] = UpcastBy(a, Answers(a))
    BY DoUpcastFacts
  <2>3. ASSUME NEW i \in DOMAIN bases[c]
        PROVE  /\ Answers(a)[i] \in Result
               /\ RightOpen(Places(AskBase(a, i)), Answers(a)[i])
    <3>1. AskBase(a, i) \in Upcasts /\ AskBase(a, i).class < c
      BY <2>1, AskBaseFields, BaseFacts
    <3>2. Answers(a)[i] = DoUpcast[AskBase(a, i)]
      BY DEF Answers
    <3>3. Open(AskBase(a, i))
      BY OpenBelow
    <3> QED BY <1>2, <3>1, <3>2, <3>3, DoUpcastFacts
  <2>4. Somewhere(a.obj)
    BY DEF Open, Somewhere
  <2>5. CASE c = a.dst
    <3>1. UpcastBy(a, Answers(a)) =
            [dst |-> a.obj, part |-> PUBLIC, base |-> NONVIRTUAL, found |-> TRUE]
      BY <2>5 DEF UpcastBy
    <3>2. IsAt(DoUpcast[a], a.obj)
      BY <2>2, <3>1 DEF IsAt, NONVIRTUAL, NULL
    <3>3. Places(a) = {a.obj}
      BY <2>4, <2>5, PlacesFacts
    <3> QED BY <3>2, <3>3 DEF RightOpen
  <2>6. CASE c # a.dst /\ IsLeaf(c)
    <3>1. DoUpcast[a] = NotFound
      BY <2>2, <2>6 DEF UpcastBy
    <3>2. DOMAIN bases[c] = {}
      BY <2>1, <2>6, BaseFacts DEF IsLeaf
    <3>3. Places(a) = {}
      BY <2>4, <2>6, <3>2, PlacesFacts
    <3> QED BY <3>1, <3>3 DEF RightOpen
  <2>7. CASE c # a.dst /\ ~IsLeaf(c) /\ IsSi(c)
    <3>1. DoUpcast[a] = Answers(a)[1]
      BY <2>2, <2>7 DEF UpcastBy
    <3>2. DOMAIN bases[c] = {1}
      BY <2>1, <2>7, BaseFacts DEF IsSi
    <3>3. Places(a) = Places(AskBase(a, 1))
      <4>1. Places(a) = UNION {Places(AskBase(a, i)) : i \in DOMAIN bases[a.class]}
        BY <2>4, <2>7, PlacesFacts
      <4> QED BY <3>2, <4>1
    <3> QED BY <2>3, <3>1, <3>2, <3>3
  <2>8. CASE c # a.dst /\ ~IsLeaf(c) /\ ~IsSi(c)
    <3>1. DoUpcast[a] = Returned(AllVisited(a, Answers(a)))
      BY <2>2, <2>8, Zenon DEF UpcastBy, Returned
    <3> QED BY <2>3, <2>8, <3>1, OpenVisited
  <2> QED BY <2>5, <2>6, <2>7, <2>8
<1>3. Upcasts \subseteq G
  <2> HIDE DEF rank, G
  <2> QED BY <1>1, <1>2, ByRank
<1> QED BY <1>3

-----------------------------------------------------------------------------
(* The upcast of what was thrown, and the handlers that ask for it. *)

\* The ways from an object at an address.
LEMMA WaysFacts ==
  ASSUME Hierarchy, NEW c \in Classes, NEW at
  PROVE  /\ \A w \in Routes[c] : \E v \in Ways(c, at) :
              v.type = w.type /\ v.public = w.public /\ v.at = Place(w, at)
         /\ \A v \in Ways(c, at) : \E w \in Routes[c] :
              v.type = w.type /\ v.public = w.public /\ v.at = Place(w, at)
<1>1. ASSUME NEW w \in Routes[c]
      PROVE  /\ [w EXCEPT !.at = Place(w, at)].type = w.type
             /\ [w EXCEPT !.at = Place(w, at)].public = w.public
             /\ [w EXCEPT !.at = Place(w, at)].at = Place(w, at)
  <2>1. w \in Way
    BY RoutesSplit
  <2> QED BY <2>1 DEF Way
<1> QED BY <1>1 DEF Ways

\* What the rule asks of the places, and what the handler gets.
LEMMA UniqueFacts ==
  ASSUME Hierarchy, NEW c \in Classes, NEW d
  PROVE  /\ UniquePublicBase(c, d) <=>
              /\ \E w \in To(c, d) : w.public
              /\ \A v, w \in To(c, d) : Place(v, Origin) = Place(w, Origin)
         /\ \A obj : To(c, d) # {} => \E w \in To(c, d) : PlaceIn(c, d, obj) = Place(w, obj)
<1>1. (\E v \in Ways(c, Origin) : v.type = d /\ v.public) <=> \E w \in To(c, d) : w.public
  BY WaysFacts DEF To
<1>2. (\A v, w \in Ways(c, Origin) : v.type = d /\ w.type = d => v.at = w.at) <=>
        \A v, w \in To(c, d) : Place(v, Origin) = Place(w, Origin)
  <2>1. ASSUME \A v, w \in Ways(c, Origin) : v.type = d /\ w.type = d => v.at = w.at,
               NEW v \in To(c, d), NEW w \in To(c, d)
        PROVE  Place(v, Origin) = Place(w, Origin)
    <3>1. v \in Routes[c] /\ w \in Routes[c] /\ v.type = d /\ w.type = d
      BY DEF To
    <3>2. PICK x \in Ways(c, Origin) : x.type = d /\ x.at = Place(v, Origin)
      BY <3>1, WaysFacts
    <3>3. PICK y \in Ways(c, Origin) : y.type = d /\ y.at = Place(w, Origin)
      BY <3>1, WaysFacts
    <3> QED BY <2>1, <3>2, <3>3
  <2>2. ASSUME \A v, w \in To(c, d) : Place(v, Origin) = Place(w, Origin),
               NEW v \in Ways(c, Origin), NEW w \in Ways(c, Origin), v.type = d, w.type = d
        PROVE  v.at = w.at
    <3>1. PICK x \in Routes[c] : v.type = x.type /\ v.at = Place(x, Origin)
      BY WaysFacts
    <3>2. PICK y \in Routes[c] : w.type = y.type /\ w.at = Place(y, Origin)
      BY WaysFacts
    <3>3. x \in To(c, d) /\ y \in To(c, d)
      BY <2>2, <3>1, <3>2 DEF To
    <3> QED BY <2>2, <3>1, <3>2, <3>3
  <2> QED BY <2>1, <2>2
<1>3. ASSUME NEW obj, To(c, d) # {}
      PROVE  \E w \in To(c, d) : PlaceIn(c, d, obj) = Place(w, obj)
  <2> DEFINE x == CHOOSE v \in Ways(c, obj) : v.type = d
  <2>1. \E v \in Ways(c, obj) : v.type = d
    BY <1>3, WaysFacts DEF To
  <2>2. x \in Ways(c, obj) /\ x.type = d
    BY <2>1
  <2> HIDE DEF x
  <2>3. PICK w \in Routes[c] : x.type = w.type /\ x.at = Place(w, obj)
    BY <2>2, WaysFacts
  <2>4. w \in To(c, d)
    BY <2>2, <2>3 DEF To
  <2> QED BY <2>3, <2>4 DEF x, PlaceIn
<1> QED BY <1>1, <1>2, <1>3 DEF UniquePublicBase

\* The object thrown, where the property speaks of it.
Covered(obj) ==
  /\ obj \in {Origin, NULL}
  /\ "repeat" \notin flags[whole] \/ (~HasPrivate(whole) /\ obj # NULL)

\* Where a handler for class d finds its object.
Found(d, obj) == IF obj = NULL THEN NULL ELSE PlaceIn(whole, d, obj)

LEMMA CoveredFacts ==
  ASSUME Hierarchy
  PROVE  /\ whole \in Classes /\ 1 .. whole \subseteq Classes
         /\ \A obj : Covered(obj) => obj \in Nat /\ Somewhere(obj)
<1>1. whole \in Classes
  BY DEF Hierarchy
<1>2. 1 .. whole \subseteq Classes
  BY <1>1, ClassFacts
<1>3. \A obj : Covered(obj) => obj \in Nat /\ Somewhere(obj)
  BY ClassFacts DEF Covered, Somewhere, NULL
<1> QED BY <1>1, <1>2, <1>3

\* __do_upcast finds a base that is public and unique, where it is, and no other.
LEMMA UpcastIsRight ==
  ASSUME Hierarchy, NEW d \in Classes, NEW obj, Covered(obj)
  PROVE  Upcast(Class(whole), d, obj) =
           IF UniquePublicBase(whole, d) THEN Yes(Found(d, obj)) ELSE No
<1> DEFINE a == [class |-> whole, dst |-> d, obj |-> obj, details |-> {"unknown"}]
           r == DoUpcast[a]
<1>1. whole \in Classes /\ obj \in Nat /\ Somewhere(obj)
  BY CoveredFacts
<1>2. a \in Upcasts /\ a.class = whole /\ a.dst = d /\ a.obj = obj /\ a.details = {"unknown"}
  BY <1>1 DEF Upcasts, DETAILS
<1>3. Upcast(Class(whole), d, obj) = IF Publicly(r.part) THEN Yes(r.dst) ELSE No
  BY DEF Upcast, Class
<1> HIDE DEF a
<1>4. \A p : IsAt(r, p) => Upcast(Class(whole), d, obj) = Yes(p)
  BY <1>3 DEF IsAt, Publicly, PUBLIC
<1>5. r = NotFound \/ IsTwice(r) => Upcast(Class(whole), d, obj) = No
  <2>1. r = NotFound \/ IsTwice(r) => ~Publicly(r.part)
    BY DEF NotFound, IsTwice, Publicly, PUBLIC, AMBIG, UNKNOWN
  <2> QED BY <1>3, <2>1
<1> HIDE DEF r
<1>6. ASSUME \A v, w \in To(whole, d) : WhereIs(v, obj) = WhereIs(w, obj),
             NEW w \in To(whole, d)
      PROVE  WhereIs(w, obj) = Found(d, obj)
  <2>1. CASE obj = NULL
    BY <2>1 DEF WhereIs, Found
  <2>2. CASE obj # NULL
    <3>1. PICK v \in To(whole, d) : PlaceIn(whole, d, obj) = Place(v, obj)
      BY <1>1, UniqueFacts
    <3>2. WhereIs(v, obj) = WhereIs(w, obj)
      BY <1>6
    <3> QED BY <2>2, <3>1, <3>2 DEF WhereIs, Found
  <2> QED BY <2>1, <2>2
<1>7. CASE "repeat" \notin flags[whole]
  <2>1. ~Repeats(whole)
    BY <1>1, <1>7, FlagsFacts
  <2>2. Lone(a)
    BY <1>1, <1>2, <2>1 DEF Lone
  <2>3. RightLone(a, r)
    BY <1>2, <2>2, LoneUpcast DEF r
  <2>4. \A v, w \in To(whole, d) : WhereIs(v, obj) = WhereIs(w, obj)
    BY <2>1, OnePlace
  <2>5. \A v, w \in To(whole, d) : Place(v, Origin) = Place(w, Origin)
    BY <2>1 DEF To, Repeats, SameObject, Place
  <2>6. CASE \E w \in To(whole, d) : w.public
    <3>1. PICK w \in To(whole, d) : w.public
      BY <2>6
    <3>2. IsAt(r, WhereIs(w, obj))
      BY <1>2, <2>3, <3>1 DEF RightLone
    <3>3. UniquePublicBase(whole, d)
      BY <1>1, <2>5, <2>6, UniqueFacts
    <3>4. WhereIs(w, obj) = Found(d, obj)
      BY <1>6, <2>4
    <3> QED BY <1>4, <3>2, <3>3, <3>4
  <2>7. CASE \A w \in To(whole, d) : ~w.public
    <3>1. r = NotFound
      BY <1>2, <2>3, <2>7 DEF RightLone
    <3>2. ~UniquePublicBase(whole, d)
      BY <1>1, <2>7, UniqueFacts
    <3> QED BY <1>5, <3>1, <3>2
  <2> QED BY <2>6, <2>7
<1>8. CASE ~HasPrivate(whole) /\ obj # NULL
  <2>1. obj = Origin /\ Origin # NULL
    BY <1>8 DEF Covered
  <2>2. AllPublic(whole)
    <3> SUFFICES ASSUME NEW w \in Routes[whole], ~w.public PROVE FALSE
      BY DEF AllPublic
    <3>1. PICK v \in Ways(whole, NULL) : v.public = w.public
      BY <1>1, WaysFacts
    <3> QED BY <1>8, <3>1 DEF HasPrivate
  <2>3. Open(a)
    BY <1>2, <2>1, <2>2 DEF Open
  <2>4. RightOpen(Places(a), r)
    BY <1>2, <2>3, OpenUpcast DEF r
  <2>5. Places(a) = {WhereIs(w, obj) : w \in To(whole, d)}
    BY <1>2 DEF Places
  <2>6. \A w : WhereIs(w, obj) = Place(w, Origin)
    BY <2>1 DEF WhereIs
  <2>7. CASE To(whole, d) = {}
    <3>1. r = NotFound
      BY <2>4, <2>5, <2>7 DEF RightOpen
    <3>2. ~UniquePublicBase(whole, d)
      BY <1>1, <2>7, UniqueFacts
    <3> QED BY <1>5, <3>1, <3>2
  <2>8. CASE \E w \in To(whole, d) : \A v \in To(whole, d) : WhereIs(v, obj) = WhereIs(w, obj)
    <3>1. PICK w \in To(whole, d) : \A v \in To(whole, d) : WhereIs(v, obj) = WhereIs(w, obj)
      BY <2>8
    <3>2. Places(a) = {WhereIs(w, obj)}
      BY <2>5, <3>1
    <3>3. IsAt(r, WhereIs(w, obj))
      BY <2>4, <3>2 DEF RightOpen
    <3>4. w.public
      BY <2>2 DEF AllPublic, To
    <3>5. \A v, x \in To(whole, d) : Place(v, Origin) = Place(x, Origin)
      BY <2>6, <3>1
    <3>6. UniquePublicBase(whole, d)
      BY <1>1, <3>4, <3>5, UniqueFacts
    <3>7. WhereIs(w, obj) = Found(d, obj)
      BY <1>6, <3>1
    <3> QED BY <1>4, <3>3, <3>6, <3>7
  <2>9. CASE \E v, w \in To(whole, d) : WhereIs(v, obj) # WhereIs(w, obj)
    <3>1. PICK v \in To(whole, d) : \E w \in To(whole, d) : WhereIs(v, obj) # WhereIs(w, obj)
      BY <2>9
    <3>2. PICK w \in To(whole, d) : WhereIs(v, obj) # WhereIs(w, obj)
      BY <3>1
    <3>3. IsTwice(r)
      <4>1. WhereIs(v, obj) \in Places(a) /\ WhereIs(w, obj) \in Places(a)
        BY <2>5
      <4> QED BY <2>4, <3>2, <4>1 DEF RightOpen
    <3>4. ~UniquePublicBase(whole, d)
      BY <1>1, <2>6, <3>2, UniqueFacts
    <3> QED BY <1>5, <3>3, <3>4
  <2> QED BY <2>7, <2>8, <2>9
<1> QED BY <1>7, <1>8 DEF Covered

\* Its own class a handler finds where the object is.
LEMMA FoundWhole ==
  ASSUME Hierarchy, NEW obj \in Nat
  PROVE  Found(whole, obj) = obj
<1>1. whole \in Classes
  BY DEF Hierarchy
<1>2. To(whole, whole) = {Here(whole)}
  BY <1>1, ToFacts
<1>3. obj # NULL => Found(whole, obj) = Place(Here(whole), obj)
  BY <1>1, <1>2, UniqueFacts DEF Found
<1>4. Place(Here(whole), obj) = obj
  BY <1>1, HereFacts DEF Place
<1> QED BY <1>3, <1>4 DEF Found

-----------------------------------------------------------------------------
(* The types, and what catches what. *)

\* Qualifiers of an object or of a function, never of both.
Qualifies(f) == f \subseteq {"const"} \/ f \subseteq {"noexcept"}

\* What a pointer to a pointer, and what a pointer, may point to.
InnerKinds == {"class", "int", "void", "function"}
IsTarget(s, c) ==
  /\ s.kind \in InnerKinds \cup {"pointer"}
  /\ s.kind = "class" => s = Class(c)
  /\ s.kind = "pointer" => Qualifies(s.flags) /\ s.to.kind \in InnerKinds

IsType(t, c) ==
  /\ t.kind \in {"class", "int", "nullptr", "pointer", "member"}
  /\ t.kind = "class" => t = Class(c)
  /\ t.kind = "pointer" => Qualifies(t.flags) /\ IsTarget(t.to, c)
  /\ t.kind = "member" => /\ Qualifies(t.flags) /\ t.class = c
                          /\ t.to.kind \in {"int", "function"}

LEMMA TypesFacts ==
  ASSUME NEW c, NEW t \in Types(c)
  PROVE  IsType(t, c)
<1>1. IsType(Class(c), c) /\ IsTarget(Class(c), c)
  BY DEF IsType, IsTarget, Class, InnerKinds
<1>2. IsType(Plain("int"), c) /\ IsType(Plain("nullptr"), c)
  BY DEF IsType, Plain
<1>3. /\ IsTarget(Plain("int"), c) /\ IsTarget(Plain("void"), c)
      /\ IsTarget(Plain("function"), c)
      /\ Plain("int").kind = "int" /\ Plain("function").kind = "function"
  BY DEF IsTarget, Plain, InnerKinds
<1>4. ASSUME NEW q, Qualifies(q), NEW T, \A s \in T : IsTarget(s, c),
             NEW x \in Pointers(q, T)
      PROVE  IsType(x, c) /\ x.kind = "pointer" /\ Qualifies(x.flags) /\ x.to \in T
  BY <1>4 DEF Pointers, IsType, Qualifies
<1>5. ASSUME NEW q, Qualifies(q), NEW T, \A s \in T : s.kind \in {"int", "function"},
             NEW x \in Members(c, q, T)
      PROVE  IsType(x, c)
  BY <1>5 DEF Members, IsType, Qualifies
<1>6. Qualifies({"const"}) /\ Qualifies({"noexcept"}) /\ Qualifies({})
  BY DEF Qualifies
<1>7. \A x \in ObjectPointers(c) \cup CodePointers :
        IsType(x, c) /\ IsTarget(x, c)
  <2>1. ASSUME NEW x \in ObjectPointers(c) PROVE IsType(x, c) /\ IsTarget(x, c)
    <3>1. /\ IsType(x, c) /\ x.kind = "pointer" /\ Qualifies(x.flags)
          /\ x.to \in {Class(c), Plain("int"), Plain("void")}
      BY <1>1, <1>3, <1>4, <1>6 DEF ObjectPointers
    <3>2. x.to.kind \in InnerKinds
      BY <3>1 DEF Class, Plain, InnerKinds
    <3> QED BY <3>1, <3>2 DEF IsTarget
  <2>2. ASSUME NEW x \in CodePointers PROVE IsType(x, c) /\ IsTarget(x, c)
    <3>1. /\ IsType(x, c) /\ x.kind = "pointer" /\ Qualifies(x.flags)
          /\ x.to \in {Plain("function")}
      BY <1>3, <1>4, <1>6 DEF CodePointers
    <3>2. x.to.kind \in InnerKinds
      BY <3>1 DEF Plain, InnerKinds
    <3> QED BY <3>1, <3>2 DEF IsTarget
  <2> QED BY <2>1, <2>2
<1>8. \A x \in Pointers({"const"}, ObjectPointers(c) \cup CodePointers) : IsType(x, c)
  BY <1>4, <1>6, <1>7
<1>9. \A x \in Pointers({}, {Class(c)}) : IsType(x, c)
  BY <1>1, <1>4, <1>6
<1>10. \A x \in Members(c, {"const"}, {Plain("int")}) : IsType(x, c)
  BY <1>3, <1>5, <1>6
<1>11. \A x \in Members(c, {"noexcept"}, {Plain("function")}) : IsType(x, c)
  BY <1>3, <1>5, <1>6
<1> HIDE DEF IsType, IsTarget, Pointers, Members, ObjectPointers, CodePointers, Class, Plain
<1>12. CASE whole > MaxRich
  <2>1. t = Class(c) \/ t \in Pointers({}, {Class(c)})
    BY <1>12 DEF Types
  <2> QED BY <1>1, <1>9, <2>1
<1>13. CASE ~(whole > MaxRich)
  <2>1. \/ t \in {Class(c), Plain("int"), Plain("nullptr")}
        \/ t \in ObjectPointers(c) \cup CodePointers
        \/ t \in Pointers({"const"}, ObjectPointers(c) \cup CodePointers)
        \/ t \in Members(c, {"const"}, {Plain("int")})
        \/ t \in Members(c, {"noexcept"}, {Plain("function")})
    BY <1>13 DEF Types
  <2> QED BY <1>1, <1>2, <1>7, <1>8, <1>10, <1>11, <2>1
<1> QED BY <1>12, <1>13

\* The code's comparison of the qualifiers is the rule's.
LEMMA Qualified ==
  ASSUME NEW h, NEW t, Qualifies(h.flags), Qualifies(t.flags)
  PROVE  LessQualified(h, t) <=> ~Converts(h, t)
<1>1. \A x : x \in t.flags => x \in {"const", "noexcept"}
  BY DEF Qualifies
<1>2. "noexcept" \in t.flags => t.flags = {"noexcept"}
  BY DEF Qualifies
<1>3. "noexcept" \in h.flags => h.flags = {"noexcept"}
  BY DEF Qualifies
<1>4. CASE "noexcept" \in t.flags /\ "noexcept" \notin h.flags
  <2>1. ThrownFlags(h, t) = {}
    BY <1>2, <1>4 DEF ThrownFlags, FQUAL
  <2>2. ~LessQualified(h, t)
    BY <1>4, <2>1 DEF LessQualified, FQUAL
  <2>3. Converts(h, t)
    BY <1>2, <1>4 DEF Converts, FQUAL
  <2> QED BY <2>2, <2>3
<1>5. CASE ~("noexcept" \in t.flags /\ "noexcept" \notin h.flags)
  <2>1. ThrownFlags(h, t) = t.flags
    BY <1>5 DEF ThrownFlags, FQUAL
  <2>2. LessQualified(h, t) <=> \/ "noexcept" \in h.flags /\ "noexcept" \notin t.flags
                                \/ t.flags \ h.flags # {}
    BY <2>1 DEF LessQualified, FQUAL
  <2>3. Converts(h, t) <=> /\ t.flags \ FQUAL \subseteq h.flags
                           /\ "noexcept" \in h.flags => "noexcept" \in t.flags
    BY DEF Converts, FQUAL
  <2>4. (t.flags \ FQUAL \subseteq h.flags) <=> (t.flags \ h.flags = {})
    BY <1>5 DEF FQUAL
  <2> QED BY <2>2, <2>3, <2>4
<1> QED BY <1>4, <1>5

\* Two pointers down, only the same type will do.
LEMMA CatchInner ==
  ASSUME NEW g, g.kind \in InnerKinds, NEW s, NEW obj, NEW const
  PROVE  DoCatch(g, s, obj, 2, const, No) = IF g = s THEN Yes(obj) ELSE No
BY DEF DoCatch, InnerKinds, IsPbase

\* One pointer down: the same type, a base, or a pointer that const admits.
HandlesTarget(g, s, const) ==
  \/ g = s
  \/ g.kind = "class" /\ s.kind = "class" /\ UniquePublicBase(s.class, g.class)
  \/ /\ g.kind = "pointer" /\ s.kind = "pointer" /\ const
     /\ g.to = s.to /\ Converts(g, s)

CaughtTarget(g, s, obj) ==
  IF g.kind = "class" /\ s.kind = "class" THEN Found(g.class, obj) ELSE obj

LEMMA CatchTarget ==
  ASSUME Hierarchy, NEW c \in 1 .. whole, NEW g, IsTarget(g, c), NEW s, IsTarget(s, whole),
         NEW obj, Covered(obj), NEW const, NEW b
  PROVE  DoCatch(g, s, obj, 1, const, DoCatch(g.to, s.to, obj, 2, b, No)) =
           IF HandlesTarget(g, s, const) THEN Yes(CaughtTarget(g, s, obj)) ELSE No
<1> DEFINE inner == DoCatch(g.to, s.to, obj, 2, b, No)
<1>1. whole \in Classes /\ c \in Classes /\ obj \in Nat
  BY CoveredFacts
<1>2. g.kind = "pointer" => inner = IF g.to = s.to THEN Yes(obj) ELSE No
  BY CatchInner DEF IsTarget
<1> HIDE DEF inner
<1>3. CASE g = s
  <2>1. DoCatch(g, s, obj, 1, const, inner) = Yes(obj)
    BY <1>3 DEF DoCatch
  <2>2. g.kind = "class" => g.class = whole
    BY <1>3 DEF IsTarget, Class
  <2>3. CaughtTarget(g, s, obj) = obj
    BY <1>1, <1>3, <2>2, FoundWhole DEF CaughtTarget
  <2> QED BY <1>3, <2>1, <2>3 DEF HandlesTarget, inner
<1>4. CASE g # s /\ g.kind = "class" /\ s.kind = "class"
  <2>1. g.class = c /\ s = Class(whole) /\ s.class = whole
    BY <1>4 DEF IsTarget, Class
  <2>2. DoCatch(g, s, obj, 1, const, inner) = Upcast(s, g.class, obj)
    BY <1>4 DEF DoCatch
  <2>3. Upcast(s, g.class, obj) =
          IF UniquePublicBase(whole, c) THEN Yes(Found(c, obj)) ELSE No
    BY <1>1, <2>1, UpcastIsRight
  <2>4. HandlesTarget(g, s, const) <=> UniquePublicBase(whole, c)
    BY <1>4, <2>1 DEF HandlesTarget
  <2>5. CaughtTarget(g, s, obj) = Found(c, obj)
    BY <1>4, <2>1 DEF CaughtTarget
  <2> QED BY <2>2, <2>3, <2>4, <2>5 DEF inner
<1>5. CASE g # s /\ g.kind = "class" /\ s.kind # "class"
  <2>1. DoCatch(g, s, obj, 1, const, inner) = No
    BY <1>5 DEF DoCatch
  <2>2. ~HandlesTarget(g, s, const)
    BY <1>5 DEF HandlesTarget
  <2> QED BY <2>1, <2>2 DEF inner
<1>6. CASE g # s /\ g.kind = "pointer"
  <2>1. s.kind # "nullptr"
    BY DEF IsTarget, InnerKinds
  <2>2. s.kind = "pointer" => (LessQualified(g, s) <=> ~Converts(g, s))
    BY <1>6, Qualified DEF IsTarget
  <2>3. DoCatch(g, s, obj, 1, const, inner) =
          IF s.kind # "pointer" \/ ~const \/ LessQualified(g, s) THEN No ELSE inner
    BY <1>6, <2>1 DEF DoCatch, IsPbase
  <2>4. HandlesTarget(g, s, const) <=>
          s.kind = "pointer" /\ const /\ g.to = s.to /\ Converts(g, s)
    BY <1>6 DEF HandlesTarget
  <2>5. CaughtTarget(g, s, obj) = obj
    BY <1>6 DEF CaughtTarget
  <2> HIDE DEF Yes, No
  <2> QED BY <1>2, <1>6, <2>2, <2>3, <2>4, <2>5 DEF inner
<1>7. CASE g # s /\ g.kind \notin {"class", "pointer"}
  <2>1. g.kind # "member"
    BY DEF IsTarget, InnerKinds
  <2>2. DoCatch(g, s, obj, 1, const, inner) = No
    BY <1>7, <2>1 DEF DoCatch, IsPbase
  <2>3. ~HandlesTarget(g, s, const)
    BY <1>7 DEF HandlesTarget
  <2> QED BY <2>2, <2>3 DEF inner
<1> QED BY <1>3, <1>4, <1>5, <1>6, <1>7

\* What a handler gets, by the rule.
LEMMA CaughtFacts ==
  ASSUME NEW h, NEW t, NEW obj
  PROVE  /\ h.kind = "class" /\ t.kind = "class" =>
              Caught(h, t, obj) = IF obj = NULL THEN NULL ELSE PlaceIn(t.class, h.class, obj)
         /\ h.kind = "pointer" /\ t.kind = "pointer"
            /\ h.to.kind = "class" /\ t.to.kind = "class" =>
              Caught(h, t, obj) = IF obj = NULL THEN NULL ELSE PlaceIn(t.to.class, h.to.class, obj)
         /\ h.kind = "pointer" /\ t.kind = "pointer"
            /\ ~(h.to.kind = "class" /\ t.to.kind = "class") => Caught(h, t, obj) = obj
         /\ h.kind = t.kind /\ t.kind \notin {"class", "pointer"} =>
              Caught(h, t, obj) = IF t.kind = "nullptr" /\ IsPbase(h) THEN CatchNull(h).obj ELSE obj
BY DEF Caught, NULL

\* What the handlers catch of what is thrown, and what they get.
LEMMA CatchesRightly ==
  ASSUME Hierarchy, NEW c \in 1 .. whole, NEW h, IsType(h, c), NEW t, IsType(t, whole),
         NEW obj, Covered(obj)
  PROVE  Catches(h, t, obj) = IF Handles(h, t) THEN Yes(Caught(h, t, obj)) ELSE No
<1>1. whole \in Classes /\ c \in Classes /\ obj \in Nat
  BY CoveredFacts
<1> DEFINE const == "const" \in h.flags
           inner == DoCatch(h.to.to, t.to.to, obj, 2, const /\ "const" \in h.to.flags, No)
           pointee == DoCatch(h.to, t.to, obj, 1, const, inner)
           got == DoCatch(h, t, obj, 0, TRUE, pointee)
<1>2. Catches(h, t, obj) = got
  BY DEF Catches
<1>3. h.kind = "pointer" /\ t.kind = "pointer" =>
        pointee = IF HandlesTarget(h.to, t.to, const)
                  THEN Yes(CaughtTarget(h.to, t.to, obj)) ELSE No
  <2> HIDE DEF const
  <2> QED BY CatchTarget DEF IsType
<1>4. h.kind = "member" => pointee = IF h.to = t.to THEN Yes(obj) ELSE No
  BY DEF DoCatch, IsType, IsPbase
<1> HIDE DEF pointee
<1>5. CASE h = t
  <2>1. got = Yes(obj)
    BY <1>5 DEF DoCatch
  <2>2. Handles(h, t)
    BY <1>5 DEF Handles
  <2>3. Caught(h, t, obj) = obj
    <3>1. CASE t.kind = "class"
      <4>1. t.class = whole
        BY <3>1 DEF IsType, Class
      <4> QED BY <1>1, <1>5, <3>1, <4>1, FoundWhole, CaughtFacts DEF Found
    <3>2. CASE t.kind = "pointer"
      <4>1. t.to.kind = "class" => t.to.class = whole
        BY <3>2 DEF IsType, IsTarget, Class
      <4> QED BY <1>1, <1>5, <3>2, <4>1, FoundWhole, CaughtFacts DEF Found
    <3>3. CASE t.kind \notin {"class", "pointer"}
      BY <1>5, <3>3, CaughtFacts DEF IsPbase
    <3> QED BY <3>1, <3>2, <3>3
  <2> QED BY <1>2, <2>1, <2>2, <2>3
<1>6. CASE h # t /\ h.kind = "class" /\ t.kind = "class"
  <2>1. h.class = c /\ t = Class(whole) /\ t.class = whole
    BY <1>6 DEF IsType, Class
  <2>2. got = Upcast(t, h.class, obj)
    BY <1>6 DEF DoCatch
  <2>3. Upcast(t, h.class, obj) =
          IF UniquePublicBase(whole, c) THEN Yes(Found(c, obj)) ELSE No
    BY <1>1, <2>1, UpcastIsRight
  <2>4. Handles(h, t) <=> UniquePublicBase(whole, c)
    BY <1>6, <2>1 DEF Handles, IsPbase
  <2>5. Caught(h, t, obj) = Found(c, obj)
    BY <1>6, <2>1, CaughtFacts DEF Found
  <2> QED BY <1>2, <2>2, <2>3, <2>4, <2>5
<1>7. CASE h # t /\ h.kind = "class" /\ t.kind # "class"
  <2>1. got = No
    BY <1>7 DEF DoCatch
  <2>2. ~Handles(h, t)
    BY <1>7 DEF Handles, IsPbase
  <2> QED BY <1>2, <2>1, <2>2
<1>8. CASE h # t /\ h.kind \in {"int", "nullptr"}
  <2>1. got = No
    BY <1>8 DEF DoCatch, IsPbase
  <2>2. ~Handles(h, t)
    BY <1>8 DEF Handles, IsPbase
  <2> QED BY <1>2, <2>1, <2>2
<1>9. CASE h # t /\ IsPbase(h) /\ t.kind = "nullptr"
  <2>1. got = CatchNull(h)
    BY <1>9 DEF DoCatch, IsPbase
  <2>2. Handles(h, t)
    BY <1>9 DEF Handles
  <2>3. Caught(h, t, obj) = CatchNull(h).obj
    BY <1>9 DEF Caught
  <2>4. Yes(CatchNull(h).obj) = CatchNull(h)
    BY DEF CatchNull, Yes
  <2> QED BY <1>2, <2>1, <2>2, <2>3, <2>4
<1>10. CASE h # t /\ IsPbase(h) /\ t.kind # "nullptr" /\ t.kind # h.kind
  <2>1. got = No
    BY <1>10 DEF DoCatch, IsPbase
  <2>2. ~Handles(h, t)
    BY <1>10 DEF Handles, IsPbase
  <2> QED BY <1>2, <2>1, <2>2
<1>11. CASE h # t /\ h.kind = "member" /\ t.kind = "member"
  <2>1. LessQualified(h, t) <=> ~Converts(h, t)
    BY <1>11, Qualified DEF IsType
  <2>2. got = IF LessQualified(h, t) \/ h.class # t.class THEN No ELSE pointee
    BY <1>11 DEF DoCatch, IsPbase
  <2>3. Handles(h, t) <=> Converts(h, t) /\ h.class = t.class /\ h.to = t.to
    BY <1>11 DEF Handles, IsPbase
  <2>4. Caught(h, t, obj) = obj
    BY <1>11, CaughtFacts
  <2> HIDE DEF Yes, No
  <2> QED BY <1>2, <1>4, <1>11, <2>1, <2>2, <2>3, <2>4
<1>12. CASE h # t /\ h.kind = "pointer" /\ t.kind = "pointer"
  <2>1. LessQualified(h, t) <=> ~Converts(h, t)
    BY <1>12, Qualified DEF IsType
  <2>2. got = IF LessQualified(h, t) THEN No
              ELSE IF h.to.kind = "void"
              THEN IF t.to.kind = "function" THEN No ELSE Yes(obj)
              ELSE pointee
    BY <1>12 DEF DoCatch, IsPbase
  <2>3. IsTarget(h.to, c) /\ IsTarget(t.to, whole)
    BY <1>12 DEF IsType
  <2>4. Handles(h, t) <=>
          /\ Converts(h, t)
          /\ \/ HandlesTarget(h.to, t.to, const)
             \/ h.to.kind = "void" /\ t.to.kind # "function"
    BY <1>12 DEF Handles, HandlesTarget, IsPbase
  <2>5. Caught(h, t, obj) = CaughtTarget(h.to, t.to, obj)
    <3>1. t.to.kind = "class" => t.to.class = whole
      BY <2>3 DEF IsTarget, Class
    <3> QED BY <1>12, <3>1, CaughtFacts DEF CaughtTarget, Found
  <2>6. CASE h.to.kind = "void"
    <3>1. HandlesTarget(h.to, t.to, const) => h.to = t.to
      BY <2>6 DEF HandlesTarget
    <3>2. CaughtTarget(h.to, t.to, obj) = obj
      BY <2>6 DEF CaughtTarget
    <3>3. Handles(h, t) <=> Converts(h, t) /\ t.to.kind # "function"
      BY <2>4, <2>6, <3>1
    <3> HIDE DEF Yes, No
    <3> QED BY <1>2, <2>1, <2>2, <2>5, <2>6, <3>2, <3>3
  <2>7. CASE h.to.kind # "void"
    <3> HIDE DEF Yes, No, const
    <3> QED BY <1>2, <1>3, <1>12, <2>1, <2>2, <2>4, <2>5, <2>7
  <2> QED BY <2>6, <2>7
<1>13. h.kind \in {"class", "int", "nullptr"} \/ IsPbase(h)
  BY DEF IsType, IsPbase
<1> QED BY <1>5, <1>6, <1>7, <1>8, <1>9, <1>10, <1>11, <1>12, <1>13 DEF IsPbase

-----------------------------------------------------------------------------
(* The hierarchies stay what they are. *)

LEMMA RoutesKept ==
  ASSUME UNCHANGED <<bases, whole>>
  PROVE  Routes' = Routes
BY DEF Routes, Through, ConvertToBase, VirtualAt, Offset, SumTo, Size, IsVirtualBase, Parts

\* The rule asks about the hierarchy alone.
LEMMA RuleKept ==
  ASSUME UNCHANGED <<bases, whole>>
  PROVE  /\ \A q : RightCatch(q)' = RightCatch(q)
         /\ \A c : HasPrivate(c)' = HasPrivate(c)
<1>1. \A c, at : Ways(c, at)' = Ways(c, at)
  BY RoutesKept DEF Ways
<1>2. \A c, b : UniquePublicBase(c, b)' = UniquePublicBase(c, b)
  BY <1>1, RoutesKept DEF UniquePublicBase, Ways
<1>3. \A h, t : Handles(h, t)' = Handles(h, t)
  BY <1>2 DEF Handles
<1>4. \A c, b, obj : PlaceIn(c, b, obj)' = PlaceIn(c, b, obj)
  BY RoutesKept DEF PlaceIn, Ways
<1>5. \A h, t, obj : Caught(h, t, obj)' = Caught(h, t, obj)
  BY <1>4 DEF Caught
<1>6. \A q : RightCatch(q)' = RightCatch(q)
  BY <1>3, <1>5 DEF RightCatch
<1>7. \A c : HasPrivate(c)' = HasPrivate(c)
  BY <1>1, RoutesKept DEF HasPrivate, Ways
<1> QED BY <1>6, <1>7

LEMMA HierarchyKept ==
  ASSUME Hierarchy, UNCHANGED <<bases, flags, whole>>
  PROVE  Hierarchy'
<1>1. \A c : Flags(c)' = Flags(c)
  BY RoutesKept DEF Flags, Repeats, Diamond, SameObject
<1> QED BY <1>1 DEF Hierarchy

\* A list of bases names smaller classes only.
LEMMA BaseListType ==
  ASSUME NEW c \in Classes, NEW edges, NEW virt, NEW pub, NEW down
  PROVE  /\ BaseList(edges, virt, pub, down, c) \in Seq(BaseInfo)
         /\ \A i \in DOMAIN BaseList(edges, virt, pub, down, c) :
              BaseList(edges, virt, pub, down, c)[i].type < c
<1> DEFINE n == c - 1
           D == 0 .. n
           R == {s \in Seq(BaseInfo) : \A i \in 1 .. Len(s) : s[i].type < c}
           Nth(k) == IF down THEN c - k ELSE k
           Step(k, f) == IF k = 0 THEN <<>>
                         ELSE IF <<Nth(k), c>> \in edges
                         THEN Append(f[k - 1], Base(Nth(k), virt, pub, <<Nth(k), c>>))
                         ELSE f[k - 1]
           rank == [k \in D |-> k]
           H == [f \in [D -> R] |-> [k \in D |-> Step(k, f)]]
           upTo == CHOOSE f : f = [k \in D |-> Step(k, f)]
<1>1. c \in Nat /\ n \in Nat /\ n \in D /\ \A k \in D : k # 0 => k - 1 \in D
  BY ClassFacts
<1>2. \A k \in D : k # 0 => Nth(k) \in Classes /\ Nth(k) < c
  <2>1. ASSUME NEW k \in D, k # 0 PROVE Nth(k) \in 1 .. c /\ Nth(k) < c
    BY <1>1, <2>1
  <2>2. 1 .. c \subseteq Classes
    BY ClassFacts
  <2> QED BY <2>1, <2>2
<1>3. rank \in [D -> Nat]
  BY <1>1
<1>4. <<>> \in R
  BY EmptySeq
<1>5. ASSUME NEW f, NEW k \in D, k # 0 => f[k - 1] \in R
      PROVE  Step(k, f) \in R
  <2>1. CASE k = 0
    BY <1>4, <2>1
  <2>2. CASE k # 0 /\ <<Nth(k), c>> \in edges
    <3> DEFINE b == Base(Nth(k), virt, pub, <<Nth(k), c>>)
               s == f[k - 1]
    <3>1. b \in BaseInfo /\ b.type < c
      BY <1>2, <2>2 DEF Base, BaseInfo
    <3>2. s \in Seq(BaseInfo) /\ \A i \in 1 .. Len(s) : s[i].type < c
      BY <1>5, <2>2
    <3> HIDE DEF b, s
    <3>3. /\ Append(s, b) \in Seq(BaseInfo) /\ Len(s) \in Nat
          /\ Len(Append(s, b)) = Len(s) + 1
          /\ \A i \in 1 .. Len(s) : Append(s, b)[i] = s[i]
          /\ Append(s, b)[Len(s) + 1] = b
      BY <3>1, <3>2, AppendProperties, LenProperties
    <3>4. \A i \in 1 .. Len(Append(s, b)) : Append(s, b)[i].type < c
      BY <3>1, <3>2, <3>3
    <3>5. Step(k, f) = Append(s, b)
      BY <2>2 DEF b, s
    <3> HIDE DEF Step
    <3> QED BY <3>3, <3>4, <3>5
  <2>3. CASE k # 0 /\ <<Nth(k), c>> \notin edges
    BY <1>5, <2>3
  <2> QED BY <2>1, <2>2, <2>3
<1>6. H \in [[D -> R] -> [D -> R]]
  <2>1. ASSUME NEW f \in [D -> R], NEW k \in D PROVE Step(k, f) \in R
    <3>1. k # 0 => f[k - 1] \in R
      BY <1>1
    <3> HIDE DEF Step, D, R
    <3> QED BY <1>5, <3>1
  <2> HIDE DEF Step, R
  <2> QED BY <2>1
<1>7. ASSUME NEW f \in [D -> R], NEW g \in [D -> R], NEW x \in D,
             \A y \in D : rank[y] < rank[x] => f[y] = g[y]
      PROVE  H[f][x] = H[g][x]
  <2>1. x # 0 => x - 1 \in D /\ rank[x - 1] < rank[x]
    BY <1>1
  <2>2. x # 0 => f[x - 1] = g[x - 1]
    <3> HIDE DEF D, R, rank, H
    <3> QED BY <1>7, <2>1
  <2>3. Step(x, f) = Step(x, g)
    BY <2>2
  <2> HIDE DEF Step, R
  <2> QED BY <2>3
<1>8. Recursive(D, R, H)
  <2> HIDE DEF D, R, rank, H
  <2>1. Descends(D, R, rank, H)
    BY <1>7 DEF Descends
  <2> QED BY <1>3, <1>4, <1>6, <2>1, Recursion
<1>9. PICK f \in [D -> R] : f = [k \in D |-> Step(k, f)]
  <2> HIDE DEF Step, R
  <2> QED BY <1>8 DEF Recursive
<1>10. upTo = [k \in D |-> Step(k, upTo)]
  <2> HIDE DEF Step
  <2> QED BY <1>9
<1>11. BaseList(edges, virt, pub, down, c) = upTo[n]
  BY DEF BaseList
<1> HIDE DEF upTo
<1> DEFINE G == {k \in D : upTo[k] \in R}
<1>12. ASSUME NEW k \in D, \A y \in D : rank[y] < rank[k] => y \in G
       PROVE  k \in G
  <2>1. k # 0 => k - 1 \in D /\ rank[k - 1] < rank[k]
    BY <1>1
  <2>2. k # 0 => k - 1 \in G
    <3> HIDE DEF D, rank, G
    <3> QED BY <1>12, <2>1
  <2>3. k # 0 => upTo[k - 1] \in R
    <3> HIDE DEF R
    <3> QED BY <2>2
  <2>4. Step(k, upTo) \in R
    <3> HIDE DEF Step, D, R
    <3> QED BY <1>5, <2>3
  <2>5. upTo[k] = Step(k, upTo)
    <3> HIDE DEF Step
    <3> QED BY <1>10
  <2> HIDE DEF Step, R
  <2> QED BY <2>4, <2>5
<1>13. D \subseteq G
  <2> HIDE DEF D, rank, G
  <2> QED BY <1>3, <1>12, ByRank
<1>14. upTo[n] \in R
  <2> HIDE DEF D, R
  <2> QED BY <1>1, <1>13
<1>15. \A s \in R : s \in Seq(BaseInfo) /\ \A i \in DOMAIN s : s[i].type < c
  BY LenProperties
<1> HIDE DEF R
<1> QED BY <1>11, <1>14, <1>15

LEMMA InitHierarchy == Init => Hierarchy
<1> SUFFICES ASSUME Init PROVE Hierarchy
  OBVIOUS
<1>1. PICK edges, virt, pub, down :
        bases = [c \in Classes |-> BaseList(edges, virt, pub, down, c)]
  BY DEF Init
<1>2. \A c \in Classes : bases[c] \in Seq(BaseInfo) /\ \A i \in DOMAIN bases[c] : bases[c][i].type < c
  BY <1>1, BaseListType
<1>3. bases \in [Classes -> Seq(BaseInfo)]
  BY <1>1, <1>2
<1> QED BY <1>2, <1>3 DEF Init, Hierarchy

-----------------------------------------------------------------------------
(* Where subobjects lie. *)

LEMMA SizePositive ==
  ASSUME Hierarchy, NEW c \in Classes
  PROVE  Size[c] \in Nat /\ Size[c] > 0
<1>1. SumTo(Parts(c, Size), Len(bases[c])) \in Nat
  BY SizeFacts, BaseFacts
<1>2. Size[c] = 1 + SumTo(Parts(c, Size), Len(bases[c]))
  BY SizeFacts
<1> QED BY <1>1, <1>2, SizeFacts

\* The bases that are not virtual follow each other.
LEMMA OffsetsGrow ==
  ASSUME Hierarchy, NEW c \in Classes, NEW i \in DOMAIN bases[c], NEW j \in DOMAIN bases[c],
         i < j, ~bases[c][i].virtual
  PROVE  Offset(c, i) + Size[bases[c][i].type] <= Offset(c, j)
<1> DEFINE p == Parts(c, Size)
           n == Len(bases[c])
<1>1. n \in Nat /\ \A k \in 1 .. n : p[k] \in Nat
  BY PartsFacts, SizeFacts, BaseFacts
<1>2. i \in 1 .. n /\ i - 1 \in 0 .. n /\ i \in 0 .. n /\ j - 1 \in 0 .. n /\ i <= j - 1
  BY BaseFacts
<1>3. Offset(c, i) = SumTo(p, i - 1) /\ Offset(c, j) = SumTo(p, j - 1)
  BY DEF Offset
<1>4. p[i] = Size[bases[c][i].type]
  BY DEF Parts
<1> HIDE DEF p, n
<1>5. SumTo(p, i) = SumTo(p, i - 1) + p[i] /\ SumTo(p, i) <= SumTo(p, j - 1)
  BY <1>1, <1>2, SumFacts
<1> QED BY <1>3, <1>4, <1>5

\* What a way through a base is, place by place.
LEMMA Stepped ==
  ASSUME Hierarchy, NEW c \in Classes, NEW i \in DOMAIN bases[c],
         NEW v \in Routes[bases[c][i].type]
  PROVE  /\ v \in Way /\ v.type \in Classes /\ v.at \in Nat /\ v.public \in BOOLEAN
         /\ v.virtual \in BOOLEAN
         /\ Through(c, i, v) \in Routes[c]
         /\ Through(c, i, v).type = v.type
         /\ Through(c, i, v).public <=> v.public /\ bases[c][i].public
         /\ Through(c, i, v).virtual <=> v.virtual \/ bases[c][i].virtual
         /\ \A at \in Nat : Place(Through(c, i, v), at) = Place(v, ConvertToBase(c, i, at))
<1>1. bases[c][i].virtual \in BOOLEAN /\ bases[c][i].public \in BOOLEAN
  BY BaseFacts
<1>2. v \in Way /\ Through(c, i, v) \in Routes[c]
  BY RoutesSplit
<1>3. v.type \in Classes /\ v.at \in Nat /\ v.public \in BOOLEAN /\ v.virtual \in BOOLEAN
  BY <1>2 DEF Way
<1>4. /\ Through(c, i, v).type = v.type
      /\ Through(c, i, v).at = IF v.virtual THEN v.at ELSE ConvertToBase(c, i, 0) + v.at
      /\ Through(c, i, v).public = (v.public /\ bases[c][i].public)
      /\ Through(c, i, v).virtual = (v.virtual \/ bases[c][i].virtual)
  BY <1>2, ThroughFacts
<1>5. \A at \in Nat : Place(Through(c, i, v), at) = Place(v, ConvertToBase(c, i, at))
  <2> SUFFICES ASSUME NEW at \in Nat
               PROVE  Place(Through(c, i, v), at) = Place(v, ConvertToBase(c, i, at))
    OBVIOUS
  <2>1. /\ ConvertToBase(c, i, 0) \in Nat
        /\ ConvertToBase(c, i, at) = IF bases[c][i].virtual THEN ConvertToBase(c, i, 0)
                                     ELSE at + ConvertToBase(c, i, 0)
    BY Converted
  <2> QED BY <1>1, <1>3, <1>4, <2>1 DEF Place
<1> QED BY <1>1, <1>2, <1>3, <1>4, <1>5

\* A way that goes through no virtual base ends within the class.
LEMMA NestedInside ==
  ASSUME Hierarchy
  PROVE  \A c \in Classes : \A w \in Routes[c] :
           ~w.virtual => w.at + Size[w.type] <= Size[c]
<1> DEFINE rank == [c \in Classes |-> c]
           G == {c \in Classes : \A w \in Routes[c] :
                   ~w.virtual => w.at + Size[w.type] <= Size[c]}
<1>1. rank \in [Classes -> Nat]
  BY ClassFacts
<1>2. ASSUME NEW c \in Classes, \A y \in Classes : rank[y] < rank[c] => y \in G
      PROVE  c \in G
  <2> SUFFICES ASSUME NEW w \in Routes[c], ~w.virtual
               PROVE  w.at + Size[w.type] <= Size[c]
    OBVIOUS
  <2>1. CASE w = Here(c)
    BY <2>1, HereFacts, SizePositive
  <2>2. CASE \E i \in DOMAIN bases[c] : \E v \in Routes[bases[c][i].type] : w = Through(c, i, v)
    <3>0. PICK i \in DOMAIN bases[c] : \E v \in Routes[bases[c][i].type] : w = Through(c, i, v)
      BY <2>2
    <3>1. PICK v \in Routes[bases[c][i].type] : w = Through(c, i, v)
      BY <3>0
    <3> DEFINE b == bases[c][i].type
    <3>2. b \in Classes /\ b < c
      BY BaseFacts
    <3>3. /\ v.at \in Nat /\ v.type \in Classes /\ w.type = v.type
          /\ ~v.virtual /\ ~bases[c][i].virtual
          /\ Place(w, 0) = Place(v, ConvertToBase(c, i, 0))
      BY <3>1, Stepped
    <3>4. v.at + Size[v.type] <= Size[b]
      BY <1>2, <3>2, <3>3
    <3>5. w.at \in Nat
      BY RoutesSplit DEF Way
    <3>6. w.at = Offset(c, i) + v.at
      BY <3>3, <3>5, OffsetFacts DEF Place, ConvertToBase
    <3>7. Offset(c, i) \in Nat /\ Offset(c, i) + Size[b] < Size[c]
      BY <3>3, OffsetFacts
    <3>8. Size[b] \in Nat /\ Size[c] \in Nat /\ Size[v.type] \in Nat
      BY <3>2, <3>3, SizePositive
    <3> HIDE DEF b
    <3> QED BY <3>3, <3>4, <3>6, <3>7, <3>8
  <2> QED BY <2>1, <2>2, RoutesSplit
<1>3. Classes \subseteq G
  <2> HIDE DEF rank, G
  <2> QED BY <1>1, <1>2, ByRank
<1> QED BY <1>3

\* An object takes the n places from o on: does it lie apart from another one?
Apart(o, n, p, m) == o + n <= p \/ p + m <= o

\* A way to a virtual base, or past one, is a way within a virtual base.
LEMMA VirtualSplit ==
  ASSUME Hierarchy
  PROVE  \A c \in Classes : \A w \in Routes[c] : w.virtual =>
           \E u \in Classes : /\ u < c /\ IsVirtualBase(u)
                              /\ \E x \in Routes[u] : /\ ~x.virtual /\ x.type = w.type
                                                      /\ w.at = VirtualAt(u) + x.at
<1> DEFINE Ends(c, w) == \E u \in Classes :
                           /\ u < c /\ IsVirtualBase(u)
                           /\ \E x \in Routes[u] : /\ ~x.virtual /\ x.type = w.type
                                                   /\ w.at = VirtualAt(u) + x.at
           rank == [c \in Classes |-> c]
           G == {c \in Classes : \A w \in Routes[c] : w.virtual => Ends(c, w)}
<1>1. rank \in [Classes -> Nat]
  BY ClassFacts
<1>2. ASSUME NEW c \in Classes, \A y \in Classes : rank[y] < rank[c] => y \in G
      PROVE  c \in G
  <2> SUFFICES ASSUME NEW w \in Routes[c], w.virtual PROVE Ends(c, w)
    OBVIOUS
  <2>1. w # Here(c)
    BY HereFacts
  <2>2. PICK i \in DOMAIN bases[c] : \E v \in Routes[bases[c][i].type] : w = Through(c, i, v)
    BY <2>1, RoutesSplit
  <2>3. PICK v \in Routes[bases[c][i].type] : w = Through(c, i, v)
    BY <2>2
  <2> DEFINE b == bases[c][i].type
  <2>4. b \in Classes /\ b < c /\ b \in Nat /\ c \in Nat
    BY BaseFacts, ClassFacts
  <2>5. /\ v.at \in Nat /\ v.virtual \in BOOLEAN /\ w.type = v.type
        /\ v.virtual \/ bases[c][i].virtual
        /\ Place(w, 0) = Place(v, ConvertToBase(c, i, 0))
    BY <2>3, Stepped
  <2>6. w.at = Place(v, ConvertToBase(c, i, 0))
    BY <2>5 DEF Place
  <2>7. CASE v.virtual
    <3>1. Ends(b, v)
      BY <1>2, <2>4, <2>7
    <3>2. PICK u \in Classes : /\ u < b /\ IsVirtualBase(u)
                               /\ \E x \in Routes[u] : /\ ~x.virtual /\ x.type = v.type
                                                       /\ v.at = VirtualAt(u) + x.at
      BY <3>1
    <3>3. u < c /\ w.at = v.at
      BY <2>4, <2>6, <2>7, <3>2, ClassFacts DEF Place
    <3> QED BY <2>5, <3>2, <3>3
  <2>8. CASE ~v.virtual
    <3>1. bases[c][i].virtual
      BY <2>5, <2>8
    <3>2. IsVirtualBase(b)
      BY <3>1 DEF IsVirtualBase
    <3>3. w.at = VirtualAt(b) + v.at
      BY <2>6, <2>8, <3>1 DEF Place, ConvertToBase
    <3> QED BY <2>3, <2>4, <2>5, <2>8, <3>2, <3>3
  <2> QED BY <2>5, <2>7, <2>8
<1>3. Classes \subseteq G
  <2> HIDE DEF rank, G
  <2> QED BY <1>1, <1>2, ByRank
<1> QED BY <1>3

\* Ways that go through no virtual base lead to objects that lie apart, if they
\* lead to two of one class.
LEMMA OnlyOneWay ==
  ASSUME Hierarchy
  PROVE  \A c \in Classes : \A v, w \in Routes[c] :
           /\ ~v.virtual /\ ~w.virtual /\ v.type = w.type
           /\ ~Apart(v.at, Size[v.type], w.at, Size[w.type])
           => v = w
<1> DEFINE Same(v, w) == /\ ~v.virtual /\ ~w.virtual /\ v.type = w.type
                         /\ ~Apart(v.at, Size[v.type], w.at, Size[w.type])
                         => v = w
           rank == [c \in Classes |-> c]
           G == {c \in Classes : \A v, w \in Routes[c] : Same(v, w)}
<1>1. rank \in [Classes -> Nat]
  BY ClassFacts
<1>2. ASSUME NEW c \in Classes, \A y \in Classes : rank[y] < rank[c] => y \in G
      PROVE  c \in G
  <2> SUFFICES ASSUME NEW v \in Routes[c], NEW w \in Routes[c],
                      ~v.virtual, ~w.virtual, v.type = w.type,
                      ~Apart(v.at, Size[v.type], w.at, Size[w.type])
               PROVE  v = w
    OBVIOUS
  <2>1. CASE v = Here(c) \/ w = Here(c)
    BY <2>1, HereFacts, WayFacts
  <2>2. CASE v # Here(c) /\ w # Here(c)
    <3>1. PICK i \in DOMAIN bases[c] : \E x \in Routes[bases[c][i].type] : v = Through(c, i, x)
      BY <2>2, RoutesSplit
    <3>2. PICK x \in Routes[bases[c][i].type] : v = Through(c, i, x)
      BY <3>1
    <3>3. PICK j \in DOMAIN bases[c] : \E y \in Routes[bases[c][j].type] : w = Through(c, j, y)
      BY <2>2, RoutesSplit
    <3>4. PICK y \in Routes[bases[c][j].type] : w = Through(c, j, y)
      BY <3>3
    <3>5. /\ x.at \in Nat /\ x.type \in Classes /\ v.type = x.type
          /\ ~x.virtual /\ ~bases[c][i].virtual
          /\ Place(v, 0) = Place(x, ConvertToBase(c, i, 0))
      BY <3>2, Stepped
    <3>6. /\ y.at \in Nat /\ y.type \in Classes /\ w.type = y.type
          /\ ~y.virtual /\ ~bases[c][j].virtual
          /\ Place(w, 0) = Place(y, ConvertToBase(c, j, 0))
      BY <3>4, Stepped
    <3>7. v.at \in Nat /\ w.at \in Nat
      BY RoutesSplit DEF Way
    <3>8. v.at = Offset(c, i) + x.at /\ w.at = Offset(c, j) + y.at
      BY <3>5, <3>6, <3>7, OffsetFacts DEF Place, ConvertToBase
    <3>9. Offset(c, i) \in Nat /\ Offset(c, j) \in Nat
      BY OffsetFacts
    <3> DEFINE b == bases[c][i].type
               d == bases[c][j].type
    <3>10. b \in Classes /\ d \in Classes /\ b < c /\ d < c
      BY BaseFacts
    <3>11. x.at + Size[x.type] <= Size[b] /\ y.at + Size[y.type] <= Size[d]
      BY <3>2, <3>4, <3>5, <3>6, <3>10, NestedInside
    <3>12. /\ Size[b] \in Nat /\ Size[d] \in Nat /\ Size[x.type] \in Nat
           /\ x.type = y.type
      BY <3>5, <3>6, <3>10, SizePositive
    <3>13. i \in Nat /\ j \in Nat
      BY BaseFacts
    <3>14. /\ i < j => Offset(c, i) + Size[b] <= Offset(c, j)
           /\ j < i => Offset(c, j) + Size[d] <= Offset(c, i)
      BY <3>5, <3>6, OffsetsGrow
    <3>15. i = j
      <4> HIDE DEF b, d
      <4> QED BY <3>5, <3>6, <3>7, <3>8, <3>9, <3>11, <3>12, <3>13, <3>14 DEF Apart
    <3>16. x.type = y.type /\ ~Apart(x.at, Size[x.type], y.at, Size[y.type])
      BY <3>5, <3>6, <3>7, <3>8, <3>9, <3>12, <3>15 DEF Apart
    <3>17. Same(x, y)
      BY <1>2, <3>2, <3>4, <3>10, <3>15
    <3> QED BY <3>2, <3>4, <3>5, <3>6, <3>15, <3>16, <3>17
  <2> QED BY <2>1, <2>2
<1>3. Classes \subseteq G
  <2> HIDE DEF rank, G
  <2> QED BY <1>1, <1>2, ByRank
<1> QED BY <1>3

\* A way down from where a way ends goes on with it.
Joins(w, v, u) ==
  /\ w.type = u.type
  /\ w.public <=> v.public /\ u.public
  /\ w.virtual <=> v.virtual \/ u.virtual
  /\ w.route = v.route \o u.route
  /\ \A at \in Nat : Place(w, at) = Place(u, Place(v, at))

LEMMA RoutesJoin ==
  /\ \A r, s, t \in Seq(Nat) : (r \o s) \o t = r \o (s \o t)
  /\ \A r, s, t \in Seq(Nat) : r \o t = s \o t => r = s
<1>1. \A r, s, t \in Seq(Nat) : (r \o s) \o t = r \o (s \o t)
  BY ConcatAssociative
<1> QED BY <1>1, ConcatSimplifications, Zenon

LEMMA JoinedWays ==
  ASSUME Hierarchy
  PROVE  \A c \in Classes : \A v \in Routes[c] : \A u \in Routes[v.type] :
           \E w \in Routes[c] : Joins(w, v, u)
<1> DEFINE rank == [c \in Classes |-> c]
           G == {c \in Classes : \A v \in Routes[c] : \A u \in Routes[v.type] :
                   \E w \in Routes[c] : Joins(w, v, u)}
<1>1. rank \in [Classes -> Nat]
  BY ClassFacts
<1>2. ASSUME NEW c \in Classes, \A y \in Classes : rank[y] < rank[c] => y \in G
      PROVE  c \in G
  <2> SUFFICES ASSUME NEW v \in Routes[c], NEW u \in Routes[v.type]
               PROVE  \E w \in Routes[c] : Joins(w, v, u)
    OBVIOUS
  <2>0. v \in Way /\ v.type \in Classes
    BY RoutesSplit DEF Way
  <2>u. /\ u \in Way /\ u.at \in Nat /\ u.public \in BOOLEAN /\ u.virtual \in BOOLEAN
        /\ u.route \in Seq(Nat) /\ u.type \in Classes
    BY <2>0, RoutesSplit DEF Way
  <2>1. CASE v = Here(c)
    <3>1. /\ v.type = c /\ v.at = 0 /\ v.public /\ ~v.virtual /\ v.route = <<>>
      BY <2>1, HereFacts DEF Here
    <3>2. <<>> \o u.route = u.route
      BY <2>u, ConcatEmptySeq
    <3>3. \A at \in Nat : Place(v, at) = at
      BY <3>1 DEF Place
    <3>4. Joins(u, v, u)
      BY <2>u, <3>1, <3>2, <3>3 DEF Joins
    <3> QED BY <3>1, <3>4
  <2>2. CASE v # Here(c)
    <3>1. PICK i \in DOMAIN bases[c] : \E x \in Routes[bases[c][i].type] : v = Through(c, i, x)
      BY <2>2, RoutesSplit
    <3>2. PICK x \in Routes[bases[c][i].type] : v = Through(c, i, x)
      BY <3>1
    <3> DEFINE b == bases[c][i].type
    <3>3. b \in Classes /\ b < c /\ bases[c][i].virtual \in BOOLEAN
          /\ bases[c][i].public \in BOOLEAN /\ i \in Nat
      BY BaseFacts
    <3>4. /\ x \in Way /\ v.type = x.type
          /\ v.public <=> x.public /\ bases[c][i].public
          /\ v.virtual <=> x.virtual \/ bases[c][i].virtual
          /\ \A at \in Nat : Place(v, at) = Place(x, ConvertToBase(c, i, at))
      BY <3>2, Stepped
    <3>5. PICK y \in Routes[b] : Joins(y, x, u)
      BY <1>2, <3>2, <3>3, <3>4
    <3> DEFINE w == Through(c, i, y)
    <3>6. /\ y \in Way /\ w \in Routes[c] /\ w.type = y.type
          /\ w.public <=> y.public /\ bases[c][i].public
          /\ w.virtual <=> y.virtual \/ bases[c][i].virtual
          /\ \A at \in Nat : Place(w, at) = Place(y, ConvertToBase(c, i, at))
      BY Stepped
    <3>7. v.route = <<i>> \o x.route /\ w.route = <<i>> \o y.route
      BY <3>2 DEF Through
    <3>8. x.route \in Seq(Nat) /\ <<i>> \in Seq(Nat)
      BY <3>3, <3>4 DEF Way
    <3>9. w.route = v.route \o u.route
      <4>1. w.route = <<i>> \o (x.route \o u.route)
        BY <3>5, <3>7 DEF Joins
      <4>2. v.route \o u.route = (<<i>> \o x.route) \o u.route
        BY <3>7
      <4> HIDE DEF w
      <4>3. (<<i>> \o x.route) \o u.route = <<i>> \o (x.route \o u.route)
        BY <2>u, <3>8, RoutesJoin, Zenon
      <4> QED BY <4>1, <4>2, <4>3
    <3>10. \A at \in Nat : Place(w, at) = Place(u, Place(v, at))
      <4> SUFFICES ASSUME NEW at \in Nat PROVE Place(w, at) = Place(u, Place(v, at))
        OBVIOUS
      <4>1. ConvertToBase(c, i, at) \in Nat
        BY Converted
      <4> HIDE DEF w
      <4> QED BY <3>4, <3>5, <3>6, <4>1 DEF Joins
    <3> HIDE DEF w
    <3>11. Joins(w, v, u)
      BY <3>4, <3>5, <3>6, <3>9, <3>10 DEF Joins
    <3> QED BY <3>6, <3>11
  <2> QED BY <2>1, <2>2
<1>3. Classes \subseteq G
  <2> HIDE DEF rank, G
  <2> QED BY <1>1, <1>2, ByRank
<1> QED BY <1>3

\* What is laid out for itself: the whole object, and each virtual base.
Block(r, at) == \/ r = whole /\ at = Origin
                \/ r \in Classes /\ IsVirtualBase(r) /\ at = VirtualAt(r)

LEMMA BlocksApart ==
  ASSUME Hierarchy, NEW r, NEW at, Block(r, at), NEW s, NEW bt, Block(s, bt)
  PROVE  /\ r \in Classes /\ at \in Nat /\ Origin <= at
         /\ (r = s /\ at = bt) \/ Apart(at, Size[r], bt, Size[s])
<1>1. whole \in Classes /\ Origin \in Nat
  BY ClassFacts DEF Hierarchy
<1>2. r \in Classes /\ s \in Classes
  BY <1>1 DEF Block
<1>3. Size[r] \in Nat /\ Size[s] \in Nat /\ Size[whole] \in Nat /\ r \in Nat /\ s \in Nat
  BY <1>1, <1>2, SizePositive, ClassFacts
<1>4. /\ VirtualAt(r) \in Nat /\ Origin + Size[whole] <= VirtualAt(r)
      /\ IsVirtualBase(s) /\ s < r => VirtualAt(s) + Size[s] <= VirtualAt(r)
  BY <1>2, VirtualFacts
<1>5. /\ VirtualAt(s) \in Nat /\ Origin + Size[whole] <= VirtualAt(s)
      /\ IsVirtualBase(r) /\ r < s => VirtualAt(r) + Size[r] <= VirtualAt(s)
  BY <1>2, VirtualFacts
<1>6. CASE r = whole /\ at = Origin
  <2>1. CASE s = whole /\ bt = Origin
    BY <1>1, <1>6, <2>1
  <2>2. CASE bt = VirtualAt(s)
    BY <1>1, <1>3, <1>5, <1>6, <2>2 DEF Apart
  <2> QED BY <2>1, <2>2 DEF Block
<1>7. CASE IsVirtualBase(r) /\ at = VirtualAt(r)
  <2>1. CASE s = whole /\ bt = Origin
    BY <1>1, <1>2, <1>3, <1>4, <1>7, <2>1 DEF Apart
  <2>2. CASE IsVirtualBase(s) /\ bt = VirtualAt(s)
    <3>1. CASE r = s
      BY <1>1, <1>2, <1>3, <1>4, <1>7, <2>2, <3>1
    <3>2. CASE r < s \/ s < r
      BY <1>1, <1>2, <1>3, <1>4, <1>5, <1>7, <2>2, <3>2 DEF Apart
    <3> QED BY <1>3, <3>1, <3>2
  <2> QED BY <2>1, <2>2 DEF Block
<1> QED BY <1>6, <1>7 DEF Block

\* The object (c, o) has the object (d, p) in itself, behind no virtual base.
Nested(c, o, d, p) == \E w \in Routes[c] : ~w.virtual /\ w.type = d /\ o + w.at = p

LEMMA NestedFacts ==
  ASSUME Hierarchy, NEW c \in Classes, NEW o \in Nat, NEW d, NEW p, Nested(c, o, d, p)
  PROVE  /\ d \in Classes /\ p \in Nat /\ o <= p /\ p + Size[d] <= o + Size[c]
         /\ d <= c /\ (d = c => p = o)
<1>1. PICK w \in Routes[c] : ~w.virtual /\ w.type = d /\ o + w.at = p
  BY DEF Nested
<1>2. w.at \in Nat /\ d \in Classes
  BY <1>1, RoutesSplit DEF Way
<1>3. w.at + Size[d] <= Size[c] /\ d <= c /\ (d = c => w = Here(c))
  BY <1>1, NestedInside, WayFacts
<1>4. Size[d] \in Nat /\ Size[c] \in Nat
  BY <1>2, SizePositive
<1>5. d = c => w.at = 0
  BY <1>3, HereFacts
<1> QED BY <1>1, <1>2, <1>3, <1>4, <1>5

\* The object of class c at the address at is a part of the whole object.
Subobject(c, at) == \E w \in Routes[whole] : w.type = c /\ Place(w, Origin) = at

LEMMA SubobjectFacts ==
  ASSUME Hierarchy, NEW c, NEW at, Subobject(c, at)
  PROVE  /\ c \in Classes /\ at \in Nat /\ Origin <= at
         /\ \E r, bt : Block(r, bt) /\ Nested(r, bt, c, at)
<1>0. whole \in Classes /\ Origin \in Nat
  BY ClassFacts DEF Hierarchy
<1>1. PICK w \in Routes[whole] : w.type = c /\ Place(w, Origin) = at
  BY DEF Subobject
<1>2. c \in Classes /\ w.at \in Nat /\ w.virtual \in BOOLEAN
  BY <1>0, <1>1, RoutesSplit DEF Way
<1>3. \E r, bt : Block(r, bt) /\ Nested(r, bt, c, at)
  <2>1. CASE ~w.virtual
    <3>1. Nested(whole, Origin, c, at)
      BY <1>1, <2>1 DEF Nested, Place
    <3> QED BY <3>1 DEF Block
  <2>2. CASE w.virtual
    <3>1. PICK u \in Classes : /\ IsVirtualBase(u)
                               /\ \E x \in Routes[u] : /\ ~x.virtual /\ x.type = w.type
                                                       /\ w.at = VirtualAt(u) + x.at
      BY <1>0, <2>2, VirtualSplit
    <3>2. Nested(u, VirtualAt(u), c, at)
      BY <1>1, <2>2, <3>1 DEF Nested, Place
    <3> QED BY <3>1, <3>2 DEF Block
  <2> QED BY <1>2, <2>1, <2>2
<1>4. PICK r, bt : Block(r, bt) /\ Nested(r, bt, c, at)
  BY <1>3
<1>5. r \in Classes /\ bt \in Nat /\ Origin <= bt
  BY <1>4, BlocksApart
<1>6. at \in Nat /\ bt <= at
  BY <1>4, <1>5, NestedFacts
<1> QED BY <1>0, <1>2, <1>3, <1>5, <1>6

\* The object (c, o) has the object (d, p) in itself, or nothing of it.
Clear(c, o, d, p) == Apart(o, Size[c], p, Size[d]) \/ Nested(c, o, d, p)

\* So it is with the whole object and the virtual bases, ...
LEMMA BlockIsClear ==
  ASSUME Hierarchy, NEW r, NEW at, Block(r, at), NEW d, NEW p, Subobject(d, p)
  PROVE  Clear(r, at, d, p)
<1>1. /\ d \in Classes /\ p \in Nat
      /\ \E s, bt : Block(s, bt) /\ Nested(s, bt, d, p)
  BY SubobjectFacts
<1>2. PICK s, bt : Block(s, bt) /\ Nested(s, bt, d, p)
  BY <1>1
<1>3. /\ r \in Classes /\ at \in Nat
      /\ (r = s /\ at = bt) \/ Apart(at, Size[r], bt, Size[s])
  BY <1>2, BlocksApart
<1>4. s \in Classes /\ bt \in Nat
  BY <1>2, BlocksApart
<1>5. bt <= p /\ p + Size[d] <= bt + Size[s]
  BY <1>2, <1>4, NestedFacts
<1>6. Size[r] \in Nat /\ Size[s] \in Nat /\ Size[d] \in Nat
  BY <1>1, <1>3, <1>4, SizePositive
<1> QED BY <1>1, <1>2, <1>3, <1>4, <1>5, <1>6 DEF Clear, Apart

\* ... and with the bases of a class with which it is so.
LEMMA BaseIsClear ==
  ASSUME Hierarchy, NEW c \in Classes, NEW o \in Nat, NEW i \in DOMAIN bases[c],
         NEW d, NEW p, Subobject(d, p), ~(c = d /\ o = p), Clear(c, o, d, p)
  PROVE  Clear(bases[c][i].type, ConvertToBase(c, i, o), d, p)
<1> DEFINE b == bases[c][i].type
           o2 == ConvertToBase(c, i, o)
<1>1. b \in Classes /\ o2 \in Nat /\ bases[c][i].virtual \in BOOLEAN
  BY BaseFacts, Converted
<1>2. CASE bases[c][i].virtual
  <2>1. Block(b, o2)
    BY <1>1, <1>2 DEF Block, IsVirtualBase, ConvertToBase
  <2> QED BY <2>1, BlockIsClear
<1>3. CASE ~bases[c][i].virtual
  <2>1. /\ o2 = o + Offset(c, i) /\ Offset(c, i) \in Nat
        /\ Offset(c, i) + Size[b] < Size[c]
    BY <1>3, OffsetFacts DEF ConvertToBase
  <2>2. d \in Classes /\ p \in Nat
    BY SubobjectFacts
  <2>3. Size[b] \in Nat /\ Size[c] \in Nat /\ Size[d] \in Nat
    BY <1>1, <2>2, SizePositive
  <2>4. CASE Apart(o, Size[c], p, Size[d])
    <3>1. Apart(o2, Size[b], p, Size[d])
      <4> HIDE DEF b, o2
      <4> QED BY <2>1, <2>2, <2>3, <2>4 DEF Apart
    <3> QED BY <3>1 DEF Clear
  <2>5. CASE Nested(c, o, d, p)
    <3>1. PICK w \in Routes[c] : ~w.virtual /\ w.type = d /\ o + w.at = p
      BY <2>5 DEF Nested
    <3>2. w # Here(c)
      <4>1. Here(c).type = c /\ Here(c).at = 0
        BY HereFacts
      <4> QED BY <3>1, <4>1
    <3>3. PICK j \in DOMAIN bases[c] : \E x \in Routes[bases[c][j].type] : w = Through(c, j, x)
      BY <3>2, RoutesSplit
    <3>4. PICK x \in Routes[bases[c][j].type] : w = Through(c, j, x)
      BY <3>3
    <3> DEFINE e == bases[c][j].type
    <3>5. /\ x.at \in Nat /\ x.type = d /\ ~x.virtual /\ ~bases[c][j].virtual
          /\ Place(w, 0) = Place(x, ConvertToBase(c, j, 0))
      BY <3>1, <3>4, Stepped
    <3>6. w.at \in Nat
      BY RoutesSplit DEF Way
    <3>7. w.at = Offset(c, j) + x.at /\ Offset(c, j) \in Nat
      BY <3>1, <3>5, <3>6, OffsetFacts DEF Place, ConvertToBase
    <3>8. CASE i = j
      <4>1. o2 + x.at = p
        <5> HIDE DEF o2
        <5> QED BY <2>1, <3>1, <3>5, <3>7, <3>8
      <4>2. Nested(b, o2, d, p)
        BY <3>4, <3>5, <3>8, <4>1 DEF Nested
      <4> QED BY <4>2 DEF Clear
    <3>9. CASE i # j
      <4>1. x.at + Size[d] <= Size[e] /\ e \in Classes
        BY <3>4, <3>5, NestedInside, BaseFacts
      <4>2. Size[e] \in Nat /\ i \in Nat /\ j \in Nat
        BY <4>1, SizePositive, BaseFacts
      <4>3. /\ i < j => Offset(c, i) + Size[b] <= Offset(c, j)
            /\ j < i => Offset(c, j) + Size[e] <= Offset(c, i)
        BY <1>3, <3>5, OffsetsGrow
      <4>4. Apart(o2, Size[b], p, Size[d])
        <5> HIDE DEF b, e, o2
        <5> QED BY <2>1, <2>2, <2>3, <3>1, <3>5, <3>7, <3>9, <4>1, <4>2, <4>3 DEF Apart
      <4> QED BY <4>4 DEF Clear
    <3> QED BY <3>8, <3>9
  <2> QED BY <2>4, <2>5 DEF Clear
<1> QED BY <1>1, <1>2, <1>3

\* A subobject that lies in one object of a class lies in no other one.
LEMMA OneAround ==
  ASSUME Hierarchy, NEW d, NEW p, Subobject(d, p), NEW s, NEW at, Nested(d, p, s, at),
         NEW p2, Subobject(d, p2), NEW u \in Routes[d], u.type = s, Place(u, p2) = at
  PROVE  p2 = p
<1>1. /\ d \in Classes /\ p \in Nat
      /\ \E r, bt : Block(r, bt) /\ Nested(r, bt, d, p)
  BY SubobjectFacts
<1>2. /\ p2 \in Nat
      /\ \E r, bt : Block(r, bt) /\ Nested(r, bt, d, p2)
  BY SubobjectFacts
<1>3. PICK r, bt : Block(r, bt) /\ Nested(r, bt, d, p)
  BY <1>1
<1>4. PICK r2, bt2 : Block(r2, bt2) /\ Nested(r2, bt2, d, p2)
  BY <1>2
<1>5. /\ r \in Classes /\ bt \in Nat
      /\ (r = r2 /\ bt = bt2) \/ Apart(bt, Size[r], bt2, Size[r2])
  BY <1>3, <1>4, BlocksApart
<1>6. r2 \in Classes /\ bt2 \in Nat
  BY <1>3, <1>4, BlocksApart
<1>7. bt <= p /\ p + Size[d] <= bt + Size[r] /\ d <= r
  BY <1>3, <1>5, NestedFacts
<1>8. bt2 <= p2 /\ p2 + Size[d] <= bt2 + Size[r2]
  BY <1>4, <1>6, NestedFacts
<1>9. s \in Classes /\ at \in Nat /\ p <= at /\ at + Size[s] <= p + Size[d]
  BY <1>1, NestedFacts
<1>10. /\ Size[r] \in Nat /\ Size[r2] \in Nat /\ Size[d] \in Nat
       /\ Size[s] \in Nat /\ Size[s] > 0
  BY <1>1, <1>5, <1>6, <1>9, SizePositive
<1>11. u.at \in Nat /\ u.virtual \in BOOLEAN
  BY <1>1, RoutesSplit DEF Way
<1>12. CASE u.virtual
  <2>1. PICK b \in Classes : /\ b < d /\ IsVirtualBase(b)
                             /\ VirtualAt(b) <= u.at /\ u.at < VirtualAt(b) + Size[b]
    BY <1>1, <1>12, WayFacts DEF Behind
  <2>2. Block(b, VirtualAt(b)) /\ u.at = at
    BY <1>12, <2>1 DEF Block, Place
  <2>3. /\ VirtualAt(b) \in Nat
        /\ (r = b /\ bt = VirtualAt(b)) \/ Apart(bt, Size[r], VirtualAt(b), Size[b])
    BY <1>3, <2>2, BlocksApart
  <2>4. Size[b] \in Nat /\ b \in Nat /\ d \in Nat /\ r \in Nat
    BY <1>1, <1>5, <2>1, SizePositive, ClassFacts
  <2> QED BY <1>1, <1>5, <1>7, <1>9, <1>10, <1>11, <2>1, <2>2, <2>3, <2>4 DEF Apart
<1>13. CASE ~u.virtual
  <2>1. u.at + Size[s] <= Size[d] /\ p2 + u.at = at
    BY <1>1, <1>13, NestedInside DEF Place
  <2>2. r = r2 /\ bt = bt2
    BY <1>1, <1>2, <1>5, <1>6, <1>7, <1>8, <1>9, <1>10, <1>11, <2>1 DEF Apart
  <2>3. PICK x \in Routes[r] : ~x.virtual /\ x.type = d /\ bt + x.at = p
    BY <1>3 DEF Nested
  <2>4. PICK y \in Routes[r] : ~y.virtual /\ y.type = d /\ bt + y.at = p2
    BY <1>4, <2>2 DEF Nested
  <2>5. x.at \in Nat /\ y.at \in Nat
    BY <1>5, RoutesSplit DEF Way
  <2>6. ~Apart(x.at, Size[x.type], y.at, Size[y.type])
    BY <1>1, <1>2, <1>5, <1>9, <1>10, <1>11, <2>1, <2>3, <2>4, <2>5 DEF Apart
  <2>7. x = y
    BY <1>5, <2>3, <2>4, <2>6, OnlyOneWay
  <2> QED BY <2>3, <2>4, <2>7
<1> QED BY <1>11, <1>12, <1>13

\* A virtual base lies behind the whole object; to what lies in it only one way
\* leads.
LEMMA StraightWay ==
  ASSUME Hierarchy, NEW v \in Routes[whole], ~v.virtual
  PROVE  /\ \A w \in Routes[whole] :
              w.type = v.type /\ Place(w, Origin) = Place(v, Origin) => w = v
         /\ \A c \in Classes : \A u \in Routes[c] : u.virtual => u.at # Place(v, Origin)
<1>0. whole \in Classes /\ Origin \in Nat /\ Size[whole] \in Nat
  BY ClassFacts, SizePositive DEF Hierarchy
<1>1. v.at \in Nat /\ v.type \in Classes /\ Place(v, Origin) = Origin + v.at
  BY <1>0, RoutesSplit DEF Way, Place
<1>2. v.at < Size[whole] /\ Size[v.type] \in Nat /\ Size[v.type] > 0
  BY <1>0, <1>1, WayFacts, SizePositive DEF Inside
<1>3. ASSUME NEW c \in Classes, NEW u \in Routes[c], u.virtual
      PROVE  u.at # Place(v, Origin)
  <2>1. PICK b \in Classes : VirtualAt(b) <= u.at
    BY <1>3, WayFacts DEF Behind
  <2>2. VirtualAt(b) \in Nat /\ Origin + Size[whole] <= VirtualAt(b)
    BY VirtualFacts
  <2>3. u.at \in Nat
    BY RoutesSplit DEF Way
  <2> QED BY <1>0, <1>1, <1>2, <2>1, <2>2, <2>3
<1>4. ASSUME NEW w \in Routes[whole], w.type = v.type, Place(w, Origin) = Place(v, Origin)
      PROVE  w = v
  <2>1. w.at \in Nat /\ w.virtual \in BOOLEAN
    BY <1>0, RoutesSplit DEF Way
  <2>2. ~w.virtual
    BY <1>0, <1>3, <1>4, <2>1 DEF Place
  <2>3. w.at = v.at
    BY <1>0, <1>1, <1>4, <2>1, <2>2 DEF Place
  <2>4. ~Apart(v.at, Size[v.type], w.at, Size[w.type])
    BY <1>1, <1>2, <1>4, <2>3 DEF Apart
  <2> QED BY <1>0, <1>4, <2>2, <2>4, OnlyOneWay
<1> QED BY <1>3, <1>4

\* Of an object that has (d, p) in itself or nothing of it, every part is such an
\* object, unless it is a part of (d, p).
LEMMA PartsAreClear ==
  ASSUME Hierarchy, NEW d, NEW p, Subobject(d, p)
  PROVE  \A c \in Classes : \A o \in Nat : Clear(c, o, d, p) =>
           \A w \in Routes[c] : \/ Clear(w.type, Place(w, o), d, p)
                                \/ \E x \in Routes[d] : x.type = w.type
<1> DEFINE rank == [c \in Classes |-> c]
           Split(c, o, w) == \/ Clear(w.type, Place(w, o), d, p)
                             \/ \E x \in Routes[d] : x.type = w.type
           G == {c \in Classes : \A o \in Nat : Clear(c, o, d, p) =>
                                   \A w \in Routes[c] : Split(c, o, w)}
<1>1. rank \in [Classes -> Nat]
  BY ClassFacts
<1>2. ASSUME NEW c \in Classes, \A y \in Classes : rank[y] < rank[c] => y \in G
      PROVE  c \in G
  <2> SUFFICES ASSUME NEW o \in Nat, Clear(c, o, d, p), NEW w \in Routes[c]
               PROVE  Split(c, o, w)
    OBVIOUS
  <2>1. CASE w = Here(c)
    <3>1. w.type = c /\ Place(w, o) = o
      BY <2>1, HereFacts DEF Place
    <3> QED BY <3>1
  <2>2. CASE c = d
    BY <2>2
  <2>3. CASE w # Here(c) /\ c # d
    <3>1. PICK i \in DOMAIN bases[c] : \E v \in Routes[bases[c][i].type] : w = Through(c, i, v)
      BY <2>3, RoutesSplit
    <3>2. PICK v \in Routes[bases[c][i].type] : w = Through(c, i, v)
      BY <3>1
    <3> DEFINE b == bases[c][i].type
               o2 == ConvertToBase(c, i, o)
    <3>3. b \in Classes /\ b < c /\ o2 \in Nat
      BY BaseFacts, Converted
    <3>4. w.type = v.type /\ Place(w, o) = Place(v, o2)
      BY <3>2, Stepped
    <3>5. Clear(b, o2, d, p)
      BY <2>3, BaseIsClear
    <3>6. b \in G
      BY <1>2, <3>3
    <3> HIDE DEF b, o2
    <3> QED BY <3>2, <3>3, <3>4, <3>5, <3>6 DEF b
  <2> QED BY <2>1, <2>2, <2>3
<1>3. Classes \subseteq G
  <2> HIDE DEF rank, G
  <2> QED BY <1>1, <1>2, ByRank
<1> QED BY <1>3

-----------------------------------------------------------------------------
(* The walk of __do_find_public_src. *)

Objects == [class : Classes, obj : Nat]
KINDS   == {NOT, PUBLIC, PUBLIC \cup {"virtual"}}

FindOf(q) == CHOOSE find : find = [a \in Objects |-> FindIn(q, a, find)]

\* The object of the i-th base, and may it be asked?
PartOf(a, i) ==
  [class |-> bases[a.class][i].type, obj |-> ConvertToBase(a.class, i, a.obj)]
MayHold(q, c, i) == bases[c][i].public /\ ~(bases[c][i].virtual /\ q.hint = -3)

IsThere(q, a) == q.at = a.obj /\ (a.class = q.src \/ IsLeaf(a.class))

\* What an answer of a base is for the class.
Via(b, k) == IF Contained(k) /\ b.virtual THEN k \cup {"virtual"} ELSE k
BaseKinds(q, a, find) ==
  [i \in DOMAIN bases[a.class] |->
     IF MayHold(q, a.class, i) THEN Via(bases[a.class][i], find[PartOf(a, i)]) ELSE NOT]

LEMMA FirstInFacts ==
  ASSUME NEW n \in Nat, NEW kinds, DOMAIN kinds = 1 .. n
  PROVE  \/ FirstIn(kinds) = NOT /\ \A i \in 1 .. n : ~Contained(kinds[i])
         \/ \E i \in 1 .. n : Contained(kinds[i]) /\ FirstIn(kinds) = kinds[i]
<1> DEFINE hits == {i \in DOMAIN kinds : Contained(kinds[i])}
           back == {n - i : i \in hits}
           last == CHOOSE i \in hits : \A j \in hits : j <= i
<1>1. CASE hits = {}
  BY <1>1 DEF FirstIn
<1>2. CASE hits # {}
  <2>1. back \in SUBSET Nat /\ back # {}
    BY <1>2
  <2>2. PICK m \in back : \A k \in back : m <= k
    <3> HIDE DEF back
    <3> QED BY <2>1, HasLeast
  <2>3. PICK i \in hits : m = n - i
    OBVIOUS
  <2>4. ASSUME NEW j \in hits PROVE j <= i
    <3>1. n - j \in back /\ i \in 1 .. n /\ j \in 1 .. n
      OBVIOUS
    <3>2. n - i <= n - j
      BY <2>2, <2>3, <3>1
    <3> QED BY <3>1, <3>2
  <2>5. last \in hits
    BY <2>4
  <2>6. FirstIn(kinds) = kinds[last]
    BY <1>2 DEF FirstIn
  <2> HIDE DEF last
  <2> QED BY <2>5, <2>6
<1> QED BY <1>1, <1>2

LEMMA PartFacts ==
  ASSUME Hierarchy, NEW a \in Objects, NEW i \in DOMAIN bases[a.class]
  PROVE  /\ a.class \in Classes /\ a.obj \in Nat
         /\ PartOf(a, i) \in Objects
         /\ PartOf(a, i).class = bases[a.class][i].type
         /\ PartOf(a, i).obj = ConvertToBase(a.class, i, a.obj)
         /\ PartOf(a, i).class < a.class
         /\ bases[a.class][i].virtual \in BOOLEAN
<1>1. a.class \in Classes /\ a.obj \in Nat
  BY DEF Objects
<1> QED BY <1>1, BaseFacts, Converted DEF PartOf, Objects

LEMMA FindInFacts ==
  ASSUME Hierarchy, NEW q, NEW a \in Objects, NEW find
  PROVE  /\ FindIn(q, a, find) = IF IsThere(q, a) THEN PUBLIC
                                 ELSE FirstIn(BaseKinds(q, a, find))
         /\ (\A i \in DOMAIN bases[a.class] : find[PartOf(a, i)] \in KINDS)
              => FindIn(q, a, find) \in KINDS
<1>1. FindIn(q, a, find) = IF IsThere(q, a) THEN PUBLIC
                           ELSE FirstIn(BaseKinds(q, a, find))
  BY DEF FindIn, IsThere, BaseKinds, Via, MayHold, PartOf
<1>2. ASSUME \A i \in DOMAIN bases[a.class] : find[PartOf(a, i)] \in KINDS
      PROVE  FindIn(q, a, find) \in KINDS
  <2>1. ASSUME NEW i \in DOMAIN bases[a.class] PROVE BaseKinds(q, a, find)[i] \in KINDS
    <3>1. find[PartOf(a, i)] \in KINDS
      BY <1>2
    <3>2. Via(bases[a.class][i], find[PartOf(a, i)]) \in KINDS
      BY <3>1 DEF Via, KINDS, NOT, PUBLIC, Contained
    <3> QED BY <3>2 DEF BaseKinds, KINDS
  <2>2. PICK n \in Nat : DOMAIN bases[a.class] = 1 .. n
    BY BaseFacts DEF Objects
  <2>3. DOMAIN BaseKinds(q, a, find) = 1 .. n
    BY <2>2 DEF BaseKinds
  <2>4. FirstIn(BaseKinds(q, a, find)) \in KINDS
    <3>1. NOT \in KINDS
      BY DEF KINDS
    <3> QED BY <2>1, <2>2, <2>3, <3>1, FirstInFacts
  <2> QED BY <1>1, <2>4 DEF KINDS
<1> QED BY <1>1, <1>2

LEMMA FindFacts ==
  ASSUME Hierarchy, NEW q
  PROVE  \A a \in Objects : /\ FindOf(q)[a] \in KINDS
                            /\ FindOf(q)[a] = FindIn(q, a, FindOf(q))
<1> DEFINE find == FindOf(q)
           rank == [a \in Objects |-> a.class]
           H == [f \in [Objects -> KINDS] |-> [a \in Objects |-> FindIn(q, a, f)]]
<1>1. rank \in [Objects -> Nat]
  BY ClassFacts DEF Objects
<1>2. ASSUME NEW a \in Objects, NEW i \in DOMAIN bases[a.class]
      PROVE  PartOf(a, i) \in Objects /\ rank[PartOf(a, i)] < rank[a]
  BY PartFacts
<1>3. H \in [[Objects -> KINDS] -> [Objects -> KINDS]]
  <2>1. ASSUME NEW f \in [Objects -> KINDS], NEW a \in Objects
        PROVE  FindIn(q, a, f) \in KINDS
    <3>1. \A i \in DOMAIN bases[a.class] : f[PartOf(a, i)] \in KINDS
      BY <1>2
    <3> QED BY <3>1, FindInFacts
  <2> QED BY <2>1
<1>4. ASSUME NEW f \in [Objects -> KINDS], NEW g \in [Objects -> KINDS],
             NEW x \in Objects, \A y \in Objects : rank[y] < rank[x] => f[y] = g[y]
      PROVE  H[f][x] = H[g][x]
  <2>1. \A i \in DOMAIN bases[x.class] : f[PartOf(x, i)] = g[PartOf(x, i)]
    <3> HIDE DEF rank, H
    <3> QED BY <1>2, <1>4
  <2>2. BaseKinds(q, x, f) = BaseKinds(q, x, g)
    BY <2>1 DEF BaseKinds
  <2>3. FindIn(q, x, f) = FindIn(q, x, g)
    BY <2>2, FindInFacts
  <2> QED BY <2>3
<1>5. Recursive(Objects, KINDS, H)
  <2> HIDE DEF rank, H
  <2>1. Descends(Objects, KINDS, rank, H)
    BY <1>4 DEF Descends
  <2>2. KINDS # {}
    BY DEF KINDS
  <2> QED BY <1>1, <1>3, <2>1, <2>2, Recursion
<1>6. PICK f \in [Objects -> KINDS] : f = [a \in Objects |-> FindIn(q, a, f)]
  BY <1>5 DEF Recursive
<1>7. find = [a \in Objects |-> FindIn(q, a, find)]
  BY <1>6 DEF FindOf
<1> HIDE DEF find
<1> DEFINE G == {a \in Objects : find[a] \in KINDS}
<1>8. ASSUME NEW a \in Objects, \A y \in Objects : rank[y] < rank[a] => y \in G
      PROVE  a \in G
  <2>1. \A i \in DOMAIN bases[a.class] : find[PartOf(a, i)] \in KINDS
    <3> HIDE DEF rank
    <3> QED BY <1>2, <1>8
  <2>2. FindIn(q, a, find) \in KINDS
    BY <2>1, FindInFacts
  <2> QED BY <1>7, <2>2
<1>9. Objects \subseteq G
  <2> HIDE DEF rank, G
  <2> QED BY <1>1, <1>8, ByRank
<1> QED BY <1>7, <1>9 DEF find

\* The walk finds the source where it is, or in a base, or nowhere.
LEMMA FindCases ==
  ASSUME Hierarchy, NEW q, NEW a \in Objects
  PROVE  /\ FindOf(q)[a] \in KINDS
         /\ IsThere(q, a) => FindOf(q)[a] = PUBLIC
         /\ \/ IsThere(q, a)
            \/ /\ FindOf(q)[a] = NOT
               /\ \A i \in DOMAIN bases[a.class] :
                    MayHold(q, a.class, i) => ~Contained(FindOf(q)[PartOf(a, i)])
            \/ \E i \in DOMAIN bases[a.class] :
                 /\ MayHold(q, a.class, i)
                 /\ Contained(FindOf(q)[PartOf(a, i)]) /\ Contained(FindOf(q)[a])
                 /\ Virtual(FindOf(q)[a]) <=> \/ bases[a.class][i].virtual
                                              \/ Virtual(FindOf(q)[PartOf(a, i)])
<1> DEFINE find == FindOf(q)
           kinds == BaseKinds(q, a, find)
<1>1. find[a] \in KINDS /\ find[a] = IF IsThere(q, a) THEN PUBLIC ELSE FirstIn(kinds)
  BY FindFacts, FindInFacts
<1>2. PICK n \in Nat : DOMAIN bases[a.class] = 1 .. n
  BY BaseFacts DEF Objects
<1>3. DOMAIN kinds = 1 .. n
  BY <1>2 DEF BaseKinds
<1>4. ASSUME NEW i \in DOMAIN bases[a.class]
      PROVE  /\ MayHold(q, a.class, i) =>
                  kinds[i] = Via(bases[a.class][i], find[PartOf(a, i)])
             /\ ~MayHold(q, a.class, i) => kinds[i] = NOT
  BY DEF BaseKinds
<1> HIDE DEF find, kinds
<1>5. ASSUME NEW i \in DOMAIN bases[a.class]
      PROVE  /\ Contained(kinds[i]) <=> MayHold(q, a.class, i) /\ Contained(find[PartOf(a, i)])
             /\ Contained(kinds[i]) =>
                  (Virtual(kinds[i]) <=> bases[a.class][i].virtual \/ Virtual(find[PartOf(a, i)]))
  <2>1. CASE MayHold(q, a.class, i)
    <3>1. kinds[i] = Via(bases[a.class][i], find[PartOf(a, i)])
      BY <1>4, <2>1
    <3> QED BY <2>1, <3>1 DEF Via, Contained, Virtual
  <2>2. CASE ~MayHold(q, a.class, i)
    BY <1>4, <2>2 DEF Contained, NOT
  <2> QED BY <2>1, <2>2
<1>6. CASE IsThere(q, a)
  BY <1>1, <1>6 DEF find
<1>7. CASE ~IsThere(q, a)
  <2>1. find[a] = FirstIn(kinds)
    BY <1>1, <1>7
  <2>2. \/ FirstIn(kinds) = NOT /\ \A i \in 1 .. n : ~Contained(kinds[i])
        \/ \E i \in 1 .. n : Contained(kinds[i]) /\ FirstIn(kinds) = kinds[i]
    BY <1>3, FirstInFacts
  <2>3. CASE FirstIn(kinds) = NOT /\ \A i \in 1 .. n : ~Contained(kinds[i])
    BY <1>1, <1>2, <1>5, <1>7, <2>1, <2>3 DEF find
  <2>4. CASE \E i \in 1 .. n : Contained(kinds[i]) /\ FirstIn(kinds) = kinds[i]
    <3>1. PICK i \in DOMAIN bases[a.class] : Contained(kinds[i]) /\ FirstIn(kinds) = kinds[i]
      BY <1>2, <2>4
    <3>2. MayHold(q, a.class, i) /\ Contained(find[PartOf(a, i)]) /\ Contained(find[a])
      BY <1>5, <2>1, <3>1
    <3>3. Virtual(find[a]) <=> bases[a.class][i].virtual \/ Virtual(find[PartOf(a, i)])
      BY <1>5, <2>1, <3>1
    <3> QED BY <1>1, <1>7, <3>2, <3>3 DEF find
  <2> QED BY <2>2, <2>3, <2>4
<1> QED BY <1>6, <1>7

\* A way down from an object to another one.
Reaches(w, o, c, at) == w.type = c /\ Place(w, o) = at

\* What the walk finds is there, by a public way, through a virtual base if it
\* says so.
LEMMA FindSound ==
  ASSUME Hierarchy, NEW q, Subobject(q.src, q.at)
  PROVE  \A a \in Objects :
           Clear(a.class, a.obj, q.src, q.at) /\ Contained(FindOf(q)[a]) =>
             \E u \in Routes[a.class] : /\ Reaches(u, a.obj, q.src, q.at) /\ u.public
                                        /\ u.virtual <=> Virtual(FindOf(q)[a])
<1> DEFINE find == FindOf(q)
           rank == [a \in Objects |-> a.class]
           Led(a) == \E u \in Routes[a.class] :
                       /\ Reaches(u, a.obj, q.src, q.at) /\ u.public
                       /\ u.virtual <=> Virtual(find[a])
           G == {a \in Objects :
                   Clear(a.class, a.obj, q.src, q.at) /\ Contained(find[a]) => Led(a)}
<1>1. rank \in [Objects -> Nat]
  BY ClassFacts DEF Objects
<1>0. q.src \in Classes /\ q.at \in Nat
  BY SubobjectFacts
<1>2. ASSUME NEW a \in Objects, \A y \in Objects : rank[y] < rank[a] => y \in G
      PROVE  a \in G
  <2> SUFFICES ASSUME Clear(a.class, a.obj, q.src, q.at), Contained(find[a])
               PROVE  Led(a)
    OBVIOUS
  <2>0. a.class \in Classes /\ a.obj \in Nat
    BY DEF Objects
  <2>1. CASE IsThere(q, a)
    <3>1. find[a] = PUBLIC
      BY <2>1, FindCases
    <3>2. a.class = q.src /\ a.obj = q.at
      <4>1. q.at = a.obj /\ (a.class = q.src \/ IsLeaf(a.class))
        BY <2>1 DEF IsThere
      <4>2. Size[a.class] \in Nat /\ Size[a.class] > 0 /\ Size[q.src] \in Nat /\ Size[q.src] > 0
        BY <1>0, <2>0, SizePositive
      <4>3. Nested(a.class, a.obj, q.src, q.at)
        BY <1>0, <4>1, <4>2 DEF Clear, Apart
      <4>4. PICK w \in Routes[a.class] : w.type = q.src
        BY <4>3 DEF Nested
      <4>5. CASE IsLeaf(a.class)
        <5>1. w = Here(a.class)
          BY <2>0, <4>5, RoutesSplit, BaseFacts DEF IsLeaf
        <5> QED BY <2>0, <4>1, <4>4, <5>1, HereFacts
      <4> QED BY <4>1, <4>5
    <3>3. /\ Here(a.class) \in Routes[a.class] /\ Here(a.class).type = a.class
          /\ Here(a.class).at = 0 /\ Here(a.class).public /\ ~Here(a.class).virtual
      BY <2>0, RoutesSplit, HereFacts
    <3>4. Reaches(Here(a.class), a.obj, q.src, q.at)
      BY <2>0, <3>2, <3>3 DEF Reaches, Place
    <3>5. ~Virtual(find[a])
      BY <3>1 DEF Virtual, PUBLIC
    <3> QED BY <3>3, <3>4, <3>5
  <2>2. CASE ~IsThere(q, a)
    <3>1. find[a] # NOT
      BY DEF Contained, NOT
    <3>2. PICK i \in DOMAIN bases[a.class] :
            /\ MayHold(q, a.class, i)
            /\ Contained(find[PartOf(a, i)])
            /\ Virtual(find[a]) <=> \/ bases[a.class][i].virtual
                                    \/ Virtual(find[PartOf(a, i)])
      BY <2>2, <3>1, FindCases
    <3> DEFINE b == PartOf(a, i)
    <3>3. /\ b \in Objects /\ b.class = bases[a.class][i].type
          /\ b.obj = ConvertToBase(a.class, i, a.obj) /\ b.class < a.class
      BY PartFacts
    <3>4. ~(a.class = q.src /\ a.obj = q.at)
      BY <2>2 DEF IsThere
    <3>5. Clear(b.class, b.obj, q.src, q.at)
      BY <2>0, <3>3, <3>4, BaseIsClear
    <3>6. Led(b)
      <4>1. b \in G
        BY <1>2, <3>3
      <4> QED BY <3>2, <3>5, <4>1
    <3>7. PICK v \in Routes[b.class] : /\ Reaches(v, b.obj, q.src, q.at) /\ v.public
                                       /\ v.virtual <=> Virtual(find[b])
      BY <3>6
    <3> DEFINE w == Through(a.class, i, v)
    <3>8. /\ w \in Routes[a.class] /\ w.type = v.type
          /\ w.public <=> v.public /\ bases[a.class][i].public
          /\ w.virtual <=> v.virtual \/ bases[a.class][i].virtual
          /\ Place(w, a.obj) = Place(v, b.obj)
      BY <2>0, <3>3, Stepped
    <3>9. bases[a.class][i].public
      BY <3>2 DEF MayHold
    <3> HIDE DEF w
    <3>10. Reaches(w, a.obj, q.src, q.at) /\ w.public
      BY <3>7, <3>8, <3>9 DEF Reaches
    <3>11. w.virtual <=> Virtual(find[a])
      BY <3>2, <3>7, <3>8
    <3> QED BY <3>8, <3>10, <3>11
  <2> QED BY <2>1, <2>2
<1>3. Objects \subseteq G
  <2> HIDE DEF rank, G
  <2> QED BY <1>1, <1>2, ByRank
<1> QED BY <1>3

\* May the walk find the source by this way?
Findable(q, u) == u.public /\ (q.hint = -3 => ~u.virtual)

\* It finds what a public way leads to, unless it was told that no such way goes
\* through a virtual base.
LEMMA FindComplete ==
  ASSUME Hierarchy, NEW q
  PROVE  \A a \in Objects :
           (\E u \in Routes[a.class] : Reaches(u, a.obj, q.src, q.at) /\ Findable(q, u))
             => Contained(FindOf(q)[a])
<1> DEFINE find == FindOf(q)
           rank == [a \in Objects |-> a.class]
           G == {a \in Objects :
                   (\E u \in Routes[a.class] : Reaches(u, a.obj, q.src, q.at) /\ Findable(q, u))
                     => Contained(find[a])}
<1>1. rank \in [Objects -> Nat]
  BY ClassFacts DEF Objects
<1>2. ASSUME NEW a \in Objects, \A y \in Objects : rank[y] < rank[a] => y \in G
      PROVE  a \in G
  <2> SUFFICES ASSUME NEW w \in Routes[a.class], Reaches(w, a.obj, q.src, q.at), Findable(q, w)
               PROVE  Contained(find[a])
    OBVIOUS
  <2>0. a.class \in Classes /\ a.obj \in Nat
    BY DEF Objects
  <2>1. CASE IsThere(q, a)
    BY <2>1, FindCases DEF Contained, PUBLIC
  <2>2. CASE ~IsThere(q, a)
    <3>1. w # Here(a.class)
      <4> SUFFICES ASSUME w = Here(a.class) PROVE FALSE
        OBVIOUS
      <4>1. w.type = a.class /\ w.at = 0 /\ ~w.virtual
        BY <2>0, HereFacts
      <4> QED BY <2>0, <2>2, <4>1 DEF Reaches, Place, IsThere
    <3>2. PICK i \in DOMAIN bases[a.class] :
            \E v \in Routes[bases[a.class][i].type] : w = Through(a.class, i, v)
      BY <2>0, <3>1, RoutesSplit
    <3>3. PICK v \in Routes[bases[a.class][i].type] : w = Through(a.class, i, v)
      BY <3>2
    <3> DEFINE b == PartOf(a, i)
    <3>4. /\ b \in Objects /\ b.class = bases[a.class][i].type
          /\ b.obj = ConvertToBase(a.class, i, a.obj) /\ b.class < a.class
      BY PartFacts
    <3>5. /\ w.type = v.type
          /\ w.public <=> v.public /\ bases[a.class][i].public
          /\ w.virtual <=> v.virtual \/ bases[a.class][i].virtual
          /\ Place(w, a.obj) = Place(v, b.obj)
      BY <2>0, <3>3, <3>4, Stepped
    <3>6. Reaches(v, b.obj, q.src, q.at) /\ Findable(q, v) /\ v \in Routes[b.class]
      BY <3>3, <3>4, <3>5 DEF Reaches, Findable
    <3>7. Contained(find[b])
      <4>1. b \in G
        BY <1>2, <3>4
      <4> QED BY <3>6, <4>1
    <3>8. MayHold(q, a.class, i)
      BY <3>5 DEF MayHold, Findable
    <3> HIDE DEF b, find
    <3> QED BY <2>2, <3>7, <3>8, FindCases DEF b, find
  <2> QED BY <2>1, <2>2
<1>3. Objects \subseteq G
  <2> HIDE DEF rank, G
  <2> QED BY <1>1, <1>2, ByRank
<1> QED BY <1>3

\* Nothing is found below the place where the source is, if the walk leaves
\* virtual bases out.
LEMMA FindNowhere ==
  ASSUME Hierarchy, NEW q, q.hint = -3, q.at \in Nat
  PROVE  \A a \in Objects :
           a.obj + Size[a.class] <= q.at => ~Contained(FindOf(q)[a])
<1> DEFINE find == FindOf(q)
           rank == [a \in Objects |-> a.class]
           G == {a \in Objects : a.obj + Size[a.class] <= q.at => ~Contained(find[a])}
<1>1. rank \in [Objects -> Nat]
  BY ClassFacts DEF Objects
<1>2. ASSUME NEW a \in Objects, \A y \in Objects : rank[y] < rank[a] => y \in G
      PROVE  a \in G
  <2> SUFFICES ASSUME a.obj + Size[a.class] <= q.at, Contained(find[a])
               PROVE  FALSE
    OBVIOUS
  <2>0. a.class \in Classes /\ a.obj \in Nat
    BY DEF Objects
  <2>1. Size[a.class] \in Nat /\ Size[a.class] > 0
    BY <2>0, SizePositive
  <2>2. ~IsThere(q, a)
    BY <2>0, <2>1 DEF IsThere
  <2>3. find[a] # NOT
    BY DEF Contained, NOT
  <2>4. PICK i \in DOMAIN bases[a.class] :
          MayHold(q, a.class, i) /\ Contained(find[PartOf(a, i)])
    BY <2>2, <2>3, FindCases
  <2> DEFINE b == PartOf(a, i)
  <2>5. /\ b \in Objects /\ b.class = bases[a.class][i].type
        /\ b.obj = ConvertToBase(a.class, i, a.obj) /\ b.class < a.class
    BY PartFacts
  <2>6. ~bases[a.class][i].virtual
    BY <2>4 DEF MayHold
  <2>7. /\ b.obj = a.obj + Offset(a.class, i) /\ Offset(a.class, i) \in Nat
        /\ Offset(a.class, i) + Size[b.class] < Size[a.class]
    BY <2>0, <2>5, <2>6, OffsetFacts DEF ConvertToBase
  <2>8. b.class \in Classes /\ Size[b.class] \in Nat
    BY <2>5, SizePositive DEF Objects
  <2>9. b \in G
    BY <1>2, <2>5
  <2>10. ~(b.obj + Size[b.class] <= q.at)
    BY <2>4, <2>9
  <2> HIDE DEF b
  <2> QED BY <2>0, <2>1, <2>7, <2>8, <2>10
<1>3. Objects \subseteq G
  <2> HIDE DEF rank, G
  <2> QED BY <1>1, <1>2, ByRank
<1> QED BY <1>3

-----------------------------------------------------------------------------
(* The walk of __do_dyncast: what its results are made of. *)

Casts == [src : Classes, at : Nat, dst : Classes, hint : Int]

DynResult == [dst : Nat, whole2dst : SUBSET BITS, whole2src : SUBSET BITS,
              dst2src : SUBSET BITS, details : SUBSET DETAILS,
              ambig : BOOLEAN, done : BOOLEAN, lost : BOOLEAN]

\* What r and s agree on when only the target differs.
SameSource(r, s) ==
  s.whole2src = r.whole2src /\ s.details = r.details /\ s.lost = r.lost

LEMMA SettledByFields ==
  ASSUME NEW r \in DynResult
  PROVE  /\ SettledBy(r) \in DynResult /\ SameSource(r, SettledBy(r))
         /\ SettledBy(r).dst = r.dst /\ SettledBy(r).whole2dst = r.whole2dst
         /\ SettledBy(r).dst2src = r.dst2src
BY Zenon DEF SettledBy, DynResult, SameSource

\* The four answers of Choose, for what is known of the two targets.
Chosen(r, r2, old, new, s) ==
  /\ Contained(new) /\ Contained(old) =>
       s.dst = NULL /\ s.dst2src = AMBIG /\ s.ambig /\ s.done
  /\ Contained(new) /\ ~Contained(old) =>
       s.dst = r2.dst /\ s.whole2dst = r2.whole2dst /\ s.dst2src = new
  /\ ~Contained(new) /\ Contained(old) =>
       s.dst = r.dst /\ s.whole2dst = r.whole2dst /\ s.dst2src = old
  /\ ~Contained(new) /\ ~Contained(old) =>
       /\ s.dst = NULL /\ s.dst2src = NOT /\ s.ambig
       /\ s.done <=> r.done

LEMMA ChooseFields ==
  ASSUME NEW r \in DynResult, NEW r2 \in DynResult,
         NEW old \in SUBSET BITS, NEW new \in SUBSET BITS
  PROVE  /\ Choose(r, r2, old, new) \in DynResult
         /\ SameSource(r, Choose(r, r2, old, new))
         /\ Chosen(r, r2, old, new, Choose(r, r2, old, new))
<1> DEFINE s == Choose(r, r2, old, new)
<1>0. NULL \in Nat /\ AMBIG \in SUBSET BITS /\ NOT \in SUBSET BITS
  BY DEF NULL, AMBIG, NOT, BITS
<1>1. CASE Contained(new) /\ Contained(old)
  <2>1. s = [r EXCEPT !.dst = NULL, !.dst2src = AMBIG, !.ambig = TRUE, !.done = TRUE]
    BY <1>1, Zenon DEF Choose
  <2> HIDE DEF s
  <2>2. /\ s \in DynResult /\ SameSource(r, s)
        /\ s.dst = NULL /\ s.dst2src = AMBIG /\ s.ambig /\ s.done
    BY <1>0, <2>1, Zenon DEF DynResult, SameSource
  <2> QED BY <1>1, <2>2, Zenon DEF s, Chosen
<1>2. CASE Contained(new) /\ ~Contained(old)
  <2> DEFINE t == [r EXCEPT !.dst = r2.dst, !.whole2dst = r2.whole2dst,
                            !.ambig = FALSE, !.dst2src = new]
  <2>1. s = SettledBy(t)
    BY <1>2, Zenon DEF Choose
  <2>2. /\ t \in DynResult /\ SameSource(r, t)
        /\ t.dst = r2.dst /\ t.whole2dst = r2.whole2dst /\ t.dst2src = new
    BY Zenon DEF DynResult, SameSource
  <2> HIDE DEF s, t
  <2>3. /\ s \in DynResult /\ SameSource(t, s)
        /\ s.dst = t.dst /\ s.whole2dst = t.whole2dst /\ s.dst2src = t.dst2src
    BY <2>1, <2>2, SettledByFields, Zenon
  <2>4. SameSource(r, s)
    BY <2>2, <2>3, Zenon DEF SameSource
  <2> QED BY <1>2, <2>2, <2>3, <2>4, Zenon DEF s, Chosen
<1>3. CASE ~Contained(new) /\ Contained(old)
  <2> DEFINE t == [r EXCEPT !.dst2src = old]
  <2>1. s = SettledBy(t)
    BY <1>3, Zenon DEF Choose
  <2>2. /\ t \in DynResult /\ SameSource(r, t)
        /\ t.dst = r.dst /\ t.whole2dst = r.whole2dst /\ t.dst2src = old
    BY Zenon DEF DynResult, SameSource
  <2> HIDE DEF s, t
  <2>3. /\ s \in DynResult /\ SameSource(t, s)
        /\ s.dst = t.dst /\ s.whole2dst = t.whole2dst /\ s.dst2src = t.dst2src
    BY <2>1, <2>2, SettledByFields, Zenon
  <2>4. SameSource(r, s)
    BY <2>2, <2>3, Zenon DEF SameSource
  <2> QED BY <1>3, <2>2, <2>3, <2>4, Zenon DEF s, Chosen
<1>4. CASE ~Contained(new) /\ ~Contained(old)
  <2>1. s = [r EXCEPT !.dst = NULL, !.dst2src = NOT, !.ambig = TRUE]
    BY <1>4, Zenon DEF Choose
  <2> HIDE DEF s
  <2>2. /\ s \in DynResult /\ SameSource(r, s)
        /\ s.dst = NULL /\ s.dst2src = NOT /\ s.ambig /\ (s.done <=> r.done)
    BY <1>0, <2>1, Zenon DEF DynResult, SameSource
  <2> QED BY <1>4, <2>2, Zenon DEF s, Chosen
<1> QED BY <1>1, <1>2, <1>3, <1>4

LEMMA FindType ==
  ASSUME Hierarchy, NEW q \in Casts, NEW obj \in Nat
  PROVE  /\ FindPublicSrc(q, obj) \in KINDS /\ FindPublicSrc(q, obj) \in SUBSET BITS
         /\ AtHint(q, obj) \in {NOT, PUBLIC}
         /\ DoFindPublicSrc(q, q.dst, obj) = FindOf(q)[[class |-> q.dst, obj |-> obj]]
         /\ [class |-> q.dst, obj |-> obj] \in Objects
<1>1. [class |-> q.dst, obj |-> obj] \in Objects
  BY DEF Objects, Casts
<1>2. DoFindPublicSrc(q, q.dst, obj) = FindOf(q)[[class |-> q.dst, obj |-> obj]]
  BY DEF DoFindPublicSrc, FindOf, Objects
<1>3. DoFindPublicSrc(q, q.dst, obj) \in KINDS
  BY <1>1, <1>2, FindFacts
<1>4. AtHint(q, obj) \in {NOT, PUBLIC}
  BY DEF AtHint
<1>5. FindPublicSrc(q, obj) \in KINDS
  BY <1>3, <1>4 DEF FindPublicSrc, KINDS
<1>6. KINDS \subseteq SUBSET BITS
  BY DEF KINDS, BITS, NOT, PUBLIC
<1> QED BY <1>1, <1>2, <1>4, <1>5, <1>6

LEMMA KindInType ==
  ASSUME Hierarchy, NEW q \in Casts, NEW c, NEW r, NEW target \in DynResult, NEW other
  PROVE  KindIn(q, c, r, target, other) \in SUBSET BITS
<1>1. target.dst \in Nat /\ target.dst2src \in SUBSET BITS
  BY DEF DynResult
<1>2. FindPublicSrc(q, target.dst) \in SUBSET BITS
  BY <1>1, FindType
<1>3. NOT \in SUBSET BITS
  BY DEF NOT, BITS
<1> QED BY <1>1, <1>2, <1>3 DEF KindIn

LEMMA DisambiguateFields ==
  ASSUME Hierarchy, NEW q \in Casts, NEW c, NEW r \in DynResult, NEW r2 \in DynResult,
         NEW old, old = KindIn(q, c, r, r, r2.dst2src),
         NEW new, new = KindIn(q, c, r, r2, old),
         NEW s, s = Disambiguate(q, c, r, r2)
  PROVE  /\ s \in DynResult
         /\ s.whole2src = r.whole2src /\ s.details = r.details
         /\ ~s.lost => /\ ~r.lost /\ ~Astray(q, c, r, r, r2.dst2src)
                       /\ ~Astray(q, c, r, r2, old)
         /\ Chosen(r, r2, old, new, s)
<1> DEFINE t == Choose(r, r2, old, new)
<1>1. old \in SUBSET BITS /\ new \in SUBSET BITS
  BY KindInType
<1> DEFINE lost1 == Astray(q, c, r, r, r2.dst2src)
           lost2 == Astray(q, c, r, r2, old)
<1>2. s = [t EXCEPT !.lost = @ \/ lost1 \/ lost2]
  BY Zenon DEF Disambiguate
<1> HIDE DEF t, lost1, lost2
<1>3. t \in DynResult /\ SameSource(r, t) /\ Chosen(r, r2, old, new, t)
  BY <1>1, ChooseFields DEF t
<1>4. /\ s \in DynResult /\ s.whole2src = t.whole2src /\ s.details = t.details
      /\ s.lost <=> t.lost \/ lost1 \/ lost2
      /\ s.dst = t.dst /\ s.dst2src = t.dst2src /\ s.whole2dst = t.whole2dst
      /\ s.ambig <=> t.ambig
      /\ s.done <=> t.done
  BY <1>2, <1>3, Zenon DEF DynResult
<1>5. Chosen(r, r2, old, new, s)
  BY <1>3, <1>4, Zenon DEF Chosen
<1> QED BY <1>3, <1>4, <1>5, Zenon DEF SameSource, lost1, lost2

\* What two results know of the source, put together.
Joined(r, r2) ==
  [r EXCEPT !.whole2src = @ \cup r2.whole2src, !.lost = @ \/ r2.lost]

LEMMA JoinedFields ==
  ASSUME NEW r \in DynResult, NEW r2 \in DynResult, NEW m, m = Joined(r, r2)
  PROVE  /\ m \in DynResult /\ m.whole2src = r.whole2src \cup r2.whole2src
         /\ m.lost <=> r.lost \/ r2.lost
         /\ m.dst = r.dst /\ m.whole2dst = r.whole2dst /\ m.dst2src = r.dst2src
         /\ m.details = r.details
         /\ m.ambig <=> r.ambig
         /\ m.done <=> r.done
<1>1. r.whole2src \cup r2.whole2src \in SUBSET BITS
  BY DEF DynResult
<1> QED BY <1>1, Zenon DEF Joined, DynResult

\* The branches of the merge.
Better(r2) == r2.dst2src \in {PUBLIC, AMBIG}
Empty(r)   == ~r.ambig /\ r.dst = NULL
Same(r, r2) == r.dst # NULL /\ r.dst = r2.dst
Clash(r, r2) == \/ r.dst # NULL /\ (r2.dst # NULL \/ r2.ambig)
                \/ r2.dst # NULL /\ r.ambig

\* What s takes from r when the target is that of r.
SameTarget(r, s) ==
  /\ s.dst = r.dst /\ s.whole2dst = r.whole2dst
  /\ s.ambig <=> r.ambig

\* What the merge of r and r2 makes of the target.
Merged(q, c, r, r2, s) ==
  /\ Better(r2) => SameTarget(r2, s) /\ s.dst2src = r2.dst2src /\ s.done
  /\ ~Better(r2) /\ Empty(r) =>
       /\ SameTarget(r2, s) /\ s.dst2src = r.dst2src
       /\ s.done => r2.dst # NULL /\ r.whole2src # UNKNOWN /\ "repeat" \notin flags[c]
  /\ ~Better(r2) /\ ~Empty(r) /\ Same(r, r2) =>
       /\ s.dst = r.dst /\ s.whole2dst = r.whole2dst \cup r2.whole2dst
       /\ s.dst2src = r.dst2src
       /\ s.ambig <=> r.ambig
       /\ s.done <=> r.done
  /\ ~Better(r2) /\ ~Empty(r) /\ ~Same(r, r2) /\ Clash(r, r2) =>
       s = Disambiguate(q, c, r, r2)
  /\ ~Better(r2) /\ ~Empty(r) /\ ~Same(r, r2) /\ ~Clash(r, r2) => s = r

LEMMA MergeTargetFields ==
  ASSUME Hierarchy, NEW q \in Casts, NEW c, NEW r \in DynResult, NEW r2 \in DynResult,
         NEW s, s = MergeTarget(q, c, r, r2)
  PROVE  /\ s \in DynResult /\ s.whole2src = r.whole2src /\ s.details = r.details
         /\ ~s.lost => ~r.lost
         /\ Merged(q, c, r, r2, s)
<1>1. CASE Better(r2)
  <2>1. s = [r EXCEPT !.dst = r2.dst, !.whole2dst = r2.whole2dst,
                      !.dst2src = r2.dst2src, !.ambig = r2.ambig, !.done = TRUE]
    BY <1>1, Zenon DEF MergeTarget, Better
  <2>2. /\ s \in DynResult /\ s.whole2src = r.whole2src /\ s.details = r.details
        /\ s.lost = r.lost
        /\ SameTarget(r2, s) /\ s.dst2src = r2.dst2src /\ s.done
    BY <2>1, Zenon DEF DynResult, SameTarget
  <2> QED BY <1>1, <2>2, Zenon DEF Merged
<1>2. CASE ~Better(r2) /\ Empty(r)
  <2> DEFINE done == r2.dst # NULL /\ r.whole2src # UNKNOWN /\ "repeat" \notin flags[c]
  <2>1. s = [r EXCEPT !.dst = r2.dst, !.whole2dst = r2.whole2dst, !.ambig = r2.ambig,
                      !.done = done]
    BY <1>2, Zenon DEF MergeTarget, Better, Empty
  <2>2. /\ s \in DynResult /\ s.whole2src = r.whole2src /\ s.details = r.details
        /\ s.lost = r.lost
        /\ SameTarget(r2, s) /\ s.dst2src = r.dst2src
        /\ s.done <=> done
    BY <2>1, Zenon DEF DynResult, SameTarget
  <2> QED BY <1>2, <2>2, Zenon DEF Merged
<1>3. CASE ~Better(r2) /\ ~Empty(r) /\ Same(r, r2)
  <2>1. s = [r EXCEPT !.whole2dst = @ \cup r2.whole2dst]
    BY <1>3, Zenon DEF MergeTarget, Better, Empty, Same
  <2>0. r.whole2dst \cup r2.whole2dst \in SUBSET BITS
    BY DEF DynResult
  <2>2. /\ s \in DynResult /\ s.whole2src = r.whole2src /\ s.details = r.details
        /\ s.lost = r.lost
        /\ s.dst = r.dst /\ s.whole2dst = r.whole2dst \cup r2.whole2dst
        /\ s.dst2src = r.dst2src
        /\ s.ambig <=> r.ambig
        /\ s.done <=> r.done
    BY <2>0, <2>1, Zenon DEF DynResult
  <2> QED BY <1>3, <2>2, Zenon DEF Merged
<1>4. CASE ~Better(r2) /\ ~Empty(r) /\ ~Same(r, r2) /\ Clash(r, r2)
  <2>1. s = Disambiguate(q, c, r, r2)
    BY <1>4, Zenon DEF MergeTarget, Better, Empty, Same, Clash
  <2>2. /\ s \in DynResult /\ s.whole2src = r.whole2src /\ s.details = r.details
        /\ ~s.lost => ~r.lost
    BY <2>1, DisambiguateFields
  <2> QED BY <1>4, <2>1, <2>2, Zenon DEF Merged
<1>5. CASE ~Better(r2) /\ ~Empty(r) /\ ~Same(r, r2) /\ ~Clash(r, r2)
  <2>1. s = r
    BY <1>5, Zenon DEF MergeTarget, Better, Empty, Same, Clash
  <2> QED BY <1>5, <2>1, Zenon DEF Merged
<1> QED BY <1>1, <1>2, <1>3, <1>4, <1>5, Zenon

LEMMA StopFields ==
  ASSUME NEW r \in DynResult
  PROVE  LET s == StopAtPrivate(r)
         IN  /\ s \in DynResult /\ SameSource(r, s) /\ SameTarget(r, s)
             /\ s.dst2src = r.dst2src
             /\ s.done <=> r.done \/ r.whole2src = PRIVATE
<1> DEFINE stop == r.whole2src = PRIVATE
<1>1. StopAtPrivate(r) = [r EXCEPT !.done = @ \/ stop]
  BY Zenon DEF StopAtPrivate
<1> HIDE DEF stop
<1> QED BY <1>1, Zenon DEF DynResult, SameSource, SameTarget, stop

-----------------------------------------------------------------------------
(* The loop over the bases, and the walk as a recursive function. *)

LEMMA FreshFields ==
  ASSUME NEW d \in SUBSET DETAILS
  PROVE  /\ Fresh(d) \in DynResult
         /\ Fresh(d).dst = NULL /\ Fresh(d).whole2dst = {} /\ Fresh(d).whole2src = {}
         /\ Fresh(d).dst2src = {} /\ Fresh(d).details = d
         /\ ~Fresh(d).ambig /\ ~Fresh(d).done /\ ~Fresh(d).lost
<1>1. NULL \in Nat /\ UNKNOWN = {} /\ {} \in SUBSET BITS
  BY DEF NULL, UNKNOWN
<1> QED BY <1>1, Zenon DEF Fresh, DynResult

LEMMA ScanBaseFields ==
  ASSUME Hierarchy, NEW a \in Scans, NEW i \in DOMAIN bases[a.class]
  PROVE  /\ a.class \in Classes /\ a.obj \in Nat /\ a.access \in SUBSET BITS
         /\ Details(a.class, a.details) \in SUBSET DETAILS
         /\ ScanBase(a, i) \in Scans
         /\ ScanBase(a, i).class = bases[a.class][i].type
         /\ ScanBase(a, i).class < a.class
         /\ ScanBase(a, i).access = Access(bases[a.class][i], a.access)
         /\ ScanBase(a, i).obj = ConvertToBase(a.class, i, a.obj)
         /\ ScanBase(a, i).details = Details(a.class, a.details)
<1>1. a.class \in Classes /\ a.obj \in Nat /\ a.access \in SUBSET BITS
      /\ a.details \in SUBSET DETAILS
  BY DEF Scans
<1>2. Details(a.class, a.details) \in SUBSET DETAILS
  BY <1>1, FlagsFacts
<1>3. bases[a.class][i].type \in Classes /\ bases[a.class][i].type < a.class
  BY <1>1, BaseFacts
<1>4. ConvertToBase(a.class, i, a.obj) \in Nat
  BY <1>1, Converted
<1>5. Access(bases[a.class][i], a.access) \in SUBSET BITS
  BY <1>1 DEF Access, BITS
<1> HIDE DEF Details, Access
<1> QED BY <1>1, <1>2, <1>3, <1>4, <1>5 DEF ScanBase, Scans

LEMMA VisitBaseType ==
  ASSUME Hierarchy, NEW q \in Casts, NEW a, NEW r \in DynResult, NEW i, NEW r2 \in DynResult
  PROVE  /\ Merge(q, a.class, r, r2) = MergeTarget(q, a.class, Joined(r, r2), r2)
         /\ Merge(q, a.class, r, r2) \in DynResult
         /\ VisitBase(q, a, r, i, r2) \in DynResult
<1>1. Merge(q, a.class, r, r2) = MergeTarget(q, a.class, Joined(r, r2), r2)
  BY Zenon DEF Merge, Joined
<1>2. Joined(r, r2) \in DynResult
  BY JoinedFields, Zenon
<1>3. Merge(q, a.class, r, r2) \in DynResult
  <2>1. MergeTarget(q, a.class, Joined(r, r2), r2) \in DynResult
    BY <1>2, MergeTargetFields
  <2> QED BY <1>1, <2>1
<1>4. StopAtPrivate(Merge(q, a.class, r, r2)) \in DynResult
  BY <1>3, StopFields, Zenon
<1> QED BY <1>1, <1>3, <1>4, Zenon DEF VisitBase

LEMMA BaseAtFacts ==
  ASSUME Hierarchy, NEW c \in Classes
  PROVE  /\ Len(bases[c]) \in Nat /\ DOMAIN bases[c] = 1 .. Len(bases[c])
         /\ \A k \in 1 .. 2 * Len(bases[c]) : BaseAt(c, k) \in DOMAIN bases[c]
<1>1. Len(bases[c]) \in Nat /\ DOMAIN bases[c] = 1 .. Len(bases[c])
  BY BaseFacts
<1> DEFINE n == Len(bases[c])
<1>2. ASSUME NEW k \in 1 .. 2 * n PROVE BaseAt(c, k) \in 1 .. n
  <2>1. BaseAt(c, k) = IF k <= n THEN n + 1 - k ELSE 2 * n + 1 - k
    BY DEF BaseAt
  <2> HIDE DEF n
  <2> QED BY <1>1, <2>1 DEF n
<1> QED BY <1>1, <1>2

\* The k-th step of the loop.
ScanStep(q, a, r, k, answers) ==
  IF IsDue(q, a, k)
  THEN VisitBase(q, a, r, BaseAt(a.class, k), answers[BaseAt(a.class, k)]) ELSE r

AreScans(after, q, a, answers) ==
  LET n == 2 * Len(bases[a.class])
  IN  /\ after \in [0 .. n -> DynResult]
      /\ after[0] = Fresh(Details(a.class, a.details))
      /\ \A k \in 1 .. n : after[k] = ScanStep(q, a, after[k - 1], k, answers)

LEMMA AllScannedFacts ==
  ASSUME Hierarchy, NEW q \in Casts, NEW a \in Scans, NEW answers,
         \A i \in DOMAIN bases[a.class] : answers[i] \in DynResult
  PROVE  \E after : /\ AreScans(after, q, a, answers)
                    /\ AllScanned(q, a, answers) = after[2 * Len(bases[a.class])]
<1> DEFINE n == 2 * Len(bases[a.class])
           D == 0 .. n
           Step(k, f) == IF k = 0 THEN Fresh(Details(a.class, a.details))
                         ELSE ScanStep(q, a, f[k - 1], k, answers)
           rank == [k \in D |-> k]
           H == [f \in [D -> DynResult] |-> [k \in D |-> Step(k, f)]]
           after == CHOOSE f : f = [k \in D |-> Step(k, f)]
<1>0. a.class \in Classes /\ Details(a.class, a.details) \in SUBSET DETAILS
  BY FlagsFacts DEF Scans
<1>n. n \in Nat /\ \A k \in 1 .. n : BaseAt(a.class, k) \in DOMAIN bases[a.class]
  BY <1>0, BaseAtFacts
<1>1. rank \in [D -> Nat]
  BY <1>n
<1>s. ASSUME NEW f, NEW k \in D, k # 0 => f[k - 1] \in DynResult
      PROVE  Step(k, f) \in DynResult
  <2>1. CASE k = 0
    BY <1>0, <2>1, FreshFields
  <2>2. CASE k # 0
    <3>1. BaseAt(a.class, k) \in DOMAIN bases[a.class]
      BY <1>n, <2>2
    <3>2. answers[BaseAt(a.class, k)] \in DynResult
      BY <3>1
    <3>3. VisitBase(q, a, f[k - 1], BaseAt(a.class, k), answers[BaseAt(a.class, k)]) \in DynResult
      BY <1>s, <2>2, <3>2, VisitBaseType
    <3> QED BY <1>s, <2>2, <3>3 DEF ScanStep
  <2> QED BY <2>1, <2>2
<1>2. H \in [[D -> DynResult] -> [D -> DynResult]]
  <2>1. ASSUME NEW f \in [D -> DynResult], NEW k \in D PROVE Step(k, f) \in DynResult
    <3>1. k # 0 => f[k - 1] \in DynResult
      BY <1>n
    <3> HIDE DEF Step, n
    <3> QED BY <1>s, <3>1
  <2> HIDE DEF Step
  <2> QED BY <2>1
<1>3. ASSUME NEW f \in [D -> DynResult], NEW g \in [D -> DynResult], NEW x \in D,
             \A y \in D : rank[y] < rank[x] => f[y] = g[y]
      PROVE  H[f][x] = H[g][x]
  <2>1. x # 0 => x - 1 \in D /\ rank[x - 1] < rank[x]
    BY <1>n
  <2>2. x # 0 => f[x - 1] = g[x - 1]
    <3> HIDE DEF D, rank, H
    <3> QED BY <1>3, <2>1
  <2>3. Step(x, f) = Step(x, g)
    BY <2>2
  <2> HIDE DEF Step
  <2> QED BY <2>3
<1>4. Recursive(D, DynResult, H)
  <2> HIDE DEF D, rank, H
  <2>1. Descends(D, DynResult, rank, H)
    BY <1>3 DEF Descends
  <2>2. DynResult # {}
    BY <1>0, FreshFields
  <2> QED BY <1>1, <1>2, <2>1, <2>2, Recursion
<1>5. PICK f \in [D -> DynResult] : f = [k \in D |-> Step(k, f)]
  <2> HIDE DEF Step
  <2> QED BY <1>4 DEF Recursive
<1>6. after = [k \in D |-> Step(k, after)]
  BY <1>5
<1>7. AllScanned(q, a, answers) = after[n]
  BY DEF AllScanned, ScanStep
<1> HIDE DEF after
<1>8. \A k \in D : after[k] = Step(k, after)
  <2> HIDE DEF Step
  <2> QED BY <1>6
<1> DEFINE G == {k \in D : after[k] \in DynResult}
<1>9. ASSUME NEW k \in D, \A y \in D : rank[y] < rank[k] => y \in G
      PROVE  k \in G
  <2>1. k # 0 => after[k - 1] \in DynResult
    <3> SUFFICES ASSUME k # 0 PROVE after[k - 1] \in DynResult
      OBVIOUS
    <3>1. k - 1 \in D /\ rank[k - 1] < rank[k]
      BY <1>n
    <3>2. k - 1 \in G
      <4> HIDE DEF D, rank, G
      <4> QED BY <1>9, <3>1
    <3> QED BY <3>2
  <2> HIDE DEF Step, D
  <2> QED BY <1>s, <1>8, <2>1
<1>10. D \subseteq G
  <2> HIDE DEF D, rank, G
  <2> QED BY <1>1, <1>9, ByRank
<1>11. after \in [D -> DynResult]
  <2> HIDE DEF Step
  <2> QED BY <1>6, <1>10
<1>12. after[0] = Fresh(Details(a.class, a.details))
  BY <1>n, <1>8
<1>13. \A k \in 1 .. n : after[k] = ScanStep(q, a, after[k - 1], k, answers)
  BY <1>n, <1>8
<1>14. AreScans(after, q, a, answers)
  BY <1>11, <1>12, <1>13 DEF AreScans
<1> QED BY <1>7, <1>14

ScanOf(q) ==
  CHOOSE scan : scan = [a \in Scans |->
    ScanBy(q, a, [i \in DOMAIN bases[a.class] |-> scan[ScanBase(a, i)]])]
ScanAnswers(q, a) == [i \in DOMAIN bases[a.class] |-> ScanOf(q)[ScanBase(a, i)]]

\* The three results that a class gives for itself: nothing, source, target.
Blank(a)       == Fresh(Details(a.class, a.details))
AsSource(a)    == [Blank(a) EXCEPT !.whole2src = a.access]
AsTarget(a, k) == [Blank(a) EXCEPT !.dst = a.obj, !.whole2dst = a.access, !.dst2src = k]

LEMMA ScanHereFields ==
  ASSUME Hierarchy, NEW a \in Scans
  PROVE  /\ Blank(a) \in DynResult
         /\ Blank(a).dst = NULL /\ Blank(a).whole2dst = {} /\ Blank(a).whole2src = {}
         /\ Blank(a).dst2src = {} /\ Blank(a).details = Details(a.class, a.details)
         /\ ~Blank(a).ambig /\ ~Blank(a).done /\ ~Blank(a).lost
         /\ AsSource(a) \in DynResult /\ AsSource(a).whole2src = a.access
         /\ AsSource(a).dst = NULL /\ AsSource(a).dst2src = {}
         /\ ~AsSource(a).ambig /\ ~AsSource(a).lost
         /\ \A k \in SUBSET BITS :
              /\ AsTarget(a, k) \in DynResult /\ AsTarget(a, k).whole2src = {}
              /\ AsTarget(a, k).dst = a.obj /\ AsTarget(a, k).whole2dst = a.access
              /\ AsTarget(a, k).dst2src = k
              /\ ~AsTarget(a, k).ambig /\ ~AsTarget(a, k).lost
<1>1. a.class \in Classes /\ a.obj \in Nat /\ a.access \in SUBSET BITS
      /\ a.details \in SUBSET DETAILS
  BY DEF Scans
<1>2. Details(a.class, a.details) \in SUBSET DETAILS
  BY <1>1, FlagsFacts
<1>3. /\ Blank(a) \in DynResult
      /\ Blank(a).dst = NULL /\ Blank(a).whole2dst = {} /\ Blank(a).whole2src = {}
      /\ Blank(a).dst2src = {} /\ Blank(a).details = Details(a.class, a.details)
      /\ ~Blank(a).ambig /\ ~Blank(a).done /\ ~Blank(a).lost
  BY <1>2, FreshFields DEF Blank
<1>4. /\ AsSource(a) \in DynResult /\ AsSource(a).whole2src = a.access
      /\ AsSource(a).dst = NULL /\ AsSource(a).dst2src = {}
      /\ ~AsSource(a).ambig /\ ~AsSource(a).lost
  BY <1>1, <1>3, Zenon DEF DynResult, AsSource
<1>5. ASSUME NEW k \in SUBSET BITS
      PROVE  /\ AsTarget(a, k) \in DynResult /\ AsTarget(a, k).whole2src = {}
             /\ AsTarget(a, k).dst = a.obj /\ AsTarget(a, k).whole2dst = a.access
             /\ AsTarget(a, k).dst2src = k
             /\ ~AsTarget(a, k).ambig /\ ~AsTarget(a, k).lost
  BY <1>1, <1>3, Zenon DEF DynResult, AsTarget
<1> QED BY <1>3, <1>4, <1>5

\* What a target knows of the source when it is found.
AtTarget(q, a) == IF IsLeaf(a.class) \/ q.hint = -2 THEN NOT
                  ELSE IF q.hint >= 0 THEN AtHint(q, a.obj) ELSE UNKNOWN

IsSource(q, a) == a.class = q.src /\ a.obj = q.at

\* A class answers for itself, or by its bases.
LEMMA ScanByCases ==
  ASSUME Hierarchy, NEW q \in Casts, NEW a \in Scans, NEW answers
  PROVE  LET s == ScanBy(q, a, answers)
         IN  /\ AtTarget(q, a) \in SUBSET BITS
             /\ IsSource(q, a) => s = AsSource(a)
             /\ ~IsSource(q, a) /\ a.class = q.dst => s = AsTarget(a, AtTarget(q, a))
             /\ ~IsSource(q, a) /\ a.class # q.dst =>
                  /\ IsLeaf(a.class) => s = Blank(a)
                  /\ IsSi(a.class) => s = answers[1]
                  /\ IsVmi(a.class) => s = AllScanned(q, a, answers)
             /\ IsLeaf(a.class) \/ IsSi(a.class) \/ IsVmi(a.class)
<1>1. a.obj \in Nat /\ a.class \in Classes
  BY DEF Scans
<1>2. AtHint(q, a.obj) \in {NOT, PUBLIC}
  BY <1>1, FindType
<1>3. AtTarget(q, a) \in SUBSET BITS
  BY <1>2 DEF AtTarget, NOT, PUBLIC, UNKNOWN, BITS
<1>4. ~(IsLeaf(a.class) /\ IsSi(a.class))
  BY <1>1, BaseFacts DEF IsLeaf, IsSi
<1> QED BY <1>3, <1>4, Zenon DEF ScanBy, AtTarget, IsVmi, IsSource, AsSource, AsTarget, Blank

LEMMA ScanByType ==
  ASSUME Hierarchy, NEW q \in Casts, NEW a \in Scans, NEW answers,
         \A i \in DOMAIN bases[a.class] : answers[i] \in DynResult
  PROVE  ScanBy(q, a, answers) \in DynResult
<1>1. a.class \in Classes
  BY DEF Scans
<1>2. AllScanned(q, a, answers) \in DynResult
  <2>1. PICK after : /\ AreScans(after, q, a, answers)
                     /\ AllScanned(q, a, answers) = after[2 * Len(bases[a.class])]
    BY AllScannedFacts
  <2> QED BY <1>1, <2>1, BaseAtFacts DEF AreScans
<1>3. IsSi(a.class) => answers[1] \in DynResult
  BY <1>1, BaseFacts DEF IsSi
<1>4. AtTarget(q, a) \in SUBSET BITS
  BY ScanByCases
<1>5. /\ Blank(a) \in DynResult /\ AsSource(a) \in DynResult
      /\ AsTarget(a, AtTarget(q, a)) \in DynResult
  BY <1>4, ScanHereFields
<1> QED BY <1>2, <1>3, <1>5, ScanByCases

LEMMA ScanFacts ==
  ASSUME Hierarchy, NEW q \in Casts
  PROVE  \A a \in Scans : /\ ScanOf(q)[a] \in DynResult
                          /\ ScanOf(q)[a] = ScanBy(q, a, ScanAnswers(q, a))
<1> DEFINE scan == ScanOf(q)
           rank == [a \in Scans |-> a.class]
           Ask(a, f) == [i \in DOMAIN bases[a.class] |-> f[ScanBase(a, i)]]
           H == [f \in [Scans -> DynResult] |-> [a \in Scans |-> ScanBy(q, a, Ask(a, f))]]
<1>1. rank \in [Scans -> Nat]
  BY ClassFacts DEF Scans
<1>2. ASSUME NEW a \in Scans, NEW i \in DOMAIN bases[a.class]
      PROVE  ScanBase(a, i) \in Scans /\ rank[ScanBase(a, i)] < rank[a]
  BY ScanBaseFields
<1>3. H \in [[Scans -> DynResult] -> [Scans -> DynResult]]
  <2>1. ASSUME NEW f \in [Scans -> DynResult], NEW a \in Scans
        PROVE  ScanBy(q, a, Ask(a, f)) \in DynResult
    <3>1. \A i \in DOMAIN bases[a.class] : Ask(a, f)[i] \in DynResult
      BY <1>2
    <3> HIDE DEF Ask
    <3> QED BY <3>1, ScanByType
  <2> HIDE DEF Ask
  <2> QED BY <2>1
<1>4. ASSUME NEW f \in [Scans -> DynResult], NEW g \in [Scans -> DynResult],
             NEW x \in Scans, \A y \in Scans : rank[y] < rank[x] => f[y] = g[y]
      PROVE  H[f][x] = H[g][x]
  <2>1. \A i \in DOMAIN bases[x.class] : f[ScanBase(x, i)] = g[ScanBase(x, i)]
    <3> HIDE DEF rank, H
    <3> QED BY <1>2, <1>4
  <2>2. Ask(x, f) = Ask(x, g)
    BY <2>1
  <2> HIDE DEF Ask
  <2> QED BY <2>2
<1>5. Recursive(Scans, DynResult, H)
  <2> HIDE DEF rank, H
  <2>1. Descends(Scans, DynResult, rank, H)
    BY <1>4 DEF Descends
  <2>2. DynResult # {}
    <3>1. {} \in SUBSET DETAILS
      OBVIOUS
    <3> QED BY <3>1, FreshFields
  <2> QED BY <1>1, <1>3, <2>1, <2>2, Recursion
<1>6. PICK f \in [Scans -> DynResult] : f = [a \in Scans |-> ScanBy(q, a, Ask(a, f))]
  <2> HIDE DEF Ask
  <2> QED BY <1>5 DEF Recursive
<1>7. scan = [a \in Scans |-> ScanBy(q, a, Ask(a, scan))]
  BY <1>6 DEF ScanOf
<1>8. \A a \in Scans : scan[a] = ScanBy(q, a, ScanAnswers(q, a))
  <2>1. \A a \in Scans : ScanAnswers(q, a) = Ask(a, scan)
    BY DEF ScanAnswers
  <2> HIDE DEF Ask, scan
  <2> QED BY <1>7, <2>1
<1> HIDE DEF scan
<1> DEFINE G == {a \in Scans : scan[a] \in DynResult}
<1>9. ASSUME NEW a \in Scans, \A y \in Scans : rank[y] < rank[a] => y \in G
      PROVE  a \in G
  <2>1. \A i \in DOMAIN bases[a.class] : scan[ScanBase(a, i)] \in DynResult
    <3> HIDE DEF rank
    <3> QED BY <1>2, <1>9
  <2>2. \A i \in DOMAIN bases[a.class] : ScanAnswers(q, a)[i] \in DynResult
    BY <2>1 DEF ScanAnswers, scan
  <2>3. ScanBy(q, a, ScanAnswers(q, a)) \in DynResult
    BY <2>2, ScanByType
  <2> QED BY <1>8, <2>3
<1>10. Scans \subseteq G
  <2> HIDE DEF rank, G
  <2> QED BY <1>1, <1>9, ByRank
<1> QED BY <1>8, <1>10 DEF scan

-----------------------------------------------------------------------------
(* What a cast is asked of, and what its results may say. *)

\* Offsets are smaller than addresses.
Laid == \A c \in Classes : Size[c] <= Origin

\* A cast with the hint of the compiler, or with none.
IsCast(q) ==
  /\ q \in Casts /\ Subobject(q.src, q.at)
  /\ ~\E w \in Routes[q.src] : w.type = q.dst
  /\ q.hint \in {Hint(q.src, q.dst), -1}

LEMMA WaysFields ==
  ASSUME Hierarchy, NEW c \in Classes, NEW at
  PROVE  /\ \A w \in Routes[c] : \E v \in Ways(c, at) :
              /\ v.type = w.type /\ v.at = Place(w, at)
              /\ v.public = w.public
              /\ v.virtual = w.virtual
         /\ \A v \in Ways(c, at) : \E w \in Routes[c] :
              /\ v.type = w.type /\ v.at = Place(w, at)
              /\ v.public = w.public
              /\ v.virtual = w.virtual
<1>1. ASSUME NEW w \in Routes[c]
      PROVE  /\ [w EXCEPT !.at = Place(w, at)].type = w.type
             /\ [w EXCEPT !.at = Place(w, at)].public = w.public
             /\ [w EXCEPT !.at = Place(w, at)].virtual = w.virtual
             /\ [w EXCEPT !.at = Place(w, at)].at = Place(w, at)
  <2>1. w \in Way
    BY RoutesSplit
  <2> QED BY <2>1 DEF Way
<1> QED BY <1>1 DEF Ways

\* The hint is a number, or says why there is none.
LEMMA HintFacts ==
  ASSUME Hierarchy, NEW src, NEW dst \in Classes
  PROVE  /\ \/ Hint(src, dst) \in {-1, -2, -3}
            \/ /\ Hint(src, dst) \in Nat
               /\ \E u \in Routes[dst] : /\ u.type = src /\ u.public /\ ~u.virtual
                                         /\ u.at = Hint(src, dst)
         /\ (\E u \in Routes[dst] : u.type = src /\ u.public /\ u.virtual)
              => Hint(src, dst) = -1
<1> DEFINE ways == {w \in Ways(dst, NULL) : w.type = src /\ w.public}
           one == CHOOSE w \in ways : TRUE
<1>1. Hint(src, dst) = IF \E w \in ways : w.virtual THEN -1
                       ELSE IF ways = {} THEN -2
                       ELSE IF Cardinality(ways) > 1 THEN -3
                       ELSE one.at
  BY DEF Hint
<1>2. ASSUME NEW u \in Routes[dst], u.type = src, u.public, u.virtual
      PROVE  \E w \in ways : w.virtual
  BY <1>2, WaysFields
<1>3. ASSUME \A w \in ways : ~w.virtual, ways # {}
      PROVE  /\ one.at \in Nat
             /\ \E u \in Routes[dst] : u.type = src /\ u.public /\ ~u.virtual /\ u.at = one.at
  <2>1. one \in ways
    BY <1>3
  <2> HIDE DEF one
  <2>2. one \in Ways(dst, NULL) /\ one.type = src /\ one.public /\ ~one.virtual
    BY <1>3, <2>1
  <2>3. PICK u \in Routes[dst] : /\ one.type = u.type /\ one.at = Place(u, NULL)
                                 /\ one.public = u.public
                                 /\ one.virtual = u.virtual
    <3>1. \A v \in Ways(dst, NULL) : \E w \in Routes[dst] :
            /\ v.type = w.type /\ v.at = Place(w, NULL)
            /\ v.public = w.public
            /\ v.virtual = w.virtual
      BY WaysFields
    <3> QED BY <2>2, <3>1
  <2>4. u.at \in Nat
    BY RoutesSplit DEF Way
  <2>5. one.at = u.at
    BY <2>2, <2>3, <2>4 DEF Place, NULL
  <2> QED BY <2>2, <2>3, <2>4, <2>5
<1> HIDE DEF ways, one
<1> QED BY <1>1, <1>2, <1>3

LEMMA CastFacts ==
  ASSUME Hierarchy, NEW q, IsCast(q)
  PROVE  /\ q \in Casts /\ q.src \in Classes /\ q.dst \in Classes /\ q.at \in Nat
         /\ Subobject(q.src, q.at) /\ Origin <= q.at
         /\ q.src # q.dst
         /\ \A p : Subobject(q.dst, p) =>
              p \in Nat /\ Clear(q.dst, p, q.src, q.at) /\ ~Nested(q.src, q.at, q.dst, p)
         /\ \/ q.hint \in {-1, -2, -3}
            \/ /\ q.hint \in Nat
               /\ \E u \in Routes[q.dst] : /\ u.type = q.src /\ u.public /\ ~u.virtual
                                           /\ u.at = q.hint
         /\ (\E u \in Routes[q.dst] : u.type = q.src /\ u.public /\ u.virtual)
              => q.hint = -1
<1>1. /\ q \in Casts /\ Subobject(q.src, q.at) /\ q.hint \in {Hint(q.src, q.dst), -1}
      /\ ~\E w \in Routes[q.src] : w.type = q.dst
  BY DEF IsCast
<1>2. q.src \in Classes /\ q.dst \in Classes /\ q.at \in Nat
  BY <1>1 DEF Casts
<1>3. q.src # q.dst
  BY <1>1, <1>2, RoutesSplit, HereFacts
<1>4. ASSUME NEW p, Subobject(q.dst, p)
      PROVE  p \in Nat /\ Clear(q.dst, p, q.src, q.at) /\ ~Nested(q.src, q.at, q.dst, p)
  <2>0. whole \in Classes /\ Origin \in Nat
    BY ClassFacts DEF Hierarchy
  <2>1. Clear(whole, Origin, q.src, q.at)
    BY <1>1, BlockIsClear DEF Block
  <2>2. PICK w \in Routes[whole] : w.type = q.dst /\ Place(w, Origin) = p
    BY <1>4 DEF Subobject
  <2>3. Clear(q.dst, p, q.src, q.at)
    BY <1>1, <2>0, <2>1, <2>2, PartsAreClear
  <2> QED BY <1>1, <1>4, <2>3, SubobjectFacts DEF Nested
<1>5. Origin <= q.at
  BY <1>1, SubobjectFacts
<1> QED BY <1>1, <1>2, <1>3, <1>4, <1>5, HintFacts

PublicTo(c, at) == \E v \in Routes[whole] : Reaches(v, Origin, c, at) /\ v.public

\* The __sub_kind of a way.
KindOf(v) == {"in"} \cup (IF v.public THEN {"public"} ELSE {})
                    \cup (IF v.virtual THEN {"virtual"} ELSE {})

\* The target at p holds the source by a way of kind k.
Holds(q, p, k) == \E u \in Routes[q.dst] : /\ Reaches(u, p, q.src, q.at) /\ u.public
                                           /\ u.virtual <=> Virtual(k)

\* No target has the source in itself but by a virtual base.
Loose(q) == \A p : Subobject(q.dst, p) => ~Nested(q.dst, p, q.src, q.at)

\* What is true of the three parts of a result.
SourceTrue(q, k) ==
  /\ k # {} => /\ Loose(q)
               /\ \E v \in Routes[whole] : Reaches(v, Origin, q.src, q.at) /\ KindOf(v) \subseteq k
  /\ "public" \in k => PublicTo(q.src, q.at)
TargetTrue(q, p, k) ==
  p # NULL => /\ Subobject(q.dst, p)
              /\ "public" \in k => PublicTo(q.dst, p)
              /\ \E v \in Routes[whole] : Reaches(v, Origin, q.dst, p) /\ KindOf(v) \subseteq k
InTrue(q, p, k) == Contained(k) => p # NULL /\ Holds(q, p, k)

ResultTrue(q, r) == /\ SourceTrue(q, r.whole2src)
                    /\ TargetTrue(q, r.dst, r.whole2dst)
                    /\ InTrue(q, r.dst, r.dst2src)

\* A target that is asked for the source tells the truth, and so does a null
\* pointer but where the walk would look for its virtual bases.
LEMMA FindTrue ==
  ASSUME Hierarchy, Laid, NEW q, IsCast(q), NEW p \in Nat,
         p # NULL => Subobject(q.dst, p), p = NULL => q.hint # -1
  PROVE  InTrue(q, p, FindPublicSrc(q, p))
<1> DEFINE k == FindPublicSrc(q, p)
           a == [class |-> q.dst, obj |-> p]
<1> SUFFICES ASSUME Contained(k) PROVE p # NULL /\ Holds(q, p, k)
  BY DEF InTrue
<1>1. /\ q \in Casts /\ q.dst \in Classes /\ q.at \in Nat /\ Origin <= q.at
      /\ Subobject(q.src, q.at)
      /\ p # NULL => Clear(q.dst, p, q.src, q.at)
  BY CastFacts
<1>2. Size[q.dst] \in Nat /\ Size[q.dst] <= Origin /\ Origin \in Nat /\ NULL = 0
  BY <1>1, SizePositive, ClassFacts DEF Laid, NULL
<1>3. a \in Objects /\ a.class = q.dst /\ a.obj = p
  BY <1>1 DEF Objects
<1>4. CASE q.hint \in Nat
  <2>1. PICK u \in Routes[q.dst] : u.type = q.src /\ u.public /\ ~u.virtual /\ u.at = q.hint
    BY <1>4, CastFacts
  <2>2. k = AtHint(q, p)
    BY <1>4 DEF FindPublicSrc
  <2>3. k = PUBLIC /\ p + q.hint = q.at
    BY <2>2 DEF AtHint, Contained, NOT
  <2>4. u.at + Size[q.src] <= Size[q.dst] /\ Size[q.src] \in Nat /\ Size[q.src] > 0
    BY <1>1, <2>1, NestedInside, SizePositive DEF Casts
  <2>5. p # NULL
    BY <1>1, <1>2, <1>4, <2>1, <2>3, <2>4
  <2>6. Reaches(u, p, q.src, q.at)
    BY <2>1, <2>3 DEF Reaches, Place
  <2>7. ~Virtual(k)
    BY <2>3 DEF Virtual, PUBLIC
  <2> QED BY <2>1, <2>5, <2>6, <2>7 DEF Holds
<1>5. CASE q.hint = -2
  BY <1>5 DEF FindPublicSrc, Contained, NOT
<1>6. CASE q.hint \in {-1, -3}
  <2>1. k = FindOf(q)[a]
    BY <1>1, <1>6, FindType DEF FindPublicSrc
  <2>2. CASE p = NULL
    <3>1. q.hint = -3
      BY <1>6, <2>2
    <3>2. a.obj + Size[a.class] <= q.at
      BY <1>1, <1>2, <1>3, <2>2
    <3> HIDE DEF a, k
    <3> QED BY <1>1, <1>3, <2>1, <3>1, <3>2, FindNowhere
  <2>3. CASE p # NULL
    <3> HIDE DEF a, k
    <3>1. \E u \in Routes[q.dst] : /\ Reaches(u, p, q.src, q.at) /\ u.public
                                   /\ u.virtual <=> Virtual(k)
      BY <1>1, <1>3, <2>1, <2>3, FindSound
    <3> QED BY <2>3, <3>1 DEF Holds
  <2> QED BY <2>2, <2>3
<1> QED BY <1>4, <1>5, <1>6, CastFacts

LEMMA KindInTrue ==
  ASSUME Hierarchy, Laid, NEW q, IsCast(q), NEW c, NEW r, NEW target \in DynResult, NEW other,
         TargetTrue(q, target.dst, target.whole2dst), InTrue(q, target.dst, target.dst2src),
         ~Astray(q, c, r, target, other)
  PROVE  InTrue(q, target.dst, KindIn(q, c, r, target, other))
<1>1. target.dst \in Nat
  BY DEF DynResult
<1>2. CASE Asks(c, r, target, other)
  <2>1. KindIn(q, c, r, target, other) = FindPublicSrc(q, target.dst)
    BY <1>2 DEF KindIn
  <2>2. target.dst = NULL => q.hint # -1
    BY <1>2 DEF Astray
  <2>3. target.dst # NULL => Subobject(q.dst, target.dst)
    BY DEF TargetTrue
  <2> QED BY <1>1, <2>1, <2>2, <2>3, FindTrue
<1>3. CASE ~Asks(c, r, target, other)
  BY <1>3 DEF KindIn, InTrue, Contained, NOT, UNKNOWN
<1> QED BY <1>2, <1>3

LEMMA SourcesTrue ==
  ASSUME NEW q, NEW k, NEW l, SourceTrue(q, k), SourceTrue(q, l)
  PROVE  SourceTrue(q, k \cup l)
BY DEF SourceTrue

LEMMA TargetsTrue ==
  ASSUME NEW q, NEW p, NEW k, NEW l, TargetTrue(q, p, k), TargetTrue(q, p, l)
  PROVE  TargetTrue(q, p, k \cup l)
BY DEF TargetTrue

LEMMA JoinedTrue ==
  ASSUME NEW q, NEW r \in DynResult, NEW r2 \in DynResult, ResultTrue(q, r), ResultTrue(q, r2)
  PROVE  ResultTrue(q, Joined(r, r2))
<1>1. PICK m : m = Joined(r, r2)
  OBVIOUS
<1>2. /\ m.whole2src = r.whole2src \cup r2.whole2src
      /\ m.dst = r.dst /\ m.whole2dst = r.whole2dst /\ m.dst2src = r.dst2src
  BY <1>1, JoinedFields
<1>3. ResultTrue(q, m)
  BY <1>2, SourcesTrue DEF ResultTrue
<1> QED BY <1>1, <1>3

\* Two results that tell the truth are merged into one that does.
LEMMA MergeTrue ==
  ASSUME Hierarchy, Laid, NEW q, IsCast(q), NEW c, NEW r \in DynResult, NEW r2 \in DynResult,
         ResultTrue(q, r), ResultTrue(q, r2),
         NEW s, s = MergeTarget(q, c, r, r2), ~s.lost
  PROVE  ResultTrue(q, s)
<1>0. q \in Casts
  BY DEF IsCast
<1>1. /\ s \in DynResult /\ s.whole2src = r.whole2src
      /\ Merged(q, c, r, r2, s)
  BY <1>0, MergeTargetFields
<1>2. SourceTrue(q, s.whole2src)
  BY <1>1 DEF ResultTrue
<1>3. CASE Better(r2)
  BY <1>1, <1>2, <1>3 DEF Merged, ResultTrue, SameTarget
<1>4. CASE ~Better(r2) /\ Empty(r)
  <2>1. ~Contained(r.dst2src)
    BY <1>4 DEF ResultTrue, InTrue, Empty
  <2> QED BY <1>1, <1>2, <1>4, <2>1 DEF Merged, ResultTrue, SameTarget, InTrue
<1>5. CASE ~Better(r2) /\ ~Empty(r) /\ Same(r, r2)
  <2>1. TargetTrue(q, s.dst, s.whole2dst)
    BY <1>1, <1>5, TargetsTrue DEF Merged, ResultTrue, Same
  <2>2. InTrue(q, s.dst, s.dst2src)
    BY <1>1, <1>5 DEF Merged, ResultTrue
  <2> QED BY <1>2, <2>1, <2>2 DEF ResultTrue
<1>6. CASE ~Better(r2) /\ ~Empty(r) /\ ~Same(r, r2) /\ Clash(r, r2)
  <2> DEFINE old == KindIn(q, c, r, r, r2.dst2src)
             new == KindIn(q, c, r, r2, old)
  <2>1. /\ ~Astray(q, c, r, r, r2.dst2src) /\ ~Astray(q, c, r, r2, old)
        /\ Chosen(r, r2, old, new, s)
    <3>1. s = Disambiguate(q, c, r, r2)
      BY <1>1, <1>6 DEF Merged
    <3>2. old = KindIn(q, c, r, r, r2.dst2src) /\ new = KindIn(q, c, r, r2, old)
      OBVIOUS
    <3> HIDE DEF old, new
    <3> QED BY <1>0, <3>1, <3>2, DisambiguateFields
  <2>2. InTrue(q, r.dst, old)
    BY <2>1, KindInTrue DEF ResultTrue
  <2>3. InTrue(q, r2.dst, new)
    <3> HIDE DEF old
    <3> QED BY <2>1, KindInTrue DEF ResultTrue
  <2> HIDE DEF old, new
  <2>4. TargetTrue(q, s.dst, s.whole2dst) /\ InTrue(q, s.dst, s.dst2src)
    <3>1. CASE Contained(new) /\ Contained(old)
      BY <2>1, <3>1 DEF Chosen, TargetTrue, InTrue, Contained, AMBIG
    <3>2. CASE Contained(new) /\ ~Contained(old)
      BY <2>1, <2>3, <3>2 DEF Chosen, ResultTrue
    <3>3. CASE ~Contained(new) /\ Contained(old)
      BY <2>1, <2>2, <3>3 DEF Chosen, ResultTrue
    <3>4. CASE ~Contained(new) /\ ~Contained(old)
      BY <2>1, <3>4 DEF Chosen, TargetTrue, InTrue, Contained, NOT
    <3> QED BY <3>1, <3>2, <3>3, <3>4
  <2> QED BY <1>2, <2>4 DEF ResultTrue
<1>7. CASE ~Better(r2) /\ ~Empty(r) /\ ~Same(r, r2) /\ ~Clash(r, r2)
  BY <1>1, <1>7 DEF Merged
<1> QED BY <1>3, <1>4, <1>5, <1>6, <1>7

-----------------------------------------------------------------------------
(* The results of the walk tell the truth. *)

\* A way of the kind a.access leads to a, and the targets are in a or apart.
Reached(q, a) ==
  /\ \E v \in Routes[whole] : Reaches(v, Origin, a.class, a.obj) /\ a.access = KindOf(v)
  /\ \A p : Subobject(q.dst, p) => Clear(a.class, a.obj, q.dst, p)

Start == [class |-> whole, access |-> PUBLIC, obj |-> Origin, details |-> {"unknown"}]

LEMMA ReachedWhole ==
  ASSUME Hierarchy, NEW q
  PROVE  /\ Start \in Scans /\ Start.class = whole /\ Start.obj = Origin
         /\ Start.details = {"unknown"}
         /\ Reached(q, Start)
<1>1. whole \in Classes /\ Origin \in Nat
  BY ClassFacts DEF Hierarchy
<1>2. Start \in Scans
  BY <1>1 DEF Start, Scans, PUBLIC, BITS, DETAILS
<1>3. /\ Start.class = whole /\ Start.obj = Origin /\ Start.access = PUBLIC
      /\ Start.details = {"unknown"}
  BY DEF Start
<1>4. /\ Here(whole) \in Routes[whole] /\ Here(whole).type = whole
      /\ Here(whole).public /\ ~Here(whole).virtual /\ Here(whole).at = 0
  BY <1>1, RoutesSplit DEF Here
<1>5. Reaches(Here(whole), Origin, whole, Origin) /\ KindOf(Here(whole)) = PUBLIC
  BY <1>1, <1>4 DEF Reaches, Place, KindOf, PUBLIC
<1>6. \A p : Subobject(q.dst, p) => Clear(whole, Origin, q.dst, p)
  BY BlockIsClear DEF Block
<1> QED BY <1>2, <1>3, <1>4, <1>5, <1>6 DEF Reached

LEMMA ReachedBelow ==
  ASSUME Hierarchy, NEW q, NEW a \in Scans, NEW i \in DOMAIN bases[a.class],
         a.class # q.dst, Reached(q, a)
  PROVE  Reached(q, ScanBase(a, i))
<1> DEFINE b == bases[a.class][i]
           e == ScanBase(a, i)
           u == Through(a.class, i, Here(b.type))
<1>1. /\ a.class \in Classes /\ a.obj \in Nat /\ e.class = b.type
      /\ e.access = Access(b, a.access) /\ e.obj = ConvertToBase(a.class, i, a.obj)
  BY ScanBaseFields
<1>2. PICK v \in Routes[whole] : Reaches(v, Origin, a.class, a.obj) /\ a.access = KindOf(v)
  BY DEF Reached
<1>3. b.type \in Classes /\ b.public \in BOOLEAN /\ b.virtual \in BOOLEAN
  BY <1>1, BaseFacts
<1>4. /\ Here(b.type) \in Routes[b.type] /\ Here(b.type).type = b.type
      /\ Here(b.type).public /\ ~Here(b.type).virtual /\ Here(b.type).at = 0
  BY <1>3, RoutesSplit DEF Here
<1>5. /\ u \in Routes[a.class] /\ u.type = b.type
      /\ u.public <=> b.public
      /\ u.virtual <=> b.virtual
      /\ \A at \in Nat : Place(u, at) = Place(Here(b.type), ConvertToBase(a.class, i, at))
  BY <1>1, <1>4, Stepped
<1>6. ConvertToBase(a.class, i, a.obj) \in Nat
  BY <1>1, Converted
<1>7. Place(u, a.obj) = e.obj
  BY <1>1, <1>4, <1>5, <1>6 DEF Place
<1>8. PICK w \in Routes[whole] : Joins(w, v, u)
  <2>1. whole \in Classes /\ v.type = a.class
    BY <1>2, ClassFacts DEF Hierarchy, Reaches
  <2> QED BY <1>5, <2>1, JoinedWays
<1>9. Reaches(w, Origin, e.class, e.obj)
  <2>1. Origin \in Nat /\ Place(v, Origin) = a.obj
    BY <1>2, ClassFacts DEF Reaches
  <2> HIDE DEF u, e, b
  <2> QED BY <1>1, <1>5, <1>7, <1>8, <2>1 DEF Joins, Reaches
<1>10. e.access = KindOf(w)
  <2>1. /\ w.public <=> v.public /\ b.public
        /\ w.virtual <=> v.virtual \/ b.virtual
    BY <1>5, <1>8 DEF Joins
  <2> HIDE DEF u, e, b
  <2>2. e.access = Access(b, KindOf(v))
    BY <1>1, <1>2
  <2> QED BY <1>3, <2>1, <2>2 DEF Access, KindOf
<1>11. ASSUME NEW p, Subobject(q.dst, p)
       PROVE  Clear(e.class, e.obj, q.dst, p)
  <2>1. Clear(a.class, a.obj, q.dst, p)
    BY <1>11 DEF Reached
  <2> QED BY <1>1, <1>11, <2>1, BaseIsClear
<1> QED BY <1>9, <1>10, <1>11 DEF Reached

LEMMA VisitTrue ==
  ASSUME Hierarchy, Laid, NEW q, IsCast(q), NEW a, NEW i,
         NEW r \in DynResult, NEW r2 \in DynResult,
         ~r.lost => ResultTrue(q, r), ~r2.lost => ResultTrue(q, r2),
         NEW s, s = VisitBase(q, a, r, i, r2)
  PROVE  s \in DynResult /\ (~s.lost => ResultTrue(q, s))
<1>0. q \in Casts
  BY DEF IsCast
<1>1. CASE r.done \/ NothingHidden(q, a.class, r, i)
  BY <1>1 DEF VisitBase
<1>2. CASE ~(r.done \/ NothingHidden(q, a.class, r, i))
  <2> DEFINE j == Joined(r, r2)
             m == MergeTarget(q, a.class, j, r2)
  <2>1. s = StopAtPrivate(m)
    BY <1>0, <1>2, VisitBaseType DEF VisitBase
  <2>2. /\ j \in DynResult
        /\ j.lost <=> r.lost \/ r2.lost
    BY JoinedFields, Zenon
  <2>3. ~r.lost /\ ~r2.lost => ResultTrue(q, j)
    BY JoinedTrue
  <2>4. m = MergeTarget(q, a.class, j, r2)
    OBVIOUS
  <2> HIDE DEF j, m
  <2>5. m \in DynResult /\ (~m.lost => ~j.lost)
    BY <1>0, <2>2, <2>4, MergeTargetFields
  <2>6. ~m.lost => ResultTrue(q, m)
    BY <2>2, <2>3, <2>4, <2>5, MergeTrue
  <2>7. s \in DynResult /\ SameSource(m, s) /\ SameTarget(m, s) /\ s.dst2src = m.dst2src
    BY <2>1, <2>5, StopFields, Zenon
  <2> QED BY <2>6, <2>7 DEF SameSource, SameTarget, ResultTrue
<1> QED BY <1>1, <1>2

LEMMA LoopTrue ==
  ASSUME Hierarchy, Laid, NEW q, IsCast(q), NEW a \in Scans, NEW answers,
         \A i \in DOMAIN bases[a.class] :
           answers[i] \in DynResult /\ (~answers[i].lost => ResultTrue(q, answers[i])),
         NEW s, s = AllScanned(q, a, answers)
  PROVE  ~s.lost => ResultTrue(q, s)
<1> DEFINE n == 2 * Len(bases[a.class])
           D == 0 .. n
           rank == [k \in D |-> k]
<1>0. q \in Casts /\ a.class \in Classes /\ Details(a.class, a.details) \in SUBSET DETAILS
  BY FlagsFacts DEF IsCast, Scans
<1>1. n \in Nat /\ \A k \in 1 .. n : BaseAt(a.class, k) \in DOMAIN bases[a.class]
  BY <1>0, BaseAtFacts
<1>2. PICK after : AreScans(after, q, a, answers) /\ s = after[n]
  BY <1>0, AllScannedFacts
<1> DEFINE G == {k \in D : ~after[k].lost => ResultTrue(q, after[k])}
<1>3. ASSUME NEW k \in D, \A y \in D : rank[y] < rank[k] => y \in G
      PROVE  k \in G
  <2>1. CASE k = 0
    <3>1. after[0] = Fresh(Details(a.class, a.details))
      BY <1>2 DEF AreScans
    <3>2. ResultTrue(q, after[0])
      BY <1>0, <3>1, FreshFields DEF ResultTrue, SourceTrue, TargetTrue, InTrue, Contained
    <3> QED BY <2>1, <3>2
  <2>2. CASE k # 0
    <3>1. k - 1 \in D /\ rank[k - 1] < rank[k] /\ k \in 1 .. n
      BY <1>1, <2>2
    <3>2. ~after[k - 1].lost => ResultTrue(q, after[k - 1])
      <4>1. k - 1 \in G
        <5> HIDE DEF D, rank, G
        <5> QED BY <1>3, <3>1
      <4> QED BY <4>1
    <3> DEFINE i == BaseAt(a.class, k)
    <3>3. i \in DOMAIN bases[a.class] /\ answers[i] \in DynResult
      BY <1>1, <3>1
    <3>4. after[k - 1] \in DynResult /\ after[k] = ScanStep(q, a, after[k - 1], k, answers)
      <4> HIDE DEF n
      <4> QED BY <1>1, <1>2, <3>1 DEF AreScans, n
    <3>5. CASE IsDue(q, a, k)
      <4>1. after[k] = VisitBase(q, a, after[k - 1], i, answers[i])
        BY <3>4, <3>5 DEF ScanStep
      <4> HIDE DEF i
      <4> QED BY <3>2, <3>3, <3>4, <4>1, VisitTrue
    <3>6. CASE ~IsDue(q, a, k)
      <4>1. after[k] = after[k - 1]
        BY <3>4, <3>6 DEF ScanStep
      <4> QED BY <3>2, <4>1
    <3> QED BY <3>5, <3>6
  <2> QED BY <2>1, <2>2
<1>4. rank \in [D -> Nat]
  BY <1>1
<1>5. D \subseteq G
  <2> HIDE DEF D, rank, G
  <2> QED BY <1>3, <1>4, ByRank
<1> QED BY <1>1, <1>2, <1>5

LEMMA NodeTrue ==
  ASSUME Hierarchy, Laid, NEW q, IsCast(q)
  PROVE  \A a \in Scans :
           Reached(q, a) /\ ~ScanOf(q)[a].lost => ResultTrue(q, ScanOf(q)[a])
<1> DEFINE scan == ScanOf(q)
           rank == [a \in Scans |-> a.class]
           G == {a \in Scans : Reached(q, a) /\ ~scan[a].lost => ResultTrue(q, scan[a])}
<1>0. q \in Casts
  BY DEF IsCast
<1>1. rank \in [Scans -> Nat]
  BY ClassFacts DEF Scans
<1>2. ASSUME NEW a \in Scans, \A y \in Scans : rank[y] < rank[a] => y \in G
      PROVE  a \in G
  <2> SUFFICES ASSUME Reached(q, a), ~scan[a].lost PROVE ResultTrue(q, scan[a])
    OBVIOUS
  <2> DEFINE answers == ScanAnswers(q, a)
  <2>1. a.class \in Classes /\ a.obj \in Nat
    BY DEF Scans
  <2>2. scan[a] = ScanBy(q, a, answers) /\ scan[a] \in DynResult
    BY <1>0, ScanFacts
  <2>3. PICK v \in Routes[whole] : Reaches(v, Origin, a.class, a.obj) /\ a.access = KindOf(v)
    BY DEF Reached
  <2>4. ASSUME NEW i \in DOMAIN bases[a.class], a.class # q.dst
        PROVE  answers[i] \in DynResult /\ (~answers[i].lost => ResultTrue(q, answers[i]))
    <3>1. ScanBase(a, i) \in Scans /\ rank[ScanBase(a, i)] < rank[a]
      BY ScanBaseFields
    <3>2. Reached(q, ScanBase(a, i))
      BY <2>4, ReachedBelow
    <3>3. ScanBase(a, i) \in G
      <4> HIDE DEF rank, G
      <4> QED BY <1>2, <3>1
    <3>4. answers[i] = scan[ScanBase(a, i)]
      BY DEF ScanAnswers
    <3> QED BY <1>0, <3>1, <3>2, <3>3, <3>4, ScanFacts
  <2> HIDE DEF scan, answers, rank, G
  <2>5. CASE IsSource(q, a)
    <3>1. scan[a] = AsSource(a)
      BY <1>0, <2>2, <2>5, ScanByCases
    <3>2. /\ scan[a].whole2src = a.access /\ scan[a].dst = NULL /\ scan[a].dst2src = {}
      BY <3>1, ScanHereFields
    <3>3. Loose(q)
      <4>1. ASSUME NEW p, Subobject(q.dst, p), Nested(q.dst, p, q.src, q.at) PROVE FALSE
        <5>1. Clear(q.src, q.at, q.dst, p)
          BY <2>5, <4>1 DEF Reached, IsSource
        <5>2. /\ q.src \in Classes /\ q.dst \in Classes /\ q.at \in Nat /\ p \in Nat
              /\ ~Nested(q.src, q.at, q.dst, p)
          BY <4>1, CastFacts
        <5>3. Apart(q.at, Size[q.src], p, Size[q.dst])
          BY <5>1, <5>2 DEF Clear
        <5>4. p <= q.at /\ q.at + Size[q.src] <= p + Size[q.dst]
          BY <4>1, <5>2, NestedFacts
        <5>5. Size[q.src] \in Nat /\ Size[q.src] > 0 /\ Size[q.dst] \in Nat
          BY <5>2, SizePositive
        <5> QED BY <5>2, <5>3, <5>4, <5>5 DEF Apart
      <4> QED BY <4>1 DEF Loose
    <3>4. SourceTrue(q, a.access)
      BY <2>3, <2>5, <3>3 DEF SourceTrue, IsSource, PublicTo, KindOf
    <3> QED BY <3>2, <3>4 DEF ResultTrue, TargetTrue, InTrue, Contained
  <2>6. CASE ~IsSource(q, a) /\ a.class = q.dst
    <3> DEFINE k == AtTarget(q, a)
    <3>1. scan[a] = AsTarget(a, k) /\ k \in SUBSET BITS
      BY <1>0, <2>2, <2>6, ScanByCases
    <3>2. /\ scan[a].whole2src = {} /\ scan[a].dst = a.obj
          /\ scan[a].whole2dst = a.access /\ scan[a].dst2src = k
      BY <3>1, ScanHereFields
    <3>3. Subobject(q.dst, a.obj)
      BY <2>3, <2>6 DEF Subobject, Reaches
    <3>4. TargetTrue(q, a.obj, a.access)
      BY <2>3, <2>6, <3>3 DEF TargetTrue, PublicTo, KindOf
    <3>5. InTrue(q, a.obj, k)
      <4>1. CASE q.hint >= 0 /\ ~IsLeaf(a.class) /\ q.hint # -2
        <5>1. k = FindPublicSrc(q, a.obj)
          BY <4>1 DEF AtTarget, FindPublicSrc
        <5> QED BY <2>1, <3>3, <4>1, <5>1, FindTrue
      <4>2. CASE ~(q.hint >= 0 /\ ~IsLeaf(a.class) /\ q.hint # -2)
        BY <4>2 DEF AtTarget, InTrue, Contained, NOT, UNKNOWN
      <4> QED BY <4>1, <4>2
    <3> QED BY <3>2, <3>4, <3>5 DEF ResultTrue, SourceTrue
  <2>7. CASE ~IsSource(q, a) /\ a.class # q.dst
    <3>1. CASE IsLeaf(a.class)
      <4>1. scan[a] = Blank(a)
        BY <1>0, <2>2, <2>7, <3>1, ScanByCases
      <4> QED BY <4>1, ScanHereFields DEF ResultTrue, SourceTrue, TargetTrue, InTrue, Contained
    <3>2. CASE IsSi(a.class)
      <4>1. scan[a] = answers[1]
        BY <1>0, <2>2, <2>7, <3>2, ScanByCases
      <4>2. 1 \in DOMAIN bases[a.class]
        BY <2>1, <3>2, BaseFacts DEF IsSi
      <4> QED BY <2>4, <2>7, <4>1, <4>2 DEF scan
    <3>3. CASE IsVmi(a.class)
      <4>1. scan[a] = AllScanned(q, a, answers)
        BY <1>0, <2>2, <2>7, <3>3, ScanByCases
      <4> QED BY <2>4, <2>7, <4>1, LoopTrue DEF scan
    <3> QED BY <1>0, <3>1, <3>2, <3>3, ScanByCases
  <2> QED BY <2>5, <2>6, <2>7
<1>3. Scans \subseteq G
  <2> HIDE DEF rank, G
  <2> QED BY <1>1, <1>2, ByRank
<1> QED BY <1>3

-----------------------------------------------------------------------------
(* The targets below a class, and what the flags say where there are two. *)

\* The route tells the way.
LEMMA RouteIsWay ==
  ASSUME Hierarchy
  PROVE  \A c \in Classes : \A v, w \in Routes[c] : v.route = w.route => v = w
<1> DEFINE rank == [c \in Classes |-> c]
           G == {c \in Classes : \A v, w \in Routes[c] : v.route = w.route => v = w}
<1>1. rank \in [Classes -> Nat]
  BY ClassFacts
<1>l. /\ \A i \in Nat : \A r \in Seq(Nat) : <<i>> \o r # <<>> /\ (<<i>> \o r)[1] = i
      /\ \A t, r, s \in Seq(Nat) : t \o r = t \o s => r = s
  <2>1. ASSUME NEW i \in Nat, NEW r \in Seq(Nat)
        PROVE  <<i>> \o r # <<>> /\ (<<i>> \o r)[1] = i
    OBVIOUS
  <2>2. \A t, r, s \in Seq(Nat) : t \o r = t \o s => r = s
    BY ConcatSimplifications, Zenon
  <2> QED BY <2>1, <2>2
<1>2. ASSUME NEW c \in Classes, \A y \in Classes : rank[y] < rank[c] => y \in G
      PROVE  c \in G
  <2>1. \A y \in Classes : y < c => y \in G
    BY <1>2
  <2>s. ASSUME NEW w \in Routes[c], w # Here(c)
        PROVE  \E i \in DOMAIN bases[c] : \E x \in Routes[bases[c][i].type] :
                 /\ w = Through(c, i, x) /\ w.route = <<i>> \o x.route
                 /\ x.route \in Seq(Nat) /\ i \in Nat
    <3>1. PICK i \in DOMAIN bases[c] : \E x \in Routes[bases[c][i].type] : w = Through(c, i, x)
      BY <2>s, RoutesSplit
    <3>2. PICK x \in Routes[bases[c][i].type] : w = Through(c, i, x)
      BY <3>1
    <3>3. x \in Way /\ i \in Nat
      BY RoutesSplit, BaseFacts
    <3> QED BY <3>2, <3>3 DEF Through, Way
  <2>h. Here(c).route = <<>>
    BY DEF Here
  <2>2. ASSUME NEW v \in Routes[c], NEW w \in Routes[c], v.route = w.route, w # Here(c)
        PROVE  v = w
    <3>1. PICK j \in DOMAIN bases[c] : \E y \in Routes[bases[c][j].type] :
                 /\ w = Through(c, j, y) /\ w.route = <<j>> \o y.route
                 /\ y.route \in Seq(Nat) /\ j \in Nat
      BY <2>2, <2>s
    <3>2. PICK y \in Routes[bases[c][j].type] :
                 /\ w = Through(c, j, y) /\ w.route = <<j>> \o y.route
                 /\ y.route \in Seq(Nat) /\ j \in Nat
      BY <3>1
    <3>3. v # Here(c)
      BY <1>l, <2>2, <2>h, <3>2
    <3>4. PICK i \in DOMAIN bases[c] : \E x \in Routes[bases[c][i].type] :
                 /\ v = Through(c, i, x) /\ v.route = <<i>> \o x.route
                 /\ x.route \in Seq(Nat) /\ i \in Nat
      BY <2>s, <3>3
    <3>5. PICK x \in Routes[bases[c][i].type] :
                 /\ v = Through(c, i, x) /\ v.route = <<i>> \o x.route
                 /\ x.route \in Seq(Nat) /\ i \in Nat
      BY <3>4
    <3>6. <<i>> \o x.route = <<j>> \o y.route
      BY <2>2, <3>2, <3>5
    <3>7. i = j
      <4>1. (<<i>> \o x.route)[1] = i /\ (<<j>> \o y.route)[1] = j
        BY <1>l, <3>2, <3>5
      <4> QED BY <3>6, <4>1
    <3>8. x.route = y.route
      <4>1. <<i>> \in Seq(Nat) /\ x.route \in Seq(Nat) /\ y.route \in Seq(Nat)
        BY <3>2, <3>5
      <4>2. <<i>> \o x.route = <<i>> \o y.route
        BY <3>6, <3>7
      <4> QED BY <1>l, <4>1, <4>2, Zenon
    <3>9. bases[c][i].type \in Classes /\ bases[c][i].type < c
      BY BaseFacts
    <3>10. x = y
      BY <2>1, <3>7, <3>8, <3>9
    <3> QED BY <3>2, <3>5, <3>7, <3>10
  <2>3. \A v, w \in Routes[c] : v.route = w.route => v = w
    BY <2>2
  <2> QED BY <2>3
<1>3. Classes \subseteq G
  <2> HIDE DEF rank, G
  <2> QED BY <1>1, <1>2, ByRank
<1> QED BY <1>3

Two(P) == \E x, y \in P : x # y

\* The targets in a.
Ends(q, a) == {p \in Nat : \E w \in Routes[a.class] : Reaches(w, a.obj, q.dst, p)}

\* The source lies in a public virtual base of all targets.
Shared(q) == \E u \in Routes[q.dst] : /\ u.type = q.src /\ u.public /\ u.virtual
                                      /\ u.at = q.at

LEMMA EndsWhole ==
  ASSUME Hierarchy, NEW q
  PROVE  \A p : p \in Ends(q, Start) <=> Subobject(q.dst, p)
<1>1. Start.class = whole /\ Start.obj = Origin
  BY ReachedWhole
<1>2. \A p : Subobject(q.dst, p) => p \in Nat
  BY SubobjectFacts
<1> QED BY <1>1, <1>2 DEF Ends, Reaches, Subobject

LEMMA EndsHere ==
  ASSUME Hierarchy, NEW q, NEW a \in Scans, a.class = q.dst
  PROVE  Ends(q, a) = {a.obj}
<1>1. a.class \in Classes /\ a.obj \in Nat
  BY DEF Scans
<1>2. Here(a.class) \in Routes[a.class] /\ \A w \in Routes[a.class] :
        w.type = a.class => w = Here(a.class)
  BY <1>1, RoutesSplit, WayFacts
<1>3. Here(a.class).type = a.class /\ Place(Here(a.class), a.obj) = a.obj
  BY <1>1, HereFacts DEF Place
<1> QED BY <1>1, <1>2, <1>3 DEF Ends, Reaches

LEMMA EndsBelow ==
  ASSUME Hierarchy, NEW q, NEW a \in Scans, a.class # q.dst
  PROVE  /\ \A i \in DOMAIN bases[a.class] : Ends(q, ScanBase(a, i)) \subseteq Ends(q, a)
         /\ \A p \in Ends(q, a) : \E i \in DOMAIN bases[a.class] : p \in Ends(q, ScanBase(a, i))
<1>1. a.class \in Classes /\ a.obj \in Nat
  BY DEF Scans
<1>2. ASSUME NEW i \in DOMAIN bases[a.class]
      PROVE  /\ ScanBase(a, i).class = bases[a.class][i].type
             /\ ScanBase(a, i).obj = ConvertToBase(a.class, i, a.obj)
             /\ \A v \in Routes[bases[a.class][i].type] :
                  /\ Through(a.class, i, v) \in Routes[a.class]
                  /\ Through(a.class, i, v).type = v.type
                  /\ Place(Through(a.class, i, v), a.obj) = Place(v, ScanBase(a, i).obj)
  BY <1>1, ScanBaseFields, Stepped
<1>3. ASSUME NEW i \in DOMAIN bases[a.class], NEW p \in Ends(q, ScanBase(a, i))
      PROVE  p \in Ends(q, a)
  <2>1. PICK v \in Routes[bases[a.class][i].type] :
          Reaches(v, ScanBase(a, i).obj, q.dst, p)
    BY <1>2, <1>3 DEF Ends
  <2>2. Reaches(Through(a.class, i, v), a.obj, q.dst, p)
    BY <1>2, <2>1 DEF Reaches
  <2>3. p \in Nat /\ Through(a.class, i, v) \in Routes[a.class]
    BY <1>2, <1>3 DEF Ends
  <2> QED BY <2>2, <2>3 DEF Ends
<1>4. ASSUME NEW p \in Ends(q, a)
      PROVE  \E i \in DOMAIN bases[a.class] : p \in Ends(q, ScanBase(a, i))
  <2>1. PICK w \in Routes[a.class] : Reaches(w, a.obj, q.dst, p)
    BY <1>4 DEF Ends
  <2>2. w # Here(a.class)
    BY <1>1, <2>1, HereFacts DEF Reaches
  <2>3. PICK i \in DOMAIN bases[a.class] : \E v \in Routes[bases[a.class][i].type] :
          w = Through(a.class, i, v)
    BY <1>1, <2>2, RoutesSplit
  <2>4. PICK v \in Routes[bases[a.class][i].type] : w = Through(a.class, i, v)
    BY <2>3
  <2>5. Reaches(v, ScanBase(a, i).obj, q.dst, p)
    BY <1>2, <2>1, <2>4 DEF Reaches
  <2>6. p \in Nat
    BY <1>4 DEF Ends
  <2> QED BY <1>2, <2>5, <2>6 DEF Ends
<1> QED BY <1>3, <1>4

\* Where there are two targets the class knows that a base is repeated, and that
\* ways meet if they share the source.
LEMMA TwoAreKnown ==
  ASSUME Hierarchy, NEW q, NEW a \in Scans, q.dst \in Classes, Two(Ends(q, a))
  PROVE  "repeat" \in flags[a.class] /\ (Shared(q) => "diamond" \in flags[a.class])
<1>0. a.class \in Classes /\ a.obj \in Nat
  BY DEF Scans
<1>1. PICK x \in Ends(q, a), y \in Ends(q, a) : x # y
  BY DEF Two
<1>2. PICK v \in Routes[a.class] : Reaches(v, a.obj, q.dst, x)
  BY DEF Ends
<1>3. PICK w \in Routes[a.class] : Reaches(w, a.obj, q.dst, y)
  BY DEF Ends
<1>4. v.type = q.dst /\ w.type = q.dst /\ Place(v, a.obj) = x /\ Place(w, a.obj) = y
  BY <1>2, <1>3 DEF Reaches
<1>5. Repeats(a.class)
  <2>1. ~SameObject(v, w)
    BY <1>1, <1>4 DEF SameObject, Place
  <2> QED BY <1>4, <2>1 DEF Repeats
<1>6. ASSUME Shared(q) PROVE Diamond(a.class)
  <2>1. PICK u \in Routes[q.dst] : u.type = q.src /\ u.public /\ u.virtual /\ u.at = q.at
    BY <1>6 DEF Shared
  <2>2. PICK v2 \in Routes[a.class] : Joins(v2, v, u)
    BY <1>0, <1>4, JoinedWays
  <2>3. PICK w2 \in Routes[a.class] : Joins(w2, w, u)
    BY <1>0, <1>4, JoinedWays
  <2>4. v2.virtual /\ w2.virtual /\ v2.type = u.type /\ w2.type = u.type
    BY <2>1, <2>2, <2>3 DEF Joins
  <2>5. v2.at = u.at /\ w2.at = u.at
    <3>1. Place(v2, 0) = Place(u, Place(v, 0)) /\ Place(w2, 0) = Place(u, Place(w, 0))
      BY <2>2, <2>3 DEF Joins
    <3> QED BY <2>1, <2>4, <3>1 DEF Place
  <2>6. v2.virtual = w2.virtual
    <3>1. v2.virtual \in BOOLEAN /\ w2.virtual \in BOOLEAN
      BY <1>0, RoutesSplit DEF Way
    <3> QED BY <2>4, <3>1
  <2>7. v2.route # w2.route
    <3>1. SUFFICES ASSUME v2.route = w2.route PROVE FALSE
      OBVIOUS
    <3>2. v.route \in Seq(Nat) /\ w.route \in Seq(Nat) /\ u.route \in Seq(Nat)
      BY <1>0, RoutesSplit DEF Way
    <3>3. v.route \o u.route = w.route \o u.route
      BY <2>2, <2>3, <3>1 DEF Joins
    <3>4. v.route = w.route
      BY <3>2, <3>3, RoutesJoin, Zenon
    <3>5. v = w
      BY <1>0, <3>4, RouteIsWay
    <3> QED BY <1>1, <1>4, <3>5
  <2> QED BY <2>4, <2>5, <2>6, <2>7 DEF Diamond, SameObject
<1>7. flags[a.class] = Flags(a.class)
  BY <1>0 DEF Hierarchy
<1> QED BY <1>5, <1>6, <1>7 DEF Flags

\* What the scan of a knows from the classes above.
Knows(q, a) ==
  /\ "unknown" \in a.details => Two(Ends(q, a))
  /\ "unknown" \notin a.details =>
       "repeat" \in a.details /\ (Shared(q) => "diamond" \in a.details)

LEMMA KnowsBelow ==
  ASSUME Hierarchy, NEW q, NEW a \in Scans, q.dst \in Classes, a.class # q.dst, Knows(q, a)
  PROVE  /\ IsVmi(a.class) =>
              /\ "repeat" \in Details(a.class, a.details)
              /\ Shared(q) => "diamond" \in Details(a.class, a.details)
         /\ \A i \in DOMAIN bases[a.class] : Knows(q, ScanBase(a, i))
<1>0. a.class \in Classes
  BY DEF Scans
<1>1. /\ "unknown" \in a.details => "repeat" \in flags[a.class]
      /\ "unknown" \in a.details /\ Shared(q) => "diamond" \in flags[a.class]
  BY TwoAreKnown DEF Knows
<1>2. "unknown" \notin flags[a.class]
  <2>1. flags[a.class] = Flags(a.class)
    BY <1>0 DEF Hierarchy
  <2> QED BY <2>1 DEF Flags
<1>3. IsVmi(a.class) =>
        /\ "repeat" \in Details(a.class, a.details)
        /\ Shared(q) => "diamond" \in Details(a.class, a.details)
        /\ "unknown" \notin Details(a.class, a.details)
  BY <1>1, <1>2 DEF Details, Knows
<1>4. ASSUME NEW i \in DOMAIN bases[a.class]
      PROVE  Knows(q, ScanBase(a, i))
  <2>1. ScanBase(a, i).details = Details(a.class, a.details)
    BY ScanBaseFields
  <2>2. CASE IsVmi(a.class)
    BY <1>3, <2>1, <2>2 DEF Knows
  <2>3. CASE ~IsVmi(a.class)
    <3>1. ScanBase(a, i).details = a.details
      BY <2>1, <2>3 DEF Details
    <3>2. IsSi(a.class) /\ \A j \in DOMAIN bases[a.class] : j = i
      BY <1>0, <2>3, BaseFacts DEF IsVmi, IsLeaf, IsSi
    <3>3. Ends(q, a) \subseteq Ends(q, ScanBase(a, i))
      BY <3>2, EndsBelow
    <3> QED BY <3>1, <3>3 DEF Knows, Two
  <2> QED BY <2>2, <2>3
<1> QED BY <1>3, <1>4

-----------------------------------------------------------------------------
(* Where there are several targets and none has the source in itself, the    *)
(* walk finds that there are.                                                *)

Special(q) ==
  /\ IsCast(q) /\ Loose(q)
  /\ \E x, y : Subobject(q.dst, x) /\ Subobject(q.dst, y) /\ x # y
  /\ \A v \in Routes[whole] : Reaches(v, Origin, q.src, q.at) => v.public \/ v.virtual

\* A target holds the source by a virtual base only, which all targets share.
LEMMA HeldFacts ==
  ASSUME Hierarchy, NEW q, Special(q), NEW p, p # NULL => Subobject(q.dst, p),
         NEW k, InTrue(q, p, k), Contained(k)
  PROVE  p # NULL /\ Virtual(k) /\ Shared(q)
<1>1. p # NULL /\ Subobject(q.dst, p) /\ Holds(q, p, k)
  BY DEF InTrue
<1>2. PICK u \in Routes[q.dst] : /\ Reaches(u, p, q.src, q.at) /\ u.public
                                 /\ u.virtual <=> Virtual(k)
  BY <1>1 DEF Holds
<1>3. ~Nested(q.dst, p, q.src, q.at)
  BY <1>1 DEF Special, Loose
<1>4. u.virtual
  BY <1>2, <1>3 DEF Nested, Reaches, Place
<1> QED BY <1>1, <1>2, <1>4 DEF Shared, Reaches, Place

LEMMA SharedFacts ==
  ASSUME Hierarchy, NEW q, Special(q), Shared(q)
  PROVE  /\ q.hint = -1 /\ ~IsLeaf(q.dst)
         /\ \A p : Subobject(q.dst, p) => Contained(FindPublicSrc(q, p))
         /\ \A k : SourceTrue(q, k) /\ Contained(k) => Virtual(k)
<1>1. PICK u \in Routes[q.dst] : u.type = q.src /\ u.public /\ u.virtual /\ u.at = q.at
  BY DEF Shared
<1>2. q.hint = -1 /\ q \in Casts /\ q.dst \in Classes
  BY <1>1, CastFacts DEF Special
<1>3. ~IsLeaf(q.dst)
  <2>1. u # Here(q.dst)
    BY <1>1, <1>2, HereFacts
  <2>2. PICK i \in DOMAIN bases[q.dst] : TRUE
    BY <1>2, <2>1, RoutesSplit
  <2> QED BY <1>2, <2>2, BaseFacts DEF IsLeaf
<1>4. ASSUME NEW p, Subobject(q.dst, p)
      PROVE  Contained(FindPublicSrc(q, p))
  <2> DEFINE a == [class |-> q.dst, obj |-> p]
  <2>1. p \in Nat /\ a.class = q.dst /\ a.obj = p
    BY <1>4, SubobjectFacts
  <2>2. FindPublicSrc(q, p) = FindOf(q)[a] /\ a \in Objects
    BY <1>2, <2>1, FindType DEF FindPublicSrc
  <2>3. Reaches(u, p, q.src, q.at)
    BY <1>1 DEF Reaches, Place
  <2> HIDE DEF a
  <2>4. Contained(FindOf(q)[a])
    BY <1>1, <1>2, <2>1, <2>2, <2>3, FindComplete DEF Findable
  <2> QED BY <2>2, <2>4
<1>5. ASSUME NEW k, SourceTrue(q, k), Contained(k)
      PROVE  Virtual(k)
  <2>1. PICK v \in Routes[whole] : Reaches(v, Origin, q.src, q.at) /\ KindOf(v) \subseteq k
    BY <1>5 DEF SourceTrue, Contained
  <2>2. PICK x : Subobject(q.dst, x)
    BY DEF Special
  <2>3. PICK w \in Routes[whole] : w.type = q.dst /\ Place(w, Origin) = x
    BY <2>2 DEF Subobject
  <2>4. whole \in Classes /\ Origin \in Nat
    BY ClassFacts DEF Hierarchy
  <2>5. PICK z \in Routes[whole] : Joins(z, w, u)
    BY <1>1, <2>3, <2>4, JoinedWays
  <2>6. z.virtual /\ z.type = q.src /\ Place(z, Origin) = q.at
    <3>1. z.virtual /\ z.type = u.type /\ Place(z, Origin) = Place(u, Place(w, Origin))
      BY <1>1, <2>4, <2>5 DEF Joins
    <3> QED BY <1>1, <3>1 DEF Place
  <2>7. v.virtual
    <3> SUFFICES ASSUME ~v.virtual PROVE FALSE
      OBVIOUS
    <3>1. z = v
      BY <2>1, <2>6, StraightWay DEF Reaches
    <3> QED BY <2>6, <3>1
  <2> QED BY <2>1, <2>7 DEF KindOf, Virtual
<1> QED BY <1>2, <1>3, <1>4, <1>5

\* What the result r of the targets P says.
Counted(q, P, r) ==
  /\ \/ P = {} /\ r.dst = NULL /\ ~r.ambig
     \/ P = {r.dst} /\ r.dst # NULL /\ ~r.ambig
     \/ Two(P) /\ r.dst = NULL /\ r.ambig
  /\ Shared(q) => r.dst2src = IF Two(P) THEN AMBIG ELSE UNKNOWN
  /\ ~Shared(q) => r.dst2src \in {UNKNOWN, NOT}

\* A class knows what there is to know of the targets P.
Aware(q, c, P) ==
  Two(P) => "repeat" \in flags[c] /\ (Shared(q) => "diamond" \in flags[c])

\* Which of two targets holds the source: both or none.
LEMMA BothOrNone ==
  ASSUME Hierarchy, Laid, NEW q, Special(q), NEW c, NEW r \in DynResult, NEW r2 \in DynResult,
         ResultTrue(q, r), ResultTrue(q, r2),
         Shared(q) => /\ r.dst # NULL /\ r2.dst # NULL
                      /\ r.dst2src = UNKNOWN /\ r2.dst2src = UNKNOWN
                      /\ "diamond" \in r.details /\ "diamond" \in flags[c],
         NEW s, s = Disambiguate(q, c, r, r2), ~s.lost
  PROVE  /\ s.dst = NULL /\ s.ambig
         /\ Shared(q) => s.dst2src = AMBIG /\ s.done
         /\ ~Shared(q) => /\ s.dst2src = NOT
                          /\ s.done <=> r.done
<1>0. IsCast(q) /\ q \in Casts
  BY DEF Special, IsCast
<1>1. PICK old : old = KindIn(q, c, r, r, r2.dst2src)
  OBVIOUS
<1>2. PICK new : new = KindIn(q, c, r, r2, old)
  OBVIOUS
<1>3. /\ ~Astray(q, c, r, r, r2.dst2src) /\ ~Astray(q, c, r, r2, old)
      /\ Chosen(r, r2, old, new, s)
  BY <1>0, <1>1, <1>2, DisambiguateFields
<1>4. /\ TargetTrue(q, r.dst, r.whole2dst) /\ InTrue(q, r.dst, r.dst2src)
      /\ TargetTrue(q, r2.dst, r2.whole2dst) /\ InTrue(q, r2.dst, r2.dst2src)
      /\ SourceTrue(q, r.whole2src)
  BY DEF ResultTrue
<1>5. InTrue(q, r.dst, old) /\ InTrue(q, r2.dst, new)
  BY <1>0, <1>1, <1>2, <1>3, <1>4, KindInTrue
<1>6. /\ r.dst # NULL => Subobject(q.dst, r.dst)
      /\ r2.dst # NULL => Subobject(q.dst, r2.dst)
  BY <1>4 DEF TargetTrue
<1>7. CASE ~Shared(q)
  <2>1. ~Contained(old) /\ ~Contained(new)
    BY <1>5, <1>6, <1>7, HeldFacts
  <2> QED BY <1>3, <1>7, <2>1 DEF Chosen
<1>8. CASE Shared(q)
  <2>1. ~OnlyWay(r.whole2src, r.details)
    BY <1>4, <1>8, SharedFacts DEF OnlyWay
  <2>2. ~OnlyWay(r2.dst2src, flags[c])
    BY <1>8 DEF OnlyWay, Contained, UNKNOWN
  <2>3. old = FindPublicSrc(q, r.dst)
    BY <1>1, <1>8, <2>1, <2>2 DEF KindIn, Asks
  <2>4. Contained(old)
    BY <1>6, <1>8, <2>3, SharedFacts
  <2>5. Virtual(old)
    BY <1>5, <1>6, <2>4, HeldFacts
  <2>6. ~OnlyWay(old, flags[c])
    BY <1>8, <2>5 DEF OnlyWay
  <2>7. new = FindPublicSrc(q, r2.dst)
    BY <1>2, <1>8, <2>1, <2>6 DEF KindIn, Asks
  <2>8. Contained(new)
    BY <1>6, <1>8, <2>7, SharedFacts
  <2> QED BY <1>3, <1>8, <2>4, <2>8 DEF Chosen
<1> QED BY <1>7, <1>8

\* The result r2 of the targets E2 is merged into r, that of E; all of them are
\* among the targets All of the class.
LEMMA MergeCounted ==
  ASSUME Hierarchy, Laid, NEW q, Special(q), NEW c, NEW r \in DynResult, NEW r2 \in DynResult,
         ResultTrue(q, r), ResultTrue(q, r2),
         NEW E, NEW E2, NEW All, E \cup E2 \subseteq All, Aware(q, c, All),
         Counted(q, E, r), ~r.done, r.dst2src # AMBIG, Counted(q, E2, r2),
         Shared(q) => "diamond" \in r.details,
         NEW s, s = MergeTarget(q, c, r, r2), ~s.lost
  PROVE  /\ s.done => Counted(q, All, s)
         /\ ~s.done => Counted(q, E \cup E2, s) /\ s.dst2src # AMBIG
<1>0. q \in Casts
  BY DEF Special, IsCast
<1>1. Merged(q, c, r, r2, s)
  BY <1>0, MergeTargetFields
<1>k. AMBIG # UNKNOWN /\ AMBIG # NOT /\ PUBLIC # AMBIG /\ PUBLIC # NOT /\ PUBLIC # UNKNOWN
  BY DEF AMBIG, UNKNOWN, NOT, PUBLIC
<1>2. /\ Two(E) => Two(E \cup E2) /\ Two(All)
      /\ Two(E2) => Two(E \cup E2) /\ Two(All)
      /\ \A x \in E : \A y \in E2 : x # y => Two(E \cup E2) /\ Two(All)
      /\ \A x : ~Two({x})
      /\ ~Two({})
  BY DEF Two
<1>3. CASE Better(r2)
  <2>1. r2.dst2src = AMBIG /\ Shared(q) /\ Two(E2)
    BY <1>3, <1>k DEF Better, Counted
  <2>2. r2.dst = NULL /\ r2.ambig
    BY <1>2, <2>1 DEF Counted
  <2> QED BY <1>1, <1>2, <1>3, <2>1, <2>2 DEF Merged, SameTarget, Counted
<1>4. CASE ~Better(r2) /\ Empty(r)
  <2>1. E = {} /\ E \cup E2 = E2
    BY <1>4 DEF Empty, Counted
  <2>2. /\ SameTarget(r2, s) /\ s.dst2src = r.dst2src
        /\ s.done => r2.dst # NULL /\ "repeat" \notin flags[c]
    BY <1>1, <1>4 DEF Merged
  <2>3. Shared(q) => ~Two(E2)
    BY <1>4 DEF Better, Counted
  <2>4. Counted(q, E2, s)
    BY <1>2, <2>1, <2>2, <2>3 DEF SameTarget, Counted
  <2>5. ASSUME s.done PROVE Counted(q, All, s)
    <3>1. E2 = {r2.dst} /\ ~Two(All)
      BY <2>2, <2>5 DEF Counted, Aware
    <3>2. All = E2
      BY <3>1 DEF Two
    <3> QED BY <2>4, <3>2
  <2> QED BY <2>1, <2>2, <2>4, <2>5
<1>5. CASE ~Better(r2) /\ ~Empty(r) /\ Same(r, r2)
  <2>1. E = {r.dst} /\ E2 = {r.dst} /\ E \cup E2 = E
    BY <1>5 DEF Same, Counted
  <2>2. /\ s.dst = r.dst /\ s.dst2src = r.dst2src
        /\ s.ambig <=> r.ambig
        /\ s.done <=> r.done
    BY <1>1, <1>5 DEF Merged
  <2> QED BY <2>1, <2>2 DEF Counted
<1>6. CASE ~Better(r2) /\ ~Empty(r) /\ ~Same(r, r2) /\ Clash(r, r2)
  <2>1. s = Disambiguate(q, c, r, r2)
    BY <1>1, <1>6 DEF Merged
  <2>2. Two(E \cup E2) /\ Two(All)
    BY <1>2, <1>6 DEF Clash, Same, Counted
  <2>3. Shared(q) => /\ r.dst # NULL /\ r2.dst # NULL
                     /\ r.dst2src = UNKNOWN /\ r2.dst2src = UNKNOWN
                     /\ "diamond" \in r.details /\ "diamond" \in flags[c]
    <3> SUFFICES ASSUME Shared(q) PROVE /\ r.dst # NULL /\ r2.dst # NULL
                                        /\ r.dst2src = UNKNOWN /\ r2.dst2src = UNKNOWN
                                        /\ "diamond" \in r.details /\ "diamond" \in flags[c]
      OBVIOUS
    <3>1. ~Two(E) /\ ~Two(E2)
      BY <1>6 DEF Better, Counted
    <3>2. ~r.ambig /\ ~r2.ambig
      BY <1>2, <3>1 DEF Counted
    <3> QED BY <1>6, <2>2, <3>1, <3>2 DEF Clash, Counted, Aware
  <2>4. /\ s.dst = NULL /\ s.ambig
        /\ Shared(q) => s.dst2src = AMBIG /\ s.done
        /\ ~Shared(q) => /\ s.dst2src = NOT
                         /\ s.done <=> r.done
    BY <2>1, <2>3, BothOrNone
  <2> QED BY <1>k, <2>2, <2>4 DEF Counted
<1>7. CASE ~Better(r2) /\ ~Empty(r) /\ ~Same(r, r2) /\ ~Clash(r, r2)
  <2>1. s = r
    BY <1>1, <1>7 DEF Merged
  <2>2. CASE r.dst # NULL
    <3>1. E2 = {}
      BY <1>2, <1>7, <2>2 DEF Clash, Counted
    <3> QED BY <2>1, <3>1 DEF Counted
  <2>3. CASE r.dst = NULL
    <3>1. r.ambig /\ Two(E)
      BY <1>7, <2>3 DEF Empty, Counted
    <3> QED BY <1>2, <2>1, <2>3, <3>1 DEF Counted
  <2> QED BY <2>2, <2>3
<1> QED BY <1>3, <1>4, <1>5, <1>6, <1>7

\* What the loop has found in the targets P, of all the targets of the class.
Going(q, a, P, r) ==
  /\ r.details = Details(a.class, a.details)
  /\ r.done => Counted(q, Ends(q, a), r)
  /\ ~r.done => Counted(q, P, r) /\ r.dst2src # AMBIG

LEMMA VisitCounted ==
  ASSUME Hierarchy, Laid, NEW q, Special(q), NEW a \in Scans, IsVmi(a.class), a.class # q.dst,
         Knows(q, a), NEW i, NEW E, NEW E2, E \cup E2 \subseteq Ends(q, a),
         NEW r \in DynResult, NEW r2 \in DynResult,
         ~r.lost => ResultTrue(q, r) /\ Going(q, a, E, r),
         ~r2.lost => ResultTrue(q, r2) /\ Counted(q, E2, r2),
         NEW s, s = VisitBase(q, a, r, i, r2), ~s.lost
  PROVE  Going(q, a, E \cup E2, s)
<1>0. IsCast(q) /\ q \in Casts /\ q.dst \in Classes
  BY CastFacts DEF Special
<1>1. /\ "repeat" \in Details(a.class, a.details)
      /\ Shared(q) => "diamond" \in Details(a.class, a.details)
  BY <1>0, KnowsBelow
<1>2. Aware(q, a.class, Ends(q, a))
  BY <1>0, TwoAreKnown DEF Aware
<1>3. CASE r.done
  BY <1>3 DEF VisitBase, Going
<1>4. CASE ~r.done
  <2> DEFINE j == Joined(r, r2)
             m == MergeTarget(q, a.class, j, r2)
  <2>1. m = MergeTarget(q, a.class, j, r2)
    OBVIOUS
  <2>2. /\ j \in DynResult
        /\ j.lost <=> r.lost \/ r2.lost
        /\ j.dst = r.dst /\ j.dst2src = r.dst2src /\ j.details = r.details
        /\ j.ambig <=> r.ambig
        /\ j.done <=> r.done
    <3>1. j = Joined(r, r2)
      OBVIOUS
    <3> HIDE DEF j
    <3> QED BY <3>1, JoinedFields
  <2>3. ~r.lost /\ ~r2.lost => ResultTrue(q, j)
    BY JoinedTrue
  <2>4. VisitBase(q, a, r, i, r2) =
          IF NothingHidden(q, a.class, r, i) THEN r ELSE StopAtPrivate(m)
    <3>1. Merge(q, a.class, r, r2) = m
      BY <1>0, VisitBaseType
    <3> HIDE DEF m
    <3> QED BY <1>4, <3>1, Zenon DEF VisitBase
  <2> HIDE DEF j, m
  <2>5. m \in DynResult /\ (~m.lost => ~j.lost) /\ m.details = j.details
        /\ m.whole2src = j.whole2src
    BY <1>0, <2>1, <2>2, MergeTargetFields
  <2>6. LET t == StopAtPrivate(m)
        IN  /\ SameSource(m, t) /\ SameTarget(m, t) /\ t.dst2src = m.dst2src
            /\ t.done <=> m.done \/ m.whole2src = PRIVATE
    BY <2>5, StopFields, Zenon
  <2>7. ~r.lost /\ Going(q, a, E, r)
    BY <2>2, <2>4, <2>5, <2>6 DEF SameSource
  <2>8. ~NothingHidden(q, a.class, r, i)
    BY <1>1, <2>7 DEF NothingHidden, Going
  <2>9. s = StopAtPrivate(m)
    BY <2>4, <2>8
  <2>10. /\ SameSource(m, s) /\ SameTarget(m, s) /\ s.dst2src = m.dst2src
         /\ s.done <=> m.done \/ m.whole2src = PRIVATE
    BY <2>6, <2>9, Zenon
  <2>11. ~m.lost /\ ~j.lost /\ ~r2.lost
    BY <2>2, <2>5, <2>10 DEF SameSource
  <2>12. ResultTrue(q, j) /\ ResultTrue(q, r2) /\ Counted(q, E2, r2)
    BY <2>3, <2>7, <2>11
  <2>13. Counted(q, E, j) /\ j.dst2src # AMBIG /\ ~j.done
         /\ (Shared(q) => "diamond" \in j.details)
    BY <1>1, <1>4, <2>2, <2>7 DEF Going, Counted
  <2>14. /\ m.done => Counted(q, Ends(q, a), m)
         /\ ~m.done => Counted(q, E \cup E2, m) /\ m.dst2src # AMBIG
    BY <1>2, <2>1, <2>2, <2>11, <2>12, <2>13, MergeCounted
  <2>15. m.whole2src # PRIVATE
    <3> SUFFICES ASSUME m.whole2src = PRIVATE PROVE FALSE
      OBVIOUS
    <3>1. SourceTrue(q, PRIVATE)
      BY <2>5, <2>12 DEF ResultTrue
    <3>2. PICK v \in Routes[whole] : Reaches(v, Origin, q.src, q.at) /\ KindOf(v) \subseteq PRIVATE
      BY <3>1 DEF SourceTrue, PRIVATE
    <3>3. ~v.public /\ ~v.virtual
      BY <3>2 DEF KindOf, PRIVATE
    <3> QED BY <3>2, <3>3 DEF Special
  <2>16. /\ s.done <=> m.done
         /\ s.details = m.details /\ s.dst = m.dst /\ s.dst2src = m.dst2src
         /\ s.ambig <=> m.ambig
    BY <2>10, <2>15 DEF SameSource, SameTarget
  <2>17. s.details = Details(a.class, a.details)
    BY <2>2, <2>5, <2>7, <2>16 DEF Going
  <2>18. \A P : Counted(q, P, m) => Counted(q, P, s)
    BY <2>16 DEF Counted
  <2> QED BY <2>14, <2>16, <2>17, <2>18 DEF Going
<1> QED BY <1>3, <1>4

\* The targets that the first k steps of the loop have seen.
Seen(q, a, k) ==
  {p \in Ends(q, a) : \E j \in 1 .. k : /\ IsDue(q, a, j)
                                        /\ p \in Ends(q, ScanBase(a, BaseAt(a.class, j)))}

\* Every base has its turn in one of the two passes.
LEMMA EachIsDue ==
  ASSUME Hierarchy, NEW q, NEW a \in Scans, NEW i \in DOMAIN bases[a.class]
  PROVE  \E j \in 1 .. 2 * Len(bases[a.class]) : IsDue(q, a, j) /\ BaseAt(a.class, j) = i
<1> DEFINE c == a.class
           n == Len(bases[c])
<1>0. c \in Classes /\ n \in Nat /\ DOMAIN bases[c] = 1 .. n /\ i \in 1 .. n
  BY BaseAtFacts DEF Scans
<1> DEFINE likely == q.hint < 0 \/ ConvertToBase(c, i, a.obj) <= q.at - q.hint
           first == n + 1 - i
           second == 2 * n + 1 - i
<1>1. /\ first \in 1 .. 2 * n /\ first <= n
      /\ second \in 1 .. 2 * n /\ ~(second <= n)
  BY <1>0
<1>2. BaseAt(c, first) = i /\ BaseAt(c, second) = i
  <2> HIDE DEF c, n
  <2>1. BaseAt(c, first) = n + 1 - first /\ BaseAt(c, second) = 2 * n + 1 - second
    BY <1>1 DEF BaseAt, n
  <2> QED BY <1>0, <2>1
<1>3. /\ IsDue(q, a, first) <=> (likely <=> first <= n)
      /\ IsDue(q, a, second) <=> (likely <=> second <= n)
  <2> HIDE DEF first, second
  <2> QED BY <1>2 DEF IsDue
<1>4. \E j \in 1 .. 2 * n : IsDue(q, a, j) /\ BaseAt(c, j) = i
  <2> HIDE DEF likely, first, second, c, n
  <2> QED BY <1>1, <1>2, <1>3
<1> QED BY <1>4

\* In the end these are all.
LEMMA AllSeen ==
  ASSUME Hierarchy, NEW q, NEW a \in Scans, a.class # q.dst
  PROVE  Seen(q, a, 2 * Len(bases[a.class])) = Ends(q, a)
<1> DEFINE c == a.class
           n == Len(bases[c])
<1>2. ASSUME NEW p \in Ends(q, a)
      PROVE  p \in Seen(q, a, 2 * n)
  <2>1. PICK i \in DOMAIN bases[c] : p \in Ends(q, ScanBase(a, i))
    BY EndsBelow
  <2>2. PICK j \in 1 .. 2 * n : IsDue(q, a, j) /\ BaseAt(c, j) = i
    BY <2>1, EachIsDue
  <2> QED BY <2>1, <2>2 DEF Seen
<1>3. Seen(q, a, 2 * n) \subseteq Ends(q, a)
  BY DEF Seen
<1> QED BY <1>2, <1>3

LEMMA SeenStep ==
  ASSUME Hierarchy, NEW q, NEW a \in Scans, a.class # q.dst,
         NEW k \in 1 .. 2 * Len(bases[a.class])
  PROVE  /\ IsDue(q, a, k) => Seen(q, a, k) = Seen(q, a, k - 1)
                                \cup Ends(q, ScanBase(a, BaseAt(a.class, k)))
         /\ ~IsDue(q, a, k) => Seen(q, a, k) = Seen(q, a, k - 1)
         /\ Seen(q, a, 0) = {} /\ Seen(q, a, k) \subseteq Ends(q, a)
<1>1. k \in Nat /\ \A j : j \in 1 .. k <=> j \in 1 .. k - 1 \/ j = k
  <2>1. a.class \in Classes
    BY DEF Scans
  <2>2. Len(bases[a.class]) \in Nat
    BY <2>1, BaseAtFacts
  <2> QED BY <2>2
<1>2. Ends(q, ScanBase(a, BaseAt(a.class, k))) \subseteq Ends(q, a)
  <2>1. a.class \in Classes
    BY DEF Scans
  <2>2. BaseAt(a.class, k) \in DOMAIN bases[a.class]
    BY <2>1, BaseAtFacts
  <2> QED BY <2>2, EndsBelow
<1>3. \A j : ~(j \in 1 .. 0)
  OBVIOUS
<1>4. Seen(q, a, 0) = {} /\ Seen(q, a, k) \subseteq Ends(q, a)
  BY <1>3 DEF Seen
<1> HIDE DEF IsDue, ScanBase, BaseAt, Ends
<1>5. \A p : p \in Seen(q, a, k) <=>
               \/ p \in Seen(q, a, k - 1)
               \/ IsDue(q, a, k) /\ p \in Ends(q, ScanBase(a, BaseAt(a.class, k)))
  BY <1>1, <1>2 DEF Seen
<1> QED BY <1>4, <1>5

LEMMA LoopCounted ==
  ASSUME Hierarchy, Laid, NEW q, Special(q), NEW a \in Scans, IsVmi(a.class), a.class # q.dst,
         Knows(q, a), NEW answers,
         \A i \in DOMAIN bases[a.class] :
           /\ answers[i] \in DynResult
           /\ ~answers[i].lost => /\ ResultTrue(q, answers[i])
                                  /\ Counted(q, Ends(q, ScanBase(a, i)), answers[i]),
         NEW s, s = AllScanned(q, a, answers), ~s.lost
  PROVE  Counted(q, Ends(q, a), s)
<1> DEFINE n == 2 * Len(bases[a.class])
           D == 0 .. n
           rank == [k \in D |-> k]
<1>0. /\ IsCast(q) /\ q \in Casts /\ a.class \in Classes
      /\ Details(a.class, a.details) \in SUBSET DETAILS
  BY FlagsFacts DEF Special, IsCast, Scans
<1>1. n \in Nat /\ \A k \in 1 .. n : BaseAt(a.class, k) \in DOMAIN bases[a.class]
  BY <1>0, BaseAtFacts
<1>2. PICK after : AreScans(after, q, a, answers) /\ s = after[n]
  BY <1>0, AllScannedFacts
<1> DEFINE G == {k \in D : ~after[k].lost => /\ ResultTrue(q, after[k])
                                             /\ Going(q, a, Seen(q, a, k), after[k])}
<1>3. ASSUME NEW k \in D, \A y \in D : rank[y] < rank[k] => y \in G
      PROVE  k \in G
  <2>1. CASE k = 0
    <3>1. after[0] = Fresh(Details(a.class, a.details))
      BY <1>2 DEF AreScans
    <3>2. ResultTrue(q, after[0])
      BY <1>0, <3>1, FreshFields DEF ResultTrue, SourceTrue, TargetTrue, InTrue, Contained
    <3>3. Seen(q, a, 0) = {}
      <4>1. \A j : ~(j \in 1 .. 0)
        OBVIOUS
      <4> QED BY <4>1 DEF Seen
    <3>4. Going(q, a, {}, after[0])
      <4>1. ~Two({}) /\ UNKNOWN = {} /\ AMBIG # {}
        BY DEF Two, UNKNOWN, AMBIG
      <4> QED BY <1>0, <3>1, <4>1, FreshFields DEF Going, Counted
    <3> QED BY <2>1, <3>2, <3>3, <3>4
  <2>2. CASE k # 0
    <3>1. k - 1 \in D /\ rank[k - 1] < rank[k] /\ k \in 1 .. n
      BY <1>1, <2>2
    <3>2. ~after[k - 1].lost => /\ ResultTrue(q, after[k - 1])
                                /\ Going(q, a, Seen(q, a, k - 1), after[k - 1])
      <4>1. k - 1 \in G
        <5> HIDE DEF D, rank, G
        <5> QED BY <1>3, <3>1
      <4> QED BY <4>1
    <3> DEFINE i == BaseAt(a.class, k)
               E2 == Ends(q, ScanBase(a, i))
    <3>3. i \in DOMAIN bases[a.class]
      BY <1>1, <3>1
    <3>4. after[k - 1] \in DynResult /\ after[k] = ScanStep(q, a, after[k - 1], k, answers)
      <4> HIDE DEF n
      <4> QED BY <1>1, <1>2, <3>1 DEF AreScans, n
    <3>5. CASE IsDue(q, a, k)
      <4>1. after[k] = VisitBase(q, a, after[k - 1], i, answers[i])
        BY <3>4, <3>5 DEF ScanStep
      <4>2. /\ Seen(q, a, k) = Seen(q, a, k - 1) \cup E2
            /\ Seen(q, a, k) \subseteq Ends(q, a)
        BY <3>1, <3>5, SeenStep
      <4>3. /\ answers[i] \in DynResult
            /\ ~answers[i].lost => ResultTrue(q, answers[i]) /\ Counted(q, E2, answers[i])
        BY <3>3
      <4> HIDE DEF i, E2, D, G, rank, n
      <4>4. ~after[k].lost => ResultTrue(q, after[k])
        BY <1>0, <3>2, <3>4, <4>1, <4>3, VisitTrue
      <4>5. ~after[k].lost => Going(q, a, Seen(q, a, k - 1) \cup E2, after[k])
        BY <3>2, <3>4, <4>1, <4>2, <4>3, VisitCounted
      <4> QED BY <4>2, <4>4, <4>5 DEF G
    <3>6. CASE ~IsDue(q, a, k)
      <4>1. after[k] = after[k - 1]
        BY <3>4, <3>6 DEF ScanStep
      <4>2. Seen(q, a, k) = Seen(q, a, k - 1)
        BY <3>1, <3>6, SeenStep
      <4> QED BY <3>2, <4>1, <4>2
    <3> QED BY <3>5, <3>6
  <2> QED BY <2>1, <2>2
<1>4. rank \in [D -> Nat]
  BY <1>1
<1>5. D \subseteq G
  <2> HIDE DEF D, rank, G
  <2> QED BY <1>3, <1>4, ByRank
<1>6. Going(q, a, Seen(q, a, n), s)
  BY <1>1, <1>2, <1>5
<1>7. Seen(q, a, n) = Ends(q, a)
  BY AllSeen
<1> QED BY <1>6, <1>7 DEF Going

LEMMA NodeCounted ==
  ASSUME Hierarchy, Laid, NEW q, Special(q)
  PROVE  \A a \in Scans :
           Reached(q, a) /\ Knows(q, a) /\ ~ScanOf(q)[a].lost
             => Counted(q, Ends(q, a), ScanOf(q)[a])
<1> DEFINE scan == ScanOf(q)
           rank == [a \in Scans |-> a.class]
           G == {a \in Scans : Reached(q, a) /\ Knows(q, a) /\ ~scan[a].lost
                                 => Counted(q, Ends(q, a), scan[a])}
<1>0. IsCast(q) /\ q \in Casts /\ q.dst \in Classes /\ NULL = 0
  BY CastFacts DEF Special, NULL
<1>e. ~Two({}) /\ UNKNOWN = {} /\ \A x : ~Two({x})
  BY DEF Two, UNKNOWN
<1>1. rank \in [Scans -> Nat]
  BY ClassFacts DEF Scans
<1>2. ASSUME NEW a \in Scans, \A y \in Scans : rank[y] < rank[a] => y \in G
      PROVE  a \in G
  <2> SUFFICES ASSUME Reached(q, a), Knows(q, a), ~scan[a].lost
               PROVE  Counted(q, Ends(q, a), scan[a])
    OBVIOUS
  <2> DEFINE answers == ScanAnswers(q, a)
  <2>1. a.class \in Classes /\ a.obj \in Nat
    BY DEF Scans
  <2>2. /\ scan[a] = ScanBy(q, a, answers) /\ scan[a] \in DynResult
        /\ ResultTrue(q, scan[a])
    BY <1>0, ScanFacts, NodeTrue
  <2>3. PICK v \in Routes[whole] : Reaches(v, Origin, a.class, a.obj)
    BY DEF Reached
  <2>4. ASSUME NEW i \in DOMAIN bases[a.class], a.class # q.dst
        PROVE  /\ answers[i] \in DynResult /\ answers[i] = scan[ScanBase(a, i)]
               /\ ~answers[i].lost => /\ ResultTrue(q, answers[i])
                                      /\ Counted(q, Ends(q, ScanBase(a, i)), answers[i])
    <3>1. ScanBase(a, i) \in Scans /\ rank[ScanBase(a, i)] < rank[a]
      BY ScanBaseFields
    <3>2. Reached(q, ScanBase(a, i))
      BY <2>4, ReachedBelow
    <3>3. Knows(q, ScanBase(a, i))
      BY <1>0, <2>4, KnowsBelow
    <3>4. ScanBase(a, i) \in G
      <4> HIDE DEF rank, G
      <4> QED BY <1>2, <3>1
    <3>5. answers[i] = scan[ScanBase(a, i)]
      BY DEF ScanAnswers
    <3>6. scan[ScanBase(a, i)] \in DynResult
      BY <1>0, <3>1, ScanFacts
    <3>7. ~scan[ScanBase(a, i)].lost => ResultTrue(q, scan[ScanBase(a, i)])
      BY <1>0, <3>1, <3>2, NodeTrue
    <3> QED BY <3>2, <3>3, <3>4, <3>5, <3>6, <3>7
  <2> HIDE DEF scan, answers, rank, G
  <2>5. CASE IsSource(q, a)
    <3>1. scan[a] = AsSource(a)
      BY <1>0, <2>2, <2>5, ScanByCases
    <3>2. scan[a].dst = NULL /\ scan[a].dst2src = {} /\ ~scan[a].ambig
      BY <3>1, ScanHereFields
    <3>3. Ends(q, a) = {}
      BY <1>0, <2>5 DEF IsCast, IsSource, Ends, Reaches
    <3> QED BY <1>e, <3>2, <3>3 DEF Counted
  <2>6. CASE ~IsSource(q, a) /\ a.class = q.dst
    <3> DEFINE k == AtTarget(q, a)
    <3>1. scan[a] = AsTarget(a, k) /\ k \in SUBSET BITS
      BY <1>0, <2>2, <2>6, ScanByCases
    <3>2. scan[a].dst = a.obj /\ scan[a].dst2src = k /\ ~scan[a].ambig
      BY <3>1, ScanHereFields
    <3>3. Subobject(q.dst, a.obj)
      BY <2>3, <2>6 DEF Subobject, Reaches
    <3>4. a.obj # NULL
      <4>1. Origin <= a.obj /\ whole \in Classes /\ Origin \in Nat
        BY <3>3, SubobjectFacts, ClassFacts DEF Hierarchy
      <4>2. Size[whole] \in Nat /\ Size[whole] > 0 /\ Size[whole] <= Origin
        BY <4>1, SizePositive DEF Laid
      <4> QED BY <1>0, <2>1, <4>1, <4>2
    <3>5. Ends(q, a) = {a.obj}
      BY <2>6, EndsHere
    <3>6. CASE Shared(q)
      <4>1. k = UNKNOWN
        BY <2>6, <3>6, SharedFacts DEF AtTarget
      <4> QED BY <1>e, <3>2, <3>4, <3>5, <3>6, <4>1 DEF Counted
    <3>7. CASE ~Shared(q)
      <4>1. k \in {UNKNOWN, NOT, PUBLIC}
        BY <1>0, <2>1, FindType DEF AtTarget
      <4>2. InTrue(q, a.obj, k)
        BY <2>2, <3>2 DEF ResultTrue
      <4>3. ~Contained(k)
        BY <3>3, <3>7, <4>2, HeldFacts
      <4>4. k \in {UNKNOWN, NOT}
        BY <4>1, <4>3 DEF Contained, PUBLIC
      <4> QED BY <1>e, <3>2, <3>4, <3>5, <3>7, <4>4 DEF Counted
    <3> QED BY <3>6, <3>7
  <2>7. CASE ~IsSource(q, a) /\ a.class # q.dst
    <3>1. CASE IsLeaf(a.class)
      <4>1. scan[a] = Blank(a)
        BY <1>0, <2>2, <2>7, <3>1, ScanByCases
      <4>2. Ends(q, a) = {}
        <5>1. DOMAIN bases[a.class] = {}
          BY <3>1 DEF IsLeaf
        <5> QED BY <2>7, <5>1, EndsBelow
      <4>3. scan[a].dst = NULL /\ scan[a].dst2src = {} /\ ~scan[a].ambig
        BY <4>1, ScanHereFields
      <4> QED BY <1>e, <4>2, <4>3 DEF Counted
    <3>2. CASE IsSi(a.class)
      <4>1. scan[a] = answers[1]
        BY <1>0, <2>2, <2>7, <3>2, ScanByCases
      <4>2. 1 \in DOMAIN bases[a.class] /\ \A i \in DOMAIN bases[a.class] : i = 1
        BY <2>1, <3>2, BaseFacts DEF IsSi
      <4>3. Ends(q, a) = Ends(q, ScanBase(a, 1))
        <5>1. Ends(q, ScanBase(a, 1)) \subseteq Ends(q, a)
          BY <2>7, <4>2, EndsBelow
        <5>2. \A p \in Ends(q, a) : p \in Ends(q, ScanBase(a, 1))
          BY <2>7, <4>2, EndsBelow
        <5> QED BY <5>1, <5>2
      <4> QED BY <2>4, <2>7, <4>1, <4>2, <4>3 DEF scan
    <3>3. CASE IsVmi(a.class)
      <4>1. scan[a] = AllScanned(q, a, answers)
        BY <1>0, <2>2, <2>7, <3>3, ScanByCases
      <4> QED BY <2>4, <2>7, <3>3, <4>1, LoopCounted DEF scan
    <3> QED BY <1>0, <3>1, <3>2, <3>3, ScanByCases
  <2> QED BY <2>5, <2>6, <2>7
<1>3. Scans \subseteq G
  <2> HIDE DEF rank, G
  <2> QED BY <1>1, <1>2, ByRank
<1> QED BY <1>3

-----------------------------------------------------------------------------
(* What a cast answers is what the language says. *)

\* The target at p holds the source, by a public way if pub.
HoldsBy(q, p, pub) == /\ Subobject(q.dst, p)
                      /\ \E u \in Routes[q.dst] : /\ Reaches(u, p, q.src, q.at)
                                                  /\ pub => u.public

LEMMA AroundFacts ==
  ASSUME Hierarchy, NEW q, q.dst \in Classes, NEW pub \in BOOLEAN
  PROVE  \A p : p \in Around(q.dst, q.src, q.at, pub) <=> HoldsBy(q, p, pub)
<1>0. whole \in Classes
  BY DEF Hierarchy
<1>1. ASSUME NEW p \in Around(q.dst, q.src, q.at, pub)
      PROVE  HoldsBy(q, p, pub)
  <2>1. PICK v \in Ways(whole, Origin) :
          /\ p = v.at /\ v.type = q.dst
          /\ \E u \in Ways(q.dst, v.at) : u.type = q.src /\ u.at = q.at /\ (pub => u.public)
    BY DEF Around
  <2>2. PICK u \in Ways(q.dst, v.at) : u.type = q.src /\ u.at = q.at /\ (pub => u.public)
    BY <2>1
  <2>3. PICK w \in Routes[whole] : v.type = w.type /\ v.at = Place(w, Origin)
    <3>1. \A x \in Ways(whole, Origin) : \E w \in Routes[whole] :
            x.type = w.type /\ x.at = Place(w, Origin)
      BY <1>0, WaysFields
    <3> QED BY <3>1
  <2>4. PICK y \in Routes[q.dst] : /\ u.type = y.type /\ u.at = Place(y, v.at)
                                   /\ u.public = y.public
    <3>1. \A x \in Ways(q.dst, v.at) : \E y \in Routes[q.dst] :
            /\ x.type = y.type /\ x.at = Place(y, v.at)
            /\ x.public = y.public
      BY WaysFields
    <3> QED BY <3>1
  <2>5. Subobject(q.dst, p)
    BY <2>1, <2>3 DEF Subobject
  <2>6. Reaches(y, p, q.src, q.at) /\ (pub => y.public)
    BY <2>1, <2>2, <2>4 DEF Reaches
  <2> QED BY <2>5, <2>6 DEF HoldsBy
<1>2. ASSUME NEW p, HoldsBy(q, p, pub)
      PROVE  p \in Around(q.dst, q.src, q.at, pub)
  <2>1. PICK w \in Routes[whole] : w.type = q.dst /\ Place(w, Origin) = p
    BY <1>2 DEF HoldsBy, Subobject
  <2>2. PICK y \in Routes[q.dst] : Reaches(y, p, q.src, q.at) /\ (pub => y.public)
    BY <1>2 DEF HoldsBy
  <2>3. PICK v \in Ways(whole, Origin) : v.type = w.type /\ v.at = Place(w, Origin)
    <3>1. \A x \in Routes[whole] : \E v \in Ways(whole, Origin) :
            v.type = x.type /\ v.at = Place(x, Origin)
      BY <1>0, WaysFields
    <3> QED BY <3>1
  <2>4. PICK u \in Ways(q.dst, v.at) : /\ u.type = y.type /\ u.at = Place(y, v.at)
                                       /\ u.public = y.public
    <3>1. \A x \in Routes[q.dst] : \E u \in Ways(q.dst, v.at) :
            /\ u.type = x.type /\ u.at = Place(x, v.at)
            /\ u.public = x.public
      BY WaysFields
    <3> QED BY <3>1
  <2>5. v.type = q.dst /\ v.at = p /\ u.type = q.src /\ u.at = q.at /\ (pub => u.public)
    BY <2>1, <2>2, <2>3, <2>4 DEF Reaches
  <2> QED BY <2>5 DEF Around
<1> QED BY <1>1, <1>2

\* What the language names: the one target around the source, or the only target.
LEMMA RightCastFacts ==
  ASSUME Hierarchy, NEW q, q.dst \in Classes, NEW t
  PROVE  /\ HoldsBy(q, t, TRUE) /\ (\A p : HoldsBy(q, p, FALSE) => p = t)
              => RightCast(q) = t
         /\ Subobject(q.dst, t) /\ (\A p : Subobject(q.dst, p) => p = t)
              /\ PublicTo(q.src, q.at) /\ PublicTo(q.dst, t)
              => RightCast(q) = t
<1>0. whole \in Classes
  BY DEF Hierarchy
<1> DEFINE ways == Ways(whole, Origin)
           dsts == {w.at : w \in {v \in ways : v.type = q.dst}}
           around == Around(q.dst, q.src, q.at, FALSE)
           down == Around(q.dst, q.src, q.at, TRUE)
           pub(c, at) == \E w \in ways : w.type = c /\ w.at = at /\ w.public
<1>1. RightCast(q) =
        IF Cardinality(around) = 1 /\ down # {} THEN CHOOSE a \in down : TRUE
        ELSE IF pub(q.src, q.at) /\ \E a \in dsts : dsts = {a} /\ pub(q.dst, a)
        THEN CHOOSE a \in dsts : TRUE ELSE NULL
  BY DEF RightCast
<1>2. /\ \A p : p \in around <=> HoldsBy(q, p, FALSE)
      /\ \A p : p \in down <=> HoldsBy(q, p, TRUE)
  BY AroundFacts
<1>3. \A w \in Routes[whole] : \E v \in ways : /\ v.type = w.type /\ v.at = Place(w, Origin)
                                               /\ v.public = w.public
  BY <1>0, WaysFields
<1>4. \A v \in ways : \E w \in Routes[whole] : v.type = w.type /\ v.at = Place(w, Origin)
  BY <1>0, WaysFields
<1>5. \A p : p \in dsts <=> Subobject(q.dst, p)
  BY <1>3, <1>4 DEF Subobject
<1>6. \A c, at : PublicTo(c, at) => pub(c, at)
  BY <1>3 DEF PublicTo, Reaches
<1>7. \A p : HoldsBy(q, p, TRUE) => HoldsBy(q, p, FALSE)
  BY DEF HoldsBy
<1> HIDE DEF ways, dsts, around, down, pub
<1>8. ASSUME HoldsBy(q, t, TRUE), \A p : HoldsBy(q, p, FALSE) => p = t
      PROVE  RightCast(q) = t
  <2>1. around = {t} /\ down = {t}
    BY <1>2, <1>7, <1>8
  <2>2. Cardinality(around) = 1
    BY <2>1, FS_Singleton
  <2> QED BY <1>1, <2>1, <2>2
<1>9. ASSUME Subobject(q.dst, t), \A p : Subobject(q.dst, p) => p = t,
             PublicTo(q.src, q.at), PublicTo(q.dst, t)
      PROVE  RightCast(q) = t
  <2>1. dsts = {t}
    BY <1>5, <1>9
  <2>2. down \subseteq {t}
    BY <1>2, <1>9 DEF HoldsBy
  <2>3. pub(q.src, q.at) /\ pub(q.dst, t)
    BY <1>6, <1>9
  <2>4. CASE Cardinality(around) = 1 /\ down # {}
    <3>1. down = {t}
      BY <2>2, <2>4
    <3> QED BY <1>1, <2>4, <3>1
  <2>5. CASE ~(Cardinality(around) = 1 /\ down # {})
    BY <1>1, <2>1, <2>3, <2>5
  <2> QED BY <2>4, <2>5
<1> QED BY <1>8, <1>9

\* An answer comes from a target that holds the source, or from a cross cast.
LEMMA TargetFacts ==
  ASSUME Hierarchy, Laid, NEW q, IsCast(q), NEW r \in DynResult, ResultTrue(q, r),
         TargetOf(q, r) # NULL
  PROVE  /\ TargetOf(q, r) = r.dst /\ r.dst # NULL /\ Subobject(q.dst, r.dst)
         /\ \/ HoldsBy(q, r.dst, TRUE)
            \/ Loose(q) /\ PublicTo(q.src, q.at) /\ PublicTo(q.dst, r.dst)
<1> DEFINE down == IF r.dst2src = UNKNOWN THEN FindPublicSrc(q, r.dst) ELSE r.dst2src
<1>1. /\ TargetOf(q, r) = r.dst /\ r.dst # NULL
      /\ \/ Publicly(r.dst2src)
         \/ Publicly(r.whole2src \cap r.whole2dst)
         \/ Publicly(down)
  BY DEF TargetOf
<1>2. Subobject(q.dst, r.dst) /\ r.dst \in Nat
  BY <1>1 DEF ResultTrue, TargetTrue, DynResult
<1>3. \A k : Publicly(k) => Contained(k)
  BY DEF Publicly, Contained, PUBLIC
<1>4. \A k : InTrue(q, r.dst, k) /\ Contained(k) => HoldsBy(q, r.dst, TRUE)
  BY <1>2 DEF InTrue, Holds, HoldsBy
<1>5. InTrue(q, r.dst, r.dst2src) /\ InTrue(q, r.dst, FindPublicSrc(q, r.dst))
  BY <1>1, <1>2, FindTrue DEF ResultTrue
<1>6. CASE Publicly(r.whole2src \cap r.whole2dst)
  <2>1. "in" \in r.whole2src /\ "public" \in r.whole2src /\ "public" \in r.whole2dst
    BY <1>6 DEF Publicly, PUBLIC
  <2>2. Loose(q) /\ PublicTo(q.src, q.at) /\ PublicTo(q.dst, r.dst)
    BY <1>1, <2>1 DEF ResultTrue, SourceTrue, TargetTrue
  <2> QED BY <1>1, <1>2, <2>2
<1>7. CASE Publicly(r.dst2src) \/ Publicly(down)
  BY <1>1, <1>2, <1>3, <1>4, <1>5, <1>7
<1> QED BY <1>1, <1>6, <1>7

LEMMA CastIsRight ==
  ASSUME Hierarchy, Laid, NEW q, IsCast(q), NEW r, r = ScanOf(q)[Start], ~r.lost
  PROVE  TargetOf(q, r) \in {NULL, RightCast(q)}
<1> SUFFICES ASSUME TargetOf(q, r) # NULL PROVE TargetOf(q, r) = RightCast(q)
  OBVIOUS
<1>0. q \in Casts /\ q.dst \in Classes /\ whole \in Classes /\ Origin \in Nat
  BY CastFacts, ClassFacts DEF Hierarchy
<1>1. Start \in Scans /\ Reached(q, Start) /\ Start.details = {"unknown"}
  BY ReachedWhole
<1>2. r \in DynResult /\ ResultTrue(q, r)
  BY <1>0, <1>1, ScanFacts, NodeTrue
<1> DEFINE t == r.dst
<1>3. /\ TargetOf(q, r) = t /\ t # NULL /\ Subobject(q.dst, t)
      /\ \/ HoldsBy(q, t, TRUE)
         \/ Loose(q) /\ PublicTo(q.src, q.at) /\ PublicTo(q.dst, t)
  BY <1>2, TargetFacts
<1> HIDE DEF t
<1>4. CASE \A p : Subobject(q.dst, p) => p = t
  <2>1. \A p : HoldsBy(q, p, FALSE) => p = t
    BY <1>4 DEF HoldsBy
  <2> QED BY <1>0, <1>3, <1>4, <2>1, RightCastFacts
<1>5. CASE ~Loose(q)
  <2>1. PICK x : Subobject(q.dst, x) /\ Nested(q.dst, x, q.src, q.at)
    BY <1>5 DEF Loose
  <2>2. \A p : HoldsBy(q, p, FALSE) => p = x
    BY <2>1, OneAround DEF HoldsBy, Reaches
  <2>3. HoldsBy(q, t, TRUE) /\ HoldsBy(q, t, FALSE)
    BY <1>3, <1>5 DEF HoldsBy
  <2>4. \A p : HoldsBy(q, p, FALSE) => p = t
    BY <2>2, <2>3
  <2> QED BY <1>0, <1>3, <2>3, <2>4, RightCastFacts
<1>6. CASE Loose(q) /\ \E v \in Routes[whole] :
             Reaches(v, Origin, q.src, q.at) /\ ~v.public /\ ~v.virtual
  <2>1. PICK v \in Routes[whole] : Reaches(v, Origin, q.src, q.at) /\ ~v.public /\ ~v.virtual
    BY <1>6
  <2>2. \A w \in Routes[whole] : Reaches(w, Origin, q.src, q.at) => w = v
    BY <2>1, StraightWay DEF Reaches
  <2>3. ~PublicTo(q.src, q.at)
    BY <2>1, <2>2 DEF PublicTo
  <2>4. PICK u \in Routes[q.dst] : Reaches(u, t, q.src, q.at)
    BY <1>3, <2>3 DEF HoldsBy
  <2>5. u.virtual
    BY <1>3, <1>6, <2>4 DEF Loose, Nested, Reaches, Place
  <2>6. PICK w \in Routes[whole] : w.type = q.dst /\ Place(w, Origin) = t
    BY <1>3 DEF Subobject
  <2>7. PICK z \in Routes[whole] : Joins(z, w, u)
    BY <1>0, <2>4, <2>6, JoinedWays
  <2>8. z.virtual /\ Reaches(z, Origin, q.src, q.at)
    <3>1. z.virtual /\ z.type = u.type /\ Place(z, Origin) = Place(u, Place(w, Origin))
      BY <1>0, <2>5, <2>7 DEF Joins
    <3> QED BY <2>4, <2>6, <3>1 DEF Reaches
  <2> QED BY <2>1, <2>2, <2>8
<1>7. CASE /\ Loose(q) /\ ~\A p : Subobject(q.dst, p) => p = t
           /\ ~\E v \in Routes[whole] :
                 Reaches(v, Origin, q.src, q.at) /\ ~v.public /\ ~v.virtual
  <2>1. PICK p : Subobject(q.dst, p) /\ p # t
    BY <1>7
  <2>2. Special(q)
    BY <1>3, <1>7, <2>1 DEF Special
  <2>3. p \in Ends(q, Start) /\ t \in Ends(q, Start)
    BY <1>3, <2>1, EndsWhole
  <2>4. Two(Ends(q, Start))
    BY <2>1, <2>3 DEF Two
  <2>5. Knows(q, Start)
    BY <1>1, <2>4 DEF Knows
  <2>6. Counted(q, Ends(q, Start), r)
    BY <1>1, <2>2, <2>5, NodeCounted
  <2>7. r.dst = NULL
    <3>1. \A x : ~Two({x})
      BY DEF Two
    <3>2. ~Two({})
      BY DEF Two
    <3> QED BY <2>4, <2>6, <3>1, <3>2 DEF Counted
  <2> QED BY <1>3, <2>7 DEF t
<1> QED BY <1>4, <1>5, <1>6, <1>7

LEMMA DynamicCastIsRight ==
  ASSUME Hierarchy, Laid, NEW q, IsCast(q)
  PROVE  DynamicCast(q.src, q.at, q.dst, q.hint) \in {LOST, NULL, RightCast(q)}
<1>1. q = [src |-> q.src, at |-> q.at, dst |-> q.dst, hint |-> q.hint]
  BY DEF IsCast, Casts
<1>2. DoDyncast(q) = ScanOf(q)[Start]
  BY DEF DoDyncast, ScanOf, Start
<1> DEFINE r == ScanOf(q)[Start]
<1>3. DynamicCast(q.src, q.at, q.dst, q.hint) = IF r.lost THEN LOST ELSE TargetOf(q, r)
  BY <1>1, <1>2 DEF DynamicCast
<1> QED BY <1>3, CastIsRight

-----------------------------------------------------------------------------
(* Where no private base lies above, or no two ways meet, a cast misses no   *)
(* target that the language names.                                           *)

\* A class has finitely many ways down.
LEMMA RoutesFinite ==
  ASSUME Hierarchy
  PROVE  \A c \in Classes : IsFiniteSet(Routes[c])
<1> DEFINE rank == [c \in Classes |-> c]
           G == {c \in Classes : IsFiniteSet(Routes[c])}
<1>1. rank \in [Classes -> Nat]
  BY ClassFacts
<1>2. ASSUME NEW c \in Classes, \A y \in Classes : rank[y] < rank[c] => y \in G
      PROVE  c \in G
  <2> DEFINE Past(i) == {Through(c, i, w) : w \in Routes[bases[c][i].type]}
             past == [i \in DOMAIN bases[c] |-> Past(i)]
  <2>1. DOMAIN bases[c] = 1 .. Len(bases[c]) /\ Len(bases[c]) \in Nat
    BY BaseFacts
  <2>2. IsFiniteSet(DOMAIN bases[c])
    <3>1. \A n \in Nat : IsFiniteSet(1 .. n)
      BY FS_Interval
    <3> QED BY <2>1, <3>1
  <2>3. ASSUME NEW i \in DOMAIN bases[c] PROVE IsFiniteSet(Past(i))
    <3> DEFINE S == Routes[bases[c][i].type]
               f == [w \in S |-> Through(c, i, w)]
    <3>1. bases[c][i].type \in Classes /\ bases[c][i].type < c
      BY BaseFacts
    <3>2. IsFiniteSet(S)
      BY <1>2, <3>1
    <3>3. Past(i) = {f[w] : w \in S}
      OBVIOUS
    <3>4. f \in Surjection(S, Past(i))
      <4> HIDE DEF S
      <4> QED BY DEF Surjection, S
    <3> HIDE DEF S, f, Past
    <3> QED BY <3>2, <3>4, FS_Surjection
  <2> HIDE DEF Past
  <2> DEFINE all == {past[i] : i \in DOMAIN bases[c]}
  <2>4. past \in Surjection(DOMAIN bases[c], all)
    BY DEF Surjection
  <2>5. IsFiniteSet(all)
    <3> HIDE DEF all, past
    <3> QED BY <2>2, <2>4, FS_Surjection
  <2>6. \A T \in all : IsFiniteSet(T)
    BY <2>3
  <2>7. IsFiniteSet(UNION all)
    <3> HIDE DEF all
    <3> QED BY <2>5, <2>6, FS_UNION
  <2>8. Routes[c] = {Here(c)} \cup UNION all
    <3>1. Routes[c] = {Here(c)} \cup UNION {Past(i) : i \in DOMAIN bases[c]}
      BY RoutesFacts DEF Past
    <3>2. all = {Past(i) : i \in DOMAIN bases[c]}
      OBVIOUS
    <3> HIDE DEF all
    <3> QED BY <3>1, <3>2
  <2>9. IsFiniteSet((UNION all) \cup {Here(c)})
    <3> HIDE DEF all
    <3> QED BY <2>7, FS_AddElement
  <2>10. (UNION all) \cup {Here(c)} = {Here(c)} \cup UNION all
    OBVIOUS
  <2> HIDE DEF all
  <2> QED BY <2>8, <2>9, <2>10
<1>3. Classes \subseteq G
  <2> HIDE DEF rank, G
  <2> QED BY <1>1, <1>2, ByRank
<1> QED BY <1>3

LEMMA WaysFinite ==
  ASSUME Hierarchy, NEW c \in Classes, NEW at
  PROVE  IsFiniteSet(Ways(c, at))
<1> DEFINE f == [w \in Routes[c] |-> [w EXCEPT !.at = Place(w, at)]]
<1>1. Ways(c, at) = {f[w] : w \in Routes[c]}
  BY DEF Ways
<1>2. f \in Surjection(Routes[c], Ways(c, at))
  <2>1. f \in [Routes[c] -> Ways(c, at)]
    BY DEF Ways
  <2> HIDE DEF f
  <2> QED BY <1>1, <2>1 DEF Surjection
<1> HIDE DEF f
<1> QED BY <1>2, RoutesFinite, FS_Surjection

\* Where there is a public way the hint is not that there is none, and a hint
\* that is a number is where that way ends.
LEMMA HintComplete ==
  ASSUME Hierarchy, NEW src, NEW dst \in Classes, NEW u \in Routes[dst],
         u.type = src, u.public
  PROVE  /\ Hint(src, dst) # -2
         /\ Hint(src, dst) >= 0 => ~u.virtual /\ u.at = Hint(src, dst)
<1> DEFINE ways == {w \in Ways(dst, NULL) : w.type = src /\ w.public}
           one == CHOOSE w \in ways : TRUE
<1>1. Hint(src, dst) = IF \E w \in ways : w.virtual THEN -1
                       ELSE IF ways = {} THEN -2
                       ELSE IF Cardinality(ways) > 1 THEN -3
                       ELSE one.at
  BY DEF Hint
<1>2. PICK v \in Ways(dst, NULL) : /\ v.type = u.type /\ v.at = Place(u, NULL)
                                   /\ v.public = u.public
                                   /\ v.virtual = u.virtual
  <2>1. \A w \in Routes[dst] : \E v \in Ways(dst, NULL) :
          /\ v.type = w.type /\ v.at = Place(w, NULL)
          /\ v.public = w.public
          /\ v.virtual = w.virtual
    BY WaysFields
  <2> QED BY <2>1
<1>3. v \in ways
  BY <1>2
<1>4. IsFiniteSet(ways)
  <2>1. ways \in SUBSET Ways(dst, NULL) /\ IsFiniteSet(Ways(dst, NULL))
    BY WaysFinite
  <2> HIDE DEF ways
  <2> QED BY <2>1, FS_Subset
<1>5. ASSUME ~\E w \in ways : w.virtual, ~(Cardinality(ways) > 1)
      PROVE  ~u.virtual /\ u.at = one.at
  <2>1. \E x : ways = {x}
    <3> HIDE DEF ways, one
    <3>1. Cardinality(ways) \in Nat /\ Cardinality(ways) # 0
      BY <1>3, <1>4, FS_CardinalityType, FS_EmptySet
    <3>2. Cardinality(ways) = 1
      BY <1>5, <3>1
    <3> QED BY <1>4, <3>2, FS_Singleton
  <2>2. one = v
    <3> HIDE DEF ways
    <3> QED BY <1>3, <2>1
  <2>3. ~v.virtual
    BY <1>3, <1>5
  <2>4. u.at \in Nat /\ u.virtual \in BOOLEAN
    BY RoutesSplit DEF Way
  <2> HIDE DEF one, ways
  <2> QED BY <1>2, <2>2, <2>3, <2>4 DEF Place, NULL
<1>6. u.at \in Nat /\ u.virtual \in BOOLEAN
  BY RoutesSplit DEF Way
<1> HIDE DEF ways, one
<1>7. CASE \E w \in ways : w.virtual
  BY <1>1, <1>7
<1>8. CASE ~\E w \in ways : w.virtual
  <2>1. ways # {}
    BY <1>3
  <2>2. CASE Cardinality(ways) > 1
    <3>1. Hint(src, dst) = -3
      BY <1>1, <1>8, <2>1, <2>2
    <3> QED BY <3>1
  <2>3. CASE ~(Cardinality(ways) > 1)
    <3>1. Hint(src, dst) = one.at
      BY <1>1, <1>8, <2>1, <2>3
    <3>2. ~u.virtual /\ u.at = one.at
      BY <1>5, <1>8, <2>3
    <3> QED BY <1>6, <3>1, <3>2
  <2> QED BY <2>2, <2>3
<1> QED BY <1>7, <1>8

\* The address of a part of the object is not null.
LEMMA NotNull ==
  ASSUME Hierarchy, Laid, NEW c, NEW p, Subobject(c, p)
  PROVE  p \in Nat /\ p # NULL
<1>1. p \in Nat /\ Origin <= p /\ whole \in Classes /\ Origin \in Nat
  BY SubobjectFacts, ClassFacts DEF Hierarchy
<1>2. Size[whole] \in Nat /\ Size[whole] > 0 /\ Size[whole] <= Origin
  BY <1>1, SizePositive DEF Laid
<1> QED BY <1>1, <1>2 DEF NULL

\* The language names the target t: it alone holds the source, by a public way;
\* or it is the only target and does not, and all ways to both are public.
Held(q, t) == /\ HoldsBy(q, t, TRUE)
              /\ \A p : HoldsBy(q, p, FALSE) => p = t
Crossed(q, t) ==
  /\ Subobject(q.dst, t) /\ ~HoldsBy(q, t, FALSE)
  /\ \A p : Subobject(q.dst, p) => p = t
  /\ \A v \in Routes[whole] :
       Reaches(v, Origin, q.src, q.at) \/ Reaches(v, Origin, q.dst, t) => v.public
Wanted(q, t) == Held(q, t) \/ Crossed(q, t)

\* The target that holds the source is found to hold it.
LEMMA HeldIsFound ==
  ASSUME Hierarchy, Laid, NEW q, IsCast(q), NEW t, Held(q, t)
  PROVE  /\ q.hint # -2 /\ ~IsLeaf(q.dst)
         /\ q.hint >= 0 => AtHint(q, t) = PUBLIC
         /\ FindPublicSrc(q, t) \in KINDS \ {NOT}
<1>1. Subobject(q.dst, t) /\ HoldsBy(q, t, TRUE)
  BY DEF Held, HoldsBy
<1>2. PICK u \in Routes[q.dst] : Reaches(u, t, q.src, q.at) /\ u.public
  BY <1>1 DEF HoldsBy
<1>3. /\ q \in Casts /\ q.dst \in Classes /\ q.src # q.dst /\ q.hint \in Int
      /\ q.hint \in {Hint(q.src, q.dst), -1} /\ t \in Nat
      /\ u.type = q.src /\ Place(u, t) = q.at
      /\ q.hint \in {-1, -2, -3} \/ q.hint \in Nat
  BY <1>1, <1>2, CastFacts DEF IsCast, Casts, Reaches
<1>4. /\ q.hint # -2
      /\ q.hint >= 0 => ~u.virtual /\ u.at = q.hint
      /\ u.virtual => q.hint = -1
  BY <1>2, <1>3, HintComplete, CastFacts
<1>5. ~IsLeaf(q.dst)
  <2>1. u # Here(q.dst)
    BY <1>3, HereFacts
  <2>2. PICK i \in DOMAIN bases[q.dst] : TRUE
    BY <1>3, <2>1, RoutesSplit
  <2> QED BY <1>3, <2>2, BaseFacts DEF IsLeaf
<1>6. q.hint >= 0 => AtHint(q, t) = PUBLIC
  BY <1>3, <1>4 DEF AtHint, Place
<1>7. FindPublicSrc(q, t) \in KINDS \ {NOT}
  <2>1. CASE q.hint >= 0
    BY <1>6, <2>1 DEF FindPublicSrc, KINDS, PUBLIC, NOT
  <2>2. CASE ~(q.hint >= 0)
    <3> DEFINE a == [class |-> q.dst, obj |-> t]
    <3>1. /\ a \in Objects /\ a.class = q.dst /\ a.obj = t
          /\ FindPublicSrc(q, t) \in KINDS /\ FindPublicSrc(q, t) = FindOf(q)[a]
      BY <1>3, <1>4, <2>2, FindType DEF FindPublicSrc
    <3>2. Findable(q, u)
      BY <1>2, <1>4 DEF Findable
    <3> HIDE DEF a
    <3>3. Contained(FindOf(q)[a])
      BY <1>2, <1>3, <3>1, <3>2, FindComplete
    <3> QED BY <3>1, <3>3 DEF Contained, NOT
  <2> QED BY <2>1, <2>2
<1> QED BY <1>4, <1>5, <1>6, <1>7

\* Nothing else holds the source.
LEMMA OnlyHeldHolds ==
  ASSUME NEW q, NEW t, Wanted(q, t), NEW p, NEW l, TargetTrue(q, p, l),
         NEW k, InTrue(q, p, k), Contained(k)
  PROVE  Held(q, t) /\ p = t
<1>1. p # NULL /\ Subobject(q.dst, p) /\ Holds(q, p, k)
  BY DEF InTrue, TargetTrue
<1>2. HoldsBy(q, p, FALSE)
  BY <1>1 DEF Holds, HoldsBy
<1>3. ~Crossed(q, t)
  BY <1>1, <1>2 DEF Crossed
<1> QED BY <1>2, <1>3 DEF Wanted, Held

Many(q) == \E x, y : Subobject(q.dst, x) /\ Subobject(q.dst, y) /\ x # y

\* Among several targets, the one that holds the source has it in itself.
LEMMA HeldAmongMany ==
  ASSUME Hierarchy, NEW q, NEW t, Wanted(q, t), Many(q)
  PROVE  /\ Held(q, t)
         /\ \A k : SourceTrue(q, k) => k = {}
<1>1. Held(q, t)
  BY DEF Wanted, Crossed, Many
<1>2. ASSUME NEW k, SourceTrue(q, k), k # {} PROVE FALSE
  <2>1. Loose(q)
    BY <1>2 DEF SourceTrue
  <2>2. PICK u \in Routes[q.dst] : Reaches(u, t, q.src, q.at)
    BY <1>1 DEF Held, HoldsBy
  <2>3. u.virtual
    BY <1>1, <2>1, <2>2 DEF Held, HoldsBy, Loose, Nested, Reaches, Place
  <2>4. \A p : Subobject(q.dst, p) => HoldsBy(q, p, FALSE)
    BY <2>2, <2>3 DEF HoldsBy, Reaches, Place
  <2> QED BY <1>1, <2>4 DEF Held, Many
<1> QED BY <1>1, <1>2

\* What is known of the way to the source does not stop the walk.
LEMMA SourceIsOpen ==
  ASSUME Hierarchy, NEW q, NEW t, Wanted(q, t), NEW k, SourceTrue(q, k), k # {}
  PROVE  /\ Held(q, t) => Virtual(k)
         /\ Crossed(q, t) => PUBLIC \subseteq k
         /\ k # PRIVATE
<1>1. PICK v \in Routes[whole] : Reaches(v, Origin, q.src, q.at) /\ KindOf(v) \subseteq k
  BY DEF SourceTrue
<1>2. ASSUME Held(q, t) PROVE Virtual(k)
  <2>1. Loose(q) /\ whole \in Classes /\ Origin \in Nat
    BY ClassFacts DEF SourceTrue, Hierarchy
  <2>2. PICK u \in Routes[q.dst] : Reaches(u, t, q.src, q.at)
    BY <1>2 DEF Held, HoldsBy
  <2>3. u.virtual
    BY <1>2, <2>1, <2>2 DEF Held, HoldsBy, Loose, Nested, Reaches, Place
  <2>4. PICK w \in Routes[whole] : w.type = q.dst /\ Place(w, Origin) = t
    BY <1>2 DEF Held, HoldsBy, Subobject
  <2>5. PICK z \in Routes[whole] : Joins(z, w, u)
    BY <2>1, <2>2, <2>4, JoinedWays
  <2>6. z.virtual /\ z.type = q.src /\ Place(z, Origin) = q.at
    <3>1. z.virtual /\ z.type = u.type /\ Place(z, Origin) = Place(u, Place(w, Origin))
      BY <2>1, <2>3, <2>5 DEF Joins
    <3> QED BY <2>2, <2>4, <3>1 DEF Reaches
  <2>7. v.virtual
    <3> SUFFICES ASSUME ~v.virtual PROVE FALSE
      OBVIOUS
    <3>1. z = v
      BY <1>1, <2>6, StraightWay DEF Reaches
    <3> QED BY <2>6, <3>1
  <2> QED BY <1>1, <2>7 DEF KindOf, Virtual
<1>3. ASSUME Crossed(q, t) PROVE PUBLIC \subseteq k
  <2>1. v.public
    BY <1>1, <1>3 DEF Crossed
  <2> QED BY <1>1, <2>1 DEF KindOf, PUBLIC
<1>4. k # PRIVATE
  BY <1>2, <1>3 DEF Wanted, PRIVATE, PUBLIC, Virtual
<1> QED BY <1>2, <1>3, <1>4

\* The source is in a.
SourceBelow(q, a) == \E u \in Routes[a.class] : Reaches(u, a.obj, q.src, q.at)

LEMMA SourceSplit ==
  ASSUME Hierarchy, NEW q, NEW a \in Scans, ~IsSource(q, a)
  PROVE  SourceBelow(q, a) <=>
           \E i \in DOMAIN bases[a.class] : SourceBelow(q, ScanBase(a, i))
<1>1. a.class \in Classes /\ a.obj \in Nat
  BY DEF Scans
<1>2. ASSUME NEW i \in DOMAIN bases[a.class]
      PROVE  /\ ScanBase(a, i).class = bases[a.class][i].type
             /\ ScanBase(a, i).obj = ConvertToBase(a.class, i, a.obj)
             /\ \A v \in Routes[bases[a.class][i].type] :
                  /\ Through(a.class, i, v) \in Routes[a.class]
                  /\ Through(a.class, i, v).type = v.type
                  /\ Place(Through(a.class, i, v), a.obj) = Place(v, ScanBase(a, i).obj)
  BY <1>1, ScanBaseFields, Stepped
<1>3. ASSUME NEW i \in DOMAIN bases[a.class], SourceBelow(q, ScanBase(a, i))
      PROVE  SourceBelow(q, a)
  <2>1. PICK v \in Routes[bases[a.class][i].type] :
          Reaches(v, ScanBase(a, i).obj, q.src, q.at)
    BY <1>2, <1>3 DEF SourceBelow
  <2>2. Reaches(Through(a.class, i, v), a.obj, q.src, q.at)
    BY <1>2, <2>1 DEF Reaches
  <2> QED BY <1>2, <2>2 DEF SourceBelow
<1>4. ASSUME SourceBelow(q, a)
      PROVE  \E i \in DOMAIN bases[a.class] : SourceBelow(q, ScanBase(a, i))
  <2>1. PICK w \in Routes[a.class] : Reaches(w, a.obj, q.src, q.at)
    BY <1>4 DEF SourceBelow
  <2>2. w # Here(a.class)
    BY <1>1, <2>1, HereFacts DEF Reaches, IsSource, Place
  <2>3. PICK i \in DOMAIN bases[a.class] : \E v \in Routes[bases[a.class][i].type] :
          w = Through(a.class, i, v)
    BY <1>1, <2>2, RoutesSplit
  <2>4. PICK v \in Routes[bases[a.class][i].type] : w = Through(a.class, i, v)
    BY <2>3
  <2>5. Reaches(v, ScanBase(a, i).obj, q.src, q.at)
    BY <1>2, <2>1, <2>4 DEF Reaches
  <2> QED BY <1>2, <2>5 DEF SourceBelow
<1> QED BY <1>3, <1>4

\* The result r of the targets P, and of the source if Q, keeps the target t that
\* the language names.
Kept(q, t, P, Q, r) ==
  /\ r.dst2src \in KINDS \cup {UNKNOWN}
  /\ Empty(r) => r.dst2src = UNKNOWN
  /\ r.ambig => Many(q)
  /\ t \in P => r.dst = t
  /\ Held(q, t) /\ r.dst = t => r.dst2src # NOT
  /\ Crossed(q, t) /\ Q => r.whole2src # {}
  /\ r.dst # NULL => r.dst \in P

KindSets == /\ ~Contained(NOT) /\ ~Contained(UNKNOWN) /\ NOT # UNKNOWN /\ PUBLIC # NOT
            /\ \A k \in KINDS : k # NOT => Contained(k) /\ Publicly(k)
            /\ NOT \in KINDS /\ PUBLIC \in KINDS /\ UNKNOWN \notin KINDS
            /\ AMBIG \notin KINDS \cup {UNKNOWN}
            /\ {} = UNKNOWN

LEMMA KindSetsFacts == KindSets
BY DEF KindSets, KINDS, NOT, UNKNOWN, PUBLIC, AMBIG, Contained, Publicly

\* Held and Crossed exclude each other.
LEMMA NotBoth ==
  ASSUME NEW q, NEW t, Held(q, t)
  PROVE  ~Crossed(q, t)
BY DEF Held, Crossed, HoldsBy

\* Of two different targets, that which holds the source is found to hold it.
LEMMA OneOfTwo ==
  ASSUME Hierarchy, Laid, NEW q, IsCast(q), NEW t, Held(q, t), NEW c,
         NEW r, r.whole2src = {}, NEW target \in DynResult, target.dst = t,
         target.dst2src \in KINDS \cup {UNKNOWN}, target.dst2src # NOT,
         NEW other, ~Contained(other)
  PROVE  /\ KindIn(q, c, r, target, other) \in KINDS
         /\ Contained(KindIn(q, c, r, target, other))
<1>0. KindSets
  BY KindSetsFacts
<1>1. CASE target.dst2src = UNKNOWN
  <2>1. Asks(c, r, target, other)
    BY <1>1 DEF Asks, OnlyWay, Contained
  <2>2. KindIn(q, c, r, target, other) = FindPublicSrc(q, t)
    BY <2>1 DEF KindIn
  <2>3. FindPublicSrc(q, t) \in KINDS \ {NOT}
    BY HeldIsFound
  <2> QED BY <1>0, <2>2, <2>3 DEF KindSets
<1>2. CASE target.dst2src # UNKNOWN
  <2>1. KindIn(q, c, r, target, other) = target.dst2src
    BY <1>2 DEF KindIn, Asks
  <2> QED BY <1>0, <1>2, <2>1 DEF KindSets
<1> QED BY <1>1, <1>2

LEMMA ClashKept ==
  ASSUME Hierarchy, Laid, NEW q, IsCast(q), NEW t, Wanted(q, t), t # NULL, NEW c,
         NEW r \in DynResult, NEW r2 \in DynResult, ResultTrue(q, r), ResultTrue(q, r2),
         NEW E, NEW E2, NEW Q, NEW Q2,
         Kept(q, t, E, Q, r), Kept(q, t, E2, Q2, r2), ~Same(r, r2), Clash(r, r2),
         NEW s, s = Disambiguate(q, c, r, r2), ~s.lost
  PROVE  /\ \A T, B : E \cup E2 \subseteq T /\ (t \in T => t \in E \cup E2)
                        => Kept(q, t, T, B, s)
         /\ s.done /\ ~r.done => t \in E \cup E2
<1>0. q \in Casts /\ KindSets
  BY KindSetsFacts DEF IsCast
<1>1. Many(q)
  <2>1. /\ r.dst # NULL => Subobject(q.dst, r.dst)
        /\ r2.dst # NULL => Subobject(q.dst, r2.dst)
    BY DEF ResultTrue, TargetTrue
  <2> QED BY <2>1 DEF Clash, Same, Many, Kept
<1>2. Held(q, t) /\ r.whole2src = {}
  BY <1>1, HeldAmongMany DEF ResultTrue
<1>3. PICK old : old = KindIn(q, c, r, r, r2.dst2src)
  OBVIOUS
<1>4. PICK new : new = KindIn(q, c, r, r2, old)
  OBVIOUS
<1>5. /\ ~Astray(q, c, r, r, r2.dst2src) /\ ~Astray(q, c, r, r2, old)
      /\ Chosen(r, r2, old, new, s)
  BY <1>0, <1>3, <1>4, DisambiguateFields
<1>6. InTrue(q, r.dst, old) /\ InTrue(q, r2.dst, new)
  BY <1>3, <1>4, <1>5, KindInTrue DEF ResultTrue
<1>7. /\ Contained(old) => r.dst = t
      /\ Contained(new) => r2.dst = t
      /\ Contained(r2.dst2src) => r2.dst = t
  BY <1>6, OnlyHeldHolds DEF ResultTrue
<1>8. ~(r.dst = t /\ r2.dst = t)
  BY DEF Same
<1>9. ~Crossed(q, t)
  BY <1>2, NotBoth
<1>10. /\ t \in E <=> r.dst = t
       /\ t \in E2 <=> r2.dst = t
  BY DEF Kept
<1>11. CASE r.dst = t
  <2>1. old \in KINDS /\ Contained(old) /\ ~Contained(new)
    BY <1>2, <1>3, <1>7, <1>8, <1>11, OneOfTwo DEF Kept
  <2>2. s.dst = t /\ s.dst2src = old /\ old # NOT
    BY <1>0, <1>5, <1>11, <2>1 DEF Chosen, KindSets
  <2> QED BY <1>0, <1>1, <1>9, <1>10, <1>11, <2>1, <2>2 DEF Kept, Empty
<1>12. CASE r2.dst = t
  <2>1. ~Contained(old)
    BY <1>7, <1>8, <1>12
  <2>2. new \in KINDS /\ Contained(new)
    BY <1>2, <1>4, <1>12, <2>1, OneOfTwo DEF Kept
  <2>3. s.dst = t /\ s.dst2src = new /\ new # NOT
    BY <1>0, <1>5, <1>12, <2>1, <2>2 DEF Chosen, KindSets
  <2> QED BY <1>0, <1>1, <1>9, <1>10, <1>12, <2>2, <2>3 DEF Kept, Empty
<1>13. CASE r.dst # t /\ r2.dst # t
  <2>1. ~Contained(old) /\ ~Contained(new)
    BY <1>7, <1>13
  <2>2. /\ s.dst = NULL /\ s.dst2src = NOT /\ s.ambig
        /\ s.done <=> r.done
    BY <1>5, <2>1 DEF Chosen
  <2> QED BY <1>0, <1>1, <1>9, <1>10, <1>13, <2>2 DEF Kept, Empty, KindSets
<1> QED BY <1>11, <1>12, <1>13

\* The result r2 of the targets E2 is merged into r, that of E; all of them are
\* among the targets All of the class.
LEMMA MergeKept ==
  ASSUME Hierarchy, Laid, NEW q, IsCast(q), NEW t, Wanted(q, t), t # NULL, NEW c,
         NEW r \in DynResult, NEW r2 \in DynResult, ResultTrue(q, r), ResultTrue(q, r2),
         NEW E, NEW E2, NEW All, E \cup E2 \subseteq All, Two(All) => "repeat" \in flags[c],
         NEW Q, NEW Q2, Kept(q, t, E, Q, r), Kept(q, t, E2, Q2, r2), ~r.done,
         NEW s, s = MergeTarget(q, c, r, r2), ~s.lost
  PROVE  /\ s.done => \A B : Kept(q, t, All, B, s)
         /\ ~s.done => Kept(q, t, E \cup E2, Q, s)
<1>0. q \in Casts /\ KindSets
  BY KindSetsFacts DEF IsCast
<1>1. s.whole2src = r.whole2src /\ Merged(q, c, r, r2, s)
  BY <1>0, MergeTargetFields
<1>2. CASE Better(r2)
  <2>1. r2.dst2src = PUBLIC /\ Contained(r2.dst2src) /\ r2.dst2src # NOT
    BY <1>0, <1>2 DEF Better, Kept, KindSets
  <2>2. Held(q, t) /\ r2.dst = t
    BY <2>1, OnlyHeldHolds DEF ResultTrue
  <2>3. ~Crossed(q, t)
    BY <2>2, NotBoth
  <2>4. /\ s.dst = t /\ s.dst2src = PUBLIC /\ s.done
        /\ s.ambig <=> r2.ambig
    BY <1>1, <1>2, <2>1, <2>2 DEF Merged, SameTarget
  <2>5. t \in E2
    BY <2>2 DEF Kept
  <2>6. \A B : Kept(q, t, All, B, s)
    BY <1>0, <2>3, <2>4, <2>5 DEF Kept, Empty, KindSets
  <2> QED BY <2>4, <2>5, <2>6
<1>3. CASE ~Better(r2) /\ Empty(r)
  <2>1. r.dst2src = UNKNOWN /\ t \notin E
    BY <1>3 DEF Empty, Kept
  <2>2. /\ s.dst = r2.dst /\ s.dst2src = UNKNOWN
        /\ s.ambig <=> r2.ambig
        /\ s.done => /\ r2.dst # NULL /\ r.whole2src # {}
                     /\ "repeat" \notin flags[c]
    BY <1>0, <1>1, <1>3, <2>1 DEF Merged, SameTarget, KindSets
  <2>3. Kept(q, t, E \cup E2, Q, s)
    BY <1>0, <1>1, <2>1, <2>2 DEF Kept, KindSets
  <2>4. ASSUME s.done, t \in All PROVE t = r2.dst /\ t \in E2
    <3>1. r2.dst \in E2 /\ ~Two(All)
      BY <2>2, <2>4 DEF Kept
    <3> QED BY <2>4, <3>1 DEF Two
  <2>5. s.done => \A B : Kept(q, t, All, B, s)
    BY <1>0, <1>1, <2>2, <2>3, <2>4 DEF Kept, KindSets
  <2> QED BY <2>3, <2>4, <2>5
<1>4. CASE ~Better(r2) /\ ~Empty(r) /\ Same(r, r2)
  <2>1. /\ s.dst = r.dst /\ s.dst2src = r.dst2src
        /\ s.ambig <=> r.ambig
        /\ ~s.done
    BY <1>1, <1>4 DEF Merged
  <2>2. Kept(q, t, E \cup E2, Q, s)
    BY <1>1, <1>4, <2>1 DEF Kept, Same, Empty
  <2> QED BY <2>1, <2>2
<1>5. CASE ~Better(r2) /\ ~Empty(r) /\ ~Same(r, r2) /\ Clash(r, r2)
  <2>1. s = Disambiguate(q, c, r, r2)
    BY <1>1, <1>5 DEF Merged
  <2>2. /\ \A T, b : E \cup E2 \subseteq T /\ (t \in T => t \in E \cup E2)
                        => Kept(q, t, T, b, s)
        /\ s.done /\ ~r.done => t \in E \cup E2
    <3>1. ~Same(r, r2) /\ Clash(r, r2)
      BY <1>5
    <3> QED BY <2>1, <3>1, ClashKept, Zenon
  <2>3. Kept(q, t, E \cup E2, Q, s)
    BY <2>2
  <2>4. s.done => \A B : Kept(q, t, All, B, s)
    BY <2>2
  <2> QED BY <2>2, <2>3, <2>4
<1>6. CASE ~Better(r2) /\ ~Empty(r) /\ ~Same(r, r2) /\ ~Clash(r, r2)
  <2>1. s = r
    BY <1>1, <1>6 DEF Merged
  <2>2. t \in E2 => r.dst = t
    BY <1>6 DEF Clash, Empty, Kept
  <2>3. Kept(q, t, E \cup E2, Q, s)
    BY <2>1, <2>2 DEF Kept
  <2> QED BY <2>1, <2>3
<1> QED BY <1>2, <1>3, <1>4, <1>5, <1>6

\* Behind a base that is not public is neither the source nor the target of a
\* cross cast.
LEMMA NothingBehind ==
  ASSUME Hierarchy, NEW q, NEW t, Crossed(q, t), NEW a \in Scans, Reached(q, a),
         "public" \notin a.access
  PROVE  ~SourceBelow(q, a) /\ t \notin Ends(q, a)
<1>0. whole \in Classes /\ Origin \in Nat
  BY ClassFacts DEF Hierarchy
<1>1. PICK v \in Routes[whole] : Reaches(v, Origin, a.class, a.obj) /\ a.access = KindOf(v)
  BY DEF Reached
<1>2. ~v.public
  BY <1>1 DEF KindOf
<1>3. ASSUME NEW d, NEW p, NEW u \in Routes[a.class], Reaches(u, a.obj, d, p)
      PROVE  \E z \in Routes[whole] : Reaches(z, Origin, d, p) /\ ~z.public
  <2>1. v.type = a.class /\ Place(v, Origin) = a.obj
    BY <1>1 DEF Reaches
  <2>2. PICK z \in Routes[whole] : Joins(z, v, u)
    BY <1>0, <2>1, JoinedWays
  <2>3. ~z.public /\ z.type = u.type /\ Place(z, Origin) = Place(u, Place(v, Origin))
    BY <1>0, <1>2, <2>2 DEF Joins
  <2> QED BY <1>3, <2>1, <2>3 DEF Reaches
<1>4. ~SourceBelow(q, a)
  <2> SUFFICES ASSUME SourceBelow(q, a) PROVE FALSE
    OBVIOUS
  <2>1. PICK u \in Routes[a.class] : Reaches(u, a.obj, q.src, q.at)
    BY DEF SourceBelow
  <2>2. PICK z \in Routes[whole] : Reaches(z, Origin, q.src, q.at) /\ ~z.public
    BY <1>3, <2>1
  <2> QED BY <2>2 DEF Crossed
<1>5. t \notin Ends(q, a)
  <2> SUFFICES ASSUME t \in Ends(q, a) PROVE FALSE
    OBVIOUS
  <2>1. PICK u \in Routes[a.class] : Reaches(u, a.obj, q.dst, t)
    BY DEF Ends
  <2>2. PICK z \in Routes[whole] : Reaches(z, Origin, q.dst, t) /\ ~z.public
    BY <1>3, <2>1
  <2> QED BY <2>2 DEF Crossed
<1> QED BY <1>4, <1>5

\* The same of the loop, where Q tells that the source was seen.
KeptOn(q, t, a, P, Q, r) ==
  /\ r.done => Kept(q, t, Ends(q, a), SourceBelow(q, a), r)
  /\ ~r.done => Kept(q, t, P, Q, r)

LEMMA VisitKept ==
  ASSUME Hierarchy, Laid, NEW q, IsCast(q), NEW t, Wanted(q, t), t # NULL, NEW a \in Scans,
         NEW i \in DOMAIN bases[a.class], Reached(q, ScanBase(a, i)),
         NEW E, NEW E2, E \cup E2 \subseteq Ends(q, a), E2 = Ends(q, ScanBase(a, i)),
         NEW Q, NEW Q2, Q2 <=> SourceBelow(q, ScanBase(a, i)),
         NEW r \in DynResult, NEW r2 \in DynResult,
         ~r.lost => ResultTrue(q, r) /\ KeptOn(q, t, a, E, Q, r),
         ~r2.lost => ResultTrue(q, r2) /\ Kept(q, t, E2, Q2, r2),
         NEW s, s = VisitBase(q, a, r, i, r2), ~s.lost
  PROVE  KeptOn(q, t, a, E \cup E2, Q \/ Q2, s)
<1>0. q \in Casts /\ q.dst \in Classes
  BY CastFacts
<1>2. Two(Ends(q, a)) => "repeat" \in flags[a.class]
  BY <1>0, TwoAreKnown
<1>3. CASE r.done
  BY <1>3 DEF VisitBase, KeptOn
<1>4. CASE ~r.done /\ NothingHidden(q, a.class, r, i)
  <2>1. s = r
    BY <1>4 DEF VisitBase
  <2>2. Crossed(q, t)
    BY <1>4, HeldIsFound DEF NothingHidden, Wanted
  <2>3. "public" \notin ScanBase(a, i).access
    <3>1. ScanBase(a, i).access = Access(bases[a.class][i], a.access)
      BY ScanBaseFields
    <3> QED BY <1>4, <3>1 DEF NothingHidden, Access
  <2>4. ~Q2 /\ t \notin E2
    <3>1. ScanBase(a, i) \in Scans
      BY ScanBaseFields
    <3> QED BY <2>2, <2>3, <3>1, NothingBehind
  <2>5. Kept(q, t, E, Q, r)
    BY <1>4, <2>1 DEF KeptOn
  <2>6. Kept(q, t, E \cup E2, Q \/ Q2, r)
    BY <2>4, <2>5 DEF Kept
  <2> QED BY <1>4, <2>1, <2>6 DEF KeptOn
<1>5. CASE ~r.done /\ ~NothingHidden(q, a.class, r, i)
  <2> DEFINE j == Joined(r, r2)
             m == MergeTarget(q, a.class, j, r2)
  <2>1. m = MergeTarget(q, a.class, j, r2)
    OBVIOUS
  <2>2. /\ j \in DynResult /\ j.whole2src = r.whole2src \cup r2.whole2src
        /\ j.lost <=> r.lost \/ r2.lost
        /\ j.dst = r.dst /\ j.dst2src = r.dst2src
        /\ j.ambig <=> r.ambig
        /\ j.done <=> r.done
    <3>1. j = Joined(r, r2)
      OBVIOUS
    <3> HIDE DEF j
    <3> QED BY <3>1, JoinedFields
  <2>3. ~r.lost /\ ~r2.lost => ResultTrue(q, j)
    BY JoinedTrue
  <2>4. s = StopAtPrivate(m)
    <3>1. Merge(q, a.class, r, r2) = m
      BY <1>0, VisitBaseType
    <3> HIDE DEF m
    <3> QED BY <1>5, <3>1, Zenon DEF VisitBase
  <2> HIDE DEF j, m
  <2>5. m \in DynResult /\ (~m.lost => ~j.lost) /\ m.whole2src = j.whole2src
    BY <1>0, <2>1, <2>2, MergeTargetFields
  <2>6. /\ SameSource(m, s) /\ SameTarget(m, s) /\ s.dst2src = m.dst2src
        /\ s.done <=> m.done \/ m.whole2src = PRIVATE
    <3>1. LET x == StopAtPrivate(m)
          IN  /\ SameSource(m, x) /\ SameTarget(m, x) /\ x.dst2src = m.dst2src
              /\ x.done <=> m.done \/ m.whole2src = PRIVATE
      BY <2>5, StopFields, Zenon
    <3> QED BY <2>4, <3>1, Zenon
  <2>7. ~m.lost /\ ~j.lost /\ ~r.lost /\ ~r2.lost
    BY <2>2, <2>5, <2>6 DEF SameSource
  <2>8. /\ ResultTrue(q, j) /\ ResultTrue(q, r2)
        /\ Kept(q, t, E, Q, r) /\ Kept(q, t, E2, Q2, r2)
    BY <1>5, <2>3, <2>7 DEF KeptOn
  <2>9. Kept(q, t, E, Q \/ Q2, j) /\ ~j.done
    BY <1>5, <2>2, <2>8 DEF Kept, Empty
  <2>10. PICK B : B = SourceBelow(q, a)
    OBVIOUS
  <2>11. PICK Q3 : Q3 <=> (Q \/ Q2)
    OBVIOUS
  <2>12. Kept(q, t, E, Q3, j)
    BY <2>9, <2>11 DEF Kept
  <2>13. /\ m.done => Kept(q, t, Ends(q, a), B, m)
         /\ ~m.done => Kept(q, t, E \cup E2, Q3, m)
    <3>1. PICK All : All = Ends(q, a)
      OBVIOUS
    <3>2. E \cup E2 \subseteq All /\ (Two(All) => "repeat" \in flags[a.class])
      BY <1>2, <3>1
    <3>3. ~m.lost /\ ~j.done /\ m = MergeTarget(q, a.class, j, r2)
      BY <2>1, <2>7, <2>9
    <3>4. /\ ResultTrue(q, j) /\ ResultTrue(q, r2) /\ j \in DynResult
          /\ Kept(q, t, E, Q3, j) /\ Kept(q, t, E2, Q2, r2)
      BY <2>2, <2>8, <2>12
    <3>5. /\ m.done => \A b : Kept(q, t, All, b, m)
          /\ ~m.done => Kept(q, t, E \cup E2, Q3, m)
      BY <3>2, <3>3, <3>4, MergeKept
    <3> QED BY <3>1, <3>5
  <2>14. m.whole2src # PRIVATE
    <3>1. SourceTrue(q, m.whole2src) /\ PRIVATE # {}
      BY <2>5, <2>8 DEF ResultTrue, PRIVATE
    <3> QED BY <3>1, SourceIsOpen
  <2>15. /\ s.done <=> m.done
         /\ s.dst = m.dst /\ s.dst2src = m.dst2src /\ s.whole2src = m.whole2src
         /\ s.ambig <=> m.ambig
    BY <2>6, <2>14 DEF SameSource, SameTarget
  <2>16. /\ s.done => Kept(q, t, Ends(q, a), B, s)
         /\ ~s.done => Kept(q, t, E \cup E2, Q3, s)
    <3>1. \A P, b : Kept(q, t, P, b, m) => Kept(q, t, P, b, s)
      BY <2>15 DEF Kept, Empty
    <3> QED BY <2>13, <2>15, <3>1
  <2>17. ~s.done => Kept(q, t, E \cup E2, Q \/ Q2, s)
    BY <2>11, <2>16 DEF Kept
  <2> QED BY <2>10, <2>16, <2>17 DEF KeptOn
<1> QED BY <1>3, <1>4, <1>5

\* Is the source in the bases that the first k steps of the loop have seen?
SourceSeen(q, a, k) ==
  \E j \in 1 .. k : IsDue(q, a, j) /\ SourceBelow(q, ScanBase(a, BaseAt(a.class, j)))

LEMMA SourceSeenStep ==
  ASSUME Hierarchy, NEW q, NEW a \in Scans, NEW k \in 1 .. 2 * Len(bases[a.class])
  PROVE  /\ IsDue(q, a, k) => (SourceSeen(q, a, k) <=>
              SourceSeen(q, a, k - 1) \/ SourceBelow(q, ScanBase(a, BaseAt(a.class, k))))
         /\ ~IsDue(q, a, k) => (SourceSeen(q, a, k) <=> SourceSeen(q, a, k - 1))
<1>1. k \in Nat /\ \A j : j \in 1 .. k <=> j \in 1 .. k - 1 \/ j = k
  <2>1. a.class \in Classes
    BY DEF Scans
  <2>2. Len(bases[a.class]) \in Nat
    BY <2>1, BaseAtFacts
  <2> QED BY <2>2
<1> HIDE DEF IsDue, ScanBase, BaseAt, SourceBelow
<1> QED BY <1>1 DEF SourceSeen

LEMMA SourceIsSeen ==
  ASSUME Hierarchy, NEW q, NEW a \in Scans, ~IsSource(q, a), SourceBelow(q, a)
  PROVE  SourceSeen(q, a, 2 * Len(bases[a.class]))
<1>1. PICK i \in DOMAIN bases[a.class] : SourceBelow(q, ScanBase(a, i))
  BY SourceSplit
<1>2. PICK j \in 1 .. 2 * Len(bases[a.class]) : IsDue(q, a, j) /\ BaseAt(a.class, j) = i
  BY EachIsDue
<1> QED BY <1>1, <1>2 DEF SourceSeen

LEMMA LoopKept ==
  ASSUME Hierarchy, Laid, NEW q, IsCast(q), NEW t, Wanted(q, t), t # NULL, NEW a \in Scans,
         ~IsSource(q, a), a.class # q.dst, NEW answers,
         \A i \in DOMAIN bases[a.class] :
           /\ Reached(q, ScanBase(a, i)) /\ answers[i] \in DynResult
           /\ ~answers[i].lost => /\ ResultTrue(q, answers[i])
                                  /\ Kept(q, t, Ends(q, ScanBase(a, i)),
                                          SourceBelow(q, ScanBase(a, i)), answers[i]),
         NEW s, s = AllScanned(q, a, answers), ~s.lost
  PROVE  Kept(q, t, Ends(q, a), SourceBelow(q, a), s)
<1> DEFINE n == 2 * Len(bases[a.class])
           D == 0 .. n
           rank == [k \in D |-> k]
<1>0. /\ q \in Casts /\ a.class \in Classes /\ Details(a.class, a.details) \in SUBSET DETAILS
      /\ KindSets
  BY FlagsFacts, KindSetsFacts DEF IsCast, Scans
<1>1. n \in Nat /\ \A k \in 1 .. n : BaseAt(a.class, k) \in DOMAIN bases[a.class]
  BY <1>0, BaseAtFacts
<1>2. PICK after : AreScans(after, q, a, answers) /\ s = after[n]
  BY <1>0, AllScannedFacts
<1> DEFINE G == {k \in D : ~after[k].lost =>
                   /\ ResultTrue(q, after[k])
                   /\ KeptOn(q, t, a, Seen(q, a, k), SourceSeen(q, a, k), after[k])}
<1>3. ASSUME NEW k \in D, \A y \in D : rank[y] < rank[k] => y \in G
      PROVE  k \in G
  <2>1. CASE k = 0
    <3>1. after[0] = Fresh(Details(a.class, a.details))
      BY <1>2 DEF AreScans
    <3>2. ResultTrue(q, after[0])
      BY <1>0, <3>1, FreshFields DEF ResultTrue, SourceTrue, TargetTrue, InTrue, Contained
    <3>3. \A j : ~(j \in 1 .. 0)
      OBVIOUS
    <3>4. Seen(q, a, 0) = {} /\ ~SourceSeen(q, a, 0)
      BY <3>3 DEF Seen, SourceSeen
    <3>5. KeptOn(q, t, a, Seen(q, a, 0), SourceSeen(q, a, 0), after[0])
      <4>1. /\ ~after[0].done /\ after[0].dst = NULL /\ ~after[0].ambig
            /\ after[0].dst2src = UNKNOWN
        BY <1>0, <3>1, FreshFields DEF UNKNOWN
      <4> QED BY <1>0, <3>4, <4>1 DEF KeptOn, Kept, KindSets
    <3> QED BY <2>1, <3>2, <3>5
  <2>2. CASE k # 0
    <3>1. k - 1 \in D /\ rank[k - 1] < rank[k] /\ k \in 1 .. n
      BY <1>1, <2>2
    <3>2. ~after[k - 1].lost =>
            /\ ResultTrue(q, after[k - 1])
            /\ KeptOn(q, t, a, Seen(q, a, k - 1), SourceSeen(q, a, k - 1), after[k - 1])
      <4>1. k - 1 \in G
        <5> HIDE DEF D, rank, G
        <5> QED BY <1>3, <3>1
      <4> QED BY <4>1
    <3> DEFINE i == BaseAt(a.class, k)
               E2 == Ends(q, ScanBase(a, i))
               Q2 == SourceBelow(q, ScanBase(a, i))
    <3>3. i \in DOMAIN bases[a.class]
      BY <1>1, <3>1
    <3>4. after[k - 1] \in DynResult /\ after[k] = ScanStep(q, a, after[k - 1], k, answers)
      <4> HIDE DEF n
      <4> QED BY <1>1, <1>2, <3>1 DEF AreScans, n
    <3>5. CASE IsDue(q, a, k)
      <4>1. after[k] = VisitBase(q, a, after[k - 1], i, answers[i])
        BY <3>4, <3>5 DEF ScanStep
      <4>2. /\ Seen(q, a, k) = Seen(q, a, k - 1) \cup E2
            /\ Seen(q, a, k) \subseteq Ends(q, a)
            /\ SourceSeen(q, a, k) <=> SourceSeen(q, a, k - 1) \/ Q2
        BY <3>1, <3>5, SeenStep, SourceSeenStep
      <4>3. /\ answers[i] \in DynResult /\ Reached(q, ScanBase(a, i))
            /\ ~answers[i].lost => ResultTrue(q, answers[i]) /\ Kept(q, t, E2, Q2, answers[i])
        BY <3>3
      <4>e. E2 = Ends(q, ScanBase(a, i)) /\ (Q2 <=> SourceBelow(q, ScanBase(a, i)))
        OBVIOUS
      <4> HIDE DEF i, E2, Q2, D, G, rank, n
      <4>4. ~after[k].lost => ResultTrue(q, after[k])
        BY <1>0, <3>2, <3>4, <4>1, <4>3, VisitTrue
      <4>5. ~after[k].lost => KeptOn(q, t, a, Seen(q, a, k - 1) \cup E2,
                                     SourceSeen(q, a, k - 1) \/ Q2, after[k])
        BY <3>2, <3>3, <3>4, <4>1, <4>2, <4>3, <4>e, VisitKept
      <4>6. ~after[k].lost =>
              KeptOn(q, t, a, Seen(q, a, k), SourceSeen(q, a, k), after[k])
        BY <4>2, <4>5 DEF KeptOn, Kept
      <4> QED BY <4>4, <4>6 DEF G
    <3>6. CASE ~IsDue(q, a, k)
      <4>1. after[k] = after[k - 1]
        BY <3>4, <3>6 DEF ScanStep
      <4>2. /\ Seen(q, a, k) = Seen(q, a, k - 1)
            /\ SourceSeen(q, a, k) <=> SourceSeen(q, a, k - 1)
        BY <3>1, <3>6, SeenStep, SourceSeenStep
      <4>3. ~after[k].lost =>
              KeptOn(q, t, a, Seen(q, a, k), SourceSeen(q, a, k), after[k])
        BY <3>2, <4>1, <4>2 DEF KeptOn, Kept
      <4> QED BY <3>2, <4>1, <4>3
    <3> QED BY <3>5, <3>6
  <2> QED BY <2>1, <2>2
<1>4. rank \in [D -> Nat]
  BY <1>1
<1>5. D \subseteq G
  <2> HIDE DEF D, rank, G
  <2> QED BY <1>3, <1>4, ByRank
<1>6. KeptOn(q, t, a, Seen(q, a, n), SourceSeen(q, a, n), s)
  BY <1>1, <1>2, <1>5
<1>7. Seen(q, a, n) = Ends(q, a) /\ (SourceBelow(q, a) => SourceSeen(q, a, n))
  BY AllSeen, SourceIsSeen
<1> HIDE DEF n, D, rank, G
<1> QED BY <1>6, <1>7 DEF KeptOn, Kept

LEMMA NodeKept ==
  ASSUME Hierarchy, Laid, NEW q, IsCast(q), NEW t, Wanted(q, t), t # NULL
  PROVE  \A a \in Scans :
           Reached(q, a) /\ ~ScanOf(q)[a].lost
             => Kept(q, t, Ends(q, a), SourceBelow(q, a), ScanOf(q)[a])
<1> DEFINE scan == ScanOf(q)
           rank == [a \in Scans |-> a.class]
           G == {a \in Scans : Reached(q, a) /\ ~scan[a].lost
                                 => Kept(q, t, Ends(q, a), SourceBelow(q, a), scan[a])}
<1>0. q \in Casts /\ q.dst \in Classes /\ KindSets
  BY CastFacts, KindSetsFacts
<1>1. rank \in [Scans -> Nat]
  BY ClassFacts DEF Scans
<1>2. ASSUME NEW a \in Scans, \A y \in Scans : rank[y] < rank[a] => y \in G
      PROVE  a \in G
  <2> SUFFICES ASSUME Reached(q, a), ~scan[a].lost
               PROVE  Kept(q, t, Ends(q, a), SourceBelow(q, a), scan[a])
    OBVIOUS
  <2> DEFINE answers == ScanAnswers(q, a)
  <2>1. a.class \in Classes /\ a.obj \in Nat
    BY DEF Scans
  <2>2. /\ scan[a] = ScanBy(q, a, answers) /\ scan[a] \in DynResult
        /\ ResultTrue(q, scan[a])
    BY <1>0, ScanFacts, NodeTrue
  <2>3. PICK v \in Routes[whole] : Reaches(v, Origin, a.class, a.obj) /\ a.access = KindOf(v)
    BY DEF Reached
  <2>4. ASSUME NEW i \in DOMAIN bases[a.class], a.class # q.dst
        PROVE  /\ Reached(q, ScanBase(a, i)) /\ answers[i] \in DynResult
               /\ answers[i] = scan[ScanBase(a, i)]
               /\ ~answers[i].lost => /\ ResultTrue(q, answers[i])
                                      /\ Kept(q, t, Ends(q, ScanBase(a, i)),
                                              SourceBelow(q, ScanBase(a, i)), answers[i])
    <3>1. ScanBase(a, i) \in Scans /\ rank[ScanBase(a, i)] < rank[a]
      BY ScanBaseFields
    <3>2. Reached(q, ScanBase(a, i))
      BY <2>4, ReachedBelow
    <3>4. ScanBase(a, i) \in G
      <4> HIDE DEF rank, G
      <4> QED BY <1>2, <3>1
    <3>5. answers[i] = scan[ScanBase(a, i)]
      BY DEF ScanAnswers
    <3>6. scan[ScanBase(a, i)] \in DynResult
      BY <1>0, <3>1, ScanFacts
    <3>7. ~scan[ScanBase(a, i)].lost => ResultTrue(q, scan[ScanBase(a, i)])
      BY <3>1, <3>2, NodeTrue
    <3> QED BY <3>2, <3>4, <3>5, <3>6, <3>7
  <2> HIDE DEF scan, answers, rank, G
  <2>5. CASE IsSource(q, a)
    <3>1. scan[a] = AsSource(a)
      BY <1>0, <2>2, <2>5, ScanByCases
    <3>2. /\ scan[a].dst = NULL /\ scan[a].dst2src = {} /\ ~scan[a].ambig
          /\ scan[a].whole2src = a.access
      BY <3>1, ScanHereFields
    <3>3. Ends(q, a) = {}
      BY <2>5 DEF IsCast, IsSource, Ends, Reaches
    <3>4. a.access # {}
      BY <2>3 DEF KindOf
    <3> QED BY <1>0, <3>2, <3>3, <3>4 DEF Kept, KindSets
  <2>6. CASE ~IsSource(q, a) /\ a.class = q.dst
    <3> DEFINE k == AtTarget(q, a)
    <3>1. scan[a] = AsTarget(a, k) /\ k \in SUBSET BITS
      BY <1>0, <2>2, <2>6, ScanByCases
    <3>2. scan[a].dst = a.obj /\ scan[a].dst2src = k /\ ~scan[a].ambig
      BY <3>1, ScanHereFields
    <3>3. Subobject(q.dst, a.obj)
      BY <2>3, <2>6 DEF Subobject, Reaches
    <3>4. a.obj # NULL
      BY <3>3, NotNull
    <3>5. Ends(q, a) = {a.obj}
      BY <2>6, EndsHere
    <3>6. k \in {UNKNOWN, NOT, PUBLIC}
      BY <1>0, <2>1, FindType DEF AtTarget
    <3>7. Held(q, t) /\ a.obj = t => k # NOT
      BY <1>0, <2>6, HeldIsFound DEF AtTarget, KindSets
    <3>8. ~(Crossed(q, t) /\ SourceBelow(q, a))
      BY <2>6, <3>3 DEF Crossed, HoldsBy, SourceBelow
    <3> QED BY <1>0, <3>2, <3>4, <3>5, <3>6, <3>7, <3>8 DEF Kept, Empty, KindSets
  <2>7. CASE ~IsSource(q, a) /\ a.class # q.dst
    <3>1. CASE IsLeaf(a.class)
      <4>1. scan[a] = Blank(a)
        BY <1>0, <2>2, <2>7, <3>1, ScanByCases
      <4>2. Ends(q, a) = {} /\ ~SourceBelow(q, a)
        <5>1. DOMAIN bases[a.class] = {}
          BY <3>1 DEF IsLeaf
        <5> QED BY <2>7, <5>1, EndsBelow, SourceSplit
      <4>3. scan[a].dst = NULL /\ scan[a].dst2src = {} /\ ~scan[a].ambig
        BY <4>1, ScanHereFields
      <4> QED BY <1>0, <4>2, <4>3 DEF Kept, KindSets
    <3>2. CASE IsSi(a.class)
      <4>1. scan[a] = answers[1]
        BY <1>0, <2>2, <2>7, <3>2, ScanByCases
      <4>2. 1 \in DOMAIN bases[a.class] /\ \A i \in DOMAIN bases[a.class] : i = 1
        BY <2>1, <3>2, BaseFacts DEF IsSi
      <4>3. Ends(q, a) = Ends(q, ScanBase(a, 1))
        <5>1. Ends(q, ScanBase(a, 1)) \subseteq Ends(q, a)
          BY <2>7, <4>2, EndsBelow
        <5>2. \A p \in Ends(q, a) : p \in Ends(q, ScanBase(a, 1))
          BY <2>7, <4>2, EndsBelow
        <5> QED BY <5>1, <5>2
      <4>4. SourceBelow(q, a) <=> SourceBelow(q, ScanBase(a, 1))
        BY <2>7, <4>2, SourceSplit
      <4>5. Kept(q, t, Ends(q, ScanBase(a, 1)), SourceBelow(q, ScanBase(a, 1)), scan[a])
        BY <2>4, <2>7, <4>1, <4>2 DEF scan
      <4> QED BY <4>3, <4>4, <4>5 DEF Kept
    <3>3. CASE IsVmi(a.class)
      <4>1. scan[a] = AllScanned(q, a, answers)
        BY <1>0, <2>2, <2>7, <3>3, ScanByCases
      <4> QED BY <2>4, <2>7, <4>1, LoopKept DEF scan
    <3> QED BY <1>0, <3>1, <3>2, <3>3, ScanByCases
  <2> QED BY <2>5, <2>6, <2>7
<1>3. Scans \subseteq G
  <2> HIDE DEF rank, G
  <2> QED BY <1>1, <1>2, ByRank
<1> QED BY <1>3

LEMMA WantedIsFound ==
  ASSUME Hierarchy, Laid, NEW q, IsCast(q), NEW t, Wanted(q, t),
         NEW r, r = ScanOf(q)[Start], ~r.lost
  PROVE  TargetOf(q, r) = t
<1>0. q \in Casts /\ KindSets
  BY CastFacts, KindSetsFacts
<1>1. Start \in Scans /\ Start.class = whole /\ Start.obj = Origin /\ Reached(q, Start)
  BY ReachedWhole
<1>2. r \in DynResult /\ ResultTrue(q, r)
  BY <1>0, <1>1, ScanFacts, NodeTrue
<1>3. Subobject(q.dst, t) /\ t # NULL
  <2>1. Subobject(q.dst, t)
    BY DEF Wanted, Held, Crossed, HoldsBy
  <2> QED BY <2>1, NotNull
<1>4. Kept(q, t, Ends(q, Start), SourceBelow(q, Start), r)
  BY <1>1, <1>3, NodeKept
<1>5. r.dst = t
  BY <1>3, <1>4, EndsWhole DEF Kept
<1> DEFINE down == IF r.dst2src = UNKNOWN THEN FindPublicSrc(q, r.dst) ELSE r.dst2src
           crosses == Publicly(r.whole2src \cap r.whole2dst)
           hidden == Contained(r.whole2src) /\ ~Virtual(r.whole2src)
<1>6. Publicly(r.dst2src) \/ crosses \/ (~hidden /\ Publicly(down)) => TargetOf(q, r) = t
  BY <1>3, <1>5 DEF TargetOf
<1>7. SourceTrue(q, r.whole2src) /\ TargetTrue(q, t, r.whole2dst)
  BY <1>2, <1>5 DEF ResultTrue
<1>8. CASE Held(q, t)
  <2>1. r.dst2src \in KINDS \cup {UNKNOWN} /\ r.dst2src # NOT
    BY <1>4, <1>5, <1>8 DEF Kept
  <2>2. CASE r.dst2src = UNKNOWN
    <3>1. Publicly(down)
      BY <1>0, <1>5, <1>8, <2>2, HeldIsFound DEF KindSets
    <3>2. ~hidden
      BY <1>7, <1>8, SourceIsOpen DEF Contained
    <3> QED BY <1>6, <3>1, <3>2
  <2>3. CASE r.dst2src # UNKNOWN
    BY <1>0, <1>6, <2>1, <2>3 DEF KindSets
  <2> QED BY <2>2, <2>3
<1>9. CASE Crossed(q, t)
  <2>1. SourceBelow(q, Start)
    <3>1. Subobject(q.src, q.at)
      BY DEF IsCast
    <3> QED BY <1>1, <3>1 DEF SourceBelow, Subobject, Reaches
  <2>2. PUBLIC \subseteq r.whole2src
    BY <1>4, <1>7, <1>9, <2>1, SourceIsOpen DEF Kept
  <2>3. PICK v \in Routes[whole] : Reaches(v, Origin, q.dst, t) /\ KindOf(v) \subseteq r.whole2dst
    BY <1>3, <1>7 DEF TargetTrue
  <2>4. PUBLIC \subseteq r.whole2dst
    BY <1>9, <2>3 DEF Crossed, KindOf, PUBLIC
  <2>5. crosses
    BY <2>2, <2>4 DEF Publicly
  <2> QED BY <1>6, <2>5
<1> QED BY <1>8, <1>9 DEF Wanted

\* All ways to one part of the object are public, or none.
Even == AllPublic(whole) \/ ~Diamond(whole)

LEMMA EvenFacts ==
  ASSUME Hierarchy, Even, NEW v \in Routes[whole], NEW w \in Routes[whole],
         v.type = w.type, Place(v, Origin) = Place(w, Origin), v.public
  PROVE  w.public
<1>0. whole \in Classes /\ Origin \in Nat
  BY ClassFacts DEF Hierarchy
<1>1. CASE AllPublic(whole)
  BY <1>1 DEF AllPublic
<1>2. CASE ~Diamond(whole)
  <2>1. CASE v.virtual /\ w.virtual
    <3>1. SameObject(v, w)
      <4>1. v.virtual \in BOOLEAN /\ w.virtual \in BOOLEAN
        BY <1>0, RoutesSplit DEF Way
      <4> QED BY <2>1, <4>1 DEF SameObject, Place
    <3>2. v.route = w.route
      BY <1>2, <3>1 DEF Diamond
    <3> QED BY <1>0, <3>2, RouteIsWay
  <2>2. CASE ~v.virtual
    BY <2>2, StraightWay
  <2>3. CASE ~w.virtual
    BY <2>3, StraightWay
  <2> QED BY <2>1, <2>2, <2>3
<1> QED BY <1>1, <1>2 DEF Even

\* There is only one target, and it and the source are public.
Only(q, t) ==
  /\ Subobject(q.dst, t) /\ \A p : Subobject(q.dst, p) => p = t
  /\ PublicTo(q.src, q.at) /\ PublicTo(q.dst, t)

\* The target that the language names holds the source, or is the only one.
LEMMA RightCastCases ==
  ASSUME Hierarchy, NEW q, q.dst \in Classes, RightCast(q) # NULL
  PROVE  Held(q, RightCast(q)) \/ Only(q, RightCast(q))
<1>0. whole \in Classes /\ Origin \in Nat
  BY ClassFacts DEF Hierarchy
<1> DEFINE ways == Ways(whole, Origin)
           dsts == {w.at : w \in {v \in ways : v.type = q.dst}}
           around == Around(q.dst, q.src, q.at, FALSE)
           down == Around(q.dst, q.src, q.at, TRUE)
           pub(c, at) == \E w \in ways : w.type = c /\ w.at = at /\ w.public
           t == RightCast(q)
<1>1. t = IF Cardinality(around) = 1 /\ down # {} THEN CHOOSE a \in down : TRUE
          ELSE IF pub(q.src, q.at) /\ \E a \in dsts : dsts = {a} /\ pub(q.dst, a)
          THEN CHOOSE a \in dsts : TRUE ELSE NULL
  BY DEF RightCast
<1>2. /\ \A p : p \in around <=> HoldsBy(q, p, FALSE)
      /\ \A p : p \in down <=> HoldsBy(q, p, TRUE)
  BY AroundFacts
<1>3. \A w \in Routes[whole] : \E v \in ways : v.type = w.type /\ v.at = Place(w, Origin)
  BY <1>0, WaysFields
<1>4. \A v \in ways : \E w \in Routes[whole] : /\ v.type = w.type /\ v.at = Place(w, Origin)
                                               /\ v.public = w.public
  BY <1>0, WaysFields
<1>5. \A p : p \in dsts <=> Subobject(q.dst, p)
  BY <1>3, <1>4 DEF Subobject
<1>6. \A c, at : pub(c, at) => PublicTo(c, at)
  BY <1>4 DEF PublicTo, Reaches
<1>7. \A p : HoldsBy(q, p, TRUE) => HoldsBy(q, p, FALSE)
  BY DEF HoldsBy
<1>8. IsFiniteSet(around)
  <2> DEFINE held == {v \in ways : v.type = q.dst /\ \E u \in Ways(q.dst, v.at) :
                                     u.type = q.src /\ u.at = q.at /\ (FALSE => u.public)}
             f == [w \in held |-> w.at]
  <2>1. IsFiniteSet(ways)
    BY <1>0, WaysFinite
  <2>2. IsFiniteSet(held)
    <3> HIDE DEF ways
    <3> QED BY <2>1, FS_Subset
  <2>3. around = {w.at : w \in held}
    BY DEF Around
  <2>4. f \in Surjection(held, around)
    <3>1. f \in [held -> around]
      BY <2>3
    <3>2. \A p \in around : \E w \in held : f[w] = p
      BY <2>3
    <3> HIDE DEF f, held, around
    <3> QED BY <3>1, <3>2 DEF Surjection
  <2> HIDE DEF f, held, around
  <2> QED BY <2>2, <2>4, FS_Surjection
<1> HIDE DEF ways, dsts, around, down, pub, t
<1>9. CASE Cardinality(around) = 1 /\ down # {}
  <2>1. PICK x : around = {x}
    BY <1>8, <1>9, FS_Singleton
  <2>2. t \in down
    BY <1>1, <1>9
  <2>3. HoldsBy(q, t, TRUE) /\ t = x
    BY <1>2, <1>7, <2>1, <2>2
  <2>4. \A p : HoldsBy(q, p, FALSE) => p = t
    BY <1>2, <2>1, <2>3
  <2> QED BY <2>3, <2>4 DEF Held, t
<1>10. CASE ~(Cardinality(around) = 1 /\ down # {})
  <2>1. /\ PublicTo(q.src, q.at) /\ PublicTo(q.dst, t) /\ dsts = {t}
    <3>1. t # NULL
      BY DEF t
    <3>2. pub(q.src, q.at) /\ \E a \in dsts : dsts = {a} /\ pub(q.dst, a)
      BY <1>1, <1>10, <3>1
    <3>3. t = CHOOSE a \in dsts : TRUE
      BY <1>1, <1>10, <3>2
    <3> QED BY <1>6, <3>2, <3>3
  <2>2. Subobject(q.dst, t) /\ \A p : Subobject(q.dst, p) => p = t
    BY <1>5, <2>1
  <2> QED BY <2>1, <2>2 DEF Only, t
<1> QED BY <1>9, <1>10

LEMMA RightIsWanted ==
  ASSUME Hierarchy, NEW q, q.dst \in Classes, Even, NEW t, t = RightCast(q), t # NULL
  PROVE  Wanted(q, t)
<1>0. whole \in Classes /\ Origin \in Nat
  BY ClassFacts DEF Hierarchy
<1>1. CASE Held(q, t)
  BY <1>1 DEF Wanted
<1>2. CASE Only(q, t)
  <2>1. Subobject(q.dst, t) /\ \A p : Subobject(q.dst, p) => p = t
    BY <1>2 DEF Only
  <2>2. \A p : HoldsBy(q, p, FALSE) => p = t
    BY <2>1 DEF HoldsBy
  <2>3. PICK y \in Routes[whole] : Reaches(y, Origin, q.src, q.at) /\ y.public
    BY <1>2 DEF Only, PublicTo
  <2>4. PICK w \in Routes[whole] : Reaches(w, Origin, q.dst, t) /\ w.public
    BY <1>2 DEF Only, PublicTo
  <2>5. CASE HoldsBy(q, t, FALSE)
    <3>1. PICK u \in Routes[q.dst] : Reaches(u, t, q.src, q.at)
      BY <2>5 DEF HoldsBy
    <3>2. PICK z \in Routes[whole] : Joins(z, w, u)
      BY <1>0, <2>4, <3>1, JoinedWays DEF Reaches
    <3>3. Reaches(z, Origin, q.src, q.at)
      <4>1. z.type = u.type /\ Place(z, Origin) = Place(u, Place(w, Origin))
        BY <1>0, <3>2 DEF Joins
      <4> QED BY <2>4, <3>1, <4>1 DEF Reaches
    <3>4. z.public
      BY <2>3, <3>3, EvenFacts DEF Reaches
    <3>5. u.public
      BY <3>2, <3>4 DEF Joins
    <3>6. HoldsBy(q, t, TRUE)
      BY <2>1, <3>1, <3>5 DEF HoldsBy
    <3> QED BY <2>2, <3>6 DEF Wanted, Held
  <2>6. CASE ~HoldsBy(q, t, FALSE)
    <3>1. \A v \in Routes[whole] : Reaches(v, Origin, q.src, q.at) => v.public
      BY <2>3, EvenFacts DEF Reaches
    <3>2. \A v \in Routes[whole] : Reaches(v, Origin, q.dst, t) => v.public
      BY <2>4, EvenFacts DEF Reaches
    <3> QED BY <2>1, <2>6, <3>1, <3>2 DEF Wanted, Crossed
  <2> QED BY <2>5, <2>6
<1> QED BY <1>1, <1>2, RightCastCases

-----------------------------------------------------------------------------
(* The hint of the compiler changes nothing. *)

\* The only target does not hold the source, but another object of its type.
Beside(q, t) ==
  /\ Only(q, t) /\ ~HoldsBy(q, t, TRUE) /\ q.hint # -2
  /\ \E u \in Routes[q.dst] : u.type = q.src /\ Place(u, t) # q.at

\* What a scan may come upon: a subobject, if open by a public way.
Goals == [class : Classes, at : Nat, open : BOOLEAN]
Goal(c, at, open) == [class |-> c, at |-> at, open |-> open]

Met(a) == {x \in Goals : \E u \in Routes[a.class] :
             /\ Reaches(u, a.obj, x.class, x.at)
             /\ x.open => u.public /\ "public" \in a.access}

LEMMA MetGoal ==
  ASSUME NEW c \in Classes, NEW at \in Nat, NEW open \in BOOLEAN, NEW a
  PROVE  /\ Goal(c, at, open) \in Goals
         /\ Goal(c, at, open).class = c /\ Goal(c, at, open).at = at
         /\ Goal(c, at, open) \in Met(a) <=>
              \E u \in Routes[a.class] : /\ Reaches(u, a.obj, c, at)
                                         /\ open => u.public /\ "public" \in a.access
<1>1. /\ Goal(c, at, open).class = c /\ Goal(c, at, open).at = at
      /\ Goal(c, at, open).open = open
  BY DEF Goal
<1>2. Goal(c, at, open) \in Goals
  BY DEF Goal, Goals
<1> QED BY <1>1, <1>2 DEF Met

LEMMA MetSplit ==
  ASSUME Hierarchy, NEW a \in Scans, NEW x \in Goals, ~(x.class = a.class /\ x.at = a.obj)
  PROVE  x \in Met(a) <=> \E i \in DOMAIN bases[a.class] : x \in Met(ScanBase(a, i))
<1>1. a.class \in Classes /\ a.obj \in Nat
  BY DEF Scans
<1>2. ASSUME NEW i \in DOMAIN bases[a.class]
      PROVE  /\ ScanBase(a, i).class = bases[a.class][i].type
             /\ "public" \in ScanBase(a, i).access <=>
                  bases[a.class][i].public /\ "public" \in a.access
             /\ \A v \in Routes[bases[a.class][i].type] :
                  /\ Through(a.class, i, v) \in Routes[a.class]
                  /\ Through(a.class, i, v).type = v.type
                  /\ Through(a.class, i, v).public <=> v.public /\ bases[a.class][i].public
                  /\ Place(Through(a.class, i, v), a.obj) = Place(v, ScanBase(a, i).obj)
  <2>1. /\ ScanBase(a, i).class = bases[a.class][i].type
        /\ ScanBase(a, i).obj = ConvertToBase(a.class, i, a.obj)
        /\ ScanBase(a, i).access = Access(bases[a.class][i], a.access)
    BY ScanBaseFields
  <2>2. "public" \in ScanBase(a, i).access <=>
          bases[a.class][i].public /\ "public" \in a.access
    BY <2>1 DEF Access
  <2> QED BY <1>1, <2>1, <2>2, Stepped
<1>3. ASSUME NEW i \in DOMAIN bases[a.class], x \in Met(ScanBase(a, i))
      PROVE  x \in Met(a)
  <2>1. PICK v \in Routes[bases[a.class][i].type] :
          /\ Reaches(v, ScanBase(a, i).obj, x.class, x.at)
          /\ x.open => v.public /\ "public" \in ScanBase(a, i).access
    BY <1>2, <1>3 DEF Met
  <2>2. Reaches(Through(a.class, i, v), a.obj, x.class, x.at)
    BY <1>2, <2>1 DEF Reaches
  <2> QED BY <1>2, <2>1, <2>2 DEF Met
<1>4. ASSUME x \in Met(a)
      PROVE  \E i \in DOMAIN bases[a.class] : x \in Met(ScanBase(a, i))
  <2>1. PICK w \in Routes[a.class] : /\ Reaches(w, a.obj, x.class, x.at)
                                     /\ x.open => w.public /\ "public" \in a.access
    BY <1>4 DEF Met
  <2>2. w # Here(a.class)
    BY <1>1, <2>1, HereFacts DEF Reaches, Place
  <2>3. PICK i \in DOMAIN bases[a.class] : \E v \in Routes[bases[a.class][i].type] :
          w = Through(a.class, i, v)
    BY <1>1, <2>2, RoutesSplit
  <2>4. PICK v \in Routes[bases[a.class][i].type] : w = Through(a.class, i, v)
    BY <2>3
  <2>5. /\ Reaches(v, ScanBase(a, i).obj, x.class, x.at)
        /\ x.open => v.public /\ "public" \in ScanBase(a, i).access
    BY <1>2, <2>1, <2>4 DEF Reaches
  <2> QED BY <1>2, <2>5 DEF Met
<1> QED BY <1>3, <1>4

\* What the first k steps of the loop have met.
MetBy(q, a, k) ==
  {x \in Goals : \E j \in 1 .. k : /\ IsDue(q, a, j)
                                   /\ x \in Met(ScanBase(a, BaseAt(a.class, j)))}

LEMMA MetStep ==
  ASSUME Hierarchy, NEW q, NEW a \in Scans
  PROVE  \A k \in 1 .. 2 * Len(bases[a.class]) :
           /\ IsDue(q, a, k) => MetBy(q, a, k) = MetBy(q, a, k - 1)
                                  \cup Met(ScanBase(a, BaseAt(a.class, k)))
           /\ ~IsDue(q, a, k) => MetBy(q, a, k) = MetBy(q, a, k - 1)
<1> TAKE k \in 1 .. 2 * Len(bases[a.class])
<1>1. k \in Nat /\ \A j : j \in 1 .. k <=> j \in 1 .. k - 1 \/ j = k
  <2>1. a.class \in Classes
    BY DEF Scans
  <2>2. Len(bases[a.class]) \in Nat
    BY <2>1, BaseAtFacts
  <2> QED BY <2>2
<1>2. Met(ScanBase(a, BaseAt(a.class, k))) \subseteq Goals
  BY DEF Met
<1> HIDE DEF IsDue, ScanBase, BaseAt, Met
<1>5. \A x : x \in MetBy(q, a, k) <=>
               \/ x \in MetBy(q, a, k - 1)
               \/ IsDue(q, a, k) /\ x \in Met(ScanBase(a, BaseAt(a.class, k)))
  BY <1>1, <1>2 DEF MetBy
<1> QED BY <1>5

LEMMA MetAll ==
  ASSUME Hierarchy, NEW q, NEW a \in Scans, NEW x \in Goals, ~(x.class = a.class /\ x.at = a.obj)
  PROVE  /\ x \in Met(a) <=> x \in MetBy(q, a, 2 * Len(bases[a.class]))
         /\ \A k \in 1 .. 2 * Len(bases[a.class]) :
              x \in MetBy(q, a, k) => x \in Met(a)
<1> DEFINE n == 2 * Len(bases[a.class])
<1>1. ASSUME x \in Met(a) PROVE x \in MetBy(q, a, n)
  <2>1. PICK i \in DOMAIN bases[a.class] : x \in Met(ScanBase(a, i))
    BY <1>1, MetSplit
  <2>2. PICK j \in 1 .. n : IsDue(q, a, j) /\ BaseAt(a.class, j) = i
    BY EachIsDue
  <2> QED BY <2>1, <2>2 DEF MetBy
<1>2. a.class \in Classes
  BY DEF Scans
<1>3. n \in Nat /\ \A j \in 1 .. n : BaseAt(a.class, j) \in DOMAIN bases[a.class]
  BY <1>2, BaseAtFacts
<1>4. ASSUME NEW k \in 0 .. n, x \in MetBy(q, a, k) PROVE x \in Met(a)
  <2>1. PICK j \in 1 .. k : x \in Met(ScanBase(a, BaseAt(a.class, j)))
    BY <1>4 DEF MetBy
  <2>2. BaseAt(a.class, j) \in DOMAIN bases[a.class]
    <3>1. j \in 1 .. n
      BY <1>3
    <3> QED BY <1>3, <3>1
  <2> QED BY <2>1, <2>2, MetSplit
<1>5. n \in 0 .. n /\ \A k \in 1 .. n : k \in 0 .. n
  BY <1>3
<1> QED BY <1>1, <1>4, <1>5

\* A class above the target and the source knows that a base is repeated.
LEMMA BesideIsKnown ==
  ASSUME Hierarchy, NEW q, q.src \in Classes, q.dst \in Classes, q.at \in Nat,
         NEW t \in Nat, Beside(q, t), NEW a \in Scans,
         Goal(q.dst, t, FALSE) \in Met(a), Goal(q.src, q.at, FALSE) \in Met(a)
  PROVE  "repeat" \in flags[a.class]
<1>1. a.class \in Classes /\ a.obj \in Nat
  BY DEF Scans
<1>2. PICK w \in Routes[a.class] : Reaches(w, a.obj, q.dst, t)
  BY MetGoal
<1>3. PICK v \in Routes[a.class] : Reaches(v, a.obj, q.src, q.at)
  BY MetGoal
<1>4. PICK u \in Routes[q.dst] : u.type = q.src /\ Place(u, t) # q.at
  BY DEF Beside
<1>5. PICK z \in Routes[a.class] : Joins(z, w, u)
  BY <1>1, <1>2, <1>4, JoinedWays DEF Reaches
<1>6. z.type = q.src /\ Place(z, a.obj) # q.at
  BY <1>1, <1>2, <1>4, <1>5 DEF Joins, Reaches
<1>7. v.type = z.type /\ ~SameObject(v, z)
  BY <1>3, <1>6 DEF SameObject, Reaches, Place
<1>8. Repeats(a.class)
  BY <1>7 DEF Repeats
<1> QED BY <1>1, <1>8, FlagsFacts

\* The walk does not stop at a source that is public.
LEMMA PublicIsOpen ==
  ASSUME Hierarchy, NEW q, NEW t, Only(q, t), NEW k, SourceTrue(q, k), k # {}
  PROVE  k # PRIVATE
<1>1. PICK v \in Routes[whole] : Reaches(v, Origin, q.src, q.at) /\ KindOf(v) \subseteq k
  BY DEF SourceTrue
<1>2. PICK y \in Routes[whole] : Reaches(y, Origin, q.src, q.at) /\ y.public
  BY DEF Only, PublicTo
<1> SUFFICES ASSUME k = PRIVATE PROVE FALSE
  OBVIOUS
<1>3. ~v.virtual /\ ~v.public
  BY <1>1 DEF KindOf, PRIVATE
<1>4. y = v
  BY <1>1, <1>2, <1>3, StraightWay DEF Reaches
<1> QED BY <1>2, <1>3, <1>4

\* The result r tells of the target where E was met, of the source where F was.
Told(q, t, E, F, r) ==
  /\ ~r.ambig /\ ~Better(r)
  /\ r.dst # NULL <=> Goal(q.dst, t, FALSE) \in E
  /\ r.whole2src # {} => Goal(q.src, q.at, FALSE) \in F
  /\ Goal(q.dst, t, TRUE) \in E => r.dst # NULL /\ PUBLIC \subseteq r.whole2dst
  /\ Goal(q.src, q.at, TRUE) \in F => PUBLIC \subseteq r.whole2src

LEMMA OnlyTarget ==
  ASSUME NEW q, NEW t, Only(q, t), NEW r, ResultTrue(q, r)
  PROVE  r.dst = NULL \/ r.dst = t
BY DEF Only, ResultTrue, TargetTrue

LEMMA MergeTold ==
  ASSUME Hierarchy, NEW q \in Casts, NEW t, Beside(q, t), NEW c,
         NEW r \in DynResult, NEW r2 \in DynResult, ResultTrue(q, r), ResultTrue(q, r2),
         NEW E, NEW E2, NEW F, NEW F2, Told(q, t, E, F, r), Told(q, t, E2, F2, r2), ~r.done,
         Goal(q.dst, t, FALSE) \in E2 /\ Goal(q.src, q.at, FALSE) \in F => "repeat" \in flags[c],
         NEW s, s = MergeTarget(q, c, r, r2)
  PROVE  ~s.done /\ Told(q, t, E \cup E2, F, s)
<1>1. s.whole2src = r.whole2src /\ Merged(q, c, r, r2, s)
  BY MergeTargetFields
<1>2. (r.dst = NULL \/ r.dst = t) /\ (r2.dst = NULL \/ r2.dst = t)
  BY OnlyTarget DEF Beside
<1>3. ~Better(r2) /\ UNKNOWN = {}
  BY DEF Told, UNKNOWN
<1>4. CASE Empty(r)
  <2>1. /\ s.dst = r2.dst /\ s.whole2dst = r2.whole2dst /\ s.dst2src = r.dst2src
        /\ s.ambig <=> r2.ambig
        /\ s.done => r2.dst # NULL /\ r.whole2src # {} /\ "repeat" \notin flags[c]
    BY <1>1, <1>3, <1>4 DEF Merged, SameTarget
  <2>2. ~s.done
    BY <2>1 DEF Told
  <2>3. ~Better(s)
    BY <2>1 DEF Told, Better
  <2>4. ~s.ambig /\ s.dst = r2.dst /\ s.whole2dst = r2.whole2dst
    BY <2>1 DEF Told
  <2>5. Goal(q.dst, t, FALSE) \notin E /\ Goal(q.dst, t, TRUE) \notin E
    BY <1>4 DEF Told, Empty
  <2> QED BY <1>1, <2>2, <2>3, <2>4, <2>5 DEF Told
<1>5. CASE ~Empty(r) /\ Same(r, r2)
  <2>1. /\ s.dst = r.dst /\ s.whole2dst = r.whole2dst \cup r2.whole2dst
        /\ s.dst2src = r.dst2src
        /\ s.ambig <=> r.ambig
        /\ ~s.done
    BY <1>1, <1>3, <1>5 DEF Merged
  <2>2. ~Better(s)
    BY <2>1 DEF Told, Better
  <2> QED BY <1>1, <1>5, <2>1, <2>2 DEF Told, Same
<1>6. CASE ~Empty(r) /\ ~Same(r, r2)
  <2>1. r.dst # NULL /\ r2.dst = NULL
    BY <1>2, <1>6 DEF Told, Empty, Same
  <2>2. ~Clash(r, r2)
    BY <2>1 DEF Told, Clash
  <2>3. s = r
    BY <1>1, <1>3, <1>6, <2>2 DEF Merged
  <2>4. Goal(q.dst, t, FALSE) \notin E2 /\ Goal(q.dst, t, TRUE) \notin E2
    BY <2>1 DEF Told
  <2>5. Told(q, t, E \cup E2, F, r)
    BY <2>1, <2>4 DEF Told
  <2> QED BY <2>3, <2>5
<1> QED BY <1>4, <1>5, <1>6

LEMMA VisitTold ==
  ASSUME Hierarchy, Laid, NEW q, IsCast(q), NEW t, Beside(q, t), NEW a \in Scans, NEW i,
         NEW E, NEW E2,
         Goal(q.dst, t, FALSE) \in E2 /\ Goal(q.src, q.at, FALSE) \in E \cup E2
           => "repeat" \in flags[a.class],
         NEW r \in DynResult, NEW r2 \in DynResult,
         ~r.lost => ResultTrue(q, r) /\ ~r.done /\ Told(q, t, E, E, r),
         ~r2.lost => ResultTrue(q, r2) /\ Told(q, t, E2, E2, r2),
         NEW s, s = VisitBase(q, a, r, i, r2), ~s.lost
  PROVE  ~s.done /\ Told(q, t, E \cup E2, E \cup E2, s)
<1>0. q \in Casts /\ ~NothingHidden(q, a.class, r, i)
  BY CastFacts DEF Beside, NothingHidden
<1>1. CASE r.done
  BY <1>1 DEF VisitBase
<1>2. CASE ~r.done
  <2> DEFINE j == Joined(r, r2)
             m == MergeTarget(q, a.class, j, r2)
  <2>1. m = MergeTarget(q, a.class, j, r2)
    OBVIOUS
  <2>2. /\ j \in DynResult /\ j.whole2src = r.whole2src \cup r2.whole2src
        /\ j.lost <=> r.lost \/ r2.lost
        /\ j.dst = r.dst /\ j.whole2dst = r.whole2dst /\ j.dst2src = r.dst2src
        /\ j.ambig <=> r.ambig
        /\ j.done <=> r.done
    <3>1. j = Joined(r, r2)
      OBVIOUS
    <3> HIDE DEF j
    <3> QED BY <3>1, JoinedFields
  <2>3. ~r.lost /\ ~r2.lost => ResultTrue(q, j)
    BY JoinedTrue
  <2>4. s = StopAtPrivate(m)
    <3>1. Merge(q, a.class, r, r2) = m
      BY <1>0, VisitBaseType
    <3> HIDE DEF m
    <3> QED BY <1>0, <1>2, <3>1, Zenon DEF VisitBase
  <2> HIDE DEF j, m
  <2>5. m \in DynResult /\ (~m.lost => ~j.lost) /\ m.whole2src = j.whole2src
    BY <1>0, <2>1, <2>2, MergeTargetFields
  <2>6. /\ SameSource(m, s) /\ SameTarget(m, s) /\ s.dst2src = m.dst2src
        /\ s.done <=> m.done \/ m.whole2src = PRIVATE
    <3>1. LET x == StopAtPrivate(m)
          IN  /\ SameSource(m, x) /\ SameTarget(m, x) /\ x.dst2src = m.dst2src
              /\ x.done <=> m.done \/ m.whole2src = PRIVATE
      BY <2>5, StopFields, Zenon
    <3> QED BY <2>4, <3>1, Zenon
  <2>7. ~m.lost /\ ~j.lost /\ ~r.lost /\ ~r2.lost
    BY <2>2, <2>5, <2>6 DEF SameSource
  <2>8. /\ ResultTrue(q, j) /\ ResultTrue(q, r2)
        /\ Told(q, t, E, E, r) /\ Told(q, t, E2, E2, r2)
    BY <2>3, <2>7
  <2>9. PICK F : F = E \cup E2
    OBVIOUS
  <2>10. Told(q, t, E, F, j) /\ ~j.done
    <3>1. ~Better(j)
      BY <2>2, <2>8 DEF Told, Better
    <3> QED BY <1>2, <2>2, <2>8, <2>9, <3>1 DEF Told
  <2>11. ~m.done /\ Told(q, t, E \cup E2, F, m)
    <3>1. Goal(q.dst, t, FALSE) \in E2 /\ Goal(q.src, q.at, FALSE) \in F
            => "repeat" \in flags[a.class]
      BY <2>9
    <3> QED BY <1>0, <2>1, <2>2, <2>8, <2>10, <3>1, MergeTold
  <2>12. m.whole2src # PRIVATE
    <3>1. SourceTrue(q, m.whole2src) /\ PRIVATE # {}
      BY <2>5, <2>8 DEF ResultTrue, PRIVATE
    <3> QED BY <3>1, PublicIsOpen DEF Beside
  <2>13. ~s.done
    BY <2>6, <2>11, <2>12
  <2>14. Told(q, t, E \cup E2, F, s)
    <3>1. ~Better(s)
      BY <2>6, <2>11 DEF Told, Better
    <3> QED BY <2>6, <2>11, <3>1 DEF Told, SameSource, SameTarget
  <2> QED BY <2>9, <2>13, <2>14
<1> QED BY <1>1, <1>2

LEMMA LoopTold ==
  ASSUME Hierarchy, Laid, NEW q, IsCast(q), NEW t \in Nat, Beside(q, t), NEW a \in Scans,
         ~IsSource(q, a), a.class # q.dst, NEW answers,
         \A i \in DOMAIN bases[a.class] :
           /\ answers[i] \in DynResult
           /\ ~answers[i].lost => /\ ResultTrue(q, answers[i])
                                  /\ Told(q, t, Met(ScanBase(a, i)), Met(ScanBase(a, i)),
                                          answers[i]),
         NEW s, s = AllScanned(q, a, answers), ~s.lost
  PROVE  Told(q, t, Met(a), Met(a), s)
<1>m. \A k \in 1 .. 2 * Len(bases[a.class]) :
         /\ IsDue(q, a, k) => MetBy(q, a, k) = MetBy(q, a, k - 1)
                                \cup Met(ScanBase(a, BaseAt(a.class, k)))
         /\ ~IsDue(q, a, k) => MetBy(q, a, k) = MetBy(q, a, k - 1)
  BY MetStep
<1> DEFINE n == 2 * Len(bases[a.class])
<1>0. /\ q \in Casts /\ a.class \in Classes /\ Details(a.class, a.details) \in SUBSET DETAILS
      /\ q.src \in Classes /\ q.dst \in Classes /\ q.at \in Nat
  BY CastFacts, FlagsFacts DEF Scans
<1>1. n \in Nat /\ \A k \in 1 .. n : BaseAt(a.class, k) \in DOMAIN bases[a.class]
  BY <1>0, BaseAtFacts
<1>2. PICK after : AreScans(after, q, a, answers) /\ s = after[n]
  BY <1>0, AllScannedFacts
<1>g. \A open \in BOOLEAN :
        /\ Goal(q.dst, t, open) \in Goals
        /\ ~(Goal(q.dst, t, open).class = a.class /\ Goal(q.dst, t, open).at = a.obj)
        /\ Goal(q.src, q.at, open) \in Goals
        /\ ~(Goal(q.src, q.at, open).class = a.class /\ Goal(q.src, q.at, open).at = a.obj)
  BY <1>0, MetGoal DEF IsSource
<1> DEFINE D == 0 .. n
           rank == [k \in D |-> k]
           G == {k \in D : ~after[k].lost =>
                   /\ ResultTrue(q, after[k]) /\ ~after[k].done
                   /\ Told(q, t, MetBy(q, a, k), MetBy(q, a, k), after[k])}
<1>3. ASSUME NEW k \in D, \A y \in D : rank[y] < rank[k] => y \in G
      PROVE  k \in G
  <2>1. CASE k = 0
    <3>1. after[0] = Fresh(Details(a.class, a.details))
      BY <1>2 DEF AreScans
    <3>2. ResultTrue(q, after[0])
      BY <1>0, <3>1, FreshFields DEF ResultTrue, SourceTrue, TargetTrue, InTrue, Contained
    <3>3. MetBy(q, a, 0) = {}
      <4>1. \A j : ~(j \in 1 .. 0)
        OBVIOUS
      <4> QED BY <4>1 DEF MetBy
    <3>4. /\ ~after[0].done /\ after[0].dst = NULL /\ ~after[0].ambig
          /\ after[0].dst2src = {} /\ after[0].whole2src = {}
      BY <1>0, <3>1, FreshFields
    <3>5. ~Better(after[0])
      BY <3>4 DEF Better, PUBLIC, AMBIG
    <3>6. Told(q, t, {}, {}, after[0])
      BY <3>4, <3>5 DEF Told
    <3> QED BY <2>1, <3>2, <3>3, <3>4, <3>6
  <2>2. CASE k # 0
    <3>1. k - 1 \in D /\ rank[k - 1] < rank[k] /\ k \in 1 .. n
      BY <1>1, <2>2
    <3>2. ~after[k - 1].lost =>
            /\ ResultTrue(q, after[k - 1]) /\ ~after[k - 1].done
            /\ Told(q, t, MetBy(q, a, k - 1), MetBy(q, a, k - 1), after[k - 1])
      <4>1. k - 1 \in G
        <5> HIDE DEF D, rank, G
        <5> QED BY <1>3, <3>1
      <4> QED BY <4>1
    <3> DEFINE i == BaseAt(a.class, k)
               E2 == Met(ScanBase(a, i))
    <3>3. i \in DOMAIN bases[a.class]
      BY <1>1, <3>1
    <3>4. after[k - 1] \in DynResult /\ after[k] = ScanStep(q, a, after[k - 1], k, answers)
      <4> HIDE DEF n
      <4> QED BY <1>1, <1>2, <3>1 DEF AreScans, n
    <3>5. CASE IsDue(q, a, k)
      <4>1. after[k] = VisitBase(q, a, after[k - 1], i, answers[i])
        BY <3>4, <3>5 DEF ScanStep
      <4>2. MetBy(q, a, k) = MetBy(q, a, k - 1) \cup E2
        BY <1>m, <3>1, <3>5
      <4>3. /\ answers[i] \in DynResult
            /\ ~answers[i].lost => ResultTrue(q, answers[i]) /\ Told(q, t, E2, E2, answers[i])
        BY <3>3
      <4>4. Goal(q.dst, t, FALSE) \in E2 /\ Goal(q.src, q.at, FALSE) \in MetBy(q, a, k - 1) \cup E2
              => "repeat" \in flags[a.class]
        <5> SUFFICES ASSUME Goal(q.dst, t, FALSE) \in E2, Goal(q.src, q.at, FALSE) \in MetBy(q, a, k)
                     PROVE  "repeat" \in flags[a.class]
          BY <4>2
        <5>1. Goal(q.dst, t, FALSE) \in Met(a)
          BY <1>g, <3>3, MetSplit
        <5>2. Goal(q.src, q.at, FALSE) \in Met(a)
          BY <1>g, <3>1, MetAll
        <5> QED BY <1>0, <5>1, <5>2, BesideIsKnown
      <4> HIDE DEF i, E2, D, G, rank, n
      <4>5. ~after[k].lost => ResultTrue(q, after[k])
        BY <1>0, <3>2, <3>4, <4>1, <4>3, VisitTrue
      <4>6. PICK E : E = MetBy(q, a, k - 1)
        OBVIOUS
      <4>7. ~after[k].lost => ~after[k].done /\ Told(q, t, E \cup E2, E \cup E2, after[k])
        BY <3>2, <3>4, <4>1, <4>3, <4>4, <4>6, VisitTold
      <4> QED BY <4>2, <4>5, <4>6, <4>7 DEF G
    <3>6. CASE ~IsDue(q, a, k)
      <4>1. after[k] = after[k - 1]
        BY <3>4, <3>6 DEF ScanStep
      <4>2. MetBy(q, a, k) = MetBy(q, a, k - 1)
        BY <1>m, <3>1, <3>6
      <4> QED BY <3>2, <4>1, <4>2
    <3> QED BY <3>5, <3>6
  <2> QED BY <2>1, <2>2
<1>4. rank \in [D -> Nat]
  BY <1>1
<1>5. D \subseteq G
  <2> HIDE DEF D, rank, G
  <2> QED BY <1>3, <1>4, ByRank
<1>6. Told(q, t, MetBy(q, a, n), MetBy(q, a, n), s)
  BY <1>1, <1>2, <1>5
<1>7. \A open \in BOOLEAN :
        /\ Goal(q.dst, t, open) \in Met(a) <=> Goal(q.dst, t, open) \in MetBy(q, a, n)
        /\ Goal(q.src, q.at, open) \in Met(a) <=> Goal(q.src, q.at, open) \in MetBy(q, a, n)
  BY <1>g, MetAll
<1> HIDE DEF n, D, rank, G
<1> QED BY <1>6, <1>7 DEF Told

LEMMA NodeTold ==
  ASSUME Hierarchy, Laid, NEW q, IsCast(q), NEW t \in Nat, Beside(q, t)
  PROVE  \A a \in Scans : Reached(q, a) /\ ~ScanOf(q)[a].lost
                            => Told(q, t, Met(a), Met(a), ScanOf(q)[a])
<1> DEFINE scan == ScanOf(q)
           rank == [a \in Scans |-> a.class]
           G == {a \in Scans : Reached(q, a) /\ ~scan[a].lost
                                 => Told(q, t, Met(a), Met(a), scan[a])}
<1>0. q \in Casts /\ q.src \in Classes /\ q.dst \in Classes /\ q.at \in Nat
  BY CastFacts
<1>1. rank \in [Scans -> Nat]
  BY ClassFacts DEF Scans
<1>2. ASSUME NEW a \in Scans, \A y \in Scans : rank[y] < rank[a] => y \in G
      PROVE  a \in G
  <2> SUFFICES ASSUME Reached(q, a), ~scan[a].lost
               PROVE  Told(q, t, Met(a), Met(a), scan[a])
    OBVIOUS
  <2> DEFINE answers == ScanAnswers(q, a)
  <2>1. a.class \in Classes /\ a.obj \in Nat
    BY DEF Scans
  <2>2. /\ scan[a] = ScanBy(q, a, answers) /\ scan[a] \in DynResult
        /\ ResultTrue(q, scan[a])
    BY <1>0, ScanFacts, NodeTrue
  <2>3. PICK v \in Routes[whole] : Reaches(v, Origin, a.class, a.obj) /\ a.access = KindOf(v)
    BY DEF Reached
  <2>4. ASSUME NEW i \in DOMAIN bases[a.class], a.class # q.dst
        PROVE  /\ answers[i] \in DynResult
               /\ ~answers[i].lost => /\ ResultTrue(q, answers[i])
                                      /\ Told(q, t, Met(ScanBase(a, i)), Met(ScanBase(a, i)),
                                              answers[i])
    <3>1. ScanBase(a, i) \in Scans /\ rank[ScanBase(a, i)] < rank[a]
      BY ScanBaseFields
    <3>2. Reached(q, ScanBase(a, i))
      BY <2>4, ReachedBelow
    <3>4. ScanBase(a, i) \in G
      <4> HIDE DEF rank, G
      <4> QED BY <1>2, <3>1
    <3>5. answers[i] = scan[ScanBase(a, i)]
      BY DEF ScanAnswers
    <3>6. scan[ScanBase(a, i)] \in DynResult
      BY <1>0, <3>1, ScanFacts
    <3>7. ~scan[ScanBase(a, i)].lost => ResultTrue(q, scan[ScanBase(a, i)])
      BY <3>1, <3>2, NodeTrue
    <3> QED BY <3>2, <3>4, <3>5, <3>6, <3>7
  <2>g. ASSUME NEW open \in BOOLEAN
        PROVE  /\ Goal(q.dst, t, open) \in Goals
               /\ Goal(q.dst, t, open).class = q.dst
               /\ Goal(q.dst, t, open) \in Met(a) <=>
                    \E u \in Routes[a.class] : /\ Reaches(u, a.obj, q.dst, t)
                                               /\ open => u.public /\ "public" \in a.access
               /\ Goal(q.src, q.at, open) \in Goals
               /\ Goal(q.src, q.at, open).class = q.src /\ Goal(q.src, q.at, open).at = q.at
               /\ Goal(q.src, q.at, open) \in Met(a) <=>
                    \E u \in Routes[a.class] : /\ Reaches(u, a.obj, q.src, q.at)
                                               /\ open => u.public /\ "public" \in a.access
    <3>1. /\ Goal(q.dst, t, open) \in Goals /\ Goal(q.src, q.at, open) \in Goals
          /\ Goal(q.dst, t, open).class = q.dst
          /\ Goal(q.src, q.at, open).class = q.src /\ Goal(q.src, q.at, open).at = q.at
      BY <1>0, MetGoal
    <3>2. Goal(q.dst, t, open) \in Met(a) <=>
            \E u \in Routes[a.class] : /\ Reaches(u, a.obj, q.dst, t)
                                       /\ open => u.public /\ "public" \in a.access
      BY <1>0, MetGoal
    <3>3. Goal(q.src, q.at, open) \in Met(a) <=>
            \E u \in Routes[a.class] : /\ Reaches(u, a.obj, q.src, q.at)
                                       /\ open => u.public /\ "public" \in a.access
      BY <1>0, MetGoal
    <3> QED BY <3>1, <3>2, <3>3
  <2>h. /\ Here(a.class) \in Routes[a.class] /\ Reaches(Here(a.class), a.obj, a.class, a.obj)
        /\ "in" \in a.access /\ TRUE \in BOOLEAN /\ FALSE \in BOOLEAN
    BY <2>1, <2>3, RoutesSplit, HereFacts DEF Reaches, Place, KindOf
  <2> HIDE DEF scan, answers, rank, G
  <2>5. CASE IsSource(q, a)
    <3>1. scan[a] = AsSource(a)
      BY <1>0, <2>2, <2>5, ScanByCases
    <3>2. /\ scan[a].dst = NULL /\ scan[a].dst2src = {} /\ ~scan[a].ambig
          /\ scan[a].whole2src = a.access
      BY <3>1, ScanHereFields
    <3>3. ~Better(scan[a])
      BY <3>2 DEF Better, PUBLIC, AMBIG
    <3>4. \A open \in BOOLEAN : Goal(q.dst, t, open) \notin Met(a)
      BY <2>5, <2>g DEF IsCast, IsSource, Reaches
    <3>5. Goal(q.src, q.at, FALSE) \in Met(a)
      BY <2>5, <2>g, <2>h DEF IsSource
    <3>6. Goal(q.src, q.at, TRUE) \in Met(a) => PUBLIC \subseteq a.access
      BY <2>g, <2>h DEF PUBLIC
    <3> QED BY <2>h, <3>2, <3>3, <3>4, <3>5, <3>6 DEF Told
  <2>6. CASE ~IsSource(q, a) /\ a.class = q.dst
    <3> DEFINE k == AtTarget(q, a)
    <3>1. scan[a] = AsTarget(a, k) /\ k \in SUBSET BITS
      BY <1>0, <2>2, <2>6, ScanByCases
    <3>2. /\ scan[a].dst = a.obj /\ scan[a].dst2src = k /\ ~scan[a].ambig
          /\ scan[a].whole2src = {} /\ scan[a].whole2dst = a.access
      BY <3>1, ScanHereFields
    <3>3. Subobject(q.dst, a.obj)
      BY <2>3, <2>6 DEF Subobject, Reaches
    <3>4. a.obj # NULL /\ a.obj = t
      BY <3>3, NotNull DEF Beside, Only
    <3>5. k \in {UNKNOWN, NOT, PUBLIC}
      BY <1>0, <2>1, FindType DEF AtTarget
    <3>6. ~HoldsBy(q, t, TRUE)
      BY DEF Beside
    <3>7. k # PUBLIC
      <4> SUFFICES ASSUME k = PUBLIC PROVE FALSE
        OBVIOUS
      <4>1. Holds(q, t, PUBLIC)
        BY <2>2, <3>2, <3>4 DEF ResultTrue, InTrue, Contained, PUBLIC
      <4> QED BY <3>3, <3>4, <3>6, <4>1 DEF Holds, HoldsBy
    <3>8. ~Better(scan[a])
      BY <3>2, <3>5, <3>7 DEF Better, PUBLIC, AMBIG, UNKNOWN, NOT
    <3>9. Goal(q.src, q.at, TRUE) \notin Met(a)
      BY <2>6, <2>g, <2>h, <3>3, <3>4, <3>6 DEF HoldsBy
    <3>10. Goal(q.dst, t, FALSE) \in Met(a)
      BY <2>6, <2>g, <2>h, <3>4
    <3>11. Goal(q.dst, t, TRUE) \in Met(a) => PUBLIC \subseteq a.access
      BY <2>g, <2>h DEF PUBLIC
    <3> HIDE DEF k
    <3> QED BY <3>2, <3>4, <3>8, <3>9, <3>10, <3>11 DEF Told
  <2>7. CASE ~IsSource(q, a) /\ a.class # q.dst
    <3>0. \A open \in BOOLEAN :
            /\ Goal(q.dst, t, open) \in Met(a) <=>
                 \E i \in DOMAIN bases[a.class] : Goal(q.dst, t, open) \in Met(ScanBase(a, i))
            /\ Goal(q.src, q.at, open) \in Met(a) <=>
                 \E i \in DOMAIN bases[a.class] : Goal(q.src, q.at, open) \in Met(ScanBase(a, i))
      <4> TAKE open \in BOOLEAN
      <4>1. /\ ~(Goal(q.dst, t, open).class = a.class /\ Goal(q.dst, t, open).at = a.obj)
            /\ ~(Goal(q.src, q.at, open).class = a.class /\ Goal(q.src, q.at, open).at = a.obj)
        BY <2>7, <2>g DEF IsSource
      <4> QED BY <2>g, <4>1, MetSplit
    <3>1. CASE IsLeaf(a.class)
      <4>1. scan[a] = Blank(a)
        BY <1>0, <2>2, <2>7, <3>1, ScanByCases
      <4>2. \A open \in BOOLEAN : Goal(q.dst, t, open) \notin Met(a) /\ Goal(q.src, q.at, open) \notin Met(a)
        <5>1. DOMAIN bases[a.class] = {}
          BY <3>1 DEF IsLeaf
        <5> QED BY <3>0, <5>1
      <4>3. /\ scan[a].dst = NULL /\ scan[a].dst2src = {} /\ ~scan[a].ambig
            /\ scan[a].whole2src = {}
        BY <4>1, ScanHereFields
      <4>4. ~Better(scan[a])
        BY <4>3 DEF Better, PUBLIC, AMBIG
      <4> QED BY <2>h, <4>2, <4>3, <4>4 DEF Told
    <3>2. CASE IsSi(a.class)
      <4>1. scan[a] = answers[1]
        BY <1>0, <2>2, <2>7, <3>2, ScanByCases
      <4>2. 1 \in DOMAIN bases[a.class] /\ \A i \in DOMAIN bases[a.class] : i = 1
        BY <2>1, <3>2, BaseFacts DEF IsSi
      <4>3. Told(q, t, Met(ScanBase(a, 1)), Met(ScanBase(a, 1)), scan[a])
        BY <2>4, <2>7, <4>1, <4>2 DEF scan
      <4>4. \A open \in BOOLEAN :
              /\ Goal(q.dst, t, open) \in Met(a) <=> Goal(q.dst, t, open) \in Met(ScanBase(a, 1))
              /\ Goal(q.src, q.at, open) \in Met(a) <=> Goal(q.src, q.at, open) \in Met(ScanBase(a, 1))
        BY <3>0, <4>2
      <4> QED BY <2>h, <4>3, <4>4 DEF Told
    <3>3. CASE IsVmi(a.class)
      <4>1. scan[a] = AllScanned(q, a, answers)
        BY <1>0, <2>2, <2>7, <3>3, ScanByCases
      <4> QED BY <2>4, <2>7, <4>1, LoopTold DEF scan
    <3> QED BY <1>0, <3>1, <3>2, <3>3, ScanByCases
  <2> QED BY <2>5, <2>6, <2>7
<1>3. Scans \subseteq G
  <2> HIDE DEF rank, G
  <2> QED BY <1>1, <1>2, ByRank
<1> QED BY <1>3

\* So the cast crosses over to it.
LEMMA BesideIsFound ==
  ASSUME Hierarchy, Laid, NEW q, IsCast(q), NEW t, Beside(q, t),
         NEW r, r = ScanOf(q)[Start], ~r.lost
  PROVE  TargetOf(q, r) = t
<1>1. /\ Start \in Scans /\ Start.class = whole /\ Start.obj = Origin
      /\ "public" \in Start.access /\ Reached(q, Start)
  BY ReachedWhole DEF Start, PUBLIC
<1>2. /\ Subobject(q.dst, t) /\ PublicTo(q.src, q.at) /\ PublicTo(q.dst, t)
      /\ t \in Nat /\ t # NULL
  BY NotNull DEF Beside, Only
<1>3. q \in Casts /\ q.src \in Classes /\ q.dst \in Classes /\ q.at \in Nat
  BY CastFacts
<1>4. r \in DynResult /\ ResultTrue(q, r)
  BY <1>1, <1>3, ScanFacts, NodeTrue
<1>5. Told(q, t, Met(Start), Met(Start), r)
  BY <1>1, <1>2, NodeTold
<1>6. Goal(q.dst, t, TRUE) \in Met(Start) /\ Goal(q.src, q.at, TRUE) \in Met(Start)
  <2>1. PICK v \in Routes[whole] : Reaches(v, Origin, q.dst, t) /\ v.public
    BY <1>2 DEF PublicTo
  <2>2. PICK w \in Routes[whole] : Reaches(w, Origin, q.src, q.at) /\ w.public
    BY <1>2 DEF PublicTo
  <2> QED BY <1>1, <1>2, <1>3, <2>1, <2>2, MetGoal
<1>7. r.dst = t
  BY <1>2, <1>4, <1>5, <1>6, OnlyTarget DEF Told, Beside
<1>8. Publicly(r.whole2src \cap r.whole2dst)
  BY <1>5, <1>6 DEF Told, Publicly
<1> QED BY <1>2, <1>7, <1>8 DEF TargetOf

\* The result r knows no target but t, and not that it holds the source.
OneTarget(t, r) == r.dst \in {NULL, t} /\ ~r.ambig /\ ~Better(r)

\* The target that s has from r or from r2, and are it and the source found?
Taken(r, r2, s) ==
  /\ s.dst = IF r.dst = NULL THEN r2.dst ELSE r.dst
  /\ s.whole2dst = IF r.dst = NULL THEN r2.whole2dst
                   ELSE IF r2.dst = NULL THEN r.whole2dst
                   ELSE r.whole2dst \cup r2.whole2dst
BothFound(c, r, r2, source) ==
  r.dst = NULL /\ r2.dst # NULL /\ source # UNKNOWN /\ "repeat" \notin flags[c]

LEMMA MergeOneTarget ==
  ASSUME Hierarchy, NEW q \in Casts, NEW c, NEW t, NEW r \in DynResult, NEW r2 \in DynResult,
         OneTarget(t, r), OneTarget(t, r2), ~r.done, NEW s, s = MergeTarget(q, c, r, r2)
  PROVE  /\ OneTarget(t, s) /\ Taken(r, r2, s)
         /\ s.done <=> BothFound(c, r, r2, r.whole2src)
<1>1. Merged(q, c, r, r2, s)
  BY MergeTargetFields
<1>2. ~Better(r2) /\ ~r.ambig /\ ~r2.ambig
  BY DEF OneTarget
<1>3. CASE r.dst = NULL
  <2> DEFINE done == r2.dst # NULL /\ r.whole2src # UNKNOWN /\ "repeat" \notin flags[c]
  <2>0. Empty(r)
    BY <1>2, <1>3 DEF Empty
  <2>1. s = [r EXCEPT !.dst = r2.dst, !.whole2dst = r2.whole2dst, !.ambig = r2.ambig,
                      !.done = done]
    BY <1>2, <2>0, Zenon DEF MergeTarget, Better, Empty
  <2>2. s.done <=> done
    BY <2>1, Zenon DEF DynResult
  <2>3. SameTarget(r2, s) /\ s.dst2src = r.dst2src
    BY <1>1, <1>2, <2>0 DEF Merged
  <2>4. OneTarget(t, s)
    BY <2>3 DEF OneTarget, Better, SameTarget
  <2> QED BY <1>3, <2>2, <2>3, <2>4 DEF SameTarget, Taken, BothFound
<1>4. CASE r.dst # NULL /\ r2.dst # NULL
  <2>1. ~Empty(r) /\ Same(r, r2)
    BY <1>4 DEF Empty, Same, OneTarget
  <2>2. /\ s.dst = r.dst /\ s.whole2dst = r.whole2dst \cup r2.whole2dst
        /\ s.dst2src = r.dst2src
        /\ s.ambig <=> r.ambig
        /\ s.done <=> r.done
    BY <1>1, <1>2, <2>1 DEF Merged
  <2>3. OneTarget(t, s)
    BY <2>2 DEF OneTarget, Better
  <2> QED BY <1>4, <2>2, <2>3 DEF Taken, BothFound
<1>5. CASE r.dst # NULL /\ r2.dst = NULL
  <2>1. ~Empty(r) /\ ~Same(r, r2) /\ ~Clash(r, r2)
    BY <1>2, <1>5 DEF Empty, Same, Clash
  <2>2. s = r
    BY <1>1, <1>2, <2>1 DEF Merged
  <2> QED BY <1>5, <2>2 DEF Taken, BothFound
<1> QED BY <1>3, <1>4, <1>5

\* What the loop of class c makes of the result r when a base adds r2.
Visited(c, r, r2, s) ==
  /\ s.whole2src = r.whole2src \cup r2.whole2src
  /\ Taken(r, r2, s)
  /\ s.done <=> s.whole2src = PRIVATE \/ BothFound(c, r, r2, s.whole2src)

\* The visit of a base that is not passed over.
LEMMA VisitOneTarget ==
  ASSUME Hierarchy, NEW q \in Casts, NEW t, NEW a, NEW i,
         NEW r \in DynResult, NEW r2 \in DynResult, OneTarget(t, r), OneTarget(t, r2),
         ~r.done, ~NothingHidden(q, a.class, r, i),
         NEW s, s = VisitBase(q, a, r, i, r2)
  PROVE  OneTarget(t, s) /\ s.details = r.details /\ Visited(a.class, r, r2, s)
<1> DEFINE j == Joined(r, r2)
           m == MergeTarget(q, a.class, j, r2)
<1>1. m = MergeTarget(q, a.class, j, r2)
  OBVIOUS
<1>2. /\ j \in DynResult /\ j.whole2src = r.whole2src \cup r2.whole2src
      /\ j.dst = r.dst /\ j.whole2dst = r.whole2dst /\ j.dst2src = r.dst2src
      /\ j.details = r.details
      /\ j.ambig <=> r.ambig
      /\ j.done <=> r.done
  <2>1. j = Joined(r, r2)
    OBVIOUS
  <2> HIDE DEF j
  <2> QED BY <2>1, JoinedFields
<1>3. s = StopAtPrivate(m)
  <2>1. Merge(q, a.class, r, r2) = m
    BY VisitBaseType
  <2> HIDE DEF m
  <2> QED BY <2>1, Zenon DEF VisitBase
<1> HIDE DEF j, m
<1>4. m \in DynResult /\ m.whole2src = j.whole2src /\ m.details = j.details
  BY <1>1, <1>2, MergeTargetFields
<1>5. OneTarget(t, j) /\ ~j.done
  BY <1>2 DEF OneTarget, Better
<1>6. /\ OneTarget(t, m) /\ Taken(j, r2, m)
      /\ m.done <=> BothFound(a.class, j, r2, j.whole2src)
  BY <1>1, <1>2, <1>5, MergeOneTarget
<1>7. /\ SameSource(m, s) /\ SameTarget(m, s) /\ s.dst2src = m.dst2src
      /\ s.done <=> m.done \/ m.whole2src = PRIVATE
  <2>1. LET x == StopAtPrivate(m)
        IN  /\ SameSource(m, x) /\ SameTarget(m, x) /\ x.dst2src = m.dst2src
            /\ x.done <=> m.done \/ m.whole2src = PRIVATE
    BY <1>4, StopFields, Zenon
  <2> QED BY <1>3, <2>1, Zenon
<1>8. OneTarget(t, s)
  BY <1>6, <1>7 DEF OneTarget, Better, SameTarget
<1>9. /\ s.details = r.details /\ s.whole2src = r.whole2src \cup r2.whole2src
      /\ s.dst = m.dst /\ s.whole2dst = m.whole2dst
  BY <1>2, <1>4, <1>7 DEF SameSource, SameTarget
<1>10. Taken(r, r2, s)
  BY <1>2, <1>6, <1>9 DEF Taken
<1>11. s.done <=> s.whole2src = PRIVATE \/ BothFound(a.class, r, r2, s.whole2src)
  <2>1. /\ m.whole2src = s.whole2src /\ j.whole2src = s.whole2src /\ j.dst = r.dst
        /\ s.done <=> m.done \/ m.whole2src = PRIVATE
    BY <1>2, <1>4, <1>7, <1>9
  <2> QED BY <1>6, <2>1 DEF BothFound
<1> QED BY <1>8, <1>9, <1>10, <1>11 DEF Visited

\* A result is lost if one of those it is made of is.
LEMMA VisitLost ==
  ASSUME Hierarchy, NEW q \in Casts, NEW a, NEW i, NEW r \in DynResult, NEW r2 \in DynResult,
         NEW s, s = VisitBase(q, a, r, i, r2), ~s.lost
  PROVE  /\ ~r.lost
         /\ ~r.done /\ ~NothingHidden(q, a.class, r, i) => ~r2.lost
<1>1. CASE r.done \/ NothingHidden(q, a.class, r, i)
  BY <1>1 DEF VisitBase
<1>2. CASE ~r.done /\ ~NothingHidden(q, a.class, r, i)
  <2> DEFINE j == Joined(r, r2)
             m == MergeTarget(q, a.class, j, r2)
  <2>1. m = MergeTarget(q, a.class, j, r2)
    OBVIOUS
  <2>2. j \in DynResult /\ (j.lost <=> r.lost \/ r2.lost)
    <3>1. j = Joined(r, r2)
      OBVIOUS
    <3> HIDE DEF j
    <3> QED BY <3>1, JoinedFields
  <2>3. s = StopAtPrivate(m)
    <3>1. Merge(q, a.class, r, r2) = m
      BY VisitBaseType
    <3> HIDE DEF m
    <3> QED BY <1>2, <3>1, Zenon DEF VisitBase
  <2> HIDE DEF j, m
  <2>4. m \in DynResult /\ (~m.lost => ~j.lost)
    BY <2>1, <2>2, MergeTargetFields
  <2>5. SameSource(m, s)
    <3>1. LET x == StopAtPrivate(m) IN SameSource(m, x)
      BY <2>4, StopFields, Zenon
    <3> QED BY <2>3, <3>1, Zenon
  <2> QED BY <2>2, <2>4, <2>5 DEF SameSource
<1> QED BY <1>1, <1>2

\* Two results that say the same.
Alike(t, r, r0) ==
  /\ OneTarget(t, r) /\ OneTarget(t, r0)
  /\ r0.dst = r.dst /\ r0.whole2dst = r.whole2dst /\ r0.whole2src = r.whole2src

\* In the loop of a class that knows that ways meet.
AlikeOn(t, r, r0) == /\ Alike(t, r, r0) /\ "diamond" \in r.details
                     /\ r.done <=> r0.done

\* The cast q has the hint that no public base is the source, b has none.
Hinted(q, b) == /\ q \in Casts /\ b \in Casts /\ q.hint = -2 /\ b.hint = -1
                /\ b.src = q.src /\ b.at = q.at /\ b.dst = q.dst

LEMMA VisitAlike ==
  ASSUME Hierarchy, NEW q, NEW b, Hinted(q, b), NEW t, NEW a, NEW i,
         NEW r \in DynResult, NEW r2 \in DynResult, NEW r0 \in DynResult, NEW r02 \in DynResult,
         ~r.lost /\ ~r0.lost => AlikeOn(t, r, r0),
         ~r2.lost /\ ~r02.lost => Alike(t, r2, r02),
         NEW s, s = VisitBase(q, a, r, i, r2), ~s.lost,
         NEW s0, s0 = VisitBase(b, a, r0, i, r02), ~s0.lost
  PROVE  AlikeOn(t, s, s0)
<1>1. ~r.lost /\ ~r0.lost /\ q \in Casts /\ b \in Casts
  BY VisitLost DEF Hinted
<1>2. AlikeOn(t, r, r0)
  BY <1>1
<1>3. ~NothingHidden(q, a.class, r, i) /\ ~NothingHidden(b, a.class, r0, i)
  BY <1>2 DEF Hinted, NothingHidden, AlikeOn
<1>4. CASE r.done
  <2>1. s = r /\ s0 = r0
    BY <1>2, <1>4 DEF VisitBase, AlikeOn
  <2> QED BY <1>2, <2>1
<1>5. CASE ~r.done
  <2>1. ~r0.done /\ ~r2.lost /\ ~r02.lost
    <3>1. ~r0.done
      BY <1>2, <1>5 DEF AlikeOn
    <3> QED BY <1>1, <1>3, <1>5, <3>1, VisitLost
  <2>2. Alike(t, r2, r02) /\ Alike(t, r, r0)
    BY <1>2, <2>1 DEF AlikeOn
  <2>3. OneTarget(t, r) /\ OneTarget(t, r2) /\ OneTarget(t, r0) /\ OneTarget(t, r02)
    BY <2>2 DEF Alike
  <2>4. OneTarget(t, s) /\ s.details = r.details /\ Visited(a.class, r, r2, s)
    BY <1>1, <1>3, <1>5, <2>3, VisitOneTarget
  <2>5. OneTarget(t, s0) /\ Visited(a.class, r0, r02, s0)
    BY <1>1, <1>3, <2>1, <2>3, VisitOneTarget
  <2>6. s0.dst = s.dst /\ s0.whole2src = s.whole2src /\ s0.whole2dst = s.whole2dst
    BY <2>2, <2>4, <2>5 DEF Alike, Visited, Taken, BothFound
  <2>7. s.done <=> s0.done
    BY <2>2, <2>4, <2>5, <2>6 DEF Alike, Visited, Taken, BothFound
  <2>8. Alike(t, s, s0) /\ "diamond" \in s.details
    BY <1>2, <2>4, <2>5, <2>6 DEF Alike, AlikeOn
  <2> QED BY <2>7, <2>8 DEF AlikeOn
<1> QED BY <1>4, <1>5

LEMMA LoopAlike ==
  ASSUME Hierarchy, NEW q, NEW b, Hinted(q, b), NEW t, NEW a \in Scans,
         "diamond" \in Details(a.class, a.details), NEW answers, NEW answers0,
         \A i \in DOMAIN bases[a.class] :
           /\ answers[i] \in DynResult /\ answers0[i] \in DynResult
           /\ ~answers[i].lost /\ ~answers0[i].lost => Alike(t, answers[i], answers0[i]),
         NEW s, s = AllScanned(q, a, answers), ~s.lost,
         NEW s0, s0 = AllScanned(b, a, answers0), ~s0.lost
  PROVE  Alike(t, s, s0)
<1> DEFINE n == 2 * Len(bases[a.class])
           D == 0 .. n
           rank == [k \in D |-> k]
<1>0. /\ q \in Casts /\ b \in Casts /\ a.class \in Classes
      /\ Details(a.class, a.details) \in SUBSET DETAILS
  BY FlagsFacts DEF Hinted, Scans
<1>1. n \in Nat /\ \A k \in 1 .. n : BaseAt(a.class, k) \in DOMAIN bases[a.class]
  BY <1>0, BaseAtFacts
<1>2. PICK after : AreScans(after, q, a, answers) /\ s = after[n]
  BY <1>0, AllScannedFacts
<1>3. PICK after0 : AreScans(after0, b, a, answers0) /\ s0 = after0[n]
  BY <1>0, AllScannedFacts
<1>4. \A k : IsDue(q, a, k) <=> IsDue(b, a, k)
  BY DEF Hinted, IsDue
<1> DEFINE G == {k \in D : ~after[k].lost /\ ~after0[k].lost => AlikeOn(t, after[k], after0[k])}
<1>5. ASSUME NEW k \in D, \A y \in D : rank[y] < rank[k] => y \in G
      PROVE  k \in G
  <2>1. CASE k = 0
    <3> DEFINE d == Details(a.class, a.details)
    <3>1. after[0] = Fresh(d) /\ after0[0] = Fresh(d)
      BY <1>2, <1>3 DEF AreScans
    <3> HIDE DEF d
    <3>2. /\ Fresh(d).dst = NULL /\ ~Fresh(d).ambig /\ Fresh(d).dst2src = {}
          /\ Fresh(d).details = d
      BY <1>0, FreshFields DEF d
    <3>3. OneTarget(t, Fresh(d))
      BY <3>2 DEF OneTarget, Better, PUBLIC, AMBIG
    <3>4. AlikeOn(t, Fresh(d), Fresh(d))
      BY <3>2, <3>3 DEF AlikeOn, Alike, d
    <3> QED BY <2>1, <3>1, <3>4
  <2>2. CASE k # 0
    <3>1. k - 1 \in D /\ rank[k - 1] < rank[k] /\ k \in 1 .. n
      BY <1>1, <2>2
    <3>2. ~after[k - 1].lost /\ ~after0[k - 1].lost => AlikeOn(t, after[k - 1], after0[k - 1])
      <4>1. k - 1 \in G
        <5> HIDE DEF D, rank, G
        <5> QED BY <1>5, <3>1
      <4> QED BY <4>1
    <3> DEFINE i == BaseAt(a.class, k)
    <3>3. i \in DOMAIN bases[a.class]
      BY <1>1, <3>1
    <3>4. after[k - 1] \in DynResult /\ after[k] = ScanStep(q, a, after[k - 1], k, answers)
      <4> HIDE DEF n
      <4> QED BY <1>1, <1>2, <3>1 DEF AreScans, n
    <3>5. after0[k - 1] \in DynResult /\ after0[k] = ScanStep(b, a, after0[k - 1], k, answers0)
      <4> HIDE DEF n
      <4> QED BY <1>1, <1>3, <3>1 DEF AreScans, n
    <3>6. CASE IsDue(q, a, k)
      <4>1. /\ after[k] = VisitBase(q, a, after[k - 1], i, answers[i])
            /\ after0[k] = VisitBase(b, a, after0[k - 1], i, answers0[i])
        BY <1>4, <3>4, <3>5, <3>6 DEF ScanStep
      <4>2. /\ answers[i] \in DynResult /\ answers0[i] \in DynResult
            /\ ~answers[i].lost /\ ~answers0[i].lost => Alike(t, answers[i], answers0[i])
        BY <3>3
      <4> HIDE DEF i, D, G, rank, n
      <4>3. ~after[k].lost /\ ~after0[k].lost => AlikeOn(t, after[k], after0[k])
        BY <3>2, <3>4, <3>5, <4>1, <4>2, VisitAlike
      <4> QED BY <4>3 DEF G
    <3>7. CASE ~IsDue(q, a, k)
      <4>1. after[k] = after[k - 1] /\ after0[k] = after0[k - 1]
        BY <1>4, <3>4, <3>5, <3>7 DEF ScanStep
      <4> QED BY <3>2, <4>1
    <3> QED BY <3>6, <3>7
  <2> QED BY <2>1, <2>2
<1>6. rank \in [D -> Nat]
  BY <1>1
<1>7. D \subseteq G
  <2> HIDE DEF D, rank, G
  <2> QED BY <1>5, <1>6, ByRank
<1> QED BY <1>1, <1>2, <1>3, <1>7 DEF AlikeOn

\* Ways that meet below a class with a single base meet below that base.
LEMMA DiamondBelow ==
  ASSUME Hierarchy, NEW c \in Classes, IsSi(c), Diamond(c), NEW i \in DOMAIN bases[c]
  PROVE  Diamond(bases[c][i].type)
<1>1. PICK v \in Routes[c], w \in Routes[c] : SameObject(v, w) /\ v.route # w.route
  BY DEF Diamond
<1>2. /\ bases[c][i].type \in Classes /\ bases[c][i].type < c /\ ~bases[c][i].virtual
      /\ bases[c][i].public /\ \A j \in DOMAIN bases[c] : j = i
  BY BaseFacts DEF IsSi
<1>3. \A x \in Routes[bases[c][i].type] : /\ x \in Way /\ x.type # c
                                          /\ Through(c, i, x).type = x.type
  <2>1. \A x \in Routes[bases[c][i].type] : x.type <= bases[c][i].type
    BY <1>2, WayFacts
  <2>2. \A x \in Routes[bases[c][i].type] : x \in Way /\ Through(c, i, x).type = x.type
    BY Stepped
  <2> QED BY <1>2, <2>1, <2>2, ClassFacts
<1>4. v # Here(c) /\ w # Here(c)
  <2>1. \A x \in Routes[c] : x = Here(c) \/ \E y \in Routes[bases[c][i].type] : x = Through(c, i, y)
    BY <1>2, RoutesSplit
  <2>2. \A x \in Routes[c] : x.type = c => x = Here(c)
    BY <1>3, <2>1
  <2> QED BY <1>1, <2>2, HereFacts DEF SameObject
<1>5. PICK v2 \in Routes[bases[c][i].type] : v = Through(c, i, v2)
  BY <1>2, <1>4, RoutesSplit
<1>6. PICK w2 \in Routes[bases[c][i].type] : w = Through(c, i, w2)
  BY <1>2, <1>4, RoutesSplit
<1>7. SameObject(v2, w2)
  <2>1. /\ v.virtual <=> v2.virtual
        /\ w.virtual <=> w2.virtual
        /\ v.type = v2.type /\ w.type = w2.type
        /\ v2.virtual \in BOOLEAN /\ w2.virtual \in BOOLEAN
        /\ v2.at \in Nat /\ w2.at \in Nat
    BY <1>2, <1>5, <1>6, Stepped
  <2>2. /\ v.at = IF v2.virtual THEN v2.at ELSE ConvertToBase(c, i, 0) + v2.at
        /\ w.at = IF w2.virtual THEN w2.at ELSE ConvertToBase(c, i, 0) + w2.at
    BY <1>3, <1>5, <1>6, ThroughFacts
  <2>3. ConvertToBase(c, i, 0) \in Nat
    BY Converted
  <2>4. (v2.virtual <=> w2.virtual) /\ v2.type = w2.type /\ v.at = w.at
    BY <1>1, <2>1 DEF SameObject
  <2>5. v2.virtual = w2.virtual
    BY <2>1, <2>4
  <2>6. v2.at = w2.at
    BY <2>1, <2>2, <2>3, <2>4
  <2> QED BY <2>4, <2>5, <2>6 DEF SameObject
<1>8. v2.route # w2.route
  <2>1. v2 # w2
    BY <1>1, <1>5, <1>6
  <2> QED BY <1>2, <2>1, RouteIsWay
<1> QED BY <1>7, <1>8 DEF Diamond

\* The scan of a knows that ways meet.
Meeting(a) == /\ "unknown" \in a.details => Diamond(a.class)
              /\ "unknown" \notin a.details => "diamond" \in a.details

LEMMA MeetingBelow ==
  ASSUME Hierarchy, NEW a \in Scans, Meeting(a)
  PROVE  /\ IsVmi(a.class) => "diamond" \in Details(a.class, a.details)
         /\ \A i \in DOMAIN bases[a.class] : Meeting(ScanBase(a, i))
<1>0. a.class \in Classes
  BY DEF Scans
<1>1. flags[a.class] = Flags(a.class)
  BY <1>0 DEF Hierarchy
<1>2. "unknown" \notin flags[a.class] /\ (Diamond(a.class) => "diamond" \in flags[a.class])
  BY <1>1 DEF Flags
<1>3. IsVmi(a.class) => /\ "diamond" \in Details(a.class, a.details)
                        /\ "unknown" \notin Details(a.class, a.details)
  BY <1>2 DEF Details, Meeting
<1>4. ASSUME NEW i \in DOMAIN bases[a.class]
      PROVE  Meeting(ScanBase(a, i))
  <2>1. /\ ScanBase(a, i).details = Details(a.class, a.details)
        /\ ScanBase(a, i).class = bases[a.class][i].type
    BY ScanBaseFields
  <2>2. CASE IsVmi(a.class)
    BY <1>3, <2>1, <2>2 DEF Meeting
  <2>3. CASE ~IsVmi(a.class)
    <3>1. ScanBase(a, i).details = a.details
      BY <2>1, <2>3 DEF Details
    <3>2. IsSi(a.class)
      BY <1>0, <2>3, BaseFacts DEF IsVmi, IsLeaf, IsSi
    <3>3. Diamond(a.class) => Diamond(ScanBase(a, i).class)
      BY <1>0, <2>1, <3>2, DiamondBelow
    <3> QED BY <3>1, <3>3 DEF Meeting
  <2> QED BY <2>2, <2>3
<1> QED BY <1>3, <1>4

LEMMA NodeAlike ==
  ASSUME Hierarchy, NEW q, NEW b, Hinted(q, b), NEW t, Only(q, t)
  PROVE  \A a \in Scans :
           /\ Reached(q, a) /\ Meeting(a) /\ ~ScanOf(q)[a].lost /\ ~ScanOf(b)[a].lost
           => Alike(t, ScanOf(q)[a], ScanOf(b)[a])
<1> DEFINE scan == ScanOf(q)
           scan0 == ScanOf(b)
           rank == [a \in Scans |-> a.class]
           G == {a \in Scans : Reached(q, a) /\ Meeting(a) /\ ~scan[a].lost /\ ~scan0[a].lost
                                 => Alike(t, scan[a], scan0[a])}
<1>0. q \in Casts /\ b \in Casts
  BY DEF Hinted
<1>1. rank \in [Scans -> Nat]
  BY ClassFacts DEF Scans
<1>2. ASSUME NEW a \in Scans, \A y \in Scans : rank[y] < rank[a] => y \in G
      PROVE  a \in G
  <2> SUFFICES ASSUME Reached(q, a), Meeting(a), ~scan[a].lost, ~scan0[a].lost
               PROVE  Alike(t, scan[a], scan0[a])
    OBVIOUS
  <2> DEFINE answers == ScanAnswers(q, a)
             answers0 == ScanAnswers(b, a)
  <2>1. /\ scan[a] = ScanBy(q, a, answers) /\ scan[a] \in DynResult
        /\ scan0[a] = ScanBy(b, a, answers0) /\ scan0[a] \in DynResult
        /\ a.class \in Classes
    BY <1>0, ScanFacts DEF Scans
  <2>2. PICK v \in Routes[whole] : Reaches(v, Origin, a.class, a.obj)
    BY DEF Reached
  <2>3. ASSUME NEW i \in DOMAIN bases[a.class], a.class # q.dst
        PROVE  /\ answers[i] \in DynResult /\ answers0[i] \in DynResult
               /\ ~answers[i].lost /\ ~answers0[i].lost => Alike(t, answers[i], answers0[i])
    <3>1. ScanBase(a, i) \in Scans /\ rank[ScanBase(a, i)] < rank[a]
      BY ScanBaseFields
    <3>2. Reached(q, ScanBase(a, i)) /\ Meeting(ScanBase(a, i))
      BY <2>3, ReachedBelow, MeetingBelow
    <3>3. ScanBase(a, i) \in G
      <4> HIDE DEF rank, G
      <4> QED BY <1>2, <3>1
    <3>4. answers[i] = scan[ScanBase(a, i)] /\ answers0[i] = scan0[ScanBase(a, i)]
      BY DEF ScanAnswers
    <3>5. scan[ScanBase(a, i)] \in DynResult /\ scan0[ScanBase(a, i)] \in DynResult
      BY <1>0, <3>1, ScanFacts
    <3> QED BY <3>2, <3>3, <3>4, <3>5
  <2>4. /\ IsSource(b, a) <=> IsSource(q, a)
        /\ b.dst = q.dst
    BY DEF Hinted, IsSource
  <2> HIDE DEF scan, scan0, answers, answers0, rank, G
  <2>5. CASE IsSource(q, a)
    <3>1. scan[a] = AsSource(a) /\ scan0[a] = AsSource(a)
      BY <1>0, <2>1, <2>4, <2>5, ScanByCases
    <3>2. scan[a].dst = NULL /\ scan[a].dst2src = {} /\ ~scan[a].ambig
      BY <3>1, ScanHereFields
    <3>3. OneTarget(t, scan[a])
      BY <3>2 DEF OneTarget, Better, PUBLIC, AMBIG
    <3> QED BY <3>1, <3>3 DEF Alike
  <2>6. CASE ~IsSource(q, a) /\ a.class = q.dst
    <3> DEFINE k == AtTarget(q, a)
               k0 == AtTarget(b, a)
    <3>1. /\ scan[a] = AsTarget(a, k) /\ k \in SUBSET BITS
          /\ scan0[a] = AsTarget(a, k0) /\ k0 \in SUBSET BITS
      BY <1>0, <2>1, <2>4, <2>6, ScanByCases
    <3>2. k \in {UNKNOWN, NOT} /\ k0 \in {UNKNOWN, NOT}
      BY DEF AtTarget, Hinted
    <3> HIDE DEF k, k0
    <3>3. /\ scan[a].dst = a.obj /\ scan[a].dst2src = k /\ ~scan[a].ambig
          /\ scan[a].whole2src = {} /\ scan[a].whole2dst = a.access
      BY <3>1, ScanHereFields
    <3>4. /\ scan0[a].dst = a.obj /\ scan0[a].dst2src = k0 /\ ~scan0[a].ambig
          /\ scan0[a].whole2src = {} /\ scan0[a].whole2dst = a.access
      BY <3>1, ScanHereFields
    <3>5. a.obj = t
      BY <2>2, <2>6 DEF Only, Subobject, Reaches
    <3>6. OneTarget(t, scan[a]) /\ OneTarget(t, scan0[a])
      BY <3>2, <3>3, <3>4, <3>5 DEF OneTarget, Better, PUBLIC, AMBIG, UNKNOWN, NOT
    <3> QED BY <3>3, <3>4, <3>6 DEF Alike
  <2>7. CASE ~IsSource(q, a) /\ a.class # q.dst
    <3>1. CASE IsLeaf(a.class)
      <4>1. scan[a] = Blank(a) /\ scan0[a] = Blank(a)
        BY <1>0, <2>1, <2>4, <2>7, <3>1, ScanByCases
      <4>2. scan[a].dst = NULL /\ scan[a].dst2src = {} /\ ~scan[a].ambig
        BY <4>1, ScanHereFields
      <4>3. OneTarget(t, scan[a])
        BY <4>2 DEF OneTarget, Better, PUBLIC, AMBIG
      <4> QED BY <4>1, <4>3 DEF Alike
    <3>2. CASE IsSi(a.class)
      <4>1. scan[a] = answers[1] /\ scan0[a] = answers0[1]
        BY <1>0, <2>1, <2>4, <2>7, <3>2, ScanByCases
      <4>2. 1 \in DOMAIN bases[a.class]
        BY <2>1, <3>2, BaseFacts DEF IsSi
      <4> QED BY <2>3, <2>7, <4>1, <4>2 DEF scan, scan0
    <3>3. CASE IsVmi(a.class)
      <4>1. scan[a] = AllScanned(q, a, answers) /\ scan0[a] = AllScanned(b, a, answers0)
        BY <1>0, <2>1, <2>4, <2>7, <3>3, ScanByCases
      <4>2. "diamond" \in Details(a.class, a.details)
        BY <3>3, MeetingBelow
      <4> QED BY <2>3, <2>7, <4>1, <4>2, LoopAlike DEF scan, scan0
    <3> QED BY <1>0, <3>1, <3>2, <3>3, ScanByCases
  <2> QED BY <2>5, <2>6, <2>7
<1>3. Scans \subseteq G
  <2> HIDE DEF rank, G
  <2> QED BY <1>1, <1>2, ByRank
<1> QED BY <1>3

\* No base of the target is the source by a public way: it never says that it
\* holds the source.
Secret(q) == \A u \in Routes[q.dst] : u.type = q.src => ~u.public

LEMMA SecretTarget ==
  ASSUME Hierarchy, Laid, NEW q, IsCast(q), Secret(q), NEW r \in DynResult, ResultTrue(q, r)
  PROVE  TargetOf(q, r) = IF r.dst # NULL /\ Publicly(r.whole2src \cap r.whole2dst)
                          THEN r.dst ELSE NULL
<1> DEFINE down == IF r.dst2src = UNKNOWN THEN FindPublicSrc(q, r.dst) ELSE r.dst2src
<1>1. \A p, k : ~Holds(q, p, k)
  BY DEF Secret, Holds, Reaches
<1>2. ~Contained(r.dst2src)
  BY <1>1 DEF ResultTrue, InTrue
<1>3. r.dst # NULL => ~Contained(down)
  <2> SUFFICES ASSUME r.dst # NULL PROVE ~Contained(down)
    OBVIOUS
  <2>1. r.dst \in Nat /\ Subobject(q.dst, r.dst)
    BY DEF DynResult, ResultTrue, TargetTrue
  <2>2. InTrue(q, r.dst, FindPublicSrc(q, r.dst))
    BY <2>1, FindTrue
  <2> QED BY <1>1, <1>2, <2>2 DEF InTrue
<1>4. \A k : Publicly(k) => Contained(k)
  BY DEF Publicly, Contained, PUBLIC
<1> HIDE DEF down
<1> QED BY <1>2, <1>3, <1>4 DEF TargetOf, down

LEMMA AlikeIsSame ==
  ASSUME Hierarchy, Laid, NEW q, IsCast(q), NEW b, IsCast(b), Hinted(q, b), Secret(q),
         Diamond(whole), NEW t, Only(q, t),
         NEW r, r = ScanOf(q)[Start], ~r.lost, NEW r0, r0 = ScanOf(b)[Start], ~r0.lost
  PROVE  TargetOf(b, r0) = TargetOf(q, r)
<1>1. Start \in Scans /\ Reached(q, Start) /\ Reached(b, Start) /\ Meeting(Start)
  BY ReachedWhole DEF Meeting, Start
<1>2. q \in Casts /\ b \in Casts
  BY DEF Hinted
<1>3. r \in DynResult /\ ResultTrue(q, r) /\ r0 \in DynResult /\ ResultTrue(b, r0)
  BY <1>1, <1>2, ScanFacts, NodeTrue
<1>4. Alike(t, r, r0)
  BY <1>1, NodeAlike
<1>5. Secret(b)
  BY DEF Hinted, Secret
<1>6. TargetOf(q, r) = IF r.dst # NULL /\ Publicly(r.whole2src \cap r.whole2dst)
                       THEN r.dst ELSE NULL
  BY <1>3, SecretTarget
<1>7. TargetOf(b, r0) = IF r0.dst # NULL /\ Publicly(r0.whole2src \cap r0.whole2dst)
                        THEN r0.dst ELSE NULL
  BY <1>3, <1>5, SecretTarget
<1> QED BY <1>4, <1>6, <1>7 DEF Alike

\* The same cast, without the hint.
Bare(q, b) == /\ b.hint = -1 /\ b.src = q.src /\ b.at = q.at /\ b.dst = q.dst

\* What the language says of a cast does not depend on the hint.
LEMMA BareFacts ==
  ASSUME NEW q, NEW b, Bare(q, b)
  PROVE  /\ RightCast(b) = RightCast(q)
         /\ \A t : /\ Held(b, t) <=> Held(q, t)
                   /\ Only(b, t) <=> Only(q, t)
                   /\ HoldsBy(b, t, TRUE) <=> HoldsBy(q, t, TRUE)
<1>1. RightCast(b) = RightCast(q)
  BY DEF Bare, RightCast
<1>2. \A t, pub : HoldsBy(b, t, pub) <=> HoldsBy(q, t, pub)
  BY DEF Bare, HoldsBy
<1>3. \A t : Held(b, t) <=> Held(q, t)
  BY <1>2 DEF Held
<1>4. \A t : Only(b, t) <=> Only(q, t)
  BY DEF Bare, Only
<1> QED BY <1>1, <1>2, <1>3, <1>4

\* Where the hint is not that there is none, there is a public base to be found.
LEMMA HintNamesBase ==
  ASSUME Hierarchy, NEW src, NEW dst \in Classes, Hint(src, dst) # -2
  PROVE  \E u \in Routes[dst] : u.type = src /\ u.public
<1> DEFINE ways == {w \in Ways(dst, NULL) : w.type = src /\ w.public}
<1>1. ways # {}
  <2> SUFFICES ASSUME ways = {} PROVE FALSE
    OBVIOUS
  <2>1. ~\E w \in ways : w.virtual
    OBVIOUS
  <2> QED BY <2>1, Zenon DEF Hint
<1>2. PICK w \in Ways(dst, NULL) : w.type = src /\ w.public
  BY <1>1
<1>3. \E u \in Routes[dst] : u.type = w.type /\ u.public = w.public
  BY WaysFields
<1> QED BY <1>2, <1>3

LEMMA HintIsNoMatter ==
  ASSUME Hierarchy, Laid, NEW q, IsCast(q), NEW b, IsCast(b), Bare(q, b),
         NEW r, r = ScanOf(q)[Start], ~r.lost, NEW r0, r0 = ScanOf(b)[Start], ~r0.lost
  PROVE  TargetOf(b, r0) = TargetOf(q, r)
<1> DEFINE t == RightCast(q)
<1>0. /\ q \in Casts /\ b \in Casts /\ q.dst \in Classes /\ q.src \in Classes
      /\ b.dst = q.dst /\ RightCast(b) = t
  BY CastFacts, BareFacts DEF Bare
<1>1. CASE q.hint = -1
  <2>1. b = q
    BY <1>0, <1>1 DEF Casts, Bare
  <2> QED BY <2>1
<1>2. CASE t = NULL
  <2>1. TargetOf(q, r) = NULL /\ TargetOf(b, r0) = NULL
    BY <1>0, <1>2, CastIsRight
  <2> QED BY <2>1
<1>3. CASE t # NULL /\ (Held(q, t) \/ Even)
  <2>1. Wanted(q, t) /\ Wanted(b, t)
    <3>1. CASE Held(q, t)
      BY <3>1, BareFacts DEF Wanted
    <3>2. CASE Even
      BY <1>0, <1>3, <3>2, RightIsWanted
    <3> QED BY <1>3, <3>1, <3>2
  <2> HIDE DEF t
  <2>2. TargetOf(q, r) = t
    BY <2>1, WantedIsFound
  <2>3. TargetOf(b, r0) = t
    BY <2>1, WantedIsFound
  <2> QED BY <2>2, <2>3
<1>4. CASE q.hint # -1 /\ t # NULL /\ ~Held(q, t) /\ ~Even
  <2>1. Only(q, t)
    BY <1>0, <1>4, RightCastCases
  <2> HIDE DEF t
  <2>2. Only(b, t) /\ t \in Nat /\ q.hint = Hint(q.src, q.dst)
    <3>1. t \in Nat
      BY <2>1, NotNull DEF Only
    <3> QED BY <1>4, <2>1, <3>1, BareFacts DEF IsCast
  <2>3. ~HoldsBy(q, t, TRUE)
    BY <1>4, <2>1 DEF Held, Only, HoldsBy
  <2>4. CASE q.hint # -2
    <3>1. PICK u \in Routes[q.dst] : u.type = q.src /\ u.public
      BY <1>0, <2>2, <2>4, HintNamesBase
    <3>2. Place(u, t) # q.at
      BY <2>1, <2>3, <3>1 DEF HoldsBy, Only, Reaches
    <3>3. Beside(q, t)
      BY <2>1, <2>3, <2>4, <3>1, <3>2 DEF Beside
    <3>4. Beside(b, t)
      <4>1. ~HoldsBy(b, t, TRUE)
        BY <2>3, BareFacts
      <4>2. \E x \in Routes[b.dst] : x.type = b.src /\ Place(x, t) # b.at
        BY <3>1, <3>2 DEF Bare
      <4>3. b.hint # -2
        BY DEF Bare
      <4> QED BY <2>2, <4>1, <4>2, <4>3 DEF Beside
    <3>5. TargetOf(q, r) = t
      BY <2>2, <3>3, BesideIsFound
    <3>6. TargetOf(b, r0) = t
      BY <2>2, <3>4, BesideIsFound
    <3> QED BY <3>5, <3>6
  <2>5. CASE q.hint = -2
    <3>1. Hinted(q, b)
      BY <1>0, <2>5 DEF Hinted, Bare
    <3>2. Secret(q)
      BY <1>0, <2>2, <2>5, HintComplete DEF Secret
    <3>3. Diamond(whole)
      BY <1>4 DEF Even
    <3> QED BY <2>1, <3>1, <3>2, <3>3, AlikeIsSame
  <2> QED BY <2>4, <2>5
<1> QED BY <1>1, <1>2, <1>3, <1>4

\* All that a scan asks of the hierarchy stays the same with it.
LEMMA LayoutKept ==
  ASSUME UNCHANGED <<bases, flags, whole>>
  PROVE  /\ \A c, i, at : ConvertToBase(c, i, at)' = ConvertToBase(c, i, at)
         /\ \A c : /\ IsLeaf(c)' <=> IsLeaf(c)
                   /\ IsSi(c)' <=> IsSi(c)
                   /\ IsVmi(c)' <=> IsVmi(c)
         /\ \A c, details : Details(c, details)' = Details(c, details)
BY DEF ConvertToBase, Offset, Parts, VirtualAt, IsVirtualBase, SumTo, Size, IsLeaf, IsSi,
       IsVmi, Details

LEMMA FindKept ==
  ASSUME UNCHANGED <<bases, flags, whole>>
  PROVE  \A q, obj : FindPublicSrc(q, obj)' = FindPublicSrc(q, obj)
BY SMTT(60) DEF FindPublicSrc, DoFindPublicSrc, FindIn, IsLeaf, AtHint, ConvertToBase,
     Offset, Parts, VirtualAt, IsVirtualBase, SumTo, Size

LEMMA VisitKeeps ==
  ASSUME UNCHANGED <<bases, flags, whole>>
  PROVE  /\ \A q, a, r, i, r2 : VisitBase(q, a, r, i, r2)' = VisitBase(q, a, r, i, r2)
         /\ \A q, a, k : IsDue(q, a, k)' <=> IsDue(q, a, k)
         /\ \A c, k : BaseAt(c, k)' = BaseAt(c, k)
<1>1. \A q, c, r, target, other :
        /\ KindIn(q, c, r, target, other)' = KindIn(q, c, r, target, other)
        /\ Astray(q, c, r, target, other)' <=> Astray(q, c, r, target, other)
  BY FindKept DEF KindIn, Astray, Asks
<1>2. \A q, c, r, r2 : Disambiguate(q, c, r, r2)' = Disambiguate(q, c, r, r2)
  BY <1>1 DEF Disambiguate
<1>3. \A q, c, r, r2 : MergeTarget(q, c, r, r2)' = MergeTarget(q, c, r, r2)
  BY <1>2 DEF MergeTarget
<1>4. \A q, a, r, i, r2 : VisitBase(q, a, r, i, r2)' = VisitBase(q, a, r, i, r2)
  BY <1>3 DEF VisitBase, Merge, NothingHidden
<1>5. \A c, k : BaseAt(c, k)' = BaseAt(c, k)
  BY DEF BaseAt
<1>6. \A q, a, k : IsDue(q, a, k)' <=> IsDue(q, a, k)
  BY <1>5, LayoutKept DEF IsDue
<1> QED BY <1>4, <1>5, <1>6

LEMMA ScanByKept ==
  ASSUME UNCHANGED <<bases, flags, whole>>
  PROVE  \A q, a, answers : ScanBy(q, a, answers)' = ScanBy(q, a, answers)
<1>1. \A q, a, answers : AllScanned(q, a, answers)' = AllScanned(q, a, answers)
  BY SMTT(60) DEF AllScanned, IsDue, BaseAt, Details, IsVmi, IsSi, IsLeaf, VisitBase,
       NothingHidden, Merge, MergeTarget, Disambiguate, Astray, KindIn, Asks, FindPublicSrc,
       DoFindPublicSrc, FindIn, AtHint, ConvertToBase, Offset, Parts, VirtualAt,
       IsVirtualBase, SumTo, Size
<1> QED BY <1>1 DEF ScanBy, AtHint, Details, IsVmi, IsSi, IsLeaf

LEMMA TargetOfKept ==
  ASSUME UNCHANGED <<bases, flags, whole>>
  PROVE  \A q, r : TargetOf(q, r)' = TargetOf(q, r)
BY FindKept DEF TargetOf

\* The walk of the next state.
LEMMA ScanHolds ==
  Hierarchy => \A q \in Casts : \A a \in Scans : ScanOf(q)[a] = ScanBy(q, a, ScanAnswers(q, a))
BY ScanFacts

LEMMA ScanHoldsNext ==
  (Hierarchy =>
     \A q \in Casts : \A a \in Scans : ScanOf(q)[a] = ScanBy(q, a, ScanAnswers(q, a)))'
BY ScanHolds, PTL

LEMMA ScanOfKept ==
  ASSUME Hierarchy, UNCHANGED <<bases, flags, whole>>, NEW q \in Casts
  PROVE  \A a \in Scans : ScanOf(q)'[a] = ScanOf(q)[a]
<1> DEFINE rank == [a \in Scans |-> a.class]
           scan0 == ScanOf(q)'
           G == {a \in Scans : scan0[a] = ScanOf(q)[a]}
<1>1. rank \in [Scans -> Nat]
  BY ClassFacts DEF Scans
<1>2. ASSUME NEW a \in Scans, \A y \in Scans : rank[y] < rank[a] => y \in G
      PROVE  a \in G
  <2>1. ScanOf(q)[a] = ScanBy(q, a, ScanAnswers(q, a))
    BY ScanFacts
  <2>2. scan0[a] = ScanBy(q, a, ScanAnswers(q, a))'
    <3>1. Hierarchy'
      BY HierarchyKept
    <3>2. \A x \in Casts : \A y \in Scans : (ScanOf(x)[y] = ScanBy(x, y, ScanAnswers(x, y)))'
      BY <3>1, ScanHoldsNext
    <3> QED BY <3>2
  <2>3. ScanAnswers(q, a)' = ScanAnswers(q, a)
    <3>1. \A i \in DOMAIN bases[a.class] :
            scan0[ScanBase(a, i)] = ScanOf(q)[ScanBase(a, i)]
      <4> TAKE i \in DOMAIN bases[a.class]
      <4>1. ScanBase(a, i) \in Scans /\ rank[ScanBase(a, i)] < rank[a]
        BY ScanBaseFields
      <4>2. ScanBase(a, i) \in G
        <5> HIDE DEF rank, G
        <5> QED BY <1>2, <4>1
      <4> QED BY <4>2
    <3>2. \A i : ScanBase(a, i)' = ScanBase(a, i)
      BY LayoutKept DEF ScanBase
    <3> QED BY <3>1, <3>2 DEF ScanAnswers
  <2>4. ScanBy(q, a, ScanAnswers(q, a))' = ScanBy(q, a, ScanAnswers(q, a))
    BY <2>3, ScanByKept
  <2> QED BY <2>1, <2>2, <2>4
<1>3. Scans \subseteq G
  <2> HIDE DEF rank, G
  <2> QED BY <1>1, <1>2, ByRank
<1> QED BY <1>3

LEMMA DynamicCastIsComplete ==
  ASSUME Hierarchy, Laid, NEW q, IsCast(q), ~HasPrivate(whole) \/ "diamond" \notin flags[whole]
  PROVE  DynamicCast(q.src, q.at, q.dst, q.hint) \in {LOST, RightCast(q)}
<1>0. whole \in Classes /\ q.dst \in Classes
  BY CastFacts DEF Hierarchy
<1>1. q = [src |-> q.src, at |-> q.at, dst |-> q.dst, hint |-> q.hint]
  BY DEF IsCast, Casts
<1>2. DoDyncast(q) = ScanOf(q)[Start]
  BY DEF DoDyncast, ScanOf, Start
<1> DEFINE r == ScanOf(q)[Start]
<1>3. DynamicCast(q.src, q.at, q.dst, q.hint) = IF r.lost THEN LOST ELSE TargetOf(q, r)
  BY <1>1, <1>2 DEF DynamicCast
<1>4. Even
  <2>1. CASE ~HasPrivate(whole)
    <3>1. \A w \in Routes[whole] : \E v \in Ways(whole, NULL) : v.public = w.public
      <4>1. \A w \in Routes[whole] : \E v \in Ways(whole, NULL) :
              /\ v.type = w.type /\ v.at = Place(w, NULL)
              /\ v.public = w.public
              /\ v.virtual = w.virtual
        BY <1>0, WaysFields
      <4> QED BY <4>1
    <3>2. AllPublic(whole)
      BY <2>1, <3>1 DEF HasPrivate, AllPublic
    <3> QED BY <3>2 DEF Even
  <2>2. CASE "diamond" \notin flags[whole]
    <3>1. flags[whole] = Flags(whole)
      BY <1>0 DEF Hierarchy
    <3>2. ~Diamond(whole)
      BY <2>2, <3>1 DEF Flags
    <3> QED BY <3>2 DEF Even
  <2> QED BY <2>1, <2>2
<1>5. CASE r.lost
  BY <1>3, <1>5
<1>6. CASE ~r.lost
  <2>1. TargetOf(q, r) \in {NULL, RightCast(q)}
    BY <1>6, CastIsRight
  <2>2. RightCast(q) # NULL => TargetOf(q, r) = RightCast(q)
    BY <1>0, <1>4, <1>6, RightIsWanted, WantedIsFound
  <2> QED BY <1>3, <1>6, <2>1, <2>2
<1> QED BY <1>5, <1>6

LEMMA DynamicCastNeedsNoHint ==
  ASSUME Hierarchy, Laid, NEW q, IsCast(q)
  PROVE  \/ DynamicCast(q.src, q.at, q.dst, q.hint) = DynamicCast(q.src, q.at, q.dst, -1)
         \/ DynamicCast(q.src, q.at, q.dst, q.hint) = LOST
         \/ DynamicCast(q.src, q.at, q.dst, -1) = LOST
<1> DEFINE b == [src |-> q.src, at |-> q.at, dst |-> q.dst, hint |-> -1]
           r == ScanOf(q)[Start]
           r0 == ScanOf(b)[Start]
<1>1. q = [src |-> q.src, at |-> q.at, dst |-> q.dst, hint |-> q.hint]
  BY DEF IsCast, Casts
<1>2. Bare(q, b) /\ b \in Casts
  BY DEF Bare, IsCast, Casts
<1>3. \A x : DoDyncast(x) = ScanOf(x)[Start]
  BY DEF DoDyncast, ScanOf, Start
<1>4. DynamicCast(q.src, q.at, q.dst, q.hint) = IF r.lost THEN LOST ELSE TargetOf(q, r)
  BY <1>1, <1>3 DEF DynamicCast
<1>5. DynamicCast(q.src, q.at, q.dst, -1) = IF r0.lost THEN LOST ELSE TargetOf(b, r0)
  BY <1>3 DEF DynamicCast
<1> HIDE DEF b
<1>6. IsCast(b)
  BY <1>2 DEF IsCast, Bare
<1>7. ~r.lost /\ ~r0.lost => TargetOf(b, r0) = TargetOf(q, r)
  BY <1>2, <1>6, HintIsNoMatter
<1> QED BY <1>4, <1>5, <1>7

LEMMA DynamicCastKept ==
  ASSUME Hierarchy, UNCHANGED <<bases, flags, whole>>
  PROVE  \A src, dst \in Classes, at \in Nat, hint \in Int :
           DynamicCast(src, at, dst, hint)' = DynamicCast(src, at, dst, hint)
<1> TAKE src, dst \in Classes, at \in Nat, hint \in Int
<1> DEFINE q == [src |-> src, at |-> at, dst |-> dst, hint |-> hint]
<1>1. q \in Casts
  BY DEF Casts
<1>2. DynamicCast(src, at, dst, hint) =
        IF DoDyncast(q).lost THEN LOST ELSE TargetOf(q, DoDyncast(q))
  BY DEF DynamicCast
<1>3. DynamicCast(src, at, dst, hint)' =
        IF DoDyncast(q)'.lost THEN LOST ELSE TargetOf(q, DoDyncast(q))'
  BY DEF DynamicCast
<1> HIDE DEF q
<1>4. DoDyncast(q) = ScanOf(q)[Start] /\ DoDyncast(q)' = ScanOf(q)'[Start]
  <2>1. Start' = Start
    BY DEF Start
  <2>2. DoDyncast(q)' = ScanOf(q)'[Start']
    BY DEF DoDyncast, ScanOf, Start
  <2> QED BY <2>1, <2>2 DEF DoDyncast, ScanOf, Start
<1>5. DoDyncast(q)' = DoDyncast(q)
  BY <1>1, <1>4, ScanOfKept, ReachedWhole
<1>6. TargetOf(q, DoDyncast(q))' = TargetOf(q, DoDyncast(q))
  BY <1>5, TargetOfKept
<1> QED BY <1>2, <1>3, <1>5, <1>6

-----------------------------------------------------------------------------
(* The theorems. *)

\* What a handler gets is right when the hierarchy is one, whatever was asked.
MatchingInv == Hierarchy /\ CatchIsRight

\* The hierarchy never changes, and every answer of a handler is right: the
\* invariant of the questions and answers.
THEOREM MatchingInvariant == Spec => []MatchingInv
<1>1. Init => MatchingInv
  <2> SUFFICES ASSUME Init PROVE MatchingInv
    OBVIOUS
  <2>1. asked.op # "catch"
    BY DEF Init, Nobody
  <2> QED BY <2>1, InitHierarchy DEF MatchingInv, CatchIsRight
<1>2. MatchingInv /\ [Next]_vars => MatchingInv'
  <2> SUFFICES ASSUME MatchingInv, [Next]_vars PROVE MatchingInv'
    OBVIOUS
  <2>1. Hierarchy /\ UNCHANGED <<bases, flags, whole>>
    BY DEF MatchingInv, Next, Cast, Catch, vars
  <2>2. Hierarchy'
    BY <2>1, HierarchyKept
  <2>3. /\ \A q : RightCatch(q)' = RightCatch(q)
        /\ \A c : HasPrivate(c)' = HasPrivate(c)
    BY <2>1, RuleKept
  <2>4. CASE Cast
    <3>1. asked'.op # "catch"
      BY <2>4 DEF Cast
    <3> QED BY <2>2, <3>1 DEF MatchingInv, CatchIsRight
  <2>5. CASE Catch
    <3>1. PICK t \in Types(whole), c \in 1 .. whole, obj \in {Origin, NULL} :
            \E h \in Types(c) :
              asked' = [op |-> "catch", handler |-> h, thrown |-> t, obj |-> obj,
                        got |-> Catches(h, t, obj)]
      BY <2>5 DEF Catch
    <3>2. PICK h \in Types(c) :
            asked' = [op |-> "catch", handler |-> h, thrown |-> t, obj |-> obj,
                      got |-> Catches(h, t, obj)]
      BY <3>1
    <3> DEFINE q == [op |-> "catch", handler |-> h, thrown |-> t, obj |-> obj,
                     got |-> Catches(h, t, obj)]
    <3>3. /\ q.op = "catch" /\ q.handler = h /\ q.thrown = t /\ q.obj = obj
          /\ q.got = Catches(h, t, obj)
      OBVIOUS
    <3>4. Covered(obj) => q.got = RightCatch(q)
      <4>1. IsType(t, whole) /\ IsType(h, c)
        BY TypesFacts
      <4> HIDE DEF q
      <4> QED BY <2>1, <3>3, <4>1, CatchesRightly DEF RightCatch
    <3> HIDE DEF q
    <3>5. CatchIsRight'
      <4> SUFFICES ASSUME asked'.op = "catch",
                          "repeat" \notin flags'[whole'] \/ (~HasPrivate(whole)' /\ asked'.obj # NULL)
                   PROVE  asked'.got = RightCatch(asked)'
        BY DEF CatchIsRight
      <4> QED BY <2>1, <2>3, <3>2, <3>3, <3>4 DEF Covered, q
    <3> QED BY <2>2, <3>5 DEF MatchingInv
  <2>6. CASE UNCHANGED vars
    <3>1. CatchIsRight'
      BY <2>1, <2>3, <2>6 DEF MatchingInv, CatchIsRight, vars
    <3> QED BY <2>2, <3>1 DEF MatchingInv
  <2> QED BY <2>4, <2>5, <2>6 DEF Next
<1> QED BY <1>1, <1>2, PTL DEF Spec

\* For every hierarchy of classes, every type thrown and every handler, where no
\* base is repeated, or all are public and there is an object: __do_catch says
\* what the language says, and the handler gets the subobject the language names.
THEOREM CatchesAreRight == Spec => []CatchIsRight
<1>1. MatchingInv => CatchIsRight
  BY DEF MatchingInv
<1> QED BY <1>1, MatchingInvariant, PTL

LEMMA LaidKept ==
  ASSUME UNCHANGED bases
  PROVE  Laid => Laid'
<1>1. Size' = Size
  BY DEF Size, SumTo, Parts
<1> QED BY <1>1 DEF Laid

\* A cast is asked about classes and an address.
CastAsked == asked.op = "cast" =>
               asked.src \in Classes /\ asked.dst \in Classes /\ asked.at \in Nat

\* What dynamic_cast answers is right when the hierarchy is one and laid out.
CastingInv == Hierarchy /\ Laid /\ CastAsked /\ CastIsSound /\ CastIsComplete /\ HintOnlyHelps

\* The hierarchy never changes, and every cast is sound and, where no private
\* base or no meeting of ways is in the way, complete.
THEOREM CastingInvariant == Spec => []CastingInv
<1>1. Init => CastingInv
  <2> SUFFICES ASSUME Init PROVE CastingInv
    OBVIOUS
  <2>1. asked.op # "cast" /\ Laid
    BY DEF Init, Nobody, Laid
  <2> QED BY <2>1, InitHierarchy DEF CastingInv, CastAsked, CastIsSound, CastIsComplete, HintOnlyHelps
<1>2. CastingInv /\ [Next]_vars => CastingInv'
  <2> SUFFICES ASSUME CastingInv, [Next]_vars PROVE CastingInv'
    OBVIOUS
  <2>1. Hierarchy /\ Laid /\ UNCHANGED <<bases, flags, whole>>
    BY DEF CastingInv, Next, Cast, Catch, vars
  <2>2. Hierarchy' /\ Laid'
    BY <2>1, HierarchyKept, LaidKept
  <2>3. CASE Catch
    <3>1. asked'.op # "cast"
      BY <2>3 DEF Catch
    <3> QED BY <2>2, <3>1 DEF CastingInv, CastAsked, CastIsSound, CastIsComplete, HintOnlyHelps
  <2>4. CASE Cast
    <3>1. PICK w \in Ways(whole, Origin), dst \in 1 .. whole :
            /\ ~DerivesFrom(w.type, dst)
            /\ asked' = [op |-> "cast", src |-> w.type, at |-> w.at, dst |-> dst,
                         got |-> DynamicCast(w.type, w.at, dst, Hint(w.type, dst))]
      BY <2>4 DEF Cast
    <3>2. whole \in Classes /\ Origin \in Nat /\ dst \in Classes
      BY <2>1, <3>1, ClassFacts DEF Hierarchy
    <3>3. Subobject(w.type, w.at)
      <4>1. \E v \in Routes[whole] : w.type = v.type /\ w.at = Place(v, Origin)
        BY <2>1, <3>1, <3>2, WaysFields
      <4> QED BY <4>1 DEF Subobject
    <3>4. w.type \in Classes /\ w.at \in Nat
      BY <2>1, <3>3, SubobjectFacts
    <3>5. ~\E v \in Routes[w.type] : v.type = dst
      <4>1. \A v \in Routes[w.type] : \E x \in Ways(w.type, NULL) : x.type = v.type
        BY <2>1, <3>4, WaysFields
      <4> QED BY <3>1, <4>1 DEF DerivesFrom
    <3>6. Hint(w.type, dst) \in Int
      BY <2>1, <3>2, HintFacts
    <3> DEFINE q == [src |-> w.type, at |-> w.at, dst |-> dst, hint |-> Hint(w.type, dst)]
               answer == DynamicCast(w.type, w.at, dst, Hint(w.type, dst))
    <3>7. /\ q.src = w.type /\ q.at = w.at /\ q.dst = dst
          /\ q.hint = Hint(w.type, dst) /\ q \in Casts
      BY <3>2, <3>4, <3>6 DEF Casts
    <3> HIDE DEF q
    <3>8. IsCast(q)
      BY <3>3, <3>5, <3>7 DEF IsCast
    <3>9. answer \in {LOST, NULL, RightCast(q)}
      BY <2>1, <3>7, <3>8, DynamicCastIsRight
    <3> HIDE DEF answer
    <3>10. asked'.src = q.src /\ asked'.at = q.at /\ asked'.dst = q.dst /\ asked'.got = answer
      BY <3>1, <3>7 DEF answer
    <3>11. RightCast(asked') = RightCast(q)
      BY <3>10 DEF RightCast
    <3>12. RightCast(asked)' = RightCast(asked')
      BY <2>1, RoutesKept DEF RightCast, Around, Ways
    <3>13. CastIsSound'
      BY <3>9, <3>10, <3>11, <3>12 DEF CastIsSound, LOST, NULL
    <3>14. HasPrivate(whole)' = HasPrivate(whole)
      BY <2>1, RoutesKept DEF HasPrivate, Ways
    <3>15. ~HasPrivate(whole) \/ "diamond" \notin flags[whole] => answer \in {LOST, RightCast(q)}
      BY <2>1, <3>7, <3>8, DynamicCastIsComplete DEF answer
    <3>16. CastIsComplete'
      BY <2>1, <3>10, <3>11, <3>12, <3>14, <3>15 DEF CastIsComplete, LOST
    <3>17. CastAsked'
      BY <2>1, <3>2, <3>4, <3>7, <3>10 DEF CastAsked
    <3>18. HintOnlyHelps'
      <4>1. DynamicCast(asked.src, asked.at, asked.dst, -1)' = DynamicCast(q.src, q.at, q.dst, -1)
        <5>1. asked'.src = w.type /\ asked'.at = w.at /\ asked'.dst = dst
          BY <3>7, <3>10
        <5>2. DynamicCast(w.type, w.at, dst, -1)' = DynamicCast(w.type, w.at, dst, -1)
          <6>1. \A hint \in Int : DynamicCast(w.type, w.at, dst, hint)'
                                   = DynamicCast(w.type, w.at, dst, hint)
            BY <2>1, <3>2, <3>4, DynamicCastKept, Zenon
          <6> QED BY <6>1
        <5>3. DynamicCast(asked.src, asked.at, asked.dst, -1)'
                = DynamicCast(w.type, w.at, dst, -1)'
          BY <5>1
        <5> QED BY <3>7, <5>2, <5>3
      <4>2. \/ answer = DynamicCast(q.src, q.at, q.dst, -1)
            \/ answer = LOST \/ DynamicCast(q.src, q.at, q.dst, -1) = LOST
        BY <2>1, <3>7, <3>8, DynamicCastNeedsNoHint DEF answer
      <4> QED BY <3>10, <4>1, <4>2 DEF HintOnlyHelps, LOST
    <3> QED BY <2>2, <3>13, <3>16, <3>17, <3>18 DEF CastingInv
  <2>5. CASE UNCHANGED vars
    <3>1. CastIsSound'
      <4>1. RightCast(asked)' = RightCast(asked)
        BY <2>1, <2>5, RoutesKept DEF RightCast, Around, Ways, vars
      <4> QED BY <2>5, <4>1 DEF CastingInv, CastIsSound, vars
    <3>2. CastIsComplete'
      <4>1. RightCast(asked)' = RightCast(asked) /\ HasPrivate(whole)' = HasPrivate(whole)
        BY <2>1, <2>5, RoutesKept DEF RightCast, Around, HasPrivate, Ways, vars
      <4> QED BY <2>1, <2>5, <4>1 DEF CastingInv, CastIsComplete, vars
    <3>3. CastAsked'
      BY <2>5 DEF CastingInv, CastAsked, vars
    <3>4. HintOnlyHelps'
      <4> SUFFICES ASSUME asked.op = "cast" PROVE HintOnlyHelps'
        BY <2>5 DEF HintOnlyHelps, vars
      <4>1. DynamicCast(asked.src, asked.at, asked.dst, -1)'
              = DynamicCast(asked.src, asked.at, asked.dst, -1)
        BY <2>1, <2>5, DynamicCastKept DEF CastingInv, CastAsked, vars
      <4> QED BY <2>5, <4>1 DEF CastingInv, HintOnlyHelps, LOST, vars
    <3> QED BY <2>2, <3>1, <3>2, <3>3, <3>4 DEF CastingInv
  <2> QED BY <2>3, <2>4, <2>5 DEF Next
<1> QED BY <1>1, <1>2, PTL DEF Spec

\* For every hierarchy of classes, every object of it and every target: what
\* __dynamic_cast returns is a null pointer or the object the language names,
\* whichever hint the compiler gives and whatever the walks leave out.
THEOREM CastsAreSound == Spec => []CastIsSound
<1>1. CastingInv => CastIsSound
  BY DEF CastingInv
<1> QED BY <1>1, CastingInvariant, PTL

\* For every hierarchy of classes that has no base but public ones, or in which
\* no two ways meet: __dynamic_cast returns the object that the language names
\* if there is one.  The scan that stops at a good answer, the bases it passes
\* over and the search that trusts the hint miss no target.
THEOREM CastsAreComplete == Spec => []CastIsComplete
<1>1. CastingInv => CastIsComplete
  BY DEF CastingInv
<1> QED BY <1>1, CastingInvariant, PTL

\* For every hierarchy of classes, every object of it and every target: with the
\* hint of the compiler dynamic_cast answers what it answers without one, unless
\* a walk goes astray at a null pointer.  What the hint saves, the bases that are
\* looked at late, those that are passed over because no public base is the
\* source, and the target that is not searched, changes no answer.
THEOREM HintsOnlyHelp == Spec => []HintOnlyHelps
<1>1. CastingInv => HintOnlyHelps
  BY DEF CastingInv
<1> QED BY <1>1, CastingInvariant, PTL
=============================================================================
