---------------------------- MODULE Boot_proofs -----------------------------
(* Theorems about Boot: for machines of every size, on a platform that is   *)
(* Orderly.                                                                  *)
EXTENDS Boot, SequenceTheorems, TLAPS

-----------------------------------------------------------------------------
(* Quotients.  The prover does not multiply variables by itself.             *)

\* The only way to write a number as k times q and a rest.
LEMMA QuotientIs ==
  ASSUME NEW q \in Nat \ {0}, NEW k \in Nat, NEW s \in 0 .. q - 1
  PROVE  (k * q + s) \div q = k /\ (k * q + s) % q = s
OBVIOUS

\* A number is its quotient times q and its rest.
LEMMA Divided ==
  ASSUME NEW q \in Nat \ {0}, NEW a \in Nat
  PROVE  /\ a \div q \in Nat /\ a % q \in 0 .. q - 1
         /\ a = (a \div q) * q + (a % q)
OBVIOUS

\* Multiples, which the prover does not find by itself.
LEMMA Multiples ==
  ASSUME NEW q \in Nat, NEW j \in Nat, NEW k \in Nat
  PROVE  j * q \in Nat /\ (j + k) * q = j * q + k * q
OBVIOUS

-----------------------------------------------------------------------------
(* Arithmetic of pages.                                                      *)

LEMMA Grows ==
  ASSUME NEW q \in Nat \ {0}, NEW j \in Nat, NEW k \in Nat
  PROVE  j <= k <=> j * q <= k * q
<1>1. ASSUME NEW i \in Nat, NEW n \in Nat, i <= n
      PROVE  i * q <= n * q
  <2>1. PICK d \in Nat : n = i + d
    BY <1>1
  <2>2. n * q = i * q + d * q /\ d * q \in Nat /\ i * q \in Nat
    BY <2>1, Multiples
  <2> QED
    BY <2>2
<1>2. ASSUME NEW i \in Nat, NEW n \in Nat, i < n
      PROVE  i * q < n * q
  <2>1. (i + 1) * q <= n * q
    BY <1>1, <1>2
  <2>2. (i + 1) * q = i * q + 1 * q /\ i * q \in Nat /\ 1 * q = q
    BY Multiples
  <2> QED
    BY <2>1, <2>2
<1> QED
  <2>1. CASE j <= k
    BY <2>1, <1>1
  <2>2. CASE k < j
    <3>1. k * q < j * q
      BY <2>2, <1>2
    <3>2. k * q \in Nat /\ j * q \in Nat
      BY Multiples
    <3> QED
      BY <2>2, <3>1, <3>2
  <2> QED
    BY <2>1, <2>2

\* The boundaries of pages before an address and behind it.
LEMMA PageOrder ==
  ASSUME NEW q \in Nat \ {0}, NEW a \in Nat, NEW k \in Nat
  PROVE  /\ a < k * q <=> a \div q < k
         /\ k * q <= a <=> k <= a \div q
<1> DEFINE h == a \div q
<1>1. h \in Nat /\ a = h * q + (a % q) /\ a % q \in 0 .. q - 1
  BY Divided
<1>2. h * q \in Nat /\ k * q \in Nat
  <2> HIDE DEF h
  <2> QED
    BY <1>1, Multiples
<1>3. ASSUME k <= h
      PROVE  k * q <= a
  <2>1. k * q <= h * q
    <3> HIDE DEF h
    <3> QED
      BY <1>1, <1>3, Grows
  <2> HIDE DEF h
  <2> QED
    BY <2>1, <1>1, <1>2
<1>4. ASSUME h < k
      PROVE  a < k * q
  <2>1. (h + 1) * q <= k * q
    <3> HIDE DEF h
    <3> QED
      BY <1>1, <1>4, Grows
  <2>2. (h + 1) * q = h * q + 1 * q /\ 1 * q = q
    <3> HIDE DEF h
    <3> QED
      BY <1>1, Multiples
  <2> HIDE DEF h
  <2>3. a < h * q + q
    <3> DEFINE u == h * q
    <3>1. u \in Nat /\ a = u + (a % q)
      BY <1>1, <1>2
    <3> HIDE DEF u
    <3>2. a < u + q
      BY <3>1, <1>1
    <3> QED
      BY <3>2 DEF u
  <2> QED
    BY <2>1, <2>2, <2>3, <1>1, <1>2
<1> QED
  <2>1. k <= h \/ h < k
    <3> HIDE DEF h
    <3> QED
      BY <1>1
  <2>2. a < k * q => ~ k * q <= a
    BY <1>2
  <2>3. h < k => ~ k <= h
    <3> HIDE DEF h
    <3> QED
      BY <1>1
  <2> QED
    BY <2>1, <2>2, <2>3, <1>3, <1>4

LEMMA Sizes ==
  /\ {PAGE, MIB, BIG, ENTRIES, HDR, DEVICES, VCMEMORY, HUGE, LIMIT} \subseteq Nat \ {0}
  /\ HUGE = ENTRIES * BIG /\ LIMIT = ENTRIES * HUGE
<1>1. {PAGE, MIB, BIG, ENTRIES, HDR, DEVICES, VCMEMORY} \subseteq Nat \ {0}
  BY BootAssumption
<1>2. ASSUME NEW a \in Nat \ {0}, NEW b \in Nat \ {0}
      PROVE  a * b \in Nat \ {0} /\ a * b = b * a
  OBVIOUS
<1>3. HUGE \in Nat \ {0} /\ HUGE = ENTRIES * BIG
  BY <1>1, <1>2 DEF HUGE
<1>4. LIMIT \in Nat \ {0} /\ LIMIT = ENTRIES * HUGE
  BY <1>1, <1>2, <1>3 DEF LIMIT
<1> QED
  BY <1>1, <1>3, <1>4

LEMMA Kernel ==
  /\ KernelStart \in Nat /\ KernelEnd \in Nat /\ KernelStart < KernelEnd
  /\ BootPages \in 1 .. ENTRIES /\ KernelEnd <= BootPages * BIG
  /\ Tables \subseteq Nat
<1>1. /\ KernelStart \in Nat /\ KernelEnd \in Nat /\ KernelStart < KernelEnd
      /\ BootPages \in 1 .. ENTRIES /\ KernelEnd <= BootPages * BIG
      /\ Tables \subseteq KernelStart .. KernelEnd - 1
  BY BootAssumption
<1> QED
  BY <1>1

\* A cell of the last table and an offset stay within the table.
LEMMA Within ==
  ASSUME NEW b \in Index, NEW o \in 0 .. BIG - 1
  PROVE  b * BIG \in Nat /\ b * BIG + o \in 0 .. HUGE - 1
<1>1. b \in Nat /\ b + 1 \in Nat /\ b + 1 <= ENTRIES /\ BIG \in Nat \ {0} /\ ENTRIES \in Nat
  BY Sizes DEF Index
<1>2. (b + 1) * BIG <= ENTRIES * BIG
  BY <1>1, Grows
<1>3. (b + 1) * BIG = b * BIG + 1 * BIG /\ b * BIG \in Nat /\ 1 * BIG = BIG
  BY <1>1, Multiples
<1>4. HUGE = ENTRIES * BIG /\ HUGE \in Nat
  BY Sizes
<1> QED
  BY <1>1, <1>2, <1>3, <1>4

\* The indices of an address at the two levels, and the offset in its page.
LEMMA LevelsOf ==
  ASSUME NEW h \in Nat, NEW b \in Index, NEW o \in 0 .. BIG - 1,
         NEW a, a = h * HUGE + (b * BIG + o)
  PROVE  /\ a \in Nat
         /\ a \div HUGE = h /\ a % HUGE = b * BIG + o
         /\ BigIndex(a) = b /\ a % BIG = o
<1> DEFINE s == b * BIG + o
<1>1. s \in 0 .. HUGE - 1 /\ HUGE \in Nat \ {0} /\ BIG \in Nat \ {0} /\ ENTRIES \in Nat \ {0}
  BY Within, Sizes
<1>2. a \div HUGE = h /\ a % HUGE = s
  <2> HIDE DEF s
  <2>1. a = h * HUGE + s
    BY DEF s
  <2> QED
    BY <1>1, <2>1, QuotientIs
<1>3. h * HUGE = (h * ENTRIES) * BIG /\ h * ENTRIES \in Nat
  <2>1. HUGE = ENTRIES * BIG
    BY Sizes
  <2>2. h * (ENTRIES * BIG) = (h * ENTRIES) * BIG /\ h * ENTRIES \in Nat
    BY <1>1
  <2> QED
    BY <2>1, <2>2
<1>4. a = (h * ENTRIES + b) * BIG + o /\ h * ENTRIES + b \in Nat
  <2> DEFINE k == h * ENTRIES
  <2>1. b \in Nat
    BY <1>1 DEF Index
  <2>2. (k + b) * BIG = k * BIG + b * BIG
    <3> HIDE DEF k
    <3>1. k \in Nat
      BY <1>3 DEF k
    <3> QED
      BY <3>1, <2>1, <1>1, Multiples
  <2>3. k \in Nat /\ k * BIG \in Nat /\ b * BIG \in Nat /\ a = k * BIG + (b * BIG + o)
    BY <1>1, <1>3, <2>1, Multiples
  <2> QED
    <3> HIDE DEF k
    <3>1. a = (k + b) * BIG + o /\ k + b \in Nat
      BY <2>1, <2>2, <2>3
    <3> QED
      BY <3>1 DEF k
<1>5. a \div BIG = h * ENTRIES + b /\ a % BIG = o
  <2> DEFINE k == h * ENTRIES + b
  <2>1. k \in Nat /\ a = k * BIG + o
    BY <1>4
  <2> HIDE DEF k
  <2>2. a \div BIG = k /\ a % BIG = o
    BY <2>1, <1>1, QuotientIs
  <2> QED
    BY <2>2 DEF k
<1>6. (h * ENTRIES + b) % ENTRIES = b
  BY <1>1, QuotientIs DEF Index
<1>7. a \in Nat
  BY <1>1, Multiples
<1> QED
  BY <1>2, <1>5, <1>6, <1>7 DEF BigIndex

LEMMA Levels ==
  ASSUME NEW a \in Nat
  PROVE  /\ a \div HUGE \in Nat /\ BigIndex(a) \in Index /\ a % BIG \in 0 .. BIG - 1
         /\ a = (a \div HUGE) * HUGE + (BigIndex(a) * BIG + (a % BIG))
         /\ a % HUGE = BigIndex(a) * BIG + (a % BIG)
<1> DEFINE d == a \div BIG
<1> DEFINE h == d \div ENTRIES
<1> DEFINE b == d % ENTRIES
<1> DEFINE o == a % BIG
<1>1. BIG \in Nat \ {0} /\ ENTRIES \in Nat \ {0} /\ HUGE = ENTRIES * BIG /\ HUGE \in Nat
  BY Sizes
<1>2. d \in Nat /\ o \in 0 .. BIG - 1 /\ a = d * BIG + o
  BY <1>1, Divided
<1>3. h \in Nat /\ b \in Index /\ d = h * ENTRIES + b
  <2> HIDE DEF d
  <2> QED
    BY <1>1, <1>2, Divided DEF Index
<1>4. b = BigIndex(a)
  BY DEF BigIndex
<1>5. b \in Nat /\ h * ENTRIES \in Nat
  BY <1>1, <1>3 DEF Index
<1>6. (h * ENTRIES) * BIG = h * HUGE /\ h * HUGE \in Nat /\ b * BIG \in Nat
  <2> HIDE DEF h, b
  <2> QED
    BY <1>1, <1>3, <1>5
<1>7. a = h * HUGE + (b * BIG + o)
  <2> DEFINE k == h * ENTRIES
  <2>1. (k + b) * BIG = k * BIG + b * BIG
    <3> HIDE DEF k, b
    <3> QED
      BY <1>1, <1>5, Multiples DEF k
  <2>2. d * BIG = h * HUGE + b * BIG
    <3> HIDE DEF d, h, b
    <3> QED
      BY <1>3, <2>1, <1>6
  <2> HIDE DEF d, h, b, o
  <2> QED
    BY <1>2, <2>2, <1>6
<1>8. a \div HUGE = h /\ a % HUGE = b * BIG + o
  <2> HIDE DEF d, h, b, o
  <2> QED
    BY <1>2, <1>3, <1>7, LevelsOf
<1> QED
  <2> HIDE DEF h, b
  <2> QED
    BY <1>2, <1>3, <1>4, <1>7, <1>8

\* RoundBelow: the last multiple of q before a.
LEMMA BelowIs ==
  ASSUME NEW q \in Nat \ {0}, NEW a \in Nat \ {0}
  PROVE  /\ (a - 1) \div q \in Nat
         /\ RoundBelow(a, q) = ((a - 1) \div q) * q
         /\ RoundBelow(a, q) \in Nat /\ RoundBelow(a, q) < a /\ a <= RoundBelow(a, q) + q
<1> DEFINE c == a - 1
<1>1. c \in Nat /\ a = c + 1
  OBVIOUS
<1>2. c \div q \in Nat /\ c % q \in 0 .. q - 1 /\ c = (c \div q) * q + (c % q)
  <2> HIDE DEF c
  <2> QED
    BY <1>1, Divided
<1>3. (c \div q) * q \in Nat
  <2> HIDE DEF c
  <2> QED
    BY <1>2, Multiples
<1>4. RoundBelow(a, q) = (c \div q) * q
  BY DEF RoundBelow
<1> QED
  <2> HIDE DEF c
  <2>1. RoundBelow(a, q) < a /\ a <= RoundBelow(a, q) + q
    <3> DEFINE m == (c \div q) * q
    <3>1. m \in Nat /\ c = m + (c % q)
      BY <1>2, <1>3
    <3> HIDE DEF m
    <3>2. m < a /\ a <= m + q
      BY <3>1, <1>1, <1>2
    <3> QED
      BY <3>2, <1>4 DEF m
  <2>2. c \div q \in Nat /\ RoundBelow(a, q) = (c \div q) * q /\ RoundBelow(a, q) \in Nat
    BY <1>2, <1>3, <1>4
  <2> QED
    BY <2>1, <2>2 DEF c

\* A multiple of q before a is not behind RoundBelow.
LEMMA BelowLast ==
  ASSUME NEW q \in Nat \ {0}, NEW a \in Nat \ {0}, NEW k \in Nat, k * q < a
  PROVE  k * q <= RoundBelow(a, q)
<1> DEFINE n == (a - 1) \div q
<1>1. n \in Nat /\ RoundBelow(a, q) = n * q /\ a <= n * q + q
  BY BelowIs
<1>2. CASE k <= n
  <2>1. k * q <= n * q
    <3> HIDE DEF n
    <3> QED
      BY <1>1, <1>2, Grows
  <2> QED
    BY <1>1, <2>1
<1>3. CASE n + 1 <= k
  <2> HIDE DEF n
  <2>1. (n + 1) * q <= k * q
    BY <1>1, <1>3, Grows
  <2>2. (n + 1) * q = n * q + 1 * q /\ n * q \in Nat /\ k * q \in Nat /\ 1 * q = q
    BY <1>1, Multiples
  <2> QED
    BY <1>1, <2>1, <2>2
<1> QED
  <2> HIDE DEF n
  <2> QED
    BY <1>1, <1>2, <1>3

\* RoundUp: the first multiple of q that is not before a.
LEMMA UpIs ==
  ASSUME NEW q \in Nat \ {0}, NEW a \in Nat \ {0}
  PROVE  /\ RoundUp(a, q) \in Nat /\ a <= RoundUp(a, q) /\ RoundUp(a, q) < a + q
         /\ RoundUp(a, q) % q = 0 /\ RoundUp(a, q) >= q
         /\ \E k \in Nat : RoundUp(a, q) = k * q
<1> DEFINE n == (a - 1) \div q
<1>1. n \in Nat /\ n * q \in Nat /\ n * q < a /\ a <= n * q + q
  BY BelowIs
<1>2. RoundUp(a, q) = n * q + q
  BY DEF RoundUp
<1>3. (n + 1) * q = n * q + 1 * q /\ 1 * q = q /\ n + 1 \in Nat
  <2> HIDE DEF n
  <2> QED
    BY <1>1, Multiples
<1>4. RoundUp(a, q) = (n + 1) * q
  <2> HIDE DEF n
  <2> QED
    BY <1>1, <1>2, <1>3
<1>5. ((n + 1) * q + 0) % q = 0
  <2> HIDE DEF n
  <2> QED
    BY <1>3, QuotientIs
<1>6. RoundUp(a, q) % q = 0
  <2> HIDE DEF n
  <2>1. (n + 1) * q + 0 = (n + 1) * q
    BY <1>1, <1>2, <1>3, <1>4
  <2> QED
    BY <1>4, <1>5, <2>1
<1> QED
  <2> HIDE DEF n
  <2> QED
    BY <1>1, <1>2, <1>3, <1>4, <1>6

RegionT == [start : Nat, end : Nat, type : {"RAM"}]

\* How far the boot has come is seen in the state.
Stages ==
  /\ pc \in {"start", "parsed", "stopped"} => Crt0Tables
  /\ pc # "constructed" => head = <<>>
  /\ pc \in {"start", "stopped"} => regions = <<>>
  /\ pc = "parsed" => Platform = "x86_64"
  /\ Len(regions) <= 1

\* The region comes from an entry that may be used.
Parsed ==
  pc = "parsed" => \A i \in DOMAIN regions : \E j \in DOMAIN fw.map :
    Usable(fw.map[j]) /\ <<regions[i]>> = MultibootRegion(fw.map[j])

\* What setUpHeap relies on: the region is RAM, it does not end within the
\* kernel, and begins behind the command line unless it begins before it.
Free(r) ==
  /\ r.start > 0
  /\ \E ram \in Ram : ram.start <= r.start /\ r.end <= ram.end
  /\ r.start >= KernelEnd \/ r.end >= KernelEnd \/ r.end <= KernelStart
  /\ NotAcross(fw.cmdline, fw.cmdlen, PastKernel(r).start) \/ PastKernel(r).start <= fw.cmdline

Reached(r) == Platform # "linux" => \A a \in Bytes(r) : MapsToItself(a)

Mapped ==
  pc \in {"mapped", "constructed"} =>
    \A i \in DOMAIN regions : Free(regions[i]) /\ Reached(regions[i])

\* The list has the one region, without its beginning, if it has anything.
OneSegment ==
  pc = "constructed" =>
    \/ head \in {<<>>, NoHead}
    \/ \E i \in DOMAIN regions :
         Qualifies(regions[i]) /\ head = <<Trimmed(regions[i])>>

BootInv == TypeOK /\ Stages /\ Parsed /\ Mapped /\ KernelStaysMapped /\ OneSegment
-----------------------------------------------------------------------------
(* The identity map of x86_64.                                               *)

\* An address up to the limit, at a boundary of huge pages.
LEMMA HugeBoundary ==
  ASSUME NEW k \in Nat
  PROVE  /\ k * HUGE \in Nat
         /\ k * HUGE <= LIMIT <=> k <= ENTRIES
         /\ k * HUGE < LIMIT <=> k < ENTRIES
         /\ k < ENTRIES => HugeIndex(k * HUGE) = k
<1>1. HUGE \in Nat \ {0} /\ ENTRIES \in Nat \ {0} /\ LIMIT = ENTRIES * HUGE
  BY Sizes
<1>2. k * HUGE \in Nat /\ ENTRIES * HUGE \in Nat
  BY <1>1, Multiples
<1>3. k <= ENTRIES <=> k * HUGE <= ENTRIES * HUGE
  BY <1>1, Grows
<1>4. ENTRIES <= k <=> ENTRIES * HUGE <= k * HUGE
  BY <1>1, Grows
<1>5. ASSUME k < ENTRIES
      PROVE  HugeIndex(k * HUGE) = k
  <2>1. (k * HUGE + 0) \div HUGE = k
    BY <1>1, QuotientIs
  <2>2. (k * HUGE) \div HUGE = k
    BY <1>2, <2>1
  <2>3. (0 * ENTRIES + k) % ENTRIES = k
    BY <1>1, <1>5, QuotientIs
  <2>4. k % ENTRIES = k
    BY <1>1, <2>3
  <2> QED
    BY <2>2, <2>4 DEF HugeIndex
<1> QED
  BY <1>1, <1>2, <1>3, <1>4, <1>5

\* How a region is cut: huge pages number k to k + n - 1, after what is left of
\* page h when the region does not begin at a boundary, and a rest behind them.
Cut(r, h, b, k, n) ==
  /\ h \in Index /\ b \in Index /\ k \in Nat /\ n \in Nat
  /\ r.start = h * HUGE + b * BIG
  /\ HugeIndex(r.start) = h /\ BigIndex(r.start) = b
  /\ r.start % HUGE = 0 <=> b = 0
  /\ k = IF b = 0 THEN h ELSE h + 1
  /\ k > 0 /\ k + n <= ENTRIES
  /\ AfterFirst(r) = k * HUGE /\ HugePages(r) = n /\ AfterHuge(r) = (k + n) * HUGE
  /\ n > 0 => HugeIndex(AfterFirst(r)) = k
  /\ AfterHuge(r) < r.end =>
       k + n < ENTRIES /\ RestIndex(r) = k + n /\ r.end <= AfterHuge(r) + HUGE

LEMMA Layout ==
  ASSUME NEW r \in RegionT, 0 < r.start, r.start < r.end, r.end <= LIMIT,
         r.start % BIG = 0
  PROVE  \E h, b, k, n \in Nat : Cut(r, h, b, k, n)
<1> DEFINE S == r.start
<1> DEFINE h == S \div HUGE
<1> DEFINE b == BigIndex(S)
<1> DEFINE k == IF b = 0 THEN h ELSE h + 1
<1> DEFINE x == IF k * HUGE >= r.end THEN 0 ELSE (r.end - k * HUGE) \div HUGE
<1>1. S \in Nat /\ r.end \in Nat /\ S > 0 /\ S < r.end /\ r.end <= LIMIT
  BY DEF RegionT
<1>2. /\ HUGE \in Nat \ {0} /\ ENTRIES \in Nat \ {0} /\ BIG \in Nat \ {0} /\ LIMIT \in Nat
      /\ HUGE = ENTRIES * BIG /\ LIMIT = ENTRIES * HUGE
  BY Sizes
<1>3. /\ h \in Nat /\ b \in Index /\ S = h * HUGE + b * BIG
      /\ S % HUGE = b * BIG
  <2>1. /\ h \in Nat /\ b \in Index /\ S = h * HUGE + (b * BIG + (S % BIG))
        /\ S % HUGE = b * BIG + (S % BIG)
    BY <1>1, Levels
  <2>2. S % BIG = 0
    OBVIOUS
  <2>3. b * BIG \in Nat /\ b \in Nat
    <3> HIDE DEF b
    <3>1. b \in Nat
      BY <2>1, <1>2 DEF Index
    <3> QED
      BY <3>1, <1>2, Multiples
  <2> HIDE DEF S, h, b
  <2>4. S = h * HUGE + b * BIG /\ S % HUGE = b * BIG
    <3> DEFINE u == h * HUGE
    <3> DEFINE v == b * BIG
    <3>1. S = u + (v + 0) /\ S % HUGE = v + 0 /\ v \in Nat
      BY <2>1, <2>2, <2>3
    <3> HIDE DEF u, v
    <3>2. S = u + v /\ S % HUGE = v
      BY <3>1
    <3> QED
      BY <3>2 DEF u, v
  <2> QED
    BY <2>1, <2>4
<1>4. b \in Nat /\ b * BIG \in Nat /\ b < ENTRIES /\ h * HUGE \in Nat
  <2> HIDE DEF b, h
  <2>1. b \in Nat /\ b < ENTRIES
    BY <1>2, <1>3 DEF Index
  <2> QED
    BY <2>1, <1>2, <1>3, Multiples
<1>5. h < ENTRIES /\ HugeIndex(S) = h
  <2> HIDE DEF b, h, S
  <2>1. h * HUGE < LIMIT
    BY <1>1, <1>2, <1>3, <1>4
  <2>2. h < ENTRIES
    BY <2>1, <1>3, HugeBoundary
  <2>3. (0 * ENTRIES + h) % ENTRIES = h
    <3>1. h \in 0 .. ENTRIES - 1 /\ 0 \in Nat
      BY <1>2, <1>3, <2>2
    <3> QED
      BY <3>1, <1>2, QuotientIs
  <2>4. h % ENTRIES = h
    BY <2>3, <1>2, <1>3
  <2> QED
    BY <2>2, <2>4 DEF HugeIndex, h
<1>6. b = 0 <=> b * BIG = 0
  <2> HIDE DEF b
  <2>1. b <= 0 <=> b * BIG <= 0 * BIG
    BY <1>2, <1>4, Grows
  <2> QED
    BY <2>1, <1>2, <1>4
<1>7. k \in Nat /\ k > 0
  <2>1. CASE b = 0
    <3>1. h # 0
      <4> HIDE DEF h, b, S
      <4>1. SUFFICES ASSUME h = 0 PROVE FALSE
        OBVIOUS
      <4>2. S = 0 * HUGE + 0 * BIG
        BY <2>1, <4>1, <1>3
      <4> QED
        BY <4>2, <1>1, <1>2
    <3> HIDE DEF h, b
    <3> QED
      BY <3>1, <2>1, <1>3
  <2>2. CASE b # 0
    <3> HIDE DEF h, b
    <3> QED
      BY <2>2, <1>3
  <2> QED
    BY <2>1, <2>2
<1>8. AfterFirst(r) = k * HUGE
  <2>1. CASE b = 0
    <3>1. AfterFirst(r) = S
      BY <2>1, <1>3, <1>6 DEF AfterFirst
    <3>2. S = h * HUGE
      <4> HIDE DEF S, h, b
      <4> QED
        BY <2>1, <1>3, <1>4, <1>2
    <3>3. k = h
      BY <2>1
    <3> QED
      BY <3>1, <3>2, <3>3
  <2>2. CASE b # 0
    <3>1. AfterFirst(r) = S + (ENTRIES - b) * BIG
      BY <2>2, <1>3, <1>6 DEF AfterFirst
    <3>2. PICK c \in Nat : ENTRIES = b + c /\ c = ENTRIES - b
      <4> HIDE DEF b
      <4> QED
        BY <1>2, <1>4
    <3>3. HUGE = b * BIG + c * BIG /\ c * BIG \in Nat
      <4> HIDE DEF b
      <4> QED
        BY <1>2, <1>4, <3>2, Multiples
    <3>4. (h + 1) * HUGE = h * HUGE + 1 * HUGE /\ 1 * HUGE = HUGE
      <4> HIDE DEF h
      <4> QED
        BY <1>2, <1>3, Multiples
    <3>5. S + c * BIG = h * HUGE + (b * BIG + c * BIG)
      <4> HIDE DEF S, h, b
      <4> QED
        BY <1>3, <1>4, <3>3
    <3>6. S + c * BIG = (h + 1) * HUGE
      <4> HIDE DEF S, h, b
      <4> QED
        BY <3>3, <3>4, <3>5
    <3>7. k = h + 1
      BY <2>2
    <3>8. AfterFirst(r) = S + c * BIG
      BY <3>1, <3>2
    <3> QED
      <4> HIDE DEF S, h, b, k
      <4> QED
        BY <3>6, <3>7, <3>8
  <2> QED
    BY <2>1, <2>2
<1>9. k * HUGE \in Nat
  <2> HIDE DEF k
  <2> QED
    BY <1>2, <1>7, Multiples
<1>10. /\ x \in Nat /\ (k + x) * HUGE = k * HUGE + x * HUGE /\ x * HUGE \in Nat
       /\ k * HUGE < r.end => (k + x) * HUGE <= r.end /\ r.end < (k + x) * HUGE + HUGE
       /\ ~ k * HUGE < r.end => x = 0
  <2> HIDE DEF k, S
  <2>1. CASE k * HUGE >= r.end
    <3>1. x = 0
      BY <2>1
    <3>2. k + x = k /\ x * HUGE = 0 /\ k * HUGE = k * HUGE + 0
      <4> DEFINE u == k * HUGE
      <4>1. u \in Nat
        BY <1>9
      <4> HIDE DEF u
      <4>2. u = u + 0
        BY <4>1
      <4> QED
        BY <3>1, <4>2, <1>2, <1>7 DEF u
    <3> QED
      BY <2>1, <3>1, <3>2, <1>9, <1>1
  <2>2. CASE k * HUGE < r.end
    <3> DEFINE d == r.end - k * HUGE
    <3>1. x = d \div HUGE /\ d \in Nat /\ r.end = k * HUGE + d
      BY <2>2, <1>9, <1>1
    <3>2. x \in Nat /\ d = x * HUGE + (d % HUGE) /\ d % HUGE \in 0 .. HUGE - 1
      <4> HIDE DEF d, x
      <4> QED
        BY <3>1, <1>2, Divided
    <3>3. (k + x) * HUGE = k * HUGE + x * HUGE /\ x * HUGE \in Nat
      <4> HIDE DEF x
      <4> QED
        BY <3>2, <1>2, <1>7, Multiples
    <3>4. (k + x) * HUGE <= r.end /\ r.end < (k + x) * HUGE + HUGE
      <4> DEFINE u == k * HUGE
      <4> DEFINE v == x * HUGE
      <4> DEFINE w == (k + x) * HUGE
      <4>1. w = u + v /\ u \in Nat /\ v \in Nat /\ r.end = u + d /\ d = v + (d % HUGE)
        BY <3>1, <3>2, <3>3, <1>9
      <4> HIDE DEF u, v, w, d, x
      <4>2. w <= r.end /\ r.end < w + HUGE
        BY <4>1, <3>1, <3>2, <1>1, <1>2
      <4> QED
        BY <4>2 DEF w
    <3> QED
      BY <2>2, <3>2, <3>3, <3>4
  <2> QED
    BY <2>1, <2>2, <1>9, <1>1
<1>11. k <= ENTRIES
  <2>1. CASE b = 0
    BY <2>1, <1>5, <1>3, <1>2
  <2>2. CASE b # 0
    <3>1. k = h + 1
      BY <2>2
    <3> HIDE DEF h, k
    <3> QED
      BY <3>1, <1>5, <1>3, <1>2
  <2> QED
    BY <2>1, <2>2
<1>12. k * HUGE < r.end => k < ENTRIES /\ HugeIndex(k * HUGE) = k /\ k + x <= ENTRIES
  <2> HIDE DEF k, x
  <2>1. SUFFICES ASSUME k * HUGE < r.end
                 PROVE  k < ENTRIES /\ HugeIndex(k * HUGE) = k /\ k + x <= ENTRIES
    OBVIOUS
  <2>2. k * HUGE < LIMIT /\ (k + x) * HUGE <= LIMIT
    BY <2>1, <1>1, <1>2, <1>9, <1>10
  <2>3. k + x \in Nat
    BY <1>7, <1>10
  <2> QED
    BY <2>2, <2>3, <1>7, HugeBoundary
<1>13. HugePages(r) = x
  <2>1. CASE k * HUGE >= r.end
    <3>1. x = 0
      BY <2>1
    <3> HIDE DEF k, x
    <3> QED
      BY <2>1, <3>1, <1>8 DEF HugePages
  <2>2. CASE ~ k * HUGE >= r.end
    <3> DEFINE d == (r.end - k * HUGE) \div HUGE
    <3>1. x = d
      BY <2>2
    <3>2. HugePages(r) = Least(d, ENTRIES - HugeIndex(k * HUGE))
      <4> HIDE DEF k
      <4> QED
        BY <2>2, <1>8 DEF HugePages
    <3>3. HugeIndex(k * HUGE) = k /\ k + x <= ENTRIES
      <4> HIDE DEF k, x
      <4> QED
        BY <2>2, <1>1, <1>9, <1>12
    <3> HIDE DEF k, x, d
    <3>4. d <= ENTRIES - k
      BY <3>1, <3>3, <1>2, <1>7, <1>10
    <3> DEFINE g == HugeIndex(k * HUGE)
    <3>5. g = k /\ HugePages(r) = Least(d, ENTRIES - g)
      BY <3>2, <3>3
    <3> HIDE DEF g
    <3>6. HugePages(r) = Least(d, ENTRIES - k)
      BY <3>5
    <3> QED
      BY <3>1, <3>4, <3>6, <1>2, <1>7, <1>10 DEF Least
  <2> QED
    BY <2>1, <2>2
<1>14. AfterHuge(r) = (k + x) * HUGE
  <2> HIDE DEF k, x
  <2> QED
    BY <1>8, <1>10, <1>13 DEF AfterHuge
<1>15. k + x <= ENTRIES /\ k + x \in Nat
  <2> HIDE DEF k, x
  <2> QED
    BY <1>2, <1>7, <1>10, <1>11, <1>12, <1>9, <1>1
<1>16. (k + x) * HUGE < r.end =>
         /\ k + x < ENTRIES /\ HugeIndex((k + x) * HUGE) = k + x
         /\ r.end <= (k + x) * HUGE + HUGE
  <2> DEFINE m == k + x
  <2>1. SUFFICES ASSUME m * HUGE < r.end
                 PROVE  m < ENTRIES /\ HugeIndex(m * HUGE) = m /\ r.end <= m * HUGE + HUGE
    OBVIOUS
  <2>2. m \in Nat
    BY <1>15
  <2>3. m * HUGE \in Nat
    <3> HIDE DEF m
    <3> QED
      BY <2>2, <1>2, Multiples
  <2>4. k * HUGE < r.end
    <3> HIDE DEF k, x, m
    <3>1. m * HUGE = k * HUGE + x * HUGE
      BY <1>10 DEF m
    <3> QED
      BY <2>1, <2>3, <3>1, <1>9, <1>10, <1>1
  <2>5. r.end < m * HUGE + HUGE
    <3> HIDE DEF k, x
    <3> QED
      BY <2>4, <1>10
  <2>6. m * HUGE < LIMIT
    <3> HIDE DEF m
    <3> QED
      BY <2>1, <2>3, <1>1, <1>2
  <2> QED
    <3> HIDE DEF m
    <3> QED
      BY <2>2, <2>3, <2>5, <2>6, <1>1, <1>2, HugeBoundary
<1>17. x > 0 => HugeIndex(AfterFirst(r)) = k
  <2> HIDE DEF k, x
  <2> QED
    BY <1>8, <1>10, <1>12
<1>18. S % HUGE = 0 <=> b = 0
  <2> HIDE DEF b
  <2> QED
    BY <1>3, <1>6
<1>19. Cut(r, h, b, k, x)
  <2>1. h \in Index /\ b \in Index /\ k \in Nat /\ x \in Nat
    <3> HIDE DEF h, b, k, x
    <3> QED
      BY <1>2, <1>3, <1>5, <1>7, <1>10 DEF Index
  <2>2. r.start = h * HUGE + b * BIG /\ HugeIndex(r.start) = h /\ BigIndex(r.start) = b
    <3> HIDE DEF h
    <3> QED
      BY <1>3, <1>5
  <2>3. r.start % HUGE = 0 <=> b = 0
    BY <1>18
  <2>4. k = IF b = 0 THEN h ELSE h + 1
    OBVIOUS
  <2>5. AfterHuge(r) < r.end =>
          k + x < ENTRIES /\ RestIndex(r) = k + x /\ r.end <= AfterHuge(r) + HUGE
    <3> HIDE DEF k, x
    <3> QED
      BY <1>14, <1>16 DEF RestIndex
  <2> HIDE DEF h, b, k, x, S
  <2> QED
    BY <2>1, <2>2, <2>3, <2>4, <2>5, <1>7, <1>8, <1>13, <1>14, <1>15, <1>17 DEF Cut
<1> QED
  <2>1. b \in Nat
    BY <1>4
  <2> HIDE DEF h, b, k, x, S
  <2> QED
    BY <2>1, <1>3, <1>7, <1>10, <1>19

LEMMA ThreeTables ==
  /\ PDT \in Tables /\ PDT1 \in Tables /\ PDT2 \in Tables
  /\ PDT # PDT1 /\ PDT # PDT2 /\ PDT1 # PDT2
<1>1. PICK t \in Tables, u \in Tables, v \in Tables : t # u /\ t # v /\ u # v
  BY BootAssumption
<1>2. PDT \in Tables
  BY <1>1 DEF PDT
<1>3. \E w \in Tables \ {PDT} : TRUE
  BY <1>1
<1>4. PDT1 \in Tables \ {PDT}
  BY <1>3 DEF PDT1
<1>5. \E w \in Tables \ {PDT, PDT1} : TRUE
  BY <1>1
<1>6. PDT2 \in Tables \ {PDT, PDT1}
  BY <1>5 DEF PDT2
<1> QED
  BY <1>2, <1>4, <1>6

CellT  == [kind : {"none", "page", "device", "table"}, at : Nat]
TableT == [Index -> CellT]

\* The cells of the tables after _systemSetup, by the cut of the region.
LEMMA PdptCells ==
  ASSUME Platform = "x86_64", Crt0Tables,
         NEW r \in RegionT,
         NEW h \in Nat, NEW b \in Nat, NEW k \in Nat, NEW n \in Nat, Cut(r, h, b, k, n)
  PROVE  /\ MapPdpt(r) \in TableT
         /\ \A j \in k .. k + n - 1 : j \in Index /\ MapPdpt(r)[j] = Cell("page", j * HUGE)
         /\ AfterHuge(r) < r.end => MapPdpt(r)[k + n] = Cell("table", PDT2)
         /\ b # 0 => MapPdpt(r)[h] = Cell("table", FirstTable(r))
         /\ MapPdpt(r)[0] = Cell("table", PDT)
         /\ FirstTable(r) = IF h = 0 THEN PDT ELSE PDT1
<1>1. /\ h \in Index /\ k > 0 /\ k + n <= ENTRIES /\ HugeIndex(r.start) = h
      /\ r.start % HUGE = 0 <=> b = 0
      /\ k = IF b = 0 THEN h ELSE h + 1
      /\ AfterFirst(r) = k * HUGE /\ HugePages(r) = n
      /\ n > 0 => HugeIndex(AfterFirst(r)) = k
      /\ AfterHuge(r) < r.end => k + n < ENTRIES /\ RestIndex(r) = k + n
  BY DEF Cut
<1>2. /\ pdpt = [i \in Index |-> IF i = 0 THEN Cell("table", PDT) ELSE Cell("none", 0)]
      /\ 0 \in Index /\ ENTRIES \in Nat /\ HUGE \in Nat
  <2>1. pdpt = [EmptyTable EXCEPT ![0] = Cell("table", PDT)]
    BY DEF Crt0Tables
  <2>2. ENTRIES \in Nat \ {0} /\ HUGE \in Nat
    BY Sizes
  <2>3. 0 \in Index
    BY <2>2 DEF Index
  <2> QED
    BY <2>1, <2>2, <2>3 DEF EmptyTable
<1>3. PDT \in Nat /\ PDT1 \in Nat /\ PDT2 \in Nat
  <2>1. Tables \subseteq Nat
    BY Kernel
  <2> QED
    BY <2>1, ThreeTables
<1>4. FirstTable(r) = IF h = 0 THEN PDT ELSE PDT1
  BY <1>1, <1>2 DEF FirstTable, Cell
<1> DEFINE first == [i \in Index |-> IF i = 0 THEN Cell("table", PDT)
                                     ELSE IF i = h /\ b # 0 THEN Cell("table", PDT1)
                                     ELSE Cell("none", 0)]
<1> DEFINE huge == [j \in Index |-> IF j >= k /\ j < k + n
                                      THEN Cell("page", k * HUGE + (j - k) * HUGE)
                                      ELSE first[j]]
<1>5. (IF r.start % HUGE = 0 \/ pdpt[h].kind # "none" THEN pdpt
       ELSE [pdpt EXCEPT ![h] = Cell("table", PDT1)]) = first
  <2>1. pdpt[h].kind # "none" <=> h = 0
    BY <1>1, <1>2 DEF Cell
  <2>2. CASE b = 0 \/ h = 0
    <3>1. pdpt = first
      BY <2>2, <1>1, <1>2
    <3> QED
      BY <3>1, <2>1, <2>2, <1>1
  <2>3. CASE b # 0 /\ h # 0
    <3>1. [pdpt EXCEPT ![h] = Cell("table", PDT1)] = first
      BY <2>3, <1>1, <1>2
    <3> QED
      BY <3>1, <2>1, <2>3, <1>1
  <2> QED
    BY <2>2, <2>3
<1>6. MapPdpt(r) = IF AfterHuge(r) < r.end
                     THEN [huge EXCEPT ![RestIndex(r)] = Cell("table", PDT2)] ELSE huge
  <2> DEFINE H(f, m) == [j \in Index |->
                  IF j >= m /\ j < m + HugePages(r)
                    THEN Cell("page", AfterFirst(r) + (j - m) * HUGE)
                    ELSE f[j]]
  <2>1. MapPdpt(r) = IF AfterHuge(r) < r.end
                     THEN [H(first, HugeIndex(AfterFirst(r))) EXCEPT ![RestIndex(r)] = Cell("table", PDT2)]
                     ELSE H(first, HugeIndex(AfterFirst(r)))
    <3> DEFINE e == IF r.start % HUGE = 0 \/ pdpt[HugeIndex(r.start)].kind # "none" THEN pdpt
                    ELSE [pdpt EXCEPT ![HugeIndex(r.start)] = Cell("table", PDT1)]
    <3>1. MapPdpt(r) = IF AfterHuge(r) < r.end
                       THEN [H(e, HugeIndex(AfterFirst(r))) EXCEPT ![RestIndex(r)] = Cell("table", PDT2)]
                       ELSE H(e, HugeIndex(AfterFirst(r)))
      BY DEF MapPdpt
    <3>2. e = first
      <4> DEFINE i == HugeIndex(r.start)
      <4>1. i = h
        BY <1>1
      <4> HIDE DEF first, i
      <4>2. (IF r.start % HUGE = 0 \/ pdpt[i].kind # "none" THEN pdpt
             ELSE [pdpt EXCEPT ![i] = Cell("table", PDT1)]) = first
        BY <4>1, <1>5
      <4> QED
        BY <4>2 DEF i
    <3> HIDE DEF first, e
    <3> QED
      BY <3>1, <3>2
  <2>2. H(first, HugeIndex(AfterFirst(r))) = huge
    <3>1. CASE n > 0
      <4> HIDE DEF first
      <4> QED
        BY <3>1, <1>1
    <3>2. CASE n = 0
      <4> DEFINE m == HugeIndex(AfterFirst(r))
      <4>1. m \in Nat
        <5>1. k * HUGE \in Nat
          BY HugeBoundary
        <5>2. (k * HUGE) \div HUGE \in Nat
          <6> DEFINE q == k * HUGE
          <6>1. q \in Nat
            BY <5>1
          <6> HIDE DEF q
          <6>2. q \div HUGE \in Nat
            BY <6>1, Sizes, Divided
          <6> QED
            BY <6>2 DEF q
        <5>3. ((k * HUGE) \div HUGE) % ENTRIES \in Nat
          <6> DEFINE q == (k * HUGE) \div HUGE
          <6>1. q \in Nat /\ ENTRIES \in Nat \ {0}
            BY <5>2, Sizes
          <6> HIDE DEF q
          <6>2. q % ENTRIES \in Nat
            BY <6>1, Divided
          <6> QED
            BY <6>2 DEF q
        <5> QED
          BY <5>3, <1>1 DEF HugeIndex
      <4>2. \A j \in Index : ~ (j >= m /\ j < m + HugePages(r)) /\ ~ (j >= k /\ j < k + n)
        <5> HIDE DEF m
        <5> QED
          BY <3>2, <4>1, <1>1, <1>2 DEF Index
      <4> HIDE DEF m, first
      <4>3. H(first, m) = [j \in Index |-> first[j]] /\ huge = [j \in Index |-> first[j]]
        BY <4>2
      <4> QED
        BY <4>3 DEF m
    <3> QED
      BY <3>1, <3>2
  <2> HIDE DEF huge, H
  <2> QED
    BY <2>1, <2>2
<1>7. /\ first \in TableT
      /\ first[0] = Cell("table", PDT)
      /\ b # 0 => first[h] = Cell("table", IF h = 0 THEN PDT ELSE PDT1)
  BY <1>1, <1>2, <1>3 DEF TableT, CellT, Cell
<1>8. ASSUME NEW j \in k .. k + n - 1
      PROVE  j \in Index /\ huge[j] = Cell("page", j * HUGE) /\ j * HUGE \in Nat
  <2>1. j \in Nat /\ j \in Index /\ j >= k /\ j < k + n
    BY <1>1, <1>2 DEF Index
  <2>2. PICK d \in Nat : j = k + d /\ j - k = d
    BY <2>1
  <2>3. (k + d) * HUGE = k * HUGE + d * HUGE /\ j * HUGE \in Nat
    BY <2>1, <1>2, Multiples
  <2>4. k * HUGE + (j - k) * HUGE = j * HUGE
    BY <2>2, <2>3
  <2>5. huge[j] = Cell("page", k * HUGE + (j - k) * HUGE)
    <3> HIDE DEF first
    <3> QED
      BY <2>1
  <2> QED
    BY <2>1, <2>3, <2>4, <2>5
<1>9. \A j \in Index : j < k \/ j >= k + n => huge[j] = first[j]
  <2> HIDE DEF first
  <2> QED
    BY <1>1, <1>2 DEF Index
<1>10. huge \in TableT
  <2>1. \A j \in Index : huge[j] \in CellT
    <3> TAKE j \in Index
    <3>1. CASE j \in k .. k + n - 1
      <4> DEFINE p == j * HUGE
      <4>1. p \in Nat /\ huge[j] = Cell("page", p)
        BY <3>1, <1>8
      <4> HIDE DEF huge, p
      <4> QED
        BY <4>1 DEF CellT, Cell
    <3>2. CASE j \notin k .. k + n - 1
      <4>1. huge[j] = first[j]
        <5> HIDE DEF huge, first
        <5> QED
          BY <3>2, <1>9, <1>2 DEF Index
      <4> HIDE DEF huge, first
      <4> QED
        BY <4>1, <1>7 DEF TableT
    <3> QED
      BY <3>1, <3>2
  <2>2. huge = [j \in Index |-> huge[j]]
    OBVIOUS
  <2> HIDE DEF huge
  <2> QED
    BY <2>1, <2>2 DEF TableT
<1>11. huge[0] = Cell("table", PDT)
  <2> HIDE DEF huge, first
  <2> QED
    BY <1>1, <1>2, <1>7, <1>9
<1>12. b # 0 => huge[h] = Cell("table", IF h = 0 THEN PDT ELSE PDT1)
  <2> HIDE DEF huge, first
  <2> QED
    BY <1>1, <1>2, <1>7, <1>9 DEF Index
<1>13. CASE AfterHuge(r) < r.end
  <2>1. MapPdpt(r) = [huge EXCEPT ![k + n] = Cell("table", PDT2)] /\ k + n \in Index /\ k + n # 0
    <3>1. k + n < ENTRIES /\ RestIndex(r) = k + n
      BY <1>13, <1>1
    <3>2. k + n \in Index /\ k + n # 0
      BY <3>1, <1>1, <1>2 DEF Index
    <3> HIDE DEF huge
    <3> QED
      BY <1>13, <1>6, <3>1, <3>2
  <2>2. \A j \in Index : j # k + n => MapPdpt(r)[j] = huge[j]
    <3> HIDE DEF huge
    <3> QED
      BY <2>1, <1>10 DEF TableT
  <2>3. MapPdpt(r)[k + n] = Cell("table", PDT2) /\ MapPdpt(r) \in TableT
    <3> HIDE DEF huge
    <3>1. Cell("table", PDT2) \in CellT
      BY <1>3 DEF Cell, CellT
    <3> QED
      BY <2>1, <3>1, <1>10 DEF TableT
  <2>4. MapPdpt(r)[0] = Cell("table", PDT)
    <3> HIDE DEF huge
    <3> QED
      BY <2>1, <2>2, <1>2, <1>11
  <2>5. b # 0 => MapPdpt(r)[h] = Cell("table", FirstTable(r))
    <3>1. b # 0 => h # k + n
      BY <1>1, <1>2 DEF Index
    <3> HIDE DEF huge
    <3> QED
      BY <3>1, <2>2, <1>1, <1>4, <1>12
  <2>6. \A j \in k .. k + n - 1 : j \in Index /\ MapPdpt(r)[j] = Cell("page", j * HUGE)
    <3> TAKE j \in k .. k + n - 1
    <3>1. j # k + n
      OBVIOUS
    <3> HIDE DEF huge
    <3> QED
      BY <3>1, <2>2, <1>8
  <2> QED
    BY <2>3, <2>4, <2>5, <2>6, <1>4
<1>14. CASE ~ AfterHuge(r) < r.end
  <2>1. MapPdpt(r) = huge
    BY <1>14, <1>6
  <2> HIDE DEF huge
  <2> QED
    BY <2>1, <1>14, <1>4, <1>8, <1>10, <1>11, <1>12
<1> QED
  BY <1>13, <1>14

LEMMA PdtCells ==
  ASSUME Platform = "x86_64", Crt0Tables,
         NEW r \in RegionT,
         NEW h \in Nat, NEW b \in Nat, NEW k \in Nat, NEW n \in Nat, Cut(r, h, b, k, n)
  PROVE  /\ MapPdt(r) \in [Tables -> TableT]
         /\ b # 0 => \A j \in Index : j >= b =>
              MapPdt(r)[FirstTable(r)][j] = Cell("page", h * HUGE + j * BIG)
         /\ \A j \in Index : j < BootPages => MapPdt(r)[PDT][j] = Cell("page", j * BIG)
         /\ \A j \in Index : AfterHuge(r) + j * BIG < r.end =>
              MapPdt(r)[PDT2][j] = Cell("page", AfterHuge(r) + j * BIG)
<1> DEFINE low  == [i \in Index |-> IF i < BootPages THEN Cell("page", i * BIG)
                                    ELSE Cell("none", 0)]
<1> DEFINE rest == [j \in Index |-> IF AfterHuge(r) + j * BIG < r.end
                                      THEN Cell("page", AfterHuge(r) + j * BIG)
                                      ELSE Cell("none", 0)]
<1> DEFINE before == [pdt EXCEPT ![PDT1] = EmptyTable, ![PDT2] = rest]
<1> DEFINE t == FirstTable(r)
<1> DEFINE own == [j \in Index |-> IF j < b THEN before[t][j]
                                   ELSE Cell("page", r.start + (j - b) * BIG)]
<1>1. /\ pdt = [u \in Tables |-> IF u = PDT THEN low ELSE EmptyTable]
      /\ t = IF h = 0 THEN PDT ELSE PDT1
      /\ t \in Tables
  <2>1. t = IF h = 0 THEN PDT ELSE PDT1
    BY PdptCells
  <2>2. pdt = [u \in Tables |-> IF u = PDT THEN low ELSE EmptyTable]
    BY DEF Crt0Tables
  <2> HIDE DEF t, low
  <2> QED
    BY <2>1, <2>2, ThreeTables
<1>2. /\ BigIndex(r.start) = b /\ b \in Index
      /\ r.start % HUGE = 0 <=> b = 0
      /\ r.start = h * HUGE + b * BIG
      /\ AfterHuge(r) = (k + n) * HUGE
  BY DEF Cut
<1>3. BIG \in Nat \ {0} /\ HUGE \in Nat \ {0} /\ ENTRIES \in Nat \ {0}
  BY Sizes
<1>4. \A j \in Index : j \in Nat /\ j * BIG \in Nat
  <2>1. \A j \in Index : j \in Nat
    BY <1>3 DEF Index
  <2> QED
    BY <2>1, <1>3, Multiples
<1>5. h * HUGE \in Nat /\ AfterHuge(r) \in Nat /\ b * BIG \in Nat
  <2>1. k + n \in Nat
    OBVIOUS
  <2>2. h * HUGE \in Nat /\ (k + n) * HUGE \in Nat /\ b * BIG \in Nat
    BY <2>1, <1>3, Multiples
  <2> QED
    BY <2>2, <1>2
<1>6. low \in TableT /\ EmptyTable \in TableT /\ rest \in TableT
  <2>1. ASSUME NEW m \in Nat
        PROVE  Cell("page", m) \in CellT /\ Cell("none", 0) \in CellT
    BY DEF Cell, CellT
  <2>2. \A j \in Index : Cell("page", j * BIG) \in CellT
    BY <2>1, <1>4
  <2>3. \A j \in Index : Cell("page", AfterHuge(r) + j * BIG) \in CellT
    <3> TAKE j \in Index
    <3> DEFINE m == AfterHuge(r) + j * BIG
    <3>1. m \in Nat
      BY <1>4, <1>5
    <3> HIDE DEF m
    <3>2. Cell("page", m) \in CellT
      BY <2>1, <3>1
    <3> QED
      BY <3>2 DEF m
  <2>4. Cell("none", 0) \in CellT
    BY <2>1
  <2> QED
    BY <2>2, <2>3, <2>4 DEF TableT, EmptyTable
<1>7. /\ before \in [Tables -> TableT]
      /\ before[PDT2] = rest
      /\ before[PDT] = low
  <2> HIDE DEF low, rest
  <2> QED
    BY <1>1, <1>6, ThreeTables
<1>8. ASSUME NEW j \in Index, j >= b
      PROVE  r.start + (j - b) * BIG = h * HUGE + j * BIG /\ h * HUGE + j * BIG \in Nat
  <2>1. PICK d \in Nat : j = b + d /\ d = j - b
    BY <1>4, <1>8
  <2>2. (b + d) * BIG = b * BIG + d * BIG /\ d * BIG \in Nat
    BY <2>1, <1>3, Multiples
  <2>3. j * BIG = b * BIG + d * BIG
    BY <2>1, <2>2
  <2>4. r.start + d * BIG = h * HUGE + (b * BIG + d * BIG)
    <3> DEFINE u == h * HUGE
    <3> DEFINE v == b * BIG
    <3> DEFINE w == d * BIG
    <3>1. r.start = u + v /\ u \in Nat /\ v \in Nat /\ w \in Nat
      BY <1>2, <1>5, <2>2
    <3> HIDE DEF u, v, w
    <3>2. r.start + w = u + (v + w)
      BY <3>1
    <3> QED
      BY <3>2 DEF u, v, w
  <2>5. h * HUGE + j * BIG \in Nat
    BY <1>4, <1>5
  <2> QED
    BY <2>1, <2>3, <2>4, <2>5
<1>9. /\ own \in TableT
      /\ \A j \in Index : j < b => own[j] = before[t][j]
      /\ \A j \in Index : j >= b => own[j] = Cell("page", h * HUGE + j * BIG)
  <2>1. \A j \in Index : j < b => own[j] = before[t][j]
    <3> HIDE DEF before, t
    <3> QED
      OBVIOUS
  <2>2. \A j \in Index : j >= b => own[j] = Cell("page", h * HUGE + j * BIG)
    <3> TAKE j \in Index
    <3>1. SUFFICES ASSUME j >= b PROVE own[j] = Cell("page", h * HUGE + j * BIG)
      OBVIOUS
    <3>2. own[j] = Cell("page", r.start + (j - b) * BIG)
      <4> HIDE DEF before, t
      <4> QED
        BY <3>1, <1>4
    <3>3. r.start + (j - b) * BIG = h * HUGE + j * BIG
      BY <3>1, <1>8
    <3> HIDE DEF own
    <3> QED
      BY <3>2, <3>3
  <2>3. \A j \in Index : own[j] \in CellT
    <3> TAKE j \in Index
    <3>1. CASE j < b
      <4>1. before[t] \in TableT
        <5> HIDE DEF before, t
        <5> QED
          BY <1>1, <1>7
      <4> HIDE DEF own, before, t
      <4> QED
        BY <3>1, <4>1, <2>1 DEF TableT
    <3>2. CASE j >= b
      <4> DEFINE m == h * HUGE + j * BIG
      <4>1. m \in Nat /\ own[j] = Cell("page", m)
        <5> HIDE DEF own
        <5> QED
          BY <3>2, <1>8, <2>2
      <4> HIDE DEF own, m
      <4> QED
        BY <4>1 DEF Cell, CellT
    <3> QED
      BY <3>1, <3>2, <1>4
  <2>4. own = [j \in Index |-> own[j]]
    OBVIOUS
  <2> HIDE DEF own
  <2> QED
    BY <2>1, <2>2, <2>3, <2>4 DEF TableT
<1>10. MapPdt(r) = IF b = 0 THEN before ELSE [before EXCEPT ![t] = own]
  <2> DEFINE O(i) == [j \in Index |-> IF j < i THEN before[t][j]
                                      ELSE Cell("page", r.start + (j - i) * BIG)]
  <2>1. MapPdt(r) = IF r.start % HUGE = 0 THEN before
                    ELSE [before EXCEPT ![t] = O(BigIndex(r.start))]
    BY DEF MapPdt
  <2>2. O(BigIndex(r.start)) = own
    <3>1. BigIndex(r.start) = b
      BY <1>2
    <3> HIDE DEF before, t
    <3> QED
      BY <3>1
  <2> HIDE DEF O, own, before, t
  <2> QED
    BY <2>1, <2>2, <1>2
<1>11. \A j \in Index : j < BootPages => low[j] = Cell("page", j * BIG)
  OBVIOUS
<1>12. \A j \in Index : AfterHuge(r) + j * BIG < r.end => rest[j] = Cell("page", AfterHuge(r) + j * BIG)
  OBVIOUS
<1>13. CASE b = 0
  <2> HIDE DEF before, own, low, rest, t
  <2> QED
    BY <1>13, <1>7, <1>10, <1>11, <1>12
<1>14. CASE b # 0
  <2> DEFINE T == [before EXCEPT ![t] = own]
  <2>1. T \in [Tables -> TableT] /\ T[t] = own /\ \A u \in Tables : u # t => T[u] = before[u]
    <3> HIDE DEF before, own, low, rest, t
    <3> QED
      BY <1>1, <1>7, <1>9
  <2>2. MapPdt(r) = T
    BY <1>14, <1>10
  <2>3. T[PDT2] = rest
    <3>1. t # PDT2
      BY <1>1, ThreeTables
    <3> HIDE DEF T, before, own, low, rest, t
    <3> QED
      BY <2>1, <3>1, <1>7, ThreeTables
  <2>4. \A j \in Index : j < BootPages => T[PDT][j] = Cell("page", j * BIG)
    <3> TAKE j \in Index
    <3>1. SUFFICES ASSUME j < BootPages PROVE T[PDT][j] = Cell("page", j * BIG)
      OBVIOUS
    <3>2. CASE h # 0
      <4>1. t # PDT
        BY <3>2, <1>1, ThreeTables
      <4> HIDE DEF T, before, own, low, rest, t
      <4> QED
        BY <2>1, <4>1, <3>1, <1>7, <1>11, ThreeTables
    <3>3. CASE h = 0
      <4>1. t = PDT
        BY <3>3, <1>1
      <4>2. CASE j < b
        <5> HIDE DEF T, before, own, low, rest, t
        <5> QED
          BY <2>1, <4>1, <4>2, <3>1, <1>7, <1>9, <1>11
      <4>3. CASE j >= b
        <5>1. h * HUGE + j * BIG = j * BIG
          BY <3>3, <1>3, <1>4
        <5> HIDE DEF T, before, own, low, rest, t
        <5> QED
          BY <2>1, <4>1, <4>3, <5>1, <1>9
      <4> QED
        BY <4>2, <4>3, <1>4
    <3> QED
      BY <3>2, <3>3
  <2> HIDE DEF T, before, own, low, rest
  <2> QED
    BY <2>1, <2>2, <2>3, <2>4, <1>9, <1>12
<1> QED
  BY <1>13, <1>14

\* Walk, with the tables as parameters.
WalkOf(top, tables, a) ==
  LET up  == top[a \div HUGE]
      low == tables[up.at][BigIndex(a)]
  IN  IF a >= LIMIT THEN Cell("none", -1)
      ELSE IF up.kind = "page" THEN Cell("page", up.at + (a % HUGE))
      ELSE IF up.kind = "table" /\ low.kind # "none" THEN Cell(low.kind, low.at + (a % BIG))
      ELSE Cell("none", -1)

LEMMA HugePage ==
  ASSUME NEW top, NEW tables, NEW a \in Nat, a < LIMIT,
         top[a \div HUGE] = Cell("page", (a \div HUGE) * HUGE)
  PROVE  WalkOf(top, tables, a) = Cell("page", a)
<1> DEFINE m == (a \div HUGE) * HUGE
<1>1. a = m + (a % HUGE) /\ LIMIT \in Nat
  BY Sizes, Divided
<1>2. top[a \div HUGE] = Cell("page", m)
  OBVIOUS
<1> HIDE DEF m
<1>3. WalkOf(top, tables, a) = Cell("page", m + (a % HUGE))
  BY <1>1, <1>2 DEF WalkOf, Cell
<1> QED
  BY <1>1, <1>3

LEMMA SmallPage ==
  ASSUME NEW top, NEW tables, NEW t, NEW a \in Nat, a < LIMIT,
         top[a \div HUGE] = Cell("table", t),
         tables[t][BigIndex(a)] = Cell("page", (a \div HUGE) * HUGE + BigIndex(a) * BIG)
  PROVE  WalkOf(top, tables, a) = Cell("page", a)
<1> DEFINE m == (a \div HUGE) * HUGE + BigIndex(a) * BIG
<1>1. a = m + (a % BIG) /\ LIMIT \in Nat
  <2> DEFINE u == (a \div HUGE) * HUGE
  <2> DEFINE v == BigIndex(a) * BIG
  <2> DEFINE w == a % BIG
  <2>1. HUGE \in Nat /\ BIG \in Nat /\ ENTRIES \in Nat /\ LIMIT \in Nat
    BY Sizes
  <2>2. u \in Nat
    <3> DEFINE q == a \div HUGE
    <3>1. q \in Nat
      BY Levels
    <3> HIDE DEF q
    <3>2. q * HUGE \in Nat
      BY <2>1, <3>1, Multiples
    <3> QED
      BY <3>2 DEF q
  <2>3. v \in Nat
    <3> DEFINE q == BigIndex(a)
    <3>1. q \in Nat
      BY <2>1, Levels DEF Index
    <3> HIDE DEF q
    <3>2. q * BIG \in Nat
      BY <2>1, <3>1, Multiples
    <3> QED
      BY <3>2 DEF q
  <2>4. w \in Nat /\ a = u + (v + w)
    BY <2>1, Levels
  <2> HIDE DEF u, v, w
  <2>5. a = (u + v) + w
    BY <2>2, <2>3, <2>4
  <2> QED
    BY <2>1, <2>5 DEF u, v, w
<1>2. tables[t][BigIndex(a)] = Cell("page", m)
  OBVIOUS
<1> HIDE DEF m
<1>3. WalkOf(top, tables, a) = Cell("page", m + (a % BIG))
  BY <1>1, <1>2 DEF WalkOf, Cell
<1> QED
  BY <1>1, <1>3

\* What the table below the first huge page maps, up to e.
LEMMA FirstReached ==
  ASSUME NEW top, NEW tables, NEW e \in Nat, e <= HUGE,
         top[0] = Cell("table", PDT),
         \A j \in Index : j * BIG < e => tables[PDT][j] = Cell("page", j * BIG),
         NEW a \in Nat, a < e
  PROVE  WalkOf(top, tables, a) = Cell("page", a)
<1>1. /\ BIG \in Nat \ {0} /\ ENTRIES \in Nat \ {0} /\ HUGE \in Nat \ {0} /\ HUGE = ENTRIES * BIG
      /\ LIMIT \in Nat /\ LIMIT = ENTRIES * HUGE
  BY Sizes
<1>2. 1 * HUGE = HUGE
  BY <1>1
<1>3. a \div HUGE = 0
  <2>1. a < 1 * HUGE
    BY <1>1, <1>2
  <2>2. a \div HUGE < 1
    BY <2>1, <1>1, PageOrder
  <2> QED
    BY <2>2, Levels
<1>4. a < LIMIT
  <2>1. 1 * HUGE <= LIMIT
    BY <1>1, HugeBoundary
  <2> QED
    BY <2>1, <1>1, <1>2
<1> DEFINE j == BigIndex(a)
<1>5. j \in Index /\ a % BIG \in 0 .. BIG - 1 /\ a = 0 * HUGE + (j * BIG + (a % BIG))
  BY <1>3, Levels
<1>6. j \in Nat /\ j * BIG \in Nat
  <2> HIDE DEF j
  <2>1. j \in Nat
    BY <1>1, <1>5 DEF Index
  <2> QED
    BY <2>1, <1>1, Multiples
<1>7. j * BIG < e
  <2> DEFINE v == j * BIG
  <2>1. a = 0 * HUGE + (v + (a % BIG)) /\ v \in Nat
    BY <1>5, <1>6
  <2> HIDE DEF v
  <2>2. v < e
    BY <2>1, <1>1, <1>5
  <2> QED
    BY <2>2 DEF v
<1>8. tables[PDT][j] = Cell("page", (a \div HUGE) * HUGE + j * BIG)
  <2>1. j * BIG = 0 * HUGE + j * BIG
    <3> HIDE DEF j
    <3> QED
      BY <1>6, <1>1
  <2>2. tables[PDT][j] = Cell("page", j * BIG)
    <3> HIDE DEF j
    <3> QED
      BY <1>5, <1>7
  <2> HIDE DEF j
  <2> QED
    BY <2>1, <2>2, <1>3
<1> QED
  BY <1>3, <1>4, <1>8, SmallPage

\* The kernel is mapped by the first table, as far as crt0.S has filled it.
LEMMA KernelReached ==
  ASSUME NEW top, NEW tables, top[0] = Cell("table", PDT),
         \A j \in Index : j < BootPages => tables[PDT][j] = Cell("page", j * BIG),
         NEW a \in KernelStart .. KernelEnd - 1
  PROVE  WalkOf(top, tables, a) = Cell("page", a)
<1>1. /\ BIG \in Nat \ {0} /\ ENTRIES \in Nat \ {0} /\ HUGE = ENTRIES * BIG
      /\ BootPages \in Nat /\ BootPages <= ENTRIES
      /\ KernelStart \in Nat /\ KernelEnd \in Nat /\ KernelEnd <= BootPages * BIG
  BY Sizes, Kernel
<1>2. BootPages * BIG <= HUGE /\ BootPages * BIG \in Nat
  BY <1>1, Grows, Multiples
<1>3. \A j \in Index : j * BIG < BootPages * BIG => tables[PDT][j] = Cell("page", j * BIG)
  <2> TAKE j \in Index
  <2>1. j \in Nat /\ j * BIG \in Nat
    BY <1>1, Multiples DEF Index
  <2>2. BootPages <= j <=> BootPages * BIG <= j * BIG
    BY <2>1, <1>1, Grows
  <2> QED
    BY <2>1, <2>2, <1>1, <1>2
<1>4. a \in Nat /\ a < BootPages * BIG
  BY <1>1, <1>2
<1> QED
  BY <1>2, <1>3, <1>4, FirstReached

\* Every byte of the region is mapped to itself: before the huge pages, in
\* them, or behind them.
LEMMA RegionReached ==
  ASSUME Platform = "x86_64", Crt0Tables,
         NEW r \in RegionT, 0 < r.start, r.start < r.end, r.end <= LIMIT,
         r.start % BIG = 0,
         NEW a \in Bytes(r)
  PROVE  WalkOf(MapPdpt(r), MapPdt(r), a) = Cell("page", a)
<1>1. PICK h \in Nat, b \in Nat, k \in Nat, n \in Nat : Cut(r, h, b, k, n)
  BY Layout
<1>2. /\ h \in Index /\ b \in Index
      /\ r.start = h * HUGE + b * BIG
      /\ k = IF b = 0 THEN h ELSE h + 1
      /\ AfterHuge(r) = (k + n) * HUGE
      /\ AfterHuge(r) < r.end => r.end <= AfterHuge(r) + HUGE
  BY <1>1 DEF Cut
<1>3. a \in Nat /\ r.start <= a /\ a < r.end /\ a < LIMIT /\ r.end \in Nat
  BY Sizes DEF Bytes, RegionT
<1>4. /\ HUGE \in Nat \ {0} /\ BIG \in Nat \ {0} /\ ENTRIES \in Nat \ {0}
  BY Sizes
<1> DEFINE c == a \div HUGE
<1> DEFINE j == BigIndex(a)
<1>5. c \in Nat /\ j \in Index /\ a % BIG \in 0 .. BIG - 1 /\ a = c * HUGE + (j * BIG + (a % BIG))
  BY <1>3, Levels
<1>6. j \in Nat /\ j * BIG \in Nat /\ b * BIG \in Nat /\ h * HUGE \in Nat /\ c * HUGE \in Nat
  <2> HIDE DEF j, c
  <2>1. j \in Nat
    BY <1>4, <1>5 DEF Index
  <2> QED
    BY <2>1, <1>4, <1>5, Multiples
<1>7. h <= c
  <2>1. h * HUGE <= a
    BY <1>2, <1>3, <1>6
  <2> QED
    BY <2>1, <1>3, <1>4, PageOrder
<1>8. CASE c < k
  <2>1. b # 0 /\ c = h
    <3> HIDE DEF c
    <3> QED
      BY <1>8, <1>7, <1>2, <1>5
  <2>2. j >= b
    <3> HIDE DEF c, j
    <3>1. SUFFICES ASSUME j < b PROVE FALSE
      BY <1>6
    <3>2. (j + 1) * BIG <= b * BIG
      BY <3>1, <1>4, <1>6, Grows
    <3>3. (j + 1) * BIG = j * BIG + 1 * BIG /\ 1 * BIG = BIG
      BY <1>4, <1>6, Multiples
    <3> DEFINE u == h * HUGE
    <3> DEFINE v == j * BIG
    <3> DEFINE w == b * BIG
    <3>4. /\ a = u + (v + (a % BIG)) /\ r.start = u + w
          /\ u \in Nat /\ v \in Nat /\ w \in Nat /\ v + BIG <= w
      BY <1>2, <1>5, <1>6, <2>1, <3>2, <3>3
    <3> HIDE DEF u, v, w
    <3> QED
      BY <3>4, <1>3, <1>4, <1>5
  <2>3. MapPdpt(r)[c] = Cell("table", FirstTable(r))
    <3> HIDE DEF c
    <3> QED
      BY <2>1, <1>1, PdptCells
  <2>4. MapPdt(r)[FirstTable(r)][j] = Cell("page", h * HUGE + j * BIG)
    <3> HIDE DEF j
    <3> QED
      BY <2>1, <2>2, <1>1, <1>5, PdtCells
  <2>5. MapPdt(r)[FirstTable(r)][j] = Cell("page", c * HUGE + j * BIG)
    <3> HIDE DEF c, j
    <3> QED
      BY <2>1, <2>4
  <2> QED
    BY <2>3, <2>5, <1>3, SmallPage
<1>9. CASE k <= c /\ c < k + n
  <2>1. c \in k .. k + n - 1
    <3> HIDE DEF c
    <3> QED
      BY <1>9, <1>5
  <2>2. MapPdpt(r)[c] = Cell("page", c * HUGE)
    <3> HIDE DEF c
    <3> QED
      BY <2>1, <1>1, PdptCells
  <2> QED
    BY <2>2, <1>3, HugePage
<1>10. CASE k + n <= c
  <2>1. (k + n) * HUGE <= a /\ (k + n) * HUGE \in Nat
    <3>1. k + n \in Nat
      OBVIOUS
    <3> QED
      BY <3>1, <1>10, <1>3, <1>4, PageOrder, Multiples
  <2>2. AfterHuge(r) < r.end /\ r.end <= (k + n) * HUGE + HUGE
    BY <2>1, <1>2, <1>3
  <2>3. (k + n + 1) * HUGE = (k + n) * HUGE + 1 * HUGE /\ 1 * HUGE = HUGE
    <3> DEFINE m == k + n
    <3>1. m \in Nat
      OBVIOUS
    <3> HIDE DEF m
    <3>2. (m + 1) * HUGE = m * HUGE + 1 * HUGE /\ 1 * HUGE = HUGE
      BY <3>1, <1>4, Multiples
    <3> QED
      BY <3>2 DEF m
  <2>4. a < (k + n + 1) * HUGE
    BY <2>1, <2>2, <2>3, <1>3, <1>4
  <2>5. c < k + n + 1
    <3>1. k + n + 1 \in Nat
      OBVIOUS
    <3> QED
      BY <3>1, <2>4, <1>3, <1>4, PageOrder
  <2>6. c = k + n
    <3> HIDE DEF c
    <3> QED
      BY <2>5, <1>5, <1>10
  <2>7. MapPdpt(r)[c] = Cell("table", PDT2)
    <3> HIDE DEF c
    <3> QED
      BY <2>2, <2>6, <1>1, PdptCells
  <2>8. AfterHuge(r) = c * HUGE
    <3> HIDE DEF c
    <3> QED
      BY <2>6, <1>2
  <2>9. AfterHuge(r) + j * BIG < r.end
    <3> DEFINE u == c * HUGE
    <3> DEFINE v == j * BIG
    <3>1. a = u + (v + (a % BIG)) /\ u \in Nat /\ v \in Nat /\ AfterHuge(r) = u
      BY <1>5, <1>6, <2>8
    <3> HIDE DEF u, v
    <3>2. u + v < r.end
      BY <3>1, <1>3, <1>4, <1>5
    <3> QED
      BY <3>1, <3>2 DEF v
  <2>10. MapPdt(r)[PDT2][j] = Cell("page", AfterHuge(r) + j * BIG)
    <3> HIDE DEF j
    <3> QED
      BY <2>9, <1>1, <1>5, PdtCells
  <2>11. MapPdt(r)[PDT2][j] = Cell("page", c * HUGE + j * BIG)
    <3> HIDE DEF c, j
    <3> QED
      BY <2>8, <2>10
  <2> QED
    BY <2>7, <2>11, <1>3, SmallPage
<1> QED
  <2> HIDE DEF c
  <2> QED
    BY <1>5, <1>8, <1>9, <1>10
-----------------------------------------------------------------------------
(* setUpHeap.                                                                *)

LEMMA FirmwareFacts ==
  ASSUME fw \in Firmwares
  PROVE  /\ Platform \in {"x86_64", "raspi3", "linux"}
         /\ fw.map \in Seq(MemEntry)
         /\ fw.cmdline \in Nat \ {0} /\ fw.cmdlen \in 1 .. PAGE
         /\ Platform = "linux" => Len(fw.map) = 1 /\ fw.cmdline = fw.map[1].addr
         /\ Platform = "raspi3" => Len(fw.map) <= 1
<1>1. ASSUME NEW f \in Firmwares
      PROVE  /\ f.platform \in {"x86_64", "raspi3", "linux"}
             /\ f.map \in Seq(MemEntry)
             /\ f.cmdline \in Nat \ {0} /\ f.cmdlen \in 1 .. PAGE
             /\ f.platform = "linux" => Len(f.map) = 1 /\ f.cmdline = f.map[1].addr
             /\ f.platform = "raspi3" => Len(f.map) <= 1
  BY BootAssumption
<1> QED
  BY <1>1 DEF Platform

\* The segment is the region from a later page on: behind the kernel, if any of
\* it is left there, and behind the page of the command line.
LEMMA TrimmedIs ==
  ASSUME fw \in Firmwares, NEW r \in RegionT, r.start > 0
  PROVE  /\ Trimmed(r) = Region(Trimmed(r).start, r.end, "RAM") /\ r.end \in Nat
         /\ Trimmed(r).start \in Nat /\ Trimmed(r).start >= r.start
         /\ Trimmed(r).start % PAGE = 0
         /\ r.start >= KernelEnd \/ r.end >= KernelEnd =>
              Trimmed(r).start >= KernelEnd
         /\ \/ NotAcross(fw.cmdline, fw.cmdlen, PastKernel(r).start)
            \/ PastKernel(r).start <= fw.cmdline
            => Trimmed(r).start >= fw.cmdline + fw.cmdlen \/ r.end <= fw.cmdline
<1>1. /\ fw.cmdline \in Nat \ {0} /\ fw.cmdlen \in 1 .. PAGE
      /\ PAGE \in Nat \ {0} /\ KernelEnd \in Nat \ {0}
  BY FirmwareFacts, Sizes, Kernel
<1>2. r = Region(r.start, r.end, "RAM") /\ r.start \in Nat /\ r.end \in Nat
  BY DEF RegionT, Region
<1> DEFINE u == PastKernel(r)
<1> DEFINE v == PastCmdline(u)
<1>3. /\ u = Region(u.start, r.end, "RAM") /\ u.start \in Nat /\ u.start >= r.start
      /\ r.start >= KernelEnd \/ r.end >= KernelEnd => u.start >= KernelEnd
  BY <1>1, <1>2 DEF PastKernel, Region
<1>4. /\ v = Region(v.start, r.end, "RAM") /\ v.start \in Nat /\ v.start >= u.start
      /\ u.start <= fw.cmdline /\ r.end > fw.cmdline => v.start = fw.cmdline + PAGE
  <2> HIDE DEF u
  <2> QED
    BY <1>1, <1>2, <1>3 DEF PastCmdline, Region
<1>5. Trimmed(r) = [v EXCEPT !.start = RoundUp(v.start, PAGE)]
  BY DEF Trimmed
<1>6. /\ RoundUp(v.start, PAGE) \in Nat /\ RoundUp(v.start, PAGE) >= v.start
      /\ RoundUp(v.start, PAGE) % PAGE = 0
  <2> HIDE DEF v, u
  <2>1. v.start \in Nat \ {0}
    BY <1>2, <1>3, <1>4
  <2> QED
    BY <2>1, <1>1, UpIs
<1>7. Trimmed(r) = Region(RoundUp(v.start, PAGE), r.end, "RAM")
      /\ Trimmed(r).start = RoundUp(v.start, PAGE)
  <2> HIDE DEF v
  <2> QED
    BY <1>4, <1>5 DEF Region
<1>8. \/ NotAcross(fw.cmdline, fw.cmdlen, u.start)
      \/ u.start <= fw.cmdline
      => v.start >= fw.cmdline + fw.cmdlen \/ r.end <= fw.cmdline
  <2> HIDE DEF v, u
  <2> QED
    BY <1>1, <1>2, <1>3, <1>4 DEF NotAcross
<1> DEFINE w == Trimmed(r).start
<1>9. w \in Nat /\ w >= v.start /\ w % PAGE = 0 /\ Trimmed(r) = Region(w, r.end, "RAM")
  <2> HIDE DEF v
  <2> QED
    BY <1>6, <1>7
<1>10. u.start = PastKernel(r).start
  OBVIOUS
<1> QED
  <2> HIDE DEF u, v, w
  <2>1. w >= r.start /\ (r.start >= KernelEnd \/ r.end >= KernelEnd => w >= KernelEnd)
    BY <1>1, <1>2, <1>3, <1>4, <1>9
  <2>2. \/ NotAcross(fw.cmdline, fw.cmdlen, u.start)
        \/ u.start <= fw.cmdline
        => w >= fw.cmdline + fw.cmdlen \/ r.end <= fw.cmdline
    BY <1>1, <1>2, <1>4, <1>8, <1>9
  <2> QED
    BY <2>1, <2>2, <1>2, <1>9, <1>10 DEF w

\* The list has the regions that qualify; there is one region at most.
LEMMA LinkedIs ==
  ASSUME regions \in Seq(RegionT), Len(regions) <= 1
  PROVE  \/ Linked = <<>>
         \/ Len(regions) = 1 /\ Qualifies(regions[1]) /\ Linked = <<Trimmed(regions[1])>>
<1> DEFINE step(g, i) == IF i = 0 THEN <<>>
                         ELSE IF Qualifies(regions[i]) THEN Append(g[i - 1], Trimmed(regions[i]))
                         ELSE g[i - 1]
<1> DEFINE after == CHOOSE g : g = [i \in 0 .. Len(regions) |-> step(g, i)]
<1>1. Linked = after[Len(regions)]
  BY DEF Linked
<1>2. Len(regions) \in Nat /\ (Len(regions) = 0 \/ Len(regions) = 1)
  <2> DEFINE n == Len(regions)
  <2>1. n \in Nat /\ n <= 1
    OBVIOUS
  <2> HIDE DEF n
  <2>2. n = 0 \/ n = 1
    BY <2>1
  <2> QED
    BY <2>1, <2>2 DEF n
<1>3. after = [i \in 0 .. Len(regions) |-> step(after, i)]
  <2> DEFINE h == [i \in 0 .. Len(regions) |-> IF i = 0 THEN <<>>
                     ELSE IF Qualifies(regions[i]) THEN Append(<<>>, Trimmed(regions[i]))
                     ELSE <<>>]
  <2>1. \A i \in 0 .. Len(regions) : h[i] = step(h, i)
    <3> TAKE i \in 0 .. Len(regions)
    <3>1. i = 0 \/ i = 1
      BY <1>2
    <3>2. h[0] = <<>>
      BY <1>2
    <3>3. CASE i = 0
      <4>1. step(h, 0) = <<>>
        OBVIOUS
      <4> HIDE DEF h, step
      <4> QED
        BY <3>2, <3>3, <4>1
    <3>4. CASE i = 1
      <4>1. step(h, 1) = IF Qualifies(regions[1]) THEN Append(h[0], Trimmed(regions[1]))
                         ELSE h[0]
        <5> HIDE DEF h
        <5> QED
          OBVIOUS
      <4>2. h[1] = IF Qualifies(regions[1]) THEN Append(<<>>, Trimmed(regions[1])) ELSE <<>>
        BY <3>4
      <4> HIDE DEF h, step
      <4> QED
        BY <3>2, <3>4, <4>1, <4>2
    <3> QED
      BY <3>1, <3>3, <3>4
  <2>2. h = [i \in 0 .. Len(regions) |-> h[i]]
    OBVIOUS
  <2> HIDE DEF h, step
  <2>3. h = [i \in 0 .. Len(regions) |-> step(h, i)]
    BY <2>1, <2>2
  <2>4. \E g : g = [i \in 0 .. Len(regions) |-> step(g, i)]
    BY <2>3
  <2> QED
    BY <2>4
<1> HIDE DEF after
<1>4. after[0] = <<>>
  BY <1>2, <1>3
<1>5. CASE Len(regions) = 0
  BY <1>1, <1>4, <1>5
<1>6. CASE Len(regions) = 1
  <2>1. after[1] = step(after, 1)
    <3> HIDE DEF step
    <3> QED
      BY <1>3, <1>6
  <2>2. after[1] = IF Qualifies(regions[1]) THEN Append(after[0], Trimmed(regions[1]))
                   ELSE after[0]
    BY <2>1
  <2>3. Append(<<>>, Trimmed(regions[1])) = <<Trimmed(regions[1])>>
    OBVIOUS
  <2> QED
    BY <2>2, <2>3, <1>1, <1>4, <1>6
<1> QED
  BY <1>2, <1>5, <1>6
-----------------------------------------------------------------------------
(* The steps of the boot.                                                    *)

\* TypeOK, by what each part needs.
LEMMA TypeOKIs ==
  ASSUME pc \in {"start", "parsed", "mapped", "constructed", "stopped"},
         fw \in Firmwares,
         regions \in Seq(RegionT), \A i \in DOMAIN regions : regions[i].start <= regions[i].end,
         pdpt \in TableT, pdt \in [Tables -> TableT],
         head \in Seq([start : Nat, end : Nat, type : {"RAM", "garbage"}])
  PROVE  TypeOK
BY DEF TypeOK, RegionT, TableT, CellT

LEMMA Crt0Typed ==
  ASSUME Crt0Tables
  PROVE  pdpt \in TableT /\ pdt \in [Tables -> TableT]
<1>1. PDT \in Nat /\ PDT \in Tables /\ BIG \in Nat /\ ENTRIES \in Nat
  BY Kernel, ThreeTables, Sizes
<1>2. \A j \in Index : j * BIG \in Nat
  BY <1>1, Multiples DEF Index
<1>3. \A j \in Index : Cell("page", j * BIG) \in CellT
  <2> TAKE j \in Index
  <2> DEFINE m == j * BIG
  <2>1. m \in Nat
    BY <1>2
  <2> HIDE DEF m
  <2>2. Cell("page", m) \in CellT
    BY <2>1 DEF Cell, CellT
  <2> QED
    BY <2>2 DEF m
<1>4. EmptyTable \in TableT /\ Cell("table", PDT) \in CellT /\ Cell("none", 0) \in CellT
  BY <1>1 DEF EmptyTable, Cell, TableT, CellT
<1> DEFINE low == [i \in Index |-> IF i < BootPages THEN Cell("page", i * BIG)
                                   ELSE Cell("none", 0)]
<1>5. low \in TableT
  BY <1>3, <1>4 DEF TableT
<1>6. [EmptyTable EXCEPT ![0] = Cell("table", PDT)] \in TableT
  BY <1>4 DEF TableT
<1> HIDE DEF low
<1>7. CASE Platform = "x86_64"
  <2>1. pdpt \in TableT
    BY <1>6, <1>7 DEF Crt0Tables
  <2>2. pdt = [t \in Tables |-> IF t = PDT THEN low ELSE EmptyTable]
    BY <1>7 DEF Crt0Tables, low
  <2> QED
    BY <2>1, <2>2, <1>4, <1>5
<1>8. CASE Platform # "x86_64"
  BY <1>4, <1>8 DEF Crt0Tables
<1> QED
  BY <1>7, <1>8

LEMMA Begins == Init => BootInv
<1> SUFFICES ASSUME Init PROVE BootInv
  OBVIOUS
<1>1. /\ pc = "start" /\ fw \in Firmwares /\ regions = <<>> /\ Crt0Tables /\ head = <<>>
      /\ regions \in Seq(RegionT) /\ head \in Seq([start : Nat, end : Nat, type : {"RAM", "garbage"}])
  BY DEF Init
<1>2. TypeOK
  BY <1>1, Crt0Typed, TypeOKIs
<1>3. KernelStaysMapped
  <2> SUFFICES ASSUME Platform = "x86_64", NEW a \in KernelStart .. KernelEnd - 1
               PROVE  MapsToItself(a)
    BY <1>1 DEF KernelStaysMapped
  <2>1. pdpt[0] = Cell("table", PDT)
    <3>1. 0 \in Index
      BY Sizes DEF Index
    <3> QED
      BY <3>1, <1>1 DEF Crt0Tables, EmptyTable
  <2>2. \A j \in Index : j < BootPages => pdt[PDT][j] = Cell("page", j * BIG)
    <3> DEFINE low == [i \in Index |-> IF i < BootPages THEN Cell("page", i * BIG)
                                       ELSE Cell("none", 0)]
    <3>1. pdt = [t \in Tables |-> IF t = PDT THEN low ELSE EmptyTable]
      BY <1>1 DEF Crt0Tables
    <3>2. pdt[PDT] = low
      <4> HIDE DEF low
      <4> QED
        BY <3>1, ThreeTables
    <3> QED
      BY <3>2
  <2>3. WalkOf(pdpt, pdt, a) = Cell("page", a)
    BY <2>1, <2>2, KernelReached
  <2> QED
    BY <2>3 DEF MapsToItself, Walk, WalkOf
<1>4. Stages
  BY <1>1 DEF Stages
<1> QED
  BY <1>1, <1>2, <1>3, <1>4 DEF BootInv, Parsed, Mapped, OneSegment

\* Nothing lies behind the map: the loop sees the map.
LEMMA ScannedIs ==
  ASSUME fw \in Firmwares, fw.after = <<>>
  PROVE  Scanned = fw.map
<1>1. fw.map \in Seq(MemEntry) /\ Len(fw.map) \in Nat
  BY FirmwareFacts
<1>2. fw.map \o fw.after = fw.map
  BY <1>1
<1>3. Len(fw.map) <= ENTRYSIZE * Len(fw.map) /\ ENTRYSIZE * Len(fw.map) \in Nat
  <2> DEFINE n == Len(fw.map)
  <2>1. n \in Nat /\ ENTRYSIZE \in Nat /\ ENTRYSIZE >= 1
    BY <1>1, BootAssumption
  <2> HIDE DEF n
  <2>2. n <= ENTRYSIZE * n /\ ENTRYSIZE * n \in Nat
    BY <2>1
  <2> QED
    BY <2>2 DEF n
<1>4. Least(Len(fw.map), ENTRYSIZE * Len(fw.map)) = Len(fw.map)
  BY <1>1, <1>3 DEF Least
<1>5. Scanned = SubSeq(fw.map, 1, Len(fw.map))
  BY <1>2, <1>4 DEF Scanned
<1> QED
  BY <1>1, <1>5

\* The region of an entry lies in it, between boundaries of 2 MiB.
LEMMA MultibootIs ==
  ASSUME NEW e \in MemEntry, Usable(e), NEW r, <<r>> = MultibootRegion(e)
  PROVE  /\ r = Region(RoundUp(e.addr, BIG), RoundBelow(e.addr + e.len, BIG), "RAM")
         /\ r \in RegionT /\ r.start <= r.end
         /\ e.addr <= r.start /\ r.end < e.addr + e.len
         /\ r.start % BIG = 0 /\ \E k \in Nat : r.start = k * BIG
<1> DEFINE u == RoundUp(e.addr, BIG)
           d == RoundBelow(e.addr + e.len, BIG)
<1>1. /\ BIG \in Nat \ {0} /\ PAGE \in Nat \ {0}
      /\ e.addr \in Nat \ {0} /\ e.len \in Nat /\ e.addr + e.len \in Nat \ {0}
  <2>1. BIG \in Nat \ {0} /\ PAGE \in Nat \ {0}
    BY Sizes
  <2>2. e.addr \in Nat /\ e.len \in Nat /\ e.addr >= PAGE
    BY DEF MemEntry, Usable
  <2> QED
    BY <2>1, <2>2
<1>2. /\ u \in Nat /\ e.addr <= u /\ u % BIG = 0
      /\ \E k \in Nat : u = k * BIG
  BY <1>1, UpIs
<1>3. d \in Nat /\ d < e.addr + e.len
  BY <1>1, BelowIs
<1>4. r = Region(u, d, "RAM") /\ u < e.addr + e.len
  <2>1. <<r>> = IF u >= e.addr + e.len THEN <<>> ELSE <<Region(u, d, "RAM")>>
    BY DEF MultibootRegion
  <2> HIDE DEF u, d
  <2>2. ~ u >= e.addr + e.len
    BY <2>1
  <2> QED
    BY <2>1, <2>2, <1>1, <1>2
<1>5. u <= d
  <2>1. PICK k \in Nat : u = k * BIG
    BY <1>2
  <2>2. k * BIG < e.addr + e.len
    <3> HIDE DEF u, d
    <3> QED
      BY <1>4, <2>1
  <2>3. k * BIG <= d
    BY <2>2, <1>1, BelowLast
  <2> HIDE DEF u, d
  <2> QED
    BY <2>1, <2>3
<1> QED
  <2>1. r.start = u /\ r.end = d /\ r \in RegionT
    <3> HIDE DEF u, d
    <3> QED
      BY <1>2, <1>3, <1>4 DEF Region, RegionT
  <2>2. u % BIG = 0 /\ \E k \in Nat : u = k * BIG
    BY <1>2
  <2> HIDE DEF u, d
  <2>3. r.start % BIG = 0 /\ \E k \in Nat : r.start = k * BIG
    BY <2>1, <2>2
  <2> QED
    BY <2>1, <2>3, <1>2, <1>3, <1>4, <1>5 DEF u, d

LEMMA ParseStep ==
  ASSUME BootInv, Orderly(fw), ParseMultiboot
  PROVE  BootInv'
<1>1. /\ Platform = "x86_64" /\ pc = "start" /\ pc' = "parsed"
      /\ fw' = fw /\ pdpt' = pdpt /\ pdt' = pdt /\ head' = head
      /\ fw \in Firmwares /\ Crt0Tables /\ head = <<>>
  BY DEF ParseMultiboot, BootInv, TypeOK, Stages
<1>2. Scanned = fw.map /\ fw.map \in Seq(MemEntry)
  BY <1>1, ScannedIs, FirmwareFacts DEF Orderly, Platform
<1>3. \/ \E i \in DOMAIN fw.map : Usable(fw.map[i]) /\ regions' = MultibootRegion(fw.map[i])
      \/ regions' = <<>>
  BY <1>2 DEF ParseMultiboot, IsLargest
<1>4. \/ regions' = <<>>
      \/ \E i \in DOMAIN fw.map : \E r : /\ Usable(fw.map[i])
                                         /\ regions' = <<r>> /\ <<r>> = MultibootRegion(fw.map[i])
  BY <1>3 DEF MultibootRegion
<1>5. /\ regions' \in Seq(RegionT) /\ Len(regions') <= 1
      /\ \A i \in DOMAIN regions' :
           /\ regions'[i].start <= regions'[i].end
           /\ \E j \in DOMAIN fw.map :
                Usable(fw.map[j]) /\ <<regions'[i]>> = MultibootRegion(fw.map[j])
  <2>1. CASE regions' = <<>>
    BY <2>1
  <2>2. CASE regions' # <<>>
    <3>0. PICK j \in DOMAIN fw.map :
            \E r : Usable(fw.map[j]) /\ regions' = <<r>> /\ <<r>> = MultibootRegion(fw.map[j])
      BY <2>2, <1>4
    <3>1. PICK r : Usable(fw.map[j]) /\ regions' = <<r>> /\ <<r>> = MultibootRegion(fw.map[j])
      BY <3>0
    <3>2. fw.map[j] \in MemEntry
      BY <1>2
    <3>3. r \in RegionT /\ r.start <= r.end
      BY <3>1, <3>2, MultibootIs
    <3> QED
      BY <3>1, <3>3
  <2> QED
    BY <2>1, <2>2
<1>6. Crt0Tables'
  BY <1>1 DEF Crt0Tables, Platform
<1>7. TypeOK'
  <2>1. pdpt' \in TableT /\ pdt' \in [Tables -> TableT]
    BY <1>1, Crt0Typed
  <2>2. head' \in Seq([start : Nat, end : Nat, type : {"RAM", "garbage"}])
    BY <1>1
  <2> QED
    BY <2>1, <2>2, <1>1, <1>5 DEF TypeOK, RegionT, TableT, CellT
<1>8. KernelStaysMapped'
  BY <1>1 DEF BootInv, KernelStaysMapped, Platform, MapsToItself, Walk
<1>9. Stages'
  BY <1>1, <1>5, <1>6 DEF Stages, Platform
<1>10. Parsed'
  BY <1>1, <1>5 DEF Parsed
<1> QED
  BY <1>1, <1>7, <1>8, <1>9, <1>10 DEF BootInv, Mapped, OneSegment

\* Two addresses in one page of 2 MiB are on the same side of its borders.
LEMMA SamePage ==
  ASSUME NEW a \in Nat, NEW c \in Nat, a \div BIG = c \div BIG, NEW k \in Nat, a < k * BIG
  PROVE  c < k * BIG
<1>1. BIG \in Nat \ {0}
  BY Sizes
<1>2. a \div BIG < k
  BY <1>1, PageOrder
<1>3. c \div BIG < k
  BY <1>2
<1> QED
  BY <1>1, <1>3, PageOrder

\* The region of x86_64 that is not rejected is fit for the heap.
LEMMA RegionFree ==
  ASSUME fw \in Firmwares, Orderly(fw), Platform = "x86_64",
         NEW j \in DOMAIN fw.map, Usable(fw.map[j]),
         NEW r, <<r>> = MultibootRegion(fw.map[j]), ~Rejected(r)
  PROVE  Free(r) /\ r.start < r.end /\ r.end <= LIMIT
<1> DEFINE e == fw.map[j]
<1>1. e \in MemEntry /\ e.addr \in Nat /\ e.len \in Nat /\ e.type = AVAILABLE
  <2>1. e \in MemEntry
    BY FirmwareFacts
  <2> QED
    BY <2>1 DEF MemEntry, Usable
<1>2. /\ r = Region(RoundUp(e.addr, BIG), RoundBelow(e.addr + e.len, BIG), "RAM")
      /\ r \in RegionT /\ r.start \in Nat /\ r.end \in Nat
      /\ e.addr <= r.start /\ r.end < e.addr + e.len
      /\ \E k \in Nat : r.start = k * BIG
  <2>1. /\ r = Region(RoundUp(e.addr, BIG), RoundBelow(e.addr + e.len, BIG), "RAM")
        /\ r \in RegionT
        /\ e.addr <= r.start /\ r.end < e.addr + e.len
        /\ \E k \in Nat : r.start = k * BIG
    BY <1>1, MultibootIs
  <2> HIDE DEF e
  <2> QED
    BY <2>1 DEF RegionT
<1>3. /\ NotAcross(e.addr, e.len, LIMIT)
      /\ r.end - r.start >= BIG => r.end <= KernelStart \/ r.end >= KernelEnd
      /\ NotAcross(fw.cmdline, fw.cmdlen, KernelEnd)
      /\ fw.cmdline \div BIG = (fw.cmdline + fw.cmdlen - 1) \div BIG
  BY <1>1, <1>2 DEF Orderly, Platform
<1>4. /\ LIMIT \in Nat \ {0} /\ BIG \in Nat \ {0}
      /\ KernelStart \in Nat /\ KernelEnd \in Nat
      /\ fw.cmdline \in Nat \ {0} /\ fw.cmdlen \in Nat /\ fw.cmdlen >= 1
  <2>1. /\ LIMIT \in Nat \ {0} /\ BIG \in Nat \ {0} /\ PAGE \in Nat \ {0}
        /\ KernelStart \in Nat /\ KernelEnd \in Nat
    BY Sizes, Kernel
  <2>2. fw.cmdline \in Nat \ {0} /\ fw.cmdlen \in 1 .. PAGE
    BY FirmwareFacts
  <2> QED
    BY ONLY <2>1, <2>2
<1> HIDE DEF e
<1>5. r.start # 0 /\ r.end - r.start >= BIG /\ r.start < r.end
  BY <1>2, <1>4 DEF Rejected
<1>6. r.start < LIMIT
  <2> DEFINE q == r.start \div LIMIT
  <2>1. q \in Nat /\ ~ q > 0
    <3>1. q \in Nat
      BY <1>2, <1>4, Divided
    <3> QED
      BY <3>1 DEF Rejected
  <2>2. 1 * LIMIT = LIMIT
    BY <1>4
  <2>3. r.start < 1 * LIMIT
    <3>1. q < 1
      <4> HIDE DEF q
      <4> QED
        BY <2>1
    <3> QED
      BY <3>1, <1>2, <1>4, PageOrder
  <2> QED
    BY <2>2, <2>3
<1>7. r.end <= LIMIT
  BY <1>1, <1>2, <1>3, <1>4, <1>6 DEF NotAcross
<1>8. \E ram \in Ram : ram.start <= r.start /\ r.end <= ram.end
  <2>1. Region(e.addr, e.addr + e.len, "RAM") \in Ram
    <3>1. Ram = {Region(g.addr, g.addr + g.len, "RAM") :
                   g \in {fw.map[i] : i \in {l \in DOMAIN fw.map : fw.map[l].type = AVAILABLE}}}
      BY DEF Ram
    <3> QED
      BY <3>1, <1>1 DEF e
  <2>2. Region(e.addr, e.addr + e.len, "RAM").start = e.addr
        /\ Region(e.addr, e.addr + e.len, "RAM").end = e.addr + e.len
    BY DEF Region
  <2> QED
    BY <2>1, <2>2, <1>1, <1>2
<1>9. NotAcross(fw.cmdline, fw.cmdlen, r.start)
  <2>1. PICK k \in Nat : r.start = k * BIG
    BY <1>2
  <2> DEFINE c == fw.cmdline + fw.cmdlen - 1
  <2>2. c \in Nat /\ fw.cmdline \div BIG = c \div BIG /\ fw.cmdline + fw.cmdlen = c + 1
    BY <1>3, <1>4
  <2> HIDE DEF c
  <2>3. fw.cmdline < r.start => c < r.start
    <3> DEFINE a == fw.cmdline
    <3>1. a \in Nat /\ a \div BIG = c \div BIG
      BY <2>2, <1>4
    <3> HIDE DEF a
    <3>2. a < k * BIG => c < k * BIG
      BY <2>2, <3>1, SamePage
    <3> QED
      BY <2>1, <3>2 DEF a
  <2> QED
    BY <2>2, <2>3, <1>2, <1>4 DEF NotAcross
<1>10. PastKernel(r).start \in {r.start, KernelEnd}
  BY <1>2 DEF PastKernel, RegionT
<1> QED
  BY <1>2, <1>3, <1>4, <1>5, <1>7, <1>8, <1>9, <1>10 DEF Free

LEMMA SetupX86Step ==
  ASSUME BootInv, Orderly(fw), SystemSetupX86
  PROVE  BootInv'
<1>1. /\ Platform = "x86_64" /\ pc = "parsed" /\ pc' = "mapped"
      /\ fw' = fw /\ head' = head
      /\ fw \in Firmwares /\ Crt0Tables /\ head = <<>>
      /\ regions \in Seq(RegionT) /\ Len(regions) <= 1
      /\ \A i \in DOMAIN regions : regions[i].start <= regions[i].end
  BY DEF SystemSetupX86, BootInv, TypeOK, Stages, RegionT
<1>2. pdpt \in TableT /\ pdt \in [Tables -> TableT]
  BY <1>1, Crt0Typed
<1>3. ASSUME regions' = <<>> \/ regions' = regions,
             pdpt' \in TableT, pdt' \in [Tables -> TableT],
             \A i \in DOMAIN regions' : (Free(regions[i]) /\ Reached(regions[i]))',
             KernelStaysMapped'
      PROVE  BootInv'
  <2>1. regions' \in Seq(RegionT) /\ \A i \in DOMAIN regions' : regions'[i].start <= regions'[i].end
    <3>1. CASE regions' = <<>>
      BY <3>1
    <3>2. CASE regions' = regions
      BY <3>2, <1>1
    <3> QED
      BY <3>1, <3>2, <1>3
  <2>2. head' \in Seq([start : Nat, end : Nat, type : {"RAM", "garbage"}])
    BY <1>1
  <2>3. TypeOK'
    BY <2>1, <2>2, <1>1, <1>3 DEF TypeOK, RegionT, TableT, CellT
  <2>4. Stages'
    BY <1>1, <1>3 DEF Stages
  <2>5. Mapped'
    BY <1>3 DEF Mapped
  <2> QED
    BY <2>3, <2>4, <2>5, <1>1, <1>3 DEF BootInv, Parsed, OneSegment
<1>4. CASE regions' = <<>> /\ pdpt' = pdpt /\ pdt' = pdt
  <2>1. KernelStaysMapped'
    BY <1>1, <1>4 DEF BootInv, KernelStaysMapped, Platform, MapsToItself, Walk
  <2>2. DOMAIN regions' = {}
    BY <1>4
  <2> QED
    BY <2>1, <2>2, <1>2, <1>3, <1>4
<1>5. CASE /\ regions # <<>> /\ ~Rejected(regions[1]) /\ regions' = regions
           /\ pdpt' = MapPdpt(regions[1]) /\ pdt' = MapPdt(regions[1])
  <2> DEFINE r == regions[1]
  <2>1. DOMAIN regions = {1} /\ r \in RegionT /\ r.start \in Nat /\ r.end \in Nat
    <3>1. Len(regions) = 1
      <4> DEFINE n == Len(regions)
      <4>1. n \in Nat /\ n <= 1 /\ n # 0
        BY <1>1, <1>5
      <4> HIDE DEF n
      <4>2. n = 1
        BY <4>1
      <4> QED
        BY <4>2 DEF n
    <3>2. DOMAIN regions = {1} /\ r \in RegionT
      <4>1. DOMAIN regions = 1 .. Len(regions)
        BY <1>1
      <4>2. DOMAIN regions = {1}
        BY <3>1, <4>1
      <4> QED
        BY <4>2, <1>1
    <3> QED
      BY <3>2 DEF RegionT
  <2>2. PICK j \in DOMAIN fw.map : Usable(fw.map[j]) /\ <<r>> = MultibootRegion(fw.map[j])
    BY <2>1, <1>1 DEF BootInv, Parsed
  <2>3. fw.map[j] \in MemEntry
    BY <1>1, FirmwareFacts
  <2>4. Free(r) /\ r.start < r.end /\ r.end <= LIMIT /\ r.start > 0
    <3>1. Free(r) /\ r.start < r.end /\ r.end <= LIMIT
      BY <2>2, <1>1, <1>5, RegionFree
    <3> QED
      BY <3>1 DEF Free
  <2>5. r.start % BIG = 0
    BY <2>2, <2>3, MultibootIs
  <2>6. PICK h \in Nat, b \in Nat, k \in Nat, n \in Nat : Cut(r, h, b, k, n)
    <3> HIDE DEF r
    <3> QED
      BY <2>1, <2>4, <2>5, Layout
  <2>7. MapPdpt(r) \in TableT /\ MapPdpt(r)[0] = Cell("table", PDT)
    <3> HIDE DEF r
    <3> QED
      BY <2>1, <2>6, <1>1, PdptCells
  <2>8. /\ MapPdt(r) \in [Tables -> TableT]
        /\ \A i \in Index : i < BootPages => MapPdt(r)[PDT][i] = Cell("page", i * BIG)
    <3> HIDE DEF r
    <3> QED
      BY <2>1, <2>6, <1>1, PdtCells
  <2>9. KernelStaysMapped'
    <3>1. ASSUME NEW a \in KernelStart .. KernelEnd - 1
          PROVE  MapsToItself(a)'
      <4>1. WalkOf(MapPdpt(r), MapPdt(r), a) = Cell("page", a)
        BY <2>7, <2>8, KernelReached
      <4>2. WalkOf(pdpt', pdt', a) = Cell("page", a)
        BY <4>1, <1>5
      <4> QED
        BY <4>2 DEF MapsToItself, Walk, WalkOf
    <3> QED
      BY <3>1 DEF KernelStaysMapped
  <2>10. Reached(r)'
    <3>1. ASSUME NEW a \in Bytes(r)
          PROVE  MapsToItself(a)'
      <4>1. WalkOf(MapPdpt(r), MapPdt(r), a) = Cell("page", a)
        <5> HIDE DEF r
        <5> QED
          BY <2>1, <2>4, <2>5, <1>1, RegionReached
      <4>2. WalkOf(pdpt', pdt', a) = Cell("page", a)
        BY <4>1, <1>5
      <4> QED
        BY <4>2 DEF MapsToItself, Walk, WalkOf
    <3>2. r' = r
      BY <1>5
    <3> QED
      BY <3>1, <3>2 DEF Reached, Bytes
  <2>11. Free(r)'
    BY <2>4, <1>1, <1>5 DEF Free, Ram, Platform, PastKernel, VideoBase
  <2> QED
    BY <2>1, <2>7, <2>8, <2>9, <2>10, <2>11, <1>3, <1>5
<1> QED
  BY <1>1, <1>4, <1>5 DEF SystemSetupX86

\* raspi3: while the memory ends in the first GiB every cell is written once.
LEMMA RaspiOnce ==
  ASSUME NEW m \in Nat, RaspiEnd \in Nat, m < RaspiEnd, HUGE \in Nat, RaspiEnd <= HUGE
  PROVE  RaspiPage(m) = m
<1> DEFINE d == RaspiEnd - 1 - m
<1>1. d \in 0 .. HUGE - 1
  OBVIOUS
<1> HIDE DEF d
<1>2. d \div HUGE = 0
  BY <1>1
<1>3. (d \div HUGE) * HUGE = 0
  BY <1>2
<1> QED
  BY <1>3 DEF RaspiPage, d

\* raspi3: the heap lies between the kernel and the memory of the video core.
LEMMA SetupRaspiStep ==
  ASSUME BootInv, Orderly(fw), SystemSetupRaspi
  PROVE  BootInv'
<1> DEFINE s == RoundUp(KernelEnd, HDR)
           e == RoundBelow(VideoBase(fw), BIG)
           r == Region(s, e, "RAM")
           low == [i \in Index |-> IF i * BIG >= DEVICES THEN Cell("device", i * BIG)
                                   ELSE IF RaspiMapped(i * BIG) THEN Cell("page", RaspiPage(i * BIG))
                                   ELSE Cell("none", 0)]
<1>1. /\ Platform = "raspi3" /\ pc = "start" /\ pc' = "mapped"
      /\ fw' = fw /\ head' = head /\ regions' = <<r>>
      /\ pdpt' = [EmptyTable EXCEPT ![0] = Cell("table", PDT)]
      /\ pdt' = [pdt EXCEPT ![PDT] = low]
      /\ fw \in Firmwares /\ Crt0Tables /\ head = <<>>
  BY DEF SystemSetupRaspi, RaspiEnd, BootInv, TypeOK, Stages
<1>2. pdpt \in TableT /\ pdt \in [Tables -> TableT]
  BY <1>1, Crt0Typed
<1>3. /\ BIG \in Nat \ {0} /\ HDR \in Nat \ {0} /\ VCMEMORY \in Nat \ {0} /\ DEVICES \in Nat
      /\ HUGE \in Nat /\ ENTRIES \in Nat \ {0} /\ DEVICES <= HUGE
      /\ KernelStart \in Nat /\ KernelEnd \in Nat \ {0}
  <2>1. DEVICES <= BIG * ENTRIES
    BY BootAssumption
  <2> QED
    BY <2>1, Sizes, Kernel DEF HUGE
<1>4. /\ s <= e /\ e <= DEVICES
      /\ NotAcross(fw.cmdline, fw.cmdlen, s)
  BY <1>1 DEF Orderly, Platform
<1>5. s \in Nat /\ s >= KernelEnd
  BY <1>3, UpIs
<1>6. VideoBase(fw) \in Nat \ {0}
  <2> DEFINE v == VideoBase(fw)
  <2>1. v \in Nat
    <3>1. CASE fw.map = <<>>
      BY <3>1, <1>3 DEF VideoBase
    <3>2. CASE fw.map # <<>>
      <4>1. fw.map[1] \in MemEntry
        <5>1. fw.map \in Seq(MemEntry)
          BY <1>1, FirmwareFacts
        <5> QED
          BY <5>1, <3>2
      <4> QED
        BY <4>1, <3>2 DEF VideoBase, MemEntry
    <3> QED
      BY <3>1, <3>2
  <2>2. v # 0
    <3> SUFFICES ASSUME v = 0 PROVE FALSE
      OBVIOUS
    <3>1. (0 - 1) \div BIG = -1
      BY <1>3
    <3>2. e = ((0 - 1) \div BIG) * BIG
      BY DEF RoundBelow
    <3> DEFINE d == (0 - 1) \div BIG
    <3>3. d = -1 /\ e = d * BIG
      BY <3>1, <3>2
    <3> HIDE DEF e, s, v, d
    <3>4. e = (-1) * BIG
      BY <3>3
    <3>5. e < 0 /\ e \in Int
      BY <3>4, <1>3
    <3> QED
      BY <3>5, <1>3, <1>4, <1>5
  <2> HIDE DEF v
  <2>3. v \in Nat \ {0}
    BY <2>1, <2>2
  <2> QED
    BY <2>3 DEF v
<1>7. e \in Nat /\ e < VideoBase(fw)
  BY <1>3, <1>6, BelowIs
<1>8. \A i \in Index : i * BIG \in Nat
  BY <1>3, Multiples DEF Index
<1>9. ASSUME NEW m \in Nat, RaspiMapped(m)
       PROVE  RaspiPage(m) = m
  <2>1. m < e /\ e = RaspiEnd
    BY <1>9 DEF RaspiMapped, RaspiEnd
  <2> HIDE DEF e, s, low, r
  <2>2. e <= HUGE
    BY <1>3, <1>4, <1>7
  <2> QED
    BY <2>1, <2>2, <1>3, <1>7, RaspiOnce
<1>10. low \in TableT
  <2>1. ASSUME NEW m \in Nat
        PROVE  Cell("page", m) \in CellT /\ Cell("device", m) \in CellT /\ Cell("none", 0) \in CellT
    BY DEF Cell, CellT
  <2>2. \A i \in Index : low[i] \in CellT
    <3> TAKE i \in Index
    <3> DEFINE m == i * BIG
    <3>1. m \in Nat
      BY <1>8
    <3>2. low[i] \in {Cell("device", m), Cell("page", m), Cell("none", 0)}
      <4>1. RaspiMapped(m) => Cell("page", RaspiPage(m)) = Cell("page", m)
        BY <3>1, <1>9
      <4> HIDE DEF m
      <4> QED
        BY <4>1 DEF m
    <3> HIDE DEF low, m
    <3> QED
      BY <2>1, <3>1, <3>2
  <2>3. low = [i \in Index |-> low[i]]
    OBVIOUS
  <2> HIDE DEF low
  <2> QED
    BY <2>2, <2>3 DEF TableT
<1>11. /\ pdt' \in [Tables -> TableT] /\ pdt'[PDT] = low
       /\ pdpt' \in TableT /\ pdpt'[0] = Cell("table", PDT)
  <2>1. PDT \in Tables /\ PDT \in Nat
    BY Kernel, ThreeTables
  <2>2. 0 \in Index
    BY <1>3 DEF Index
  <2>3. Cell("table", PDT) \in CellT /\ EmptyTable \in TableT
    BY <2>1 DEF Cell, CellT, TableT, EmptyTable
  <2> HIDE DEF low
  <2> QED
    BY <2>1, <2>2, <2>3, <1>1, <1>2, <1>10 DEF TableT
<1>12. ASSUME NEW a \in Nat, a < e
       PROVE  MapsToItself(a)'
  <2>1. \A j \in Index : j * BIG < e => low[j] = Cell("page", j * BIG)
    <3> TAKE j \in Index
    <3> DEFINE m == j * BIG
    <3>1. m \in Nat /\ low[j] = IF m >= DEVICES THEN Cell("device", m)
                                ELSE IF RaspiMapped(m) THEN Cell("page", m)
                                ELSE Cell("none", 0)
      <4>1. m \in Nat
        BY <1>8
      <4>2. RaspiMapped(m) => RaspiPage(m) = m
        BY <4>1, <1>9
      <4> QED
        BY <4>1, <4>2
    <3>2. m < e => RaspiMapped(m) /\ ~ m >= DEVICES
      <4>1. m < e => RaspiMapped(m)
        BY DEF RaspiMapped, RaspiEnd
      <4> HIDE DEF m, e, low, s
      <4>2. m < e => ~ m >= DEVICES
        BY <3>1, <1>3, <1>4, <1>7
      <4> QED
        BY <4>1, <4>2
    <3> HIDE DEF m, e, low
    <3>3. m < e => low[j] = Cell("page", m)
      BY <3>1, <3>2
    <3> QED
      BY <3>3 DEF m
  <2>2. e <= HUGE
    <3> HIDE DEF e, s
    <3> QED
      BY <1>3, <1>4, <1>7
  <2>3. WalkOf(pdpt', pdt', a) = Cell("page", a)
    <3>1. \A j \in Index : j * BIG < e => (pdt')[PDT][j] = Cell("page", j * BIG)
      <4> HIDE DEF low, e
      <4> QED
        BY <2>1, <1>11
    <3> HIDE DEF low, e, s, r
    <3> QED
      BY <3>1, <2>2, <1>7, <1>11, <1>12, FirstReached
  <2> QED
    BY <2>3 DEF MapsToItself, Walk, WalkOf
<1>13. KernelStaysMapped'
  <2>1. ASSUME NEW a \in KernelStart .. KernelEnd - 1
        PROVE  a \in Nat /\ a < e
    <3> HIDE DEF e, s
    <3> QED
      BY <1>3, <1>4, <1>5, <1>7
  <2> HIDE DEF e
  <2> QED
    BY <2>1, <1>12 DEF KernelStaysMapped
<1>14. r \in RegionT /\ r.start = s /\ r.end = e /\ s <= e
  <2> HIDE DEF s, e
  <2> QED
    BY <1>4, <1>5, <1>7 DEF Region, RegionT
<1>15. Reached(r)'
  <2>1. \A a \in Bytes(r) : a \in Nat /\ a < e
    <3> HIDE DEF s, e, r
    <3> QED
      BY <1>5, <1>7, <1>14 DEF Bytes
  <2>2. \A a \in Bytes(r) : MapsToItself(a)'
    <3> HIDE DEF e, r
    <3> QED
      BY <2>1, <1>12
  <2>3. r' = r /\ Bytes(r)' = Bytes(r)
    BY <1>1 DEF Bytes
  <2> HIDE DEF r
  <2> QED
    BY <2>2, <2>3 DEF Reached
<1>16. Free(r)'
  <2>1. Ram' = {Region(0, VideoBase(fw), "RAM")}
    BY <1>1 DEF Ram, Platform
  <2>2. \E ram \in Ram' : ram.start <= r.start /\ r.end <= ram.end
    <3> DEFINE v == VideoBase(fw)
    <3>1. Region(0, v, "RAM").start = 0 /\ Region(0, v, "RAM").end = v
      BY DEF Region
    <3> HIDE DEF v, s, e, r
    <3>2. v \in Nat /\ e < v /\ e \in Nat
      BY <1>6, <1>7 DEF v
    <3> QED
      BY <3>1, <3>2, <2>1, <1>5, <1>14 DEF v
  <2>3. PastKernel(r) = r
    <3> HIDE DEF s, e, r
    <3> QED
      BY <1>3, <1>5, <1>14 DEF PastKernel
  <2>4. r.start > 0 /\ r.start >= KernelEnd /\ NotAcross(fw.cmdline, fw.cmdlen, PastKernel(r).start)
    <3> HIDE DEF s, e, r
    <3> QED
      BY <2>3, <1>3, <1>4, <1>5, <1>14
  <2>5. r' = r /\ PastKernel(r)' = PastKernel(r)
    BY <1>1 DEF PastKernel
  <2> HIDE DEF r
  <2> QED
    BY <2>2, <2>4, <2>5, <1>1 DEF Free
<1>17. TypeOK'
  <2>1. regions' \in Seq(RegionT) /\ \A i \in DOMAIN regions' : regions'[i].start <= regions'[i].end
    <3> HIDE DEF r, s, e
    <3> QED
      BY <1>1, <1>14
  <2>2. head' \in Seq([start : Nat, end : Nat, type : {"RAM", "garbage"}])
    BY <1>1
  <2>3. pc' = "mapped" /\ fw' \in Firmwares /\ pdpt' \in TableT /\ pdt' \in [Tables -> TableT]
    BY <1>1, <1>11
  <2> QED
    BY ONLY <2>1, <2>2, <2>3 DEF TypeOK, RegionT, TableT, CellT
<1>18. Stages'
  <2> HIDE DEF low, r
  <2>1. Len(regions') <= 1
    BY <1>1
  <2> QED
    BY <2>1, <1>1 DEF Stages
<1>19. Mapped'
  <2>1. \A i \in DOMAIN regions' : regions'[i] = r
    <3> HIDE DEF r
    <3> QED
      BY <1>1
  <2>2. r' = r
    BY <1>1
  <2> HIDE DEF r, low
  <2>3. \A i \in DOMAIN regions' : (Free(regions[i]) /\ Reached(regions[i]))'
    <3> TAKE i \in DOMAIN regions'
    <3>1. regions'[i] = r'
      BY <2>1, <2>2
    <3> QED
      BY <3>1, <1>15, <1>16 DEF Free, Reached
  <2> QED
    BY <2>3 DEF Mapped
<1> QED
  BY <1>1, <1>13, <1>17, <1>18, <1>19 DEF BootInv, Parsed, OneSegment

LEMMA SetupLinuxStep ==
  ASSUME BootInv, Orderly(fw), SystemSetupLinux
  PROVE  BootInv'
<1> DEFINE m == fw.map[1]
           r == Region(m.addr, m.addr + m.len, "RAM")
<1>1. /\ Platform = "linux" /\ pc = "start" /\ pc' = "mapped"
      /\ fw' = fw /\ head' = head /\ regions' = <<r>> /\ pdpt' = pdpt /\ pdt' = pdt
      /\ fw \in Firmwares /\ Crt0Tables /\ head = <<>>
  BY DEF SystemSetupLinux, BootInv, TypeOK, Stages
<1>2. /\ m.addr \in Nat /\ m.len \in Nat
      /\ fw.cmdline = m.addr /\ fw.cmdline \in Nat \ {0}
      /\ KernelStart \in Nat /\ KernelEnd \in Nat /\ KernelStart < KernelEnd
      /\ m.addr >= KernelEnd \/ m.addr + m.len <= KernelStart
  <2>1. fw.map \in Seq(MemEntry) /\ Len(fw.map) = 1 /\ fw.cmdline = m.addr /\ fw.cmdline \in Nat \ {0}
    BY <1>1, FirmwareFacts
  <2>2. m \in MemEntry
    BY <2>1
  <2>3. m.addr >= KernelEnd \/ m.addr + m.len <= KernelStart
    BY <1>1 DEF Orderly, Platform
  <2> QED
    BY <2>1, <2>2, <2>3, Kernel DEF MemEntry
<1>3. r \in RegionT /\ r.start = m.addr /\ r.end = m.addr + m.len /\ r.start <= r.end
  <2> HIDE DEF m
  <2> QED
    BY <1>2 DEF Region, RegionT
<1>4. Free(r)'
  <2>1. Ram' = {r}
    BY <1>1 DEF Ram, Platform
  <2>2. PastKernel(r) = r
    <3> HIDE DEF m, r
    <3> QED
      BY <1>2, <1>3 DEF PastKernel
  <2>3. r' = r /\ PastKernel(r)' = PastKernel(r)
    BY <1>1 DEF PastKernel
  <2> HIDE DEF m, r
  <2> QED
    BY <2>1, <2>2, <2>3, <1>1, <1>2, <1>3 DEF Free
<1>5. TypeOK'
  <2>1. regions' \in Seq(RegionT) /\ \A i \in DOMAIN regions' : regions'[i].start <= regions'[i].end
    <3> HIDE DEF r, m
    <3> QED
      BY <1>1, <1>3
  <2>2. head' \in Seq([start : Nat, end : Nat, type : {"RAM", "garbage"}])
    BY <1>1
  <2>3. pc' = "mapped" /\ fw' \in Firmwares /\ pdpt' \in TableT /\ pdt' \in [Tables -> TableT]
    BY <1>1, Crt0Typed
  <2> QED
    BY ONLY <2>1, <2>2, <2>3 DEF TypeOK, RegionT, TableT, CellT
<1>6. Stages'
  <2> HIDE DEF r
  <2>1. Len(regions') <= 1
    BY <1>1
  <2> QED
    BY <2>1, <1>1 DEF Stages
<1>7. Mapped'
  <2>1. \A i \in DOMAIN regions' : regions'[i] = r
    <3> HIDE DEF r
    <3> QED
      BY <1>1
  <2>2. r' = r /\ Reached(r)'
    BY <1>1 DEF Reached, Platform
  <2> HIDE DEF r
  <2>3. \A i \in DOMAIN regions' : (Free(regions[i]) /\ Reached(regions[i]))'
    <3> TAKE i \in DOMAIN regions'
    <3>1. regions'[i] = r'
      BY <2>1, <2>2
    <3> QED
      BY <3>1, <2>2, <1>4 DEF Free, Reached
  <2> QED
    BY <2>3 DEF Mapped
<1>8. KernelStaysMapped'
  BY <1>1 DEF KernelStaysMapped, Platform
<1> QED
  BY <1>1, <1>5, <1>6, <1>7, <1>8 DEF BootInv, Parsed, OneSegment

\* The map stays, whatever else is done.
LEMMA SameTables ==
  ASSUME UNCHANGED <<fw, pdpt, pdt>>
  PROVE  /\ Crt0Tables => Crt0Tables'
         /\ Ram' = Ram /\ Platform' = Platform
         /\ \A r : Free(r) => Free(r)'
         /\ \A r : Reached(r) => Reached(r)'
<1>1. Crt0Tables => Crt0Tables'
  BY DEF Crt0Tables, Platform
<1>2. Ram' = Ram /\ Platform' = Platform
  BY DEF Ram, Platform, VideoBase
<1>3. \A r : Free(r) => Free(r)'
  BY <1>2 DEF Free
<1>4. \A r : Reached(r) => Reached(r)'
  BY <1>2 DEF Reached, MapsToItself, Walk
<1> QED
  BY <1>1, <1>2, <1>3, <1>4

LEMMA MmapFailsStep ==
  ASSUME BootInv, MmapFails
  PROVE  BootInv'
<1>1. /\ Platform = "linux" /\ pc = "start" /\ pc' = "stopped"
      /\ UNCHANGED <<fw, regions, pdpt, pdt, head>>
  BY DEF MmapFails
<1>2. Platform' = Platform /\ (Crt0Tables => Crt0Tables')
  BY <1>1, SameTables
<1>3. TypeOK'
  BY <1>1 DEF BootInv, TypeOK
<1>4. Stages'
  BY <1>1, <1>2 DEF BootInv, Stages
<1> QED
  BY <1>1, <1>2, <1>3, <1>4 DEF BootInv, Parsed, Mapped, OneSegment, KernelStaysMapped

LEMMA SetUpHeapStep ==
  ASSUME BootInv, SetUpHeap
  PROVE  BootInv'
<1>1. /\ pc = "mapped" /\ pc' = "constructed"
      /\ head' \in IF Linked = <<>> THEN {<<>>, NoHead} ELSE {Linked}
      /\ fw' = fw /\ regions' = regions /\ pdpt' = pdpt /\ pdt' = pdt
      /\ fw \in Firmwares /\ regions \in Seq(RegionT) /\ Len(regions) <= 1
  BY DEF SetUpHeap, BootInv, TypeOK, Stages, RegionT
<1>2. \A i \in DOMAIN regions : Free(regions[i]) /\ Reached(regions[i])
  BY <1>1 DEF BootInv, Mapped
<1>3. \/ head' \in {<<>>, NoHead}
      \/ /\ Len(regions) = 1 /\ Qualifies(regions[1])
         /\ head' = <<Trimmed(regions[1])>>
  BY <1>1, LinkedIs
<1>4. OneSegment'
  <2>1. CASE head' \in {<<>>, NoHead}
    BY <2>1 DEF OneSegment, NoHead, Region
  <2>2. CASE Len(regions) = 1 /\ Qualifies(regions[1]) /\ head' = <<Trimmed(regions[1])>>
    <3>1. 1 \in DOMAIN regions
      BY <2>2, <1>1
    <3>2. Qualifies(regions[1])' /\ Trimmed(regions[1])' = Trimmed(regions[1])
      BY <2>2, <1>1 DEF Qualifies, Trimmed, PastCmdline, PastKernel
    <3> QED
      BY <3>1, <3>2, <2>2, <1>1 DEF OneSegment
  <2> QED
    BY <2>1, <2>2, <1>3
<1>5. TypeOK'
  <2>1. head' \in Seq([start : Nat, end : Nat, type : {"RAM", "garbage"}])
    <3>1. CASE head' = <<>>
      BY <3>1
    <3>2. CASE head' = NoHead
      BY <3>2 DEF NoHead, Region
    <3>3. CASE Len(regions) = 1 /\ head' = <<Trimmed(regions[1])>>
      <4> DEFINE r == regions[1]
      <4>1. r \in RegionT /\ r.start > 0
        <5>1. 1 \in DOMAIN regions
          BY <3>3, <1>1
        <5> QED
          BY <5>1, <1>1, <1>2 DEF Free
      <4>2. Trimmed(r) \in [start : Nat, end : Nat, type : {"RAM", "garbage"}]
        <5> HIDE DEF r
        <5>1. /\ Trimmed(r) = Region(Trimmed(r).start, r.end, "RAM") /\ r.end \in Nat
              /\ Trimmed(r).start \in Nat
          BY <4>1, <1>1, TrimmedIs
        <5> DEFINE w == Trimmed(r).start
        <5>2. Trimmed(r) = Region(w, r.end, "RAM") /\ w \in Nat
          BY <5>1
        <5> HIDE DEF w
        <5>3. Region(w, r.end, "RAM") \in [start : Nat, end : Nat, type : {"RAM", "garbage"}]
          BY <5>1, <5>2 DEF Region
        <5> QED
          BY <5>2, <5>3
      <4> QED
        BY <4>2, <3>3
    <3> QED
      BY <3>1, <3>2, <3>3, <1>3
  <2> QED
    BY <2>1, <1>1 DEF BootInv, TypeOK
<1>6. Stages'
  BY <1>1 DEF Stages
<1>7. Mapped'
  <2>1. \A r : (Free(r) => Free(r)') /\ (Reached(r) => Reached(r)')
    BY <1>1, SameTables
  <2>2. \A i \in DOMAIN regions' : (Free(regions[i]) /\ Reached(regions[i]))'
    <3> TAKE i \in DOMAIN regions'
    <3>1. Free(regions[i]) /\ Reached(regions[i]) /\ (regions[i])' = regions[i]
      BY <1>1, <1>2
    <3> QED
      BY <3>1, <1>1 DEF Free, Ram, Platform, VideoBase, PastKernel, Reached, MapsToItself, Walk, Bytes
  <2> QED
    BY <2>2 DEF Mapped
<1>8. KernelStaysMapped'
  BY <1>1 DEF BootInv, KernelStaysMapped, Platform, MapsToItself, Walk
<1> QED
  BY <1>1, <1>4, <1>5, <1>6, <1>7, <1>8 DEF BootInv, Parsed
-----------------------------------------------------------------------------
(* Theorems.                                                                 *)

\* The invariant holds at every stage, whatever sizes the pages, the kernel and
\* the memory have, if the firmware is orderly (crt0.S, setup.cc, memory.cc).
THEOREM BootInvariant ==
  ASSUME \A f \in Firmwares : Orderly(f)
  PROVE  Spec => []BootInv
<1>1. Init => BootInv
  BY Begins
<1>2. BootInv /\ [Next]_vars => BootInv'
  <2> SUFFICES ASSUME BootInv, [Next]_vars PROVE BootInv'
    OBVIOUS
  <2>1. Orderly(fw)
    BY DEF BootInv, TypeOK
  <2>2. CASE ParseMultiboot
    BY <2>1, <2>2, ParseStep
  <2>3. CASE SystemSetupX86
    BY <2>1, <2>3, SetupX86Step
  <2>4. CASE SystemSetupRaspi
    BY <2>1, <2>4, SetupRaspiStep
  <2>5. CASE SystemSetupLinux
    BY <2>1, <2>5, SetupLinuxStep
  <2>6. CASE MmapFails
    BY <2>6, MmapFailsStep
  <2>7. CASE SetUpHeap
    BY <2>7, SetUpHeapStep
  <2>8. CASE UNCHANGED vars
    <3>1. /\ pc' = pc /\ fw' = fw /\ regions' = regions
          /\ pdpt' = pdpt /\ pdt' = pdt /\ head' = head
      BY <2>8 DEF vars
    <3>2. Crt0Tables => Crt0Tables'
      BY <3>1, SameTables
    <3>3. TypeOK' /\ Stages' /\ Parsed' /\ KernelStaysMapped'
      BY <3>1, <3>2 DEF BootInv, TypeOK, Stages, Parsed, Platform, KernelStaysMapped,
                        MapsToItself, Walk
    <3>4. Mapped'
      <4> SUFFICES ASSUME pc' \in {"mapped", "constructed"}, NEW i \in DOMAIN regions'
                   PROVE  (Free(regions[i]) /\ Reached(regions[i]))'
        BY DEF Mapped
      <4>1. Free(regions[i]) /\ Reached(regions[i]) /\ (regions[i])' = regions[i]
        BY <3>1 DEF BootInv, Mapped
      <4> QED
        BY <4>1, <3>1 DEF Free, Ram, Platform, VideoBase, PastKernel, Reached, MapsToItself, Walk, Bytes
    <3>5. OneSegment'
      BY <3>1 DEF BootInv, OneSegment, Qualifies, Trimmed, PastCmdline, PastKernel
    <3> QED
      BY <3>3, <3>4, <3>5 DEF BootInv
  <2> QED
    BY <2>2, <2>3, <2>4, <2>5, <2>6, <2>7, <2>8 DEF Next
<1> QED
  BY <1>1, <1>2, PTL DEF Spec

\* crt0.S, setup.cc: the kernel keeps its own memory while the tables change.
THEOREM KernelKept ==
  ASSUME \A f \in Firmwares : Orderly(f)
  PROVE  Spec => []KernelStaysMapped
<1>1. BootInv => KernelStaysMapped
  BY DEF BootInv
<1> QED
  BY <1>1, BootInvariant, PTL

\* The one segment of the heap is a region without its beginning.
LEMMA SegmentIs ==
  ASSUME BootInv, NEW s \in Segments
  PROVE  /\ fw \in Firmwares
         /\ \E r \in RegionT :
              /\ r.start > 0 /\ Free(r) /\ Reached(r) /\ Qualifies(r)
              /\ s = Trimmed(r) /\ head = <<s>>
<1>1. head # NoHead /\ head # <<>> /\ fw \in Firmwares /\ regions \in Seq(RegionT)
  BY DEF Segments, BootInv, TypeOK, RegionT
<1>2. pc = "constructed"
  BY <1>1 DEF BootInv, Stages
<1>3. PICK i \in DOMAIN regions : Qualifies(regions[i]) /\ head = <<Trimmed(regions[i])>>
  BY <1>1, <1>2 DEF BootInv, OneSegment
<1>4. regions[i] \in RegionT /\ Free(regions[i]) /\ Reached(regions[i])
  BY <1>1, <1>2 DEF BootInv, Mapped
<1>5. s = Trimmed(regions[i])
  BY <1>1, <1>3 DEF Segments
<1> QED
  BY <1>1, <1>3, <1>4, <1>5 DEF Free

\* multiboot.cc, setup.cc, memory.cc: what becomes heap is memory that the
\* platform offered, and neither the kernel nor the command line is in it.
THEOREM HeapIsFree ==
  ASSUME \A f \in Firmwares : Orderly(f)
  PROVE  Spec => []HeapIsFreeRam
<1>1. ASSUME BootInv
      PROVE  HeapIsFreeRam
  <2>1. ASSUME NEW s \in Segments
        PROVE  /\ \E r \in Ram : Bytes(s) \subseteq Bytes(r)
               /\ Bytes(s) \cap (KernelStart .. KernelEnd - 1) = {}
               /\ Bytes(s) \cap (fw.cmdline .. fw.cmdline + fw.cmdlen - 1) = {}
    <3>1. PICK r \in RegionT : r.start > 0 /\ Free(r) /\ s = Trimmed(r)
      BY <1>1, SegmentIs
    <3>2. fw \in Firmwares
      BY <1>1 DEF BootInv, TypeOK
    <3>3. /\ s = Region(s.start, r.end, "RAM") /\ r.end \in Nat /\ r.start \in Nat
          /\ s.start \in Nat /\ s.start >= r.start
          /\ r.start >= KernelEnd \/ r.end >= KernelEnd => s.start >= KernelEnd
      BY <3>1, <3>2, TrimmedIs DEF RegionT
    <3>4. s.start >= fw.cmdline + fw.cmdlen \/ r.end <= fw.cmdline
      BY <3>1, <3>2, TrimmedIs DEF Free
    <3>5. s.end = r.end
      BY <3>3 DEF Region
    <3>6. /\ KernelStart \in Nat /\ KernelEnd \in Nat
          /\ fw.cmdline \in Nat /\ fw.cmdlen \in Nat
      BY <3>2, Kernel, FirmwareFacts
    <3>7. \E m \in Ram : Bytes(s) \subseteq Bytes(m)
      <4>1. PICK m \in Ram : m.start <= r.start /\ r.end <= m.end
        BY <3>1 DEF Free
      <4>2. m.start \in Nat /\ m.end \in Nat
        <5>1. CASE Platform = "x86_64"
          <6>1. PICK i \in DOMAIN fw.map : m = Region(fw.map[i].addr, fw.map[i].addr + fw.map[i].len, "RAM")
            BY <5>1, <4>1 DEF Ram
          <6>2. fw.map[i] \in MemEntry
            BY <3>2, FirmwareFacts
          <6> QED
            BY <6>1, <6>2 DEF Region, MemEntry
        <5>2. CASE Platform = "raspi3"
          <6>1. m = Region(0, VideoBase(fw), "RAM")
            BY <5>2, <4>1 DEF Ram
          <6>2. VideoBase(fw) \in Nat
            <7>1. fw.map \in Seq(MemEntry) /\ VCMEMORY \in Nat
              BY <3>2, FirmwareFacts, Sizes
            <7>2. fw.map # <<>> => fw.map[1] \in MemEntry
              BY <7>1
            <7> QED
              BY <7>1, <7>2 DEF VideoBase, MemEntry
          <6> QED
            BY <6>1, <6>2 DEF Region
        <5>3. CASE Platform = "linux"
          <6>1. m = Region(fw.map[1].addr, fw.map[1].addr + fw.map[1].len, "RAM")
            BY <5>3, <4>1 DEF Ram
          <6>2. fw.map[1] \in MemEntry
            <7>1. fw.map \in Seq(MemEntry) /\ Len(fw.map) = 1
              BY <3>2, <5>3, FirmwareFacts
            <7> QED
              BY <7>1
          <6> QED
            BY <6>1, <6>2 DEF Region, MemEntry
        <5> QED
          BY <5>1, <5>2, <5>3, <3>2, FirmwareFacts
      <4> QED
        BY <4>1, <4>2, <3>3, <3>5 DEF Bytes
    <3>8. s.start >= KernelEnd \/ s.end <= KernelStart
      BY <3>1, <3>3, <3>5 DEF Free
    <3>9. Bytes(s) \cap (KernelStart .. KernelEnd - 1) = {}
      BY <3>3, <3>5, <3>6, <3>8 DEF Bytes
    <3>10. Bytes(s) \cap (fw.cmdline .. fw.cmdline + fw.cmdlen - 1) = {}
      BY <3>3, <3>4, <3>5, <3>6 DEF Bytes
    <3> QED
      BY <3>7, <3>9, <3>10
  <2> QED
    BY <2>1 DEF HeapIsFreeRam
<1> QED
  BY <1>1, BootInvariant, PTL

\* setup.cc: when the heap is linked each of its bytes is mapped to itself.
THEOREM HeapIsMapped ==
  ASSUME \A f \in Firmwares : Orderly(f)
  PROVE  Spec => []HeapMapped
<1>1. ASSUME BootInv
      PROVE  HeapMapped
  <2> SUFFICES ASSUME Platform # "linux", NEW s \in Segments, NEW a \in Bytes(s)
               PROVE  MapsToItself(a)
    BY DEF HeapMapped
  <2>1. PICK r \in RegionT : r.start > 0 /\ Reached(r) /\ s = Trimmed(r)
    BY <1>1, SegmentIs
  <2>2. /\ s = Region(s.start, r.end, "RAM") /\ r.end \in Nat /\ r.start \in Nat
        /\ s.start \in Nat /\ s.start >= r.start
    <3>1. fw \in Firmwares
      BY <1>1 DEF BootInv, TypeOK
    <3> QED
      BY <2>1, <3>1, TrimmedIs DEF RegionT
  <2>3. s.end = r.end
    BY <2>2 DEF Region
  <2>4. a \in Bytes(r)
    BY <2>2, <2>3 DEF Bytes
  <2> QED
    BY <2>1, <2>4 DEF Reached
<1> QED
  BY <1>1, BootInvariant, PTL

\* memory.cc: the list that malloc starts from has what module Heap assumes.
THEOREM HeapGetsSegments ==
  ASSUME \A f \in Firmwares : Orderly(f)
  PROVE  Spec => []FitForHeap
<1>1. ASSUME BootInv
      PROVE  FitForHeap
  <2>1. TypeOK
    BY <1>1 DEF BootInv
  <2>2. ASSUME NEW s \in Segments
        PROVE  s.start > 0 /\ s.start % PAGE = 0 /\ s.end - s.start >= MIB /\ head = <<s>>
    <3>1. PICK r \in RegionT : r.start > 0 /\ Qualifies(r) /\ s = Trimmed(r) /\ head = <<s>>
      BY <1>1, SegmentIs
    <3>2. s.start \in Nat /\ r.start \in Nat /\ s.start >= r.start /\ s.start % PAGE = 0
      BY <3>1, <2>1, TrimmedIs DEF TypeOK, RegionT
    <3> QED
      BY <3>1, <3>2 DEF Qualifies
  <2>3. Len(head) <= 1
    <3>1. CASE head = <<>>
      <4>1. Len(<<>>) = 0
        OBVIOUS
      <4> QED
        BY <3>1, <4>1
    <3>2. CASE head = NoHead
      <4> DEFINE g == Region(0, 0, "garbage")
      <4>1. head = <<g>>
        BY <3>2 DEF NoHead
      <4> HIDE DEF g
      <4> QED
        BY <4>1
    <3>3. CASE head # <<>> /\ head # NoHead
      <4>1. head[1] \in Segments
        BY <3>3, <2>1 DEF TypeOK, Segments
      <4>2. head = <<head[1]>>
        BY <4>1, <2>2
      <4> DEFINE s == head[1]
      <4>3. head = <<s>>
        BY <4>2
      <4> HIDE DEF s
      <4> QED
        BY <4>3
    <3> QED
      BY <3>1, <3>2, <3>3
  <2>4. \A i, j \in DOMAIN head : i = j
    BY <2>1, <2>3 DEF TypeOK
  <2> QED
    BY <2>1, <2>2, <2>4 DEF FitForHeap
<1> QED
  BY <1>1, BootInvariant, PTL
=============================================================================
