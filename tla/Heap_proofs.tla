---------------------------- MODULE Heap_proofs -----------------------------
(* Proofs about the kernel heap of module Heap. *)
EXTENDS Heap, SequenceTheorems, TLAPS

\* A function on 1..n is a sequence of length n.
LEMMA MkSeq ==
  ASSUME NEW S, NEW n \in Nat, NEW f \in [1..n -> S]
  PROVE  f \in Seq(S) /\ Len(f) = n
<1>1. f \in Seq(S)
  BY SeqDef
<1>2. DOMAIN f = 1..n /\ DOMAIN f = 1..Len(f) /\ Len(f) \in Nat
  BY <1>1, LenProperties
<1> QED BY <1>1, <1>2

\* Rounding never shrinks a request malloc accepts, and keeps chunks aligned.
LEMMA AllocSizeFacts ==
  ASSUME NEW n \in 0..WORD-1, ~TooBig(n)
  PROVE  /\ AllocSize(n) \in Nat
         /\ n <= AllocSize(n)
         /\ AllocSize(n) % GRANULE = 0
<1> USE WordAssumption DEF TooBig, AllocSize, GRANULE
<1>1. CASE n = 0
  <2>1. (n - 1) % WORD = WORD - 1
    BY <1>1
  <2>2. ((WORD - 1) \div 8) * 8 + 8 = WORD
    OBVIOUS
  <2> QED BY <1>1, <2>1, <2>2
<1>2. CASE n > 0
  <2>1. (n - 1) % WORD = n - 1
    BY <1>2
  <2>2. /\ ((n - 1) \div 8) * 8 + 8 < WORD
        /\ n <= ((n - 1) \div 8) * 8 + 8
        /\ (((n - 1) \div 8) * 8 + 8) % 8 = 0
    BY <1>2
  <2>3. AllocSize(n) = ((n - 1) \div 8) * 8 + 8
    BY <2>1, <2>2, <1>2
  <2> QED BY <1>2, <2>2, <2>3
<1> QED BY <1>1, <1>2

\* What the list looks like after chunk i was split.
LEMMA SplitFacts ==
  ASSUME TypeOK,
         NEW i \in 1..Len(heap), NEW n \in Requests,
         ~TooBig(n), Splits(heap[i], n)
  PROVE  /\ SplitChunk(i, n) \in Seq(Chunk)
         /\ Len(SplitChunk(i, n)) = Len(heap) + 1
         /\ \A k \in 1..Len(heap) + 1 :
              /\ k < i => SplitChunk(i, n)[k] = heap[k]
              /\ k = i => SplitChunk(i, n)[k] =
                            [addr |-> heap[i].addr, size |-> AllocSize(n), used |-> TRUE]
              /\ k = i + 1 => SplitChunk(i, n)[k] = Rest(heap[i], n)
              /\ k > i + 1 => /\ k - 1 \in 1..Len(heap)
                              /\ SplitChunk(i, n)[k] = heap[k - 1]
<1> DEFINE s == SplitChunk(i, n)
<1>1. n \in 0..WORD-1
  BY RequestsAssumption
<1>2. AllocSize(n) \in Nat
  BY <1>1, AllocSizeFacts
<1>3. heap[i] \in Chunk /\ Len(heap) \in Nat
  BY DEF TypeOK
<1>4. Rest(heap[i], n) \in Chunk
  BY <1>2, <1>3 DEF Rest, Chunk, Splits, HDR, GRANULE
<1>5. [addr |-> heap[i].addr, size |-> AllocSize(n), used |-> TRUE] \in Chunk
  BY <1>2, <1>3 DEF Chunk
<1>6. \A k \in 1..Len(heap) + 1 : s[k] \in Chunk
  <2> TAKE k \in 1..Len(heap) + 1
  <2>1. CASE k < i
    BY <2>1 DEF SplitChunk, TypeOK
  <2>2. CASE k = i
    BY <2>2, <1>5 DEF SplitChunk
  <2>3. CASE k = i + 1
    BY <2>3, <1>4 DEF SplitChunk
  <2>4. CASE k > i + 1
    <3>1. s[k] = heap[k - 1] /\ k - 1 \in 1..Len(heap)
      BY <2>4, <1>3 DEF SplitChunk
    <3> QED BY <3>1 DEF TypeOK
  <2> QED BY <2>1, <2>2, <2>3, <2>4, <1>3
<1>7. s \in [1..Len(heap) + 1 -> Chunk]
  BY <1>6 DEF SplitChunk
<1>8. s \in Seq(Chunk) /\ Len(s) = Len(heap) + 1
  BY <1>7, <1>3
<1>9. \A k \in 1..Len(heap) + 1 :
        /\ k < i => s[k] = heap[k]
        /\ k = i => s[k] = [addr |-> heap[i].addr, size |-> AllocSize(n), used |-> TRUE]
        /\ k = i + 1 => s[k] = Rest(heap[i], n)
        /\ k > i + 1 => k - 1 \in 1..Len(heap) /\ s[k] = heap[k - 1]
  BY <1>3 DEF SplitChunk
<1> HIDE DEF s
<1> QED BY <1>8, <1>9 DEF s

\* The typing of the segments, and what the runtime relies on of them.
LEMMA RegionFacts ==
  /\ Len(Regions) \in Nat
  /\ \A r \in 1..Len(Regions) :
       /\ Regions[r].start \in Nat /\ Regions[r].end \in Nat
       /\ Regions[r].end - Regions[r].start - HDR \in Nat
       /\ Regions[r].start % GRANULE = 0
       /\ Regions[r].start > 0
<1>1. Regions \in Seq([start : Nat, end : Nat])
  BY RegionsAssumption
<1>2. Len(Regions) \in Nat
  BY <1>1
<1>3. \A r \in 1..Len(Regions) : Regions[r] \in [start : Nat, end : Nat]
  BY <1>1, ElementOfSeq
<1>4. \A r \in 1..Len(Regions) :
        /\ Regions[r].start + HDR + GRANULE <= Regions[r].end
        /\ Regions[r].start % GRANULE = 0
        /\ Regions[r].start > 0
  BY RegionsAssumption
<1> QED BY <1>2, <1>3, <1>4 DEF HDR, GRANULE

\* What a chunk of a well formed list is made of.
LEMMA ChunkFacts ==
  ASSUME NEW c \in Chunk
  PROVE  /\ c.addr \in Nat /\ c.size \in Nat /\ c.used \in BOOLEAN
         /\ ChunkEnd(c) \in Nat /\ ChunkEnd(c) = c.addr + 16 + c.size
         /\ Payload(c) \in Nat /\ Payload(c) = c.addr + 16
         /\ c.addr < ChunkEnd(c)
BY DEF Chunk, ChunkEnd, Payload, HDR

\* Two different chunks have different headers, and so different payloads.
LEMMA PayloadsDiffer ==
  ASSUME TypeOK, SpansDisjoint,
         NEW i \in 1..Len(heap), NEW j \in 1..Len(heap), i # j
  PROVE  Payload(heap[i]) # Payload(heap[j])
<1>1. heap[i] \in Chunk /\ heap[j] \in Chunk
  BY ElementOfSeq DEF TypeOK
<1>2. /\ heap[i].addr \in Nat /\ ChunkEnd(heap[i]) \in Nat
      /\ heap[j].addr \in Nat /\ ChunkEnd(heap[j]) \in Nat
      /\ heap[i].addr < ChunkEnd(heap[i]) /\ heap[j].addr < ChunkEnd(heap[j])
      /\ Payload(heap[i]) = heap[i].addr + 16
      /\ Payload(heap[j]) = heap[j].addr + 16
  BY <1>1, ChunkFacts
<1>3. \/ ChunkEnd(heap[i]) <= heap[j].addr
      \/ ChunkEnd(heap[j]) <= heap[i].addr
  BY DEF SpansDisjoint
<1> QED BY <1>2, <1>3

\* Sums of multiples of the granule are multiples of it.
LEMMA StepKeepsAlignment ==
  ASSUME NEW x \in Nat, NEW y \in Nat, x % 8 = 0, y % 8 = 0
  PROVE  (x + 16 + y) % 8 = 0
OBVIOUS

\* A chunk cut from s to e, header included, ends at e.
LEMMA CutToEnd ==
  ASSUME NEW s \in Nat, NEW e \in Nat
  PROVE  s + 16 + (e - s - 16) = e
OBVIOUS

\* An interval inside another one that is inside a third is inside the third.
LEMMA Nested ==
  ASSUME NEW lo \in Nat, NEW hi \in Nat, NEW a \in Nat, NEW b \in Nat,
         NEW c \in Nat, NEW d \in Nat,
         lo <= a, a <= c, d <= b, b <= hi
  PROVE  lo <= c /\ d <= hi
OBVIOUS

\* A chunk cut out of another stays where that one was.
LEMMA CutStaysInside ==
  ASSUME NEW lo \in Nat, NEW hi \in Nat, NEW c \in Chunk, NEW d \in Chunk,
         c.addr <= d.addr, ChunkEnd(d) <= ChunkEnd(c),
         lo <= c.addr, ChunkEnd(c) <= hi
  PROVE  lo <= d.addr /\ ChunkEnd(d) <= hi
<1>1. /\ c.addr \in Nat /\ ChunkEnd(c) \in Nat
      /\ d.addr \in Nat /\ ChunkEnd(d) \in Nat
  BY ChunkFacts
<1> QED BY <1>1, Nested

\* Two chunks cut out of disjoint chunks are disjoint.
LEMMA CutsStayApart ==
  ASSUME NEW c \in Chunk, NEW d \in Chunk, NEW e \in Chunk, NEW f \in Chunk,
         c.addr <= d.addr, ChunkEnd(d) <= ChunkEnd(c),
         e.addr <= f.addr, ChunkEnd(f) <= ChunkEnd(e),
         ChunkEnd(c) <= e.addr
  PROVE  ChunkEnd(d) <= f.addr
<1>1. /\ ChunkEnd(c) \in Nat /\ ChunkEnd(d) \in Nat
      /\ e.addr \in Nat /\ f.addr \in Nat
  BY ChunkFacts
<1>2. \A x, y, z \in Nat : x <= y /\ y <= z => x <= z
  OBVIOUS
<1>3. ChunkEnd(d) <= e.addr
  BY <1>1, <1>2
<1> QED BY <1>1, <1>2, <1>3

\* Nested, said of the intervals' elements.
LEMMA NestedIntervals ==
  ASSUME NEW lo \in Nat, NEW hi \in Nat, NEW c \in Nat, NEW d \in Nat,
         lo <= c, d <= hi
  PROVE  \A x \in c .. d : x \in lo .. hi
OBVIOUS

\* Before setUpHeap has run there is nothing that could be wrong.
LEMMA InitInv == Init => HeapInv
BY DEF Init, HeapInv, TypeOK, Contained, Aligned, SpansDisjoint, OwnedIsUsed, NULL

\* setUpHeap turns the segments into a well formed list.
LEMMA SetUpInv == HeapInv /\ SetUpHeap => HeapInv'
<1> SUFFICES ASSUME HeapInv, SetUpHeap PROVE HeapInv'
  OBVIOUS
<1> USE DEF HeapInv
<1>1. /\ Len(Regions) \in Nat
      /\ \A r \in 1..Len(Regions) :
           /\ Regions[r].start \in Nat /\ Regions[r].end \in Nat
           /\ Regions[r].end - Regions[r].start - HDR \in Nat
           /\ Regions[r].start % GRANULE = 0
  BY RegionFacts
<1>2. /\ heap' \in Seq(Chunk)
      /\ Len(heap') = Len(Regions)
  <2> DEFINE h == [r \in 1..Len(Regions) |->
                     [addr |-> Regions[r].start,
                      size |-> Regions[r].end - Regions[r].start - HDR,
                      used |-> FALSE]]
  <2>1. h \in [1..Len(Regions) -> Chunk]
    BY <1>1 DEF Chunk
  <2>2. heap' = h
    BY DEF SetUpHeap
  <2>3. Len(Regions) \in Nat
    BY <1>1
  <2> HIDE DEF h
  <2>4. h \in Seq(Chunk) /\ Len(h) = Len(Regions)
    BY <2>1, <2>3, MkSeq
  <2> QED BY <2>2, <2>4
<1>3. \A r \in 1..Len(Regions) :
        /\ heap'[r].addr = Regions[r].start
        /\ ChunkEnd(heap'[r]) = Regions[r].end
        /\ ~heap'[r].used
  <2> SUFFICES ASSUME NEW r \in 1..Len(Regions)
               PROVE  /\ heap'[r].addr = Regions[r].start
                      /\ ChunkEnd(heap'[r]) = Regions[r].end
                      /\ ~heap'[r].used
    OBVIOUS
  <2>1. heap'[r] = [addr |-> Regions[r].start,
                    size |-> Regions[r].end - Regions[r].start - HDR,
                    used |-> FALSE]
    BY DEF SetUpHeap
  <2>2. Regions[r].start \in Nat /\ Regions[r].end \in Nat
    BY <1>1
  <2>3. Regions[r].start + 16 + (Regions[r].end - Regions[r].start - 16)
          = Regions[r].end
    BY <2>2, CutToEnd
  <2>4. ChunkEnd(heap'[r])
          = Regions[r].start + 16 + (Regions[r].end - Regions[r].start - 16)
    BY <2>1 DEF ChunkEnd, HDR
  <2>5. heap'[r].addr = Regions[r].start /\ ~heap'[r].used
    BY <2>1
  <2> QED BY <2>3, <2>4, <2>5
<1>4. live = {}
  BY DEF SetUpHeap, OwnedIsUsed, TypeOK
<1>5. TypeOK'
  BY <1>2 DEF TypeOK, SetUpHeap
<1>6. Contained' /\ Aligned'
  <2>1. \A k \in 1..Len(heap') : \E r \in 1..Len(Regions) :
          Regions[r].start <= heap'[k].addr /\ ChunkEnd(heap'[k]) <= Regions[r].end
    <3> SUFFICES ASSUME NEW k \in 1..Len(heap')
                 PROVE  \E r \in 1..Len(Regions) :
                          /\ Regions[r].start <= heap'[k].addr
                          /\ ChunkEnd(heap'[k]) <= Regions[r].end
      OBVIOUS
    <3>1. k \in 1..Len(Regions)
      BY <1>2
    <3>2. heap'[k].addr = Regions[k].start /\ ChunkEnd(heap'[k]) = Regions[k].end
      BY <1>3, <3>1
    <3>3. Regions[k].start \in Nat /\ Regions[k].end \in Nat
      BY <1>1, <3>1
    <3>4. Regions[k].start <= heap'[k].addr /\ ChunkEnd(heap'[k]) <= Regions[k].end
      BY <3>2, <3>3
    <3> QED BY <3>1, <3>4
  <2> QED BY <1>1, <1>2, <1>3, <2>1 DEF Contained, Aligned, ChunkEnd
<1>7. SpansDisjoint'
  <2>1. \A r, s \in 1..Len(Regions) :
          r # s => \/ Regions[r].end <= Regions[s].start
                   \/ Regions[s].end <= Regions[r].start
    BY RegionsAssumption
  <2> QED BY <1>2, <1>3, <2>1 DEF SpansDisjoint
<1>8. OwnedIsUsed'
  BY <1>2, <1>3, <1>4 DEF OwnedIsUsed, SetUpHeap
<1> QED BY <1>5, <1>6, <1>7, <1>8

\* A chunk given away whole.
LEMMA MarkInv ==
  ASSUME HeapInv, NEW i \in 1..Len(heap), NEW n \in Requests,
         MallocAt(i, n), ~Splits(heap[i], n)
  PROVE  HeapInv'
<1> USE DEF HeapInv
<1>1. /\ heap' = MarkUsed(i)
      /\ live' = live \cup {[ptr |-> Payload(heap[i]), size |-> n]}
      /\ ret' = Payload(heap[i])
  BY DEF MallocAt
<1>2. /\ heap' \in Seq(Chunk) /\ Len(heap') = Len(heap)
      /\ \A k \in 1..Len(heap) : /\ heap'[k].addr = heap[k].addr
                                 /\ heap'[k].size = heap[k].size
                                 /\ heap'[k].used = (heap[k].used \/ k = i)
  <2> DEFINE c == [heap[i] EXCEPT !.used = TRUE]
  <2>1. heap \in Seq(Chunk) /\ heap[i] \in Chunk /\ Len(heap) \in Nat
    BY ElementOfSeq DEF TypeOK
  <2>2. /\ c \in Chunk /\ c.addr = heap[i].addr
        /\ c.size = heap[i].size /\ c.used
    BY <2>1 DEF Chunk
  <2>3. heap' = [heap EXCEPT ![i] = c]
    BY <1>1 DEF MarkUsed
  <2> HIDE DEF c
  <2>4. /\ heap' \in Seq(Chunk) /\ Len(heap') = Len(heap)
        /\ \A k \in 1..Len(heap) : heap'[k] = IF k = i THEN c ELSE heap[k]
    BY <2>1, <2>2, <2>3, ExceptSeq
  <2>5. \A k \in 1..Len(heap) : heap[k] \in Chunk
    BY <2>1, ElementOfSeq
  <2> QED BY <2>2, <2>4, <2>5 DEF Chunk
<1>3. TypeOK'
  <2>1. heap[i] \in Chunk
    BY ElementOfSeq DEF TypeOK
  <2>2. Payload(heap[i]) \in Nat
    BY <2>1 DEF Payload, HDR, Chunk
  <2>3. [ptr |-> Payload(heap[i]), size |-> n] \in Block
    BY <2>2, RequestsAssumption DEF Block
  <2> QED BY <1>1, <1>2, <2>2, <2>3 DEF TypeOK
<1>4. Contained' /\ Aligned' /\ SpansDisjoint'
  BY <1>2 DEF Contained, Aligned, SpansDisjoint, ChunkEnd
<1>5. \A b \in live : b.ptr # Payload(heap[i])
  <2> SUFFICES ASSUME NEW b \in live, b.ptr = Payload(heap[i]) PROVE FALSE
    OBVIOUS
  <2>1. PICK j \in 1..Len(heap) : heap[j].used /\ Payload(heap[j]) = b.ptr
    BY DEF OwnedIsUsed
  <2>2. j # i
    BY <2>1 DEF MallocAt, FirstFit, Fits
  <2> QED BY <2>1, <2>2, PayloadsDiffer
<1>6. OwnedIsUsed'
  <2>1. AllocSize(n) <= heap[i].size /\ ~TooBig(n)
    BY DEF MallocAt, FirstFit, Fits, TypeOK, Chunk, AllocSize
  <2>2. \A b \in live' : \E k \in 1..Len(heap') :
           /\ heap'[k].used /\ Payload(heap'[k]) = b.ptr
           /\ AllocSize(b.size) <= heap'[k].size /\ ~TooBig(b.size)
    <3> TAKE b \in live'
    <3>1. CASE b \in live
      <4>1. PICK k \in 1..Len(heap) :
               /\ heap[k].used /\ Payload(heap[k]) = b.ptr
               /\ AllocSize(b.size) <= heap[k].size /\ ~TooBig(b.size)
        BY <3>1 DEF OwnedIsUsed
      <4> QED BY <4>1, <1>2 DEF Payload
    <3>2. CASE b = [ptr |-> Payload(heap[i]), size |-> n]
      BY <3>2, <1>2, <2>1 DEF Payload
    <3> QED BY <1>1, <3>1, <3>2
  <2>3. \A k \in 1..Len(heap') :
           heap'[k].used => \E b \in live' : b.ptr = Payload(heap'[k])
    <3> SUFFICES ASSUME NEW k \in 1..Len(heap), heap'[k].used
                 PROVE  \E b \in live' : b.ptr = Payload(heap[k])
      BY <1>2 DEF Payload
    <3>1. CASE k = i
      <4> [ptr |-> Payload(heap[i]), size |-> n] \in live'
        BY <1>1
      <4> QED BY <3>1
    <3>2. CASE k # i
      <4>1. heap[k].used
        BY <3>2, <1>2
      <4>2. PICK b \in live : b.ptr = Payload(heap[k])
        BY <4>1 DEF OwnedIsUsed
      <4>3. b \in live'
        BY <1>1
      <4> QED BY <4>2, <4>3
    <3> QED BY <3>1, <3>2
  <2>4. \A b, c \in live' : b.ptr = c.ptr => b = c
    BY <1>1, <1>5 DEF OwnedIsUsed
  <2> QED BY <2>2, <2>3, <2>4 DEF OwnedIsUsed
<1> QED BY <1>3, <1>4, <1>6

\* A chunk that is split: the block gets its head, the tail becomes free.
LEMMA SplitInv ==
  ASSUME HeapInv, NEW i \in 1..Len(heap), NEW n \in Requests,
         MallocAt(i, n), Splits(heap[i], n)
  PROVE  HeapInv'
<1> USE DEF HeapInv
<1> DEFINE a == AllocSize(n)
           old(k) == IF k <= i THEN k ELSE k - 1
<1>1. /\ heap' = SplitChunk(i, n)
      /\ live' = live \cup {[ptr |-> Payload(heap[i]), size |-> n]}
      /\ ret' = Payload(heap[i])
      /\ ~TooBig(n) /\ ~heap[i].used
  BY DEF MallocAt, FirstFit, Fits
<1>2. /\ a \in Nat /\ a % GRANULE = 0
      /\ a + HDR + GRANULE <= heap[i].size
  BY <1>1, AllocSizeFacts, RequestsAssumption DEF Splits
<1>3. /\ Len(heap) \in Nat
      /\ \A k \in 1..Len(heap) : heap[k] \in Chunk
  BY ElementOfSeq DEF TypeOK
<1>4. /\ heap' \in Seq(Chunk) /\ Len(heap') = Len(heap) + 1
      /\ \A k \in 1..Len(heap) + 1 :
           /\ k < i => heap'[k] = heap[k]
           /\ k = i => heap'[k] = [addr |-> heap[i].addr, size |-> a, used |-> TRUE]
           /\ k = i + 1 => heap'[k] = Rest(heap[i], n)
           /\ k > i + 1 => k - 1 \in 1..Len(heap) /\ heap'[k] = heap[k - 1]
  BY <1>1, SplitFacts
<1> HIDE DEF a
\* Every chunk of the new list lies inside the chunk it comes from.
<1>5. \A k \in 1..Len(heap') :
        /\ old(k) \in 1..Len(heap)
        /\ heap'[k] \in Chunk
        /\ heap[old(k)].addr <= heap'[k].addr
        /\ ChunkEnd(heap'[k]) <= ChunkEnd(heap[old(k)])
        /\ heap'[k].addr % GRANULE = 0
  <2> TAKE k \in 1..Len(heap')
  <2>1. heap'[k] \in Chunk
    BY <1>4, ElementOfSeq
  <2>2. \A m \in 1..Len(heap) :
          /\ heap[m].addr % 8 = 0
          /\ heap[m].addr \in Nat /\ heap[m].size \in Nat
          /\ ChunkEnd(heap[m]) \in Nat
    BY <1>3, ChunkFacts DEF Aligned, GRANULE
  <2>3. CASE k # i /\ k # i + 1
    <3>1. old(k) \in 1..Len(heap) /\ heap'[k] = heap[old(k)]
      <4>1. k \in 1..Len(heap) + 1 /\ i \in 1..Len(heap) /\ Len(heap) \in Nat
        BY <1>3, <1>4
      <4>2. CASE k < i
        BY <1>4, <4>1, <4>2
      <4>3. CASE k > i + 1
        BY <1>4, <4>1, <4>3
      <4> QED BY <2>3, <4>1, <4>2, <4>3
    <3> HIDE DEF old
    <3> QED BY <2>1, <2>2, <3>1 DEF GRANULE
  <2>4. CASE k = i
    <3>1. old(k) = i
      BY <2>4
    <3>2. heap'[k] = [addr |-> heap[i].addr, size |-> a, used |-> TRUE]
      BY <2>4, <1>4
    <3>3. ChunkEnd(heap'[k]) = heap[i].addr + 16 + a
      BY <3>2 DEF ChunkEnd, HDR
    <3>4. ChunkEnd(heap[i]) = heap[i].addr + 16 + heap[i].size
      BY DEF ChunkEnd, HDR
    <3>5. a \in Nat /\ a + 24 <= heap[i].size
      BY <1>2, <2>2 DEF HDR, GRANULE
    <3>6. ChunkEnd(heap'[k]) <= ChunkEnd(heap[i])
      <4>1. heap[i].addr \in Nat /\ heap[i].size \in Nat
        BY <2>2
      <4>2. \A x, y, z \in Nat : z + 24 <= y => x + 16 + z <= x + 16 + y
        OBVIOUS
      <4> QED BY <3>3, <3>4, <3>5, <4>1, <4>2
    <3>7. heap'[k].addr = heap[i].addr
      BY <3>2
    <3> HIDE DEF old
    <3> QED BY <2>1, <2>2, <3>1, <3>6, <3>7 DEF GRANULE
  <2>5. CASE k = i + 1
    <3>1. old(k) = i
      BY <2>5
    <3>2. heap'[k] = [addr |-> heap[i].addr + 16 + a,
                      size |-> heap[i].size - a - 16, used |-> FALSE]
      BY <2>5, <1>4 DEF Rest, a, HDR
    <3>3. a \in Nat /\ a % 8 = 0 /\ a + 24 <= heap[i].size
      BY <1>2, <2>2 DEF HDR, GRANULE
    <3>4. heap[i].addr \in Nat /\ heap[i].size \in Nat /\ heap[i].addr % 8 = 0
      BY <2>2
    <3>5. (heap[i].addr + 16 + a) % 8 = 0
      BY <3>3, <3>4, StepKeepsAlignment
    <3>6. ChunkEnd(heap'[k]) = (heap[i].addr + 16 + a) + 16 + (heap[i].size - a - 16)
      BY <3>2 DEF ChunkEnd, HDR
    <3>7. ChunkEnd(heap[i]) = heap[i].addr + 16 + heap[i].size
      BY DEF ChunkEnd, HDR
    <3>8. ChunkEnd(heap'[k]) <= ChunkEnd(heap[i])
      <4> DEFINE x == heap[i].addr
                 y == heap[i].size
      <4>1. x \in Nat /\ y \in Nat
        BY <3>4
      <4>2. ChunkEnd(heap'[k]) = (x + 16 + a) + 16 + (y - a - 16)
        BY <3>6
      <4>3. ChunkEnd(heap[i]) = x + 16 + y
        BY <3>7
      <4> HIDE DEF x, y
      <4> QED BY <3>3, <4>1, <4>2, <4>3
    <3>9. heap'[k].addr = heap[i].addr + 16 + a
      BY <3>2
    <3> HIDE DEF old
    <3> QED BY <2>1, <3>1, <3>3, <3>4, <3>5, <3>8, <3>9 DEF GRANULE
  <2> HIDE DEF old
  <2> QED BY <2>3, <2>4, <2>5
<1>6. TypeOK'
  <2>1. Payload(heap[i]) \in Nat
    BY <1>3 DEF Payload, HDR, Chunk
  <2>2. [ptr |-> Payload(heap[i]), size |-> n] \in Block
    BY <2>1, RequestsAssumption DEF Block
  <2> QED BY <1>1, <1>4, <2>1, <2>2 DEF TypeOK
<1>7. Contained'
  <2> SUFFICES ASSUME NEW k \in 1..Len(heap')
               PROVE  \E r \in 1..Len(Regions) :
                        /\ Regions[r].start <= heap'[k].addr
                        /\ ChunkEnd(heap'[k]) <= Regions[r].end
    BY DEF Contained, ChunkEnd
  <2>1. PICK r \in 1..Len(Regions) :
          /\ Regions[r].start <= heap[old(k)].addr
          /\ ChunkEnd(heap[old(k)]) <= Regions[r].end
    BY <1>5 DEF Contained
  <2>2. heap[old(k)] \in Chunk /\ heap'[k] \in Chunk
    BY <1>3, <1>5
  <2>3. Regions[r].start \in Nat /\ Regions[r].end \in Nat
    BY RegionFacts
  <2>4. heap[old(k)].addr <= heap'[k].addr /\ ChunkEnd(heap'[k]) <= ChunkEnd(heap[old(k)])
    BY <1>5
  <2> DEFINE c == heap[old(k)]
             d == heap'[k]
  <2>5. /\ c \in Chunk /\ d \in Chunk
        /\ c.addr <= d.addr /\ ChunkEnd(d) <= ChunkEnd(c)
        /\ Regions[r].start <= c.addr /\ ChunkEnd(c) <= Regions[r].end
    BY <2>1, <2>2, <2>4
  <2> HIDE DEF c
  <2>6. Regions[r].start <= d.addr /\ ChunkEnd(d) <= Regions[r].end
    <3> HIDE DEF d
    <3> QED BY <2>3, <2>5, CutStaysInside
  <2> QED BY <2>6
<1>8. Aligned'
  BY <1>5 DEF Aligned
<1>9. SpansDisjoint'
  <2> SUFFICES ASSUME NEW k \in 1..Len(heap'), NEW l \in 1..Len(heap'), k < l
               PROVE  \/ ChunkEnd(heap'[k]) <= heap'[l].addr
                      \/ ChunkEnd(heap'[l]) <= heap'[k].addr
    BY <1>4 DEF SpansDisjoint, ChunkEnd
  <2>1. CASE old(k) # old(l)
    <3>1. \/ ChunkEnd(heap[old(k)]) <= heap[old(l)].addr
          \/ ChunkEnd(heap[old(l)]) <= heap[old(k)].addr
      BY <2>1, <1>5 DEF SpansDisjoint
    <3>2. /\ heap[old(k)] \in Chunk /\ heap'[k] \in Chunk
          /\ heap[old(l)] \in Chunk /\ heap'[l] \in Chunk
      BY <1>3, <1>5
    <3>3. /\ heap[old(k)].addr <= heap'[k].addr
          /\ ChunkEnd(heap'[k]) <= ChunkEnd(heap[old(k)])
          /\ heap[old(l)].addr <= heap'[l].addr
          /\ ChunkEnd(heap'[l]) <= ChunkEnd(heap[old(l)])
      BY <1>5
    <3> DEFINE c == heap[old(k)]
               d == heap'[k]
               e == heap[old(l)]
               f == heap'[l]
    <3>4. /\ c \in Chunk /\ d \in Chunk /\ e \in Chunk /\ f \in Chunk
          /\ c.addr <= d.addr /\ ChunkEnd(d) <= ChunkEnd(c)
          /\ e.addr <= f.addr /\ ChunkEnd(f) <= ChunkEnd(e)
          /\ \/ ChunkEnd(c) <= e.addr
             \/ ChunkEnd(e) <= c.addr
      BY <3>1, <3>2, <3>3
    <3>5. ChunkEnd(d) <= f.addr \/ ChunkEnd(f) <= d.addr
      <4> HIDE DEF c, d, e, f
      <4>1. CASE ChunkEnd(c) <= e.addr
        BY <3>4, <4>1, CutsStayApart
      <4>2. CASE ChunkEnd(e) <= c.addr
        BY <3>4, <4>2, CutsStayApart
      <4> QED BY <3>4, <4>1, <4>2
    <3> QED BY <3>5
  <2>2. CASE old(k) = old(l)
    <3>1. k = i /\ l = i + 1
      BY <2>2, <1>4
    <3>2. /\ heap'[k] = [addr |-> heap[i].addr, size |-> a, used |-> TRUE]
          /\ heap'[l].addr = heap[i].addr + HDR + a
      BY <3>1, <1>4 DEF Rest, a
    <3>3. heap[i].addr \in Nat /\ a \in Nat
      BY <1>2, <1>3, ChunkFacts
    <3>4. ChunkEnd(heap'[k]) = heap[i].addr + HDR + a
      BY <3>2 DEF ChunkEnd
    <3> QED BY <3>2, <3>3, <3>4 DEF HDR
  <2> QED BY <2>1, <2>2
<1>10. \A b \in live : b.ptr # Payload(heap[i])
  <2> SUFFICES ASSUME NEW b \in live, b.ptr = Payload(heap[i]) PROVE FALSE
    OBVIOUS
  <2>1. PICK j \in 1..Len(heap) : heap[j].used /\ Payload(heap[j]) = b.ptr
    BY DEF OwnedIsUsed
  <2>2. j # i
    BY <1>1, <2>1
  <2> QED BY <2>1, <2>2, PayloadsDiffer
<1>11. OwnedIsUsed'
  <2>1. \A b \in live' : \E k \in 1..Len(heap') :
           /\ heap'[k].used /\ Payload(heap'[k]) = b.ptr
           /\ AllocSize(b.size) <= heap'[k].size /\ ~TooBig(b.size)
    <3> TAKE b \in live'
    <3>1. CASE b \in live
      <4>1. PICK k \in 1..Len(heap) :
               /\ heap[k].used /\ Payload(heap[k]) = b.ptr
               /\ AllocSize(b.size) <= heap[k].size /\ ~TooBig(b.size)
        BY <3>1 DEF OwnedIsUsed
      <4>2. k # i
        BY <1>1, <4>1
      <4>3. CASE k < i
        <5>1. k \in 1..Len(heap') /\ heap'[k] = heap[k]
          BY <4>3, <1>3, <1>4
        <5> QED BY <5>1, <4>1
      <4>4. CASE k > i
        <5>1. k + 1 \in 1..Len(heap') /\ heap'[k + 1] = heap[k]
          BY <4>4, <1>3, <1>4
        <5> QED BY <5>1, <4>1
      <4> QED BY <4>2, <4>3, <4>4, <1>3
    <3>2. CASE b = [ptr |-> Payload(heap[i]), size |-> n]
      <4>1. i \in 1..Len(heap')
        BY <1>3, <1>4
      <4>2. heap'[i] = [addr |-> heap[i].addr, size |-> a, used |-> TRUE]
        BY <4>1, <1>4
      <4> QED BY <3>2, <4>1, <4>2, <1>1, <1>2 DEF Payload, a
    <3> QED BY <1>1, <3>1, <3>2
  <2>2. \A k \in 1..Len(heap') :
           heap'[k].used => \E b \in live' : b.ptr = Payload(heap'[k])
    <3> SUFFICES ASSUME NEW k \in 1..Len(heap'), heap'[k].used
                 PROVE  \E b \in live' : b.ptr = Payload(heap'[k])
      OBVIOUS
    <3>1. CASE k = i
      <4>1. [ptr |-> Payload(heap[i]), size |-> n] \in live'
        BY <1>1
      <4>2. heap'[k].addr = heap[i].addr
        BY <3>1, <1>4
      <4> QED BY <4>1, <4>2 DEF Payload
    <3>2. CASE k = i + 1
      BY <3>2, <1>4 DEF Rest
    <3>3. CASE k # i /\ k # i + 1
      <4>1. heap'[k] = heap[old(k)] /\ old(k) \in 1..Len(heap)
        BY <3>3, <1>3, <1>4
      <4>2. PICK b \in live : b.ptr = Payload(heap[old(k)])
        BY <4>1 DEF OwnedIsUsed
      <4>3. b \in live'
        BY <1>1
      <4> QED BY <4>1, <4>2, <4>3
    <3> QED BY <3>1, <3>2, <3>3
  <2>3. \A b, c \in live' : b.ptr = c.ptr => b = c
    BY <1>1, <1>10 DEF OwnedIsUsed
  <2> QED BY <2>1, <2>2, <2>3 DEF OwnedIsUsed, Payload, AllocSize, TooBig
<1> QED BY <1>6, <1>7, <1>8, <1>9, <1>11

\* free clears one mark, of a chunk whose only owner gives it up.
LEMMA FreeInv ==
  ASSUME HeapInv, NEW b \in live, NEW i \in 1..Len(heap), FreeAt(i, b)
  PROVE  HeapInv'
<1> USE DEF HeapInv
<1>1. /\ heap' = [heap EXCEPT ![i].used = FALSE]
      /\ live' = live \ {b} /\ ret' = ret
      /\ Payload(heap[i]) = b.ptr
  BY DEF FreeAt
<1>2. /\ heap' \in Seq(Chunk) /\ Len(heap') = Len(heap)
      /\ \A k \in 1..Len(heap) : /\ heap'[k].addr = heap[k].addr
                                 /\ heap'[k].size = heap[k].size
                                 /\ k # i => heap'[k].used = heap[k].used
                                 /\ k = i => ~heap'[k].used
  <2> DEFINE c == [heap[i] EXCEPT !.used = FALSE]
  <2>1. heap \in Seq(Chunk) /\ heap[i] \in Chunk /\ Len(heap) \in Nat
    BY ElementOfSeq DEF TypeOK
  <2>2. /\ c \in Chunk /\ c.addr = heap[i].addr
        /\ c.size = heap[i].size /\ ~c.used
    BY <2>1 DEF Chunk
  <2>3. heap' = [heap EXCEPT ![i] = c]
    BY <1>1
  <2> HIDE DEF c
  <2>4. /\ heap' \in Seq(Chunk) /\ Len(heap') = Len(heap)
        /\ \A k \in 1..Len(heap) : heap'[k] = IF k = i THEN c ELSE heap[k]
    BY <2>1, <2>2, <2>3, ExceptSeq
  <2> QED BY <2>2, <2>4
<1>3. TypeOK'
  BY <1>1, <1>2 DEF TypeOK
<1>4. Contained' /\ Aligned' /\ SpansDisjoint'
  BY <1>2 DEF Contained, Aligned, SpansDisjoint, ChunkEnd
<1>5. OwnedIsUsed'
  <2>1. \A c \in live' : \E k \in 1..Len(heap') :
           /\ heap'[k].used /\ Payload(heap'[k]) = c.ptr
           /\ AllocSize(c.size) <= heap'[k].size /\ ~TooBig(c.size)
    <3> TAKE c \in live'
    <3>1. c \in live /\ c # b
      BY <1>1
    <3>2. PICK k \in 1..Len(heap) :
             /\ heap[k].used /\ Payload(heap[k]) = c.ptr
             /\ AllocSize(c.size) <= heap[k].size /\ ~TooBig(c.size)
      BY <3>1 DEF OwnedIsUsed
    <3>3. k # i
      BY <1>1, <3>1, <3>2 DEF OwnedIsUsed
    <3> QED BY <1>2, <3>2, <3>3 DEF Payload
  <2>2. \A k \in 1..Len(heap') :
           heap'[k].used => \E c \in live' : c.ptr = Payload(heap'[k])
    <3> SUFFICES ASSUME NEW k \in 1..Len(heap), heap'[k].used
                 PROVE  \E c \in live' : c.ptr = Payload(heap[k])
      BY <1>2 DEF Payload
    <3>1. k # i /\ heap[k].used
      BY <1>2
    <3>2. PICK c \in live : c.ptr = Payload(heap[k])
      BY <3>1 DEF OwnedIsUsed
    <3>3. c # b
      <4>1. Payload(heap[k]) # Payload(heap[i])
        BY <3>1, PayloadsDiffer
      <4> QED BY <1>1, <3>2, <4>1
    <3>4. c \in live'
      BY <1>1, <3>3
    <3> QED BY <3>2, <3>4
  <2>3. \A c, d \in live' : c.ptr = d.ptr => c = d
    BY <1>1 DEF OwnedIsUsed
  <2> QED BY <2>1, <2>2, <2>3 DEF OwnedIsUsed, Payload, AllocSize, TooBig
<1> QED BY <1>3, <1>4, <1>5

\* The heap is well formed and its marks agree with what the program holds in
\* every reachable state: for any word size, any segments and any requests.
THEOREM HeapInvariant == Spec => []HeapInv
<1>1. Init => HeapInv
  BY InitInv
<1>2. HeapInv /\ [Next]_vars => HeapInv'
  <2> SUFFICES ASSUME HeapInv, [Next]_vars PROVE HeapInv'
    OBVIOUS
  <2>1. CASE SetUpHeap
    BY <2>1, SetUpInv
  <2>2. ASSUME NEW n \in Requests, MallocNull(n) PROVE HeapInv'
    BY <2>2 DEF MallocNull, HeapInv, TypeOK, Contained, Aligned, SpansDisjoint,
                OwnedIsUsed, NULL
  <2>3. ASSUME NEW n \in Requests, NEW i \in 1..Len(heap), MallocAt(i, n)
        PROVE  HeapInv'
    BY <2>3, MarkInv, SplitInv
  <2>4. CASE Free
    BY <2>4, FreeInv DEF Free
  <2>5. CASE UNCHANGED vars
    BY <2>5 DEF vars, HeapInv, TypeOK, Contained, Aligned, SpansDisjoint, OwnedIsUsed
  <2> QED BY <2>1, <2>2, <2>3, <2>4, <2>5 DEF Next, Malloc
<1> QED BY <1>1, <1>2, PTL DEF Spec

\* A live block lies inside the payload of one chunk.
LEMMA LiveInChunk ==
  ASSUME HeapInv, NEW b \in live
  PROVE  \E i \in 1..Len(heap) :
           /\ heap[i].used
           /\ b.ptr \in Nat /\ b.size \in Nat
           /\ b.ptr = heap[i].addr + 16
           /\ b.ptr + b.size <= ChunkEnd(heap[i])
<1>1. PICK i \in 1..Len(heap) :
         /\ heap[i].used /\ Payload(heap[i]) = b.ptr
         /\ AllocSize(b.size) <= heap[i].size /\ ~TooBig(b.size)
  BY DEF HeapInv, OwnedIsUsed
<1>2. b.ptr \in Nat /\ b.size \in 0..WORD-1 /\ b.size \in Nat
  BY WordAssumption DEF HeapInv, TypeOK, Block
<1>3. heap[i] \in Chunk
  BY ElementOfSeq DEF HeapInv, TypeOK
<1>4. AllocSize(b.size) \in Nat /\ b.size <= AllocSize(b.size)
  BY <1>1, <1>2, AllocSizeFacts
<1>5. /\ heap[i].addr \in Nat /\ heap[i].size \in Nat
      /\ Payload(heap[i]) = heap[i].addr + 16
      /\ ChunkEnd(heap[i]) = heap[i].addr + 16 + heap[i].size
  BY <1>3, ChunkFacts
<1> QED BY <1>1, <1>2, <1>4, <1>5

\* The invariant is strong enough to protect the bytes of a live block.
LEMMA InvProtects == HeapInv => LiveUndisturbed
<1> SUFFICES ASSUME HeapInv, NEW b \in live
             PROVE  /\ \A c \in live : b # c => \/ b.ptr + b.size <= c.ptr
                                                \/ c.ptr + c.size <= b.ptr
                    /\ \A k \in 1..Len(heap) : \/ b.ptr + b.size <= heap[k].addr
                                               \/ Payload(heap[k]) <= b.ptr
  BY DEF LiveUndisturbed
<1>1. PICK i \in 1..Len(heap) :
        /\ b.ptr \in Nat /\ b.size \in Nat
        /\ b.ptr = heap[i].addr + 16
        /\ b.ptr + b.size <= ChunkEnd(heap[i])
  BY LiveInChunk
<1>2. \A k \in 1..Len(heap) :
        /\ heap[k].addr \in Nat /\ ChunkEnd(heap[k]) \in Nat
        /\ Payload(heap[k]) = heap[k].addr + 16
        /\ Payload(heap[k]) <= ChunkEnd(heap[k])
  <2> TAKE k \in 1..Len(heap)
  <2>1. heap[k] \in Chunk
    BY ElementOfSeq DEF HeapInv, TypeOK
  <2> QED BY <2>1, ChunkFacts
<1>3. \A j, k \in 1..Len(heap) :
        j # k => \/ ChunkEnd(heap[j]) <= heap[k].addr
                 \/ ChunkEnd(heap[k]) <= heap[j].addr
  BY DEF HeapInv, SpansDisjoint
<1>4. ASSUME NEW c \in live, b # c
      PROVE  b.ptr + b.size <= c.ptr \/ c.ptr + c.size <= b.ptr
  <2>1. PICK j \in 1..Len(heap) :
          /\ c.ptr \in Nat /\ c.size \in Nat
          /\ c.ptr = heap[j].addr + 16
          /\ c.ptr + c.size <= ChunkEnd(heap[j])
    BY LiveInChunk
  <2>2. i # j
    <3>1. c.ptr # b.ptr
      BY <1>4 DEF HeapInv, OwnedIsUsed
    <3> QED BY <1>1, <2>1, <3>1
  <2>3. CASE ChunkEnd(heap[i]) <= heap[j].addr
    <3>1. b.ptr + b.size <= heap[j].addr
      <4>1. heap[j].addr \in Nat /\ ChunkEnd(heap[i]) \in Nat
        BY <1>2
      <4> QED BY <1>1, <2>3, <4>1
    <3>2. heap[j].addr \in Nat
      BY <1>2
    <3> QED BY <1>1, <2>1, <3>1, <3>2
  <2>4. CASE ChunkEnd(heap[j]) <= heap[i].addr
    <3>1. heap[i].addr \in Nat /\ ChunkEnd(heap[j]) \in Nat
      BY <1>2
    <3>2. c.ptr + c.size <= heap[i].addr
      BY <2>1, <2>4, <3>1
    <3> QED BY <1>1, <2>1, <3>1, <3>2
  <2> QED BY <1>3, <2>2, <2>3, <2>4
<1>5. ASSUME NEW k \in 1..Len(heap)
      PROVE  b.ptr + b.size <= heap[k].addr \/ Payload(heap[k]) <= b.ptr
  <2>1. CASE k = i
    BY <1>1, <1>2, <2>1
  <2>2. CASE k # i /\ ChunkEnd(heap[i]) <= heap[k].addr
    BY <1>1, <1>2, <2>2
  <2>3. CASE k # i /\ ChunkEnd(heap[k]) <= heap[i].addr
    <3>1. Payload(heap[k]) <= heap[i].addr
      BY <1>2, <2>3
    <3> QED BY <1>1, <1>2, <3>1
  <2> QED BY <1>3, <2>1, <2>2, <2>3
<1> QED BY <1>4, <1>5

\* The state of the heap keeps its type.
THEOREM TypeCorrect == Spec => []TypeOK
BY HeapInvariant, PTL DEF HeapInv

\* Neither malloc nor free ever writes on, or hands out again, a byte of a
\* block the program holds.
THEOREM LiveSafe == Spec => []LiveUndisturbed
BY HeapInvariant, InvProtects, PTL

\* The payload of a free chunk is not the address of a live block.
LEMMA FreshPayload ==
  ASSUME HeapInv, NEW i \in 1..Len(heap), ~heap[i].used
  PROVE  \A b \in live : b.ptr # Payload(heap[i])
<1> SUFFICES ASSUME NEW b \in live, b.ptr = Payload(heap[i]) PROVE FALSE
  OBVIOUS
<1>1. PICK j \in 1..Len(heap) : heap[j].used /\ Payload(heap[j]) = b.ptr
  BY DEF HeapInv, OwnedIsUsed
<1> QED BY <1>1, PayloadsDiffer DEF HeapInv

\* Two intervals that are disjoint as intervals have no byte in common.
LEMMA BytesApart ==
  ASSUME NEW b, NEW c, b.ptr \in Nat, b.size \in Nat, c.ptr \in Nat, c.size \in Nat,
         b.ptr + b.size <= c.ptr \/ c.ptr + c.size <= b.ptr
  PROVE  Abs!BytesOf(b) \cap Abs!BytesOf(c) = {}
<1> SUFFICES ASSUME NEW x \in Abs!BytesOf(b), x \in Abs!BytesOf(c) PROVE FALSE
  OBVIOUS
<1>1. /\ x \in Int /\ b.ptr <= x /\ x <= b.ptr + b.size - 1
      /\ c.ptr <= x /\ x <= c.ptr + c.size - 1
  BY DEF Abs!BytesOf
<1> QED BY <1>1

\* A successful malloc is a Grant of the abstract allocator.
LEMMA GrantStep ==
  ASSUME HeapInv, HeapInv', NEW n \in Requests,
         NEW i \in 1..Len(heap), MallocAt(i, n)
  PROVE  Abs!Grant(n)
<1> DEFINE b == [ptr |-> Payload(heap[i]), size |-> n]
<1>1. /\ live' = live \cup {b} /\ ret' = b.ptr /\ ~heap[i].used
      /\ b.ptr = Payload(heap[i]) /\ b.size = n
  BY DEF MallocAt, FirstFit, Fits
<1>2. \A c \in live : c.ptr # b.ptr
  BY <1>1, FreshPayload
<1>3. b \in live'
  BY <1>1
<1>4. \A c \in live : Abs!BytesOf(b) \cap Abs!BytesOf(c) = {}
  <2> TAKE c \in live
  <2>1. c \in live' /\ c # b
    BY <1>1, <1>2
  <2>2. LiveUndisturbed'
    BY InvProtects, PTL
  <2>3. b.ptr + b.size <= c.ptr \/ c.ptr + c.size <= b.ptr
    BY <1>3, <2>1, <2>2 DEF LiveUndisturbed
  <2>4. /\ b.ptr \in Nat /\ b.size \in Nat
        /\ c.ptr \in Nat /\ c.size \in Nat
    <3>1. \A d \in live' : d.ptr \in Nat /\ d.size \in Nat
      BY WordAssumption DEF HeapInv, TypeOK, Block
    <3> QED BY <1>3, <2>1, <3>1
  <2> HIDE DEF b
  <2> QED BY <2>3, <2>4, BytesApart
<1>5. PICK j \in 1..Len(heap') :
        /\ b.ptr \in Nat /\ b.size \in Nat
        /\ b.ptr = heap'[j].addr + 16
        /\ b.ptr + b.size <= ChunkEnd(heap'[j])
  <2>1. \E k \in 1..Len(heap') :
           /\ heap'[k].used /\ Payload(heap'[k]) = b.ptr
           /\ AllocSize(b.size) <= heap'[k].size /\ ~TooBig(b.size)
    BY <1>3 DEF HeapInv, OwnedIsUsed, Payload, AllocSize, TooBig
  <2>2. PICK k \in 1..Len(heap') :
           /\ Payload(heap'[k]) = b.ptr
           /\ AllocSize(b.size) <= heap'[k].size /\ ~TooBig(b.size)
    BY <2>1
  <2>3. heap'[k] \in Chunk
    <3>1. heap' \in Seq(Chunk)
      BY DEF HeapInv, TypeOK
    <3> QED BY <3>1, ElementOfSeq
  <2>4. n \in 0..WORD-1 /\ n \in Nat
    BY RequestsAssumption, WordAssumption
  <2>5. AllocSize(n) \in Nat /\ n <= AllocSize(n) /\ AllocSize(n) <= heap'[k].size
    BY <1>1, <2>2, <2>4, AllocSizeFacts
  <2>6. /\ heap'[k].addr \in Nat /\ heap'[k].size \in Nat
        /\ Payload(heap'[k]) = heap'[k].addr + 16
        /\ ChunkEnd(heap'[k]) = heap'[k].addr + 16 + heap'[k].size
    BY <2>3, ChunkFacts
  <2> HIDE DEF b
  <2>7. b.ptr = heap'[k].addr + 16 /\ b.size = n
    BY <1>1, <2>2, <2>6
  <2>8. \A x, y, z, w \in Nat : y <= z /\ z <= w => x + 16 + y <= x + 16 + w
    OBVIOUS
  <2>9. b.ptr + b.size <= ChunkEnd(heap'[k])
    BY <2>4, <2>5, <2>6, <2>7, <2>8
  <2> QED BY <2>4, <2>6, <2>7, <2>9
<1>6. PICK r \in 1..Len(Regions) :
        /\ Regions[r].start <= heap'[j].addr
        /\ ChunkEnd(heap'[j]) <= Regions[r].end
  BY DEF HeapInv, Contained, ChunkEnd
<1>7. heap'[j].addr \in Nat /\ ChunkEnd(heap'[j]) \in Nat
  <2>1. heap'[j] \in Chunk
    <3>1. heap' \in Seq(Chunk)
      BY DEF HeapInv, TypeOK
    <3> QED BY <3>1, ElementOfSeq
  <2> QED BY <2>1, ChunkFacts
<1>8. /\ Regions[r].start \in Nat /\ Regions[r].end \in Nat
      /\ Regions[r].start > 0
  BY RegionFacts
<1> HIDE DEF b
<1>9. /\ Regions[r].start <= b.ptr
      /\ b.ptr + b.size <= Regions[r].end
      /\ b.ptr # 0
  <2>1. Regions[r].start <= b.ptr /\ b.ptr # 0
    <3>1. \A x, y, z \in Nat : x > 0 /\ x <= y /\ z = y + 16 => x <= z /\ z # 0
      OBVIOUS
    <3>2. b.ptr \in Nat /\ b.ptr = heap'[j].addr + 16
      BY <1>5
    <3> QED BY <1>6, <1>7, <1>8, <3>1, <3>2
  <2>2. b.ptr + b.size \in Nat
    BY <1>5
  <2>3. b.ptr + b.size <= Regions[r].end
    <3>1. \A x, y, z \in Nat : x <= y /\ y <= z => x <= z
      OBVIOUS
    <3>2. /\ b.ptr + b.size <= ChunkEnd(heap'[j])
          /\ ChunkEnd(heap'[j]) <= Regions[r].end
          /\ ChunkEnd(heap'[j]) \in Nat /\ Regions[r].end \in Nat
      BY <1>5, <1>6, <1>7, <1>8
    <3> QED BY <2>2, <3>1, <3>2
  <2> QED BY <2>1, <2>3
<1>10. b.ptr % 8 = 0
  <2>1. heap'[j].addr % 8 = 0
    BY DEF HeapInv, Aligned, GRANULE
  <2> QED BY <1>5, <1>7, <2>1
<1>11. \A x \in Regions[r].start .. Regions[r].end : x \in ArenaBytes
  BY DEF ArenaBytes
<1>12. b.ptr \in ArenaBytes /\ Abs!BytesOf(b) \subseteq ArenaBytes
  <2>1. \A x \in b.ptr .. b.ptr + b.size : x \in Regions[r].start .. Regions[r].end
    <3>1. b.ptr \in Nat /\ b.ptr + b.size \in Nat
      BY <1>5
    <3> QED BY <1>8, <1>9, <3>1, NestedIntervals
  <2>2. b.ptr \in b.ptr .. b.ptr + b.size
    BY <1>5
  <2>3. \A x \in Abs!BytesOf(b) : x \in b.ptr .. b.ptr + b.size
    BY <1>5 DEF Abs!BytesOf
  <2> QED BY <1>11, <2>1, <2>2, <2>3
<1>13. b \in [ptr : {a \in ArenaBytes : a # Abs!NULL /\ a % GRANULE = 0}, size : {n}]
  BY <1>9, <1>10, <1>12 DEF b, Abs!NULL, GRANULE
<1> QED BY <1>1, <1>2, <1>4, <1>12, <1>13 DEF Abs!Grant

\* The chunk list implements the abstract allocator: what callers see of it are
\* blocks that never overlap, in the segments the machine reported as RAM.
THEOREM HeapImplementsAllocator == Spec => AllocatorSpec
<1>1. Init => Abs!Init
  BY DEF Init, Abs!Init, NULL, Abs!NULL
<1>2. HeapInv /\ HeapInv' /\ [Next]_vars => [Abs!Next]_(Abs!vars)
  <2> SUFFICES ASSUME HeapInv, HeapInv', [Next]_vars
               PROVE  Abs!Next \/ UNCHANGED Abs!vars
    OBVIOUS
  <2>1. CASE SetUpHeap
    BY <2>1 DEF SetUpHeap, Abs!vars
  <2>2. ASSUME NEW n \in Requests, MallocNull(n) PROVE Abs!Next
    BY <2>2 DEF MallocNull, Abs!Next, Abs!Refuse, NULL, Abs!NULL
  <2>3. ASSUME NEW n \in Requests, NEW i \in 1..Len(heap), MallocAt(i, n)
        PROVE  Abs!Next
    BY <2>3, GrantStep DEF Abs!Next
  <2>4. ASSUME NEW b \in live, NEW i \in 1..Len(heap), FreeAt(i, b)
        PROVE  Abs!Next
    BY <2>4 DEF FreeAt, Abs!Next, Abs!Release
  <2>5. CASE UNCHANGED vars
    BY <2>5 DEF vars, Abs!vars
  <2> QED BY <2>1, <2>2, <2>3, <2>4, <2>5 DEF Next, Malloc, Free
<1> QED BY <1>1, <1>2, HeapInvariant, PTL DEF Spec, AllocatorSpec, Abs!Spec

\* A header is never merged away or moved, so the one free looks for is there.
THEOREM HeadersStayPut == Spec => HeadersStay
<1> DEFINE A == {heap[i].addr : i \in 1..Len(heap)} \subseteq
                {heap'[i].addr : i \in 1..Len(heap')}
<1>1. HeapInv /\ [Next]_vars => [A]_vars
  <2> SUFFICES ASSUME HeapInv, [Next]_vars, NEW k \in 1..Len(heap)
               PROVE  \E l \in 1..Len(heap') : heap'[l].addr = heap[k].addr
    OBVIOUS
  <2> USE DEF HeapInv
  <2>0. heap \in Seq(Chunk) /\ Len(heap) \in Nat
    BY DEF TypeOK
  <2>1. CASE UNCHANGED heap
    BY <2>1
  <2>2. CASE SetUpHeap
    <3>1. Len(heap) = 0
      BY <2>2 DEF SetUpHeap
    <3> QED BY <3>1
  <2>3. ASSUME NEW n \in Requests, NEW i \in 1..Len(heap), MallocAt(i, n)
        PROVE  \E l \in 1..Len(heap') : heap'[l].addr = heap[k].addr
    <3>1. CASE Splits(heap[i], n)
      <4>1. heap' = SplitChunk(i, n) /\ ~TooBig(n)
        BY <2>3, <3>1 DEF MallocAt
      <4>2. /\ Len(heap') = Len(heap) + 1
            /\ \A l \in 1..Len(heap) + 1 :
                 /\ l < i => heap'[l] = heap[l]
                 /\ l = i => heap'[l].addr = heap[i].addr
                 /\ l > i + 1 => heap'[l] = heap[l - 1]
        <5>1. /\ Len(heap') = Len(heap) + 1
              /\ \A l \in 1..Len(heap) + 1 :
                   /\ l < i => heap'[l] = heap[l]
                   /\ l = i => heap'[l] = [addr |-> heap[i].addr,
                                          size |-> AllocSize(n), used |-> TRUE]
                   /\ l > i + 1 => heap'[l] = heap[l - 1]
          BY <2>3, <3>1, <4>1, SplitFacts
        <5> QED BY <5>1
      <4>3. CASE k <= i
        BY <2>0, <4>2, <4>3
      <4>4. CASE k > i
        <5>1. k + 1 \in 1..Len(heap') /\ heap'[k + 1] = heap[k]
          BY <2>0, <4>2, <4>4
        <5> QED BY <5>1
      <4> QED BY <2>0, <4>3, <4>4
    <3>2. CASE ~Splits(heap[i], n)
      <4>1. heap' = [heap EXCEPT ![i].used = TRUE]
        BY <2>3, <3>2 DEF MallocAt, MarkUsed
      <4> QED BY <2>0, <4>1, ElementOfSeq DEF Chunk
    <3> QED BY <3>1, <3>2
  <2>4. ASSUME NEW b \in live, NEW i \in 1..Len(heap), FreeAt(i, b)
        PROVE  \E l \in 1..Len(heap') : heap'[l].addr = heap[k].addr
    <3>1. heap' = [heap EXCEPT ![i].used = FALSE]
      BY <2>4 DEF FreeAt
    <3> QED BY <2>0, <3>1, ElementOfSeq DEF Chunk
  <2> QED BY <2>1, <2>2, <2>3, <2>4 DEF Next, Malloc, Free, MallocNull, vars
<1> QED BY <1>1, HeapInvariant, PTL DEF Spec, HeadersStay

\* Whatever was freed can be had again by the same request.
THEOREM FreedFits == Spec => FreedIsReusable
<1>1. HeapInv /\ [Next]_vars => [FreeLeavesRoom]_vars
  <2> SUFFICES ASSUME HeapInv, [Next]_vars, NEW b \in live, b \notin live'
               PROVE  \E i \in 1..Len(heap') : /\ Payload(heap'[i]) = b.ptr
                                               /\ Fits(heap'[i], b.size)
    BY DEF FreeLeavesRoom
  <2> USE DEF HeapInv
  <2>1. PICK i \in 1..Len(heap) : FreeAt(i, b)
    BY DEF Next, SetUpHeap, Malloc, MallocNull, MallocAt, Free, FreeAt, vars
  <2>2. /\ heap \in Seq(Chunk) /\ heap[i] \in Chunk /\ Len(heap) \in Nat
    BY ElementOfSeq DEF TypeOK
  <2>3. PICK j \in 1..Len(heap) : /\ heap[j].used /\ Payload(heap[j]) = b.ptr
                                  /\ AllocSize(b.size) <= heap[j].size
    BY DEF OwnedIsUsed
  <2>4. i = j
    BY <2>1, <2>3, PayloadsDiffer DEF FreeAt
  <2>5. heap' = [heap EXCEPT ![i].used = FALSE]
    BY <2>1 DEF FreeAt
  <2>6. i \in 1..Len(heap') /\ ~heap'[i].used /\ heap'[i].size = heap[i].size
    BY <2>2, <2>5 DEF Chunk
  <2>a. Payload(heap'[i]) = b.ptr
    <3>1. heap'[i].addr = heap[i].addr
      BY <2>2, <2>5 DEF Chunk
    <3> QED BY <2>1, <3>1 DEF FreeAt, Payload
  <2>7. b.size \in 0..WORD-1 /\ ~TooBig(b.size)
    BY <2>3 DEF TypeOK, Block, OwnedIsUsed
  <2>8. AllocSize(b.size) \in Nat
    BY <2>7, AllocSizeFacts
  <2>9. heap'[i].size >= AllocSize(b.size)
    BY <2>2, <2>3, <2>4, <2>6, <2>8 DEF Chunk
  <2> QED BY <2>6, <2>9, <2>a DEF Fits
<1> QED BY <1>1, HeapInvariant, PTL DEF Spec, FreedIsReusable

\* What a step does to the chunks that cover an address.
LEMMA CoverStep ==
  ASSUME HeapInv, [Next]_vars, heap # <<>>,
         NEW x \in Int, NEW k \in 1..Len(heap),
         heap[k].addr <= x, x < ChunkEnd(heap[k])
  PROVE  \E l \in 1..Len(heap') : heap'[l].addr <= x /\ x < ChunkEnd(heap'[l])
<1> USE DEF HeapInv
<1>0. /\ heap \in Seq(Chunk) /\ Len(heap) \in Nat
      /\ \A m \in 1..Len(heap) : heap[m] \in Chunk
  BY ElementOfSeq DEF TypeOK
<1>1. CASE UNCHANGED heap
  BY <1>1 DEF ChunkEnd
<1>2. ASSUME NEW n \in Requests, NEW i \in 1..Len(heap), MallocAt(i, n)
      PROVE  \E l \in 1..Len(heap') : heap'[l].addr <= x /\ x < ChunkEnd(heap'[l])
  <2>1. CASE Splits(heap[i], n)
    <3>1. heap' = SplitChunk(i, n) /\ ~TooBig(n)
      BY <1>2, <2>1 DEF MallocAt
    <3>2. /\ Len(heap') = Len(heap) + 1
          /\ \A l \in 1..Len(heap) + 1 :
               /\ l < i => heap'[l] = heap[l]
               /\ l = i => heap'[l] = [addr |-> heap[i].addr,
                                      size |-> AllocSize(n), used |-> TRUE]
               /\ l = i + 1 => heap'[l] = Rest(heap[i], n)
               /\ l > i + 1 => heap'[l] = heap[l - 1]
      BY <1>2, <2>1, <3>1, SplitFacts
    <3>3. CASE k < i
      BY <1>0, <3>2, <3>3 DEF ChunkEnd
    <3>4. CASE k > i
      <4>1. k + 1 \in 1..Len(heap') /\ heap'[k + 1] = heap[k]
        BY <1>0, <3>2, <3>4
      <4> QED BY <4>1
    <3>5. CASE k = i
      <4>1. /\ i \in 1..Len(heap') /\ i + 1 \in 1..Len(heap')
            /\ heap'[i] = [addr |-> heap[i].addr, size |-> AllocSize(n), used |-> TRUE]
            /\ heap'[i + 1] = [addr |-> heap[i].addr + 16 + AllocSize(n),
                               size |-> heap[i].size - AllocSize(n) - 16,
                               used |-> FALSE]
        <5>1. i \in 1..Len(heap') /\ i + 1 \in 1..Len(heap')
          BY <1>0, <3>2
        <5>2. heap'[i] = [addr |-> heap[i].addr, size |-> AllocSize(n), used |-> TRUE]
          BY <3>2, <5>1
        <5>3. heap'[i + 1] = Rest(heap[i], n)
          BY <3>2, <5>1
        <5> QED BY <5>1, <5>2, <5>3 DEF Rest, HDR
      <4>2. AllocSize(n) \in Nat
        BY <3>1, AllocSizeFacts, RequestsAssumption
      <4>3. heap[i].addr \in Nat /\ heap[i].size \in Nat
        BY <1>0, ChunkFacts
      <4>4. CASE x < heap[i].addr + 16 + AllocSize(n)
        <5>1. heap'[i].addr <= x
          BY <3>5, <4>1
        <5>2. ChunkEnd(heap'[i]) = heap[i].addr + 16 + AllocSize(n)
          BY <4>1 DEF ChunkEnd, HDR
        <5> QED BY <4>1, <4>4, <5>1, <5>2
      <4>5. CASE heap[i].addr + 16 + AllocSize(n) <= x
        <5>1. heap'[i + 1].addr <= x
          BY <4>1, <4>5
        <5>2. ChunkEnd(heap'[i + 1]) = (heap[i].addr + 16 + AllocSize(n)) + 16
                                        + (heap[i].size - AllocSize(n) - 16)
          BY <4>1 DEF ChunkEnd, HDR
        <5>3. \A p, q, a \in Nat : (p + 16 + a) + 16 + (q - a - 16) = p + 16 + q
          OBVIOUS
        <5>6. ChunkEnd(heap'[i + 1]) = heap[i].addr + 16 + heap[i].size
          BY <4>2, <4>3, <5>2, <5>3
        <5>4. ChunkEnd(heap[k]) = heap[i].addr + 16 + heap[i].size
          BY <3>5 DEF ChunkEnd, HDR
        <5>5. x < ChunkEnd(heap'[i + 1])
          BY <5>6, <5>4
        <5> QED BY <4>1, <5>1, <5>5
      <4> QED BY <4>2, <4>3, <4>4, <4>5
    <3> QED BY <1>0, <3>3, <3>4, <3>5
  <2>2. CASE ~Splits(heap[i], n)
    <3>1. heap' = [heap EXCEPT ![i].used = TRUE]
      BY <1>2, <2>2 DEF MallocAt, MarkUsed
    <3> QED BY <1>0, <3>1 DEF Chunk, ChunkEnd
  <2> QED BY <2>1, <2>2
<1>3. ASSUME NEW b \in live, NEW i \in 1..Len(heap), FreeAt(i, b)
      PROVE  \E l \in 1..Len(heap') : heap'[l].addr <= x /\ x < ChunkEnd(heap'[l])
  <2>1. heap' = [heap EXCEPT ![i].used = FALSE]
    BY <1>3 DEF FreeAt
  <2> QED BY <1>0, <2>1 DEF Chunk, ChunkEnd
<1> QED BY <1>1, <1>2, <1>3 DEF Next, Malloc, Free, MallocNull, SetUpHeap, vars

\* No sequence of requests loses a byte of the segments for good.
THEOREM NoByteLost == Spec => []NothingLost
<1>1. Init => NothingLost
  BY DEF Init, NothingLost
<1>2. HeapInv /\ NothingLost /\ [Next]_vars => NothingLost'
  <2> SUFFICES ASSUME HeapInv, NothingLost, [Next]_vars, heap' # <<>>,
                      NEW r \in 1..Len(Regions),
                      NEW x \in Regions[r].start .. Regions[r].end - 1
               PROVE  \E l \in 1..Len(heap') :
                        heap'[l].addr <= x /\ x < ChunkEnd(heap'[l])
    BY DEF NothingLost, ChunkEnd
  <2>0. /\ Regions[r].start \in Nat /\ Regions[r].end \in Nat
        /\ x \in Int /\ Regions[r].start <= x /\ x < Regions[r].end
        /\ Len(Regions) \in Nat
    BY RegionFacts
  <2>1. CASE heap = <<>>
    <3>1. Len(heap) = 0
      BY <2>1
    <3>2. SetUpHeap
      BY <2>1, <3>1 DEF Next, Malloc, MallocNull, MallocAt, Free, FreeAt, vars,
                        HeapInv, TypeOK
    <3>3. /\ r \in 1..Len(heap')
          /\ heap'[r].addr = Regions[r].start
          /\ heap'[r].size = Regions[r].end - Regions[r].start - 16
      BY <2>0, <3>2 DEF SetUpHeap, HDR
    <3>4. ChunkEnd(heap'[r]) = Regions[r].end
      BY <2>0, <3>3 DEF ChunkEnd, HDR
    <3> QED BY <2>0, <3>3, <3>4
  <2>2. CASE heap # <<>>
    <3>1. PICK k \in 1..Len(heap) : heap[k].addr <= x /\ x < ChunkEnd(heap[k])
      BY <2>2 DEF NothingLost
    <3> QED BY <2>0, <2>2, <3>1, CoverStep
  <2> QED BY <2>1, <2>2
<1> QED BY <1>1, <1>2, HeapInvariant, PTL DEF Spec
=============================================================================
