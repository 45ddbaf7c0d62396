-------------------------------- MODULE Heap --------------------------------
(* libruncxx/memory.cc: the kernel heap.  The heap is one singly linked list *)
(* of chunks, each a header (next, size) followed by its payload; the top    *)
(* bit of size marks the chunk as used.  malloc takes the first free chunk   *)
(* that is big enough and splits it when the rest can hold a chunk of its    *)
(* own; free clears the mark; chunks are never merged.                       *)
(* The list is a sequence, so a position stands for a MemChunk pointer and   *)
(* the successor position for next; the mark is a field of its own.          *)
EXTENDS Integers, Sequences, FiniteSets

CONSTANTS
  WORD,           \* 2^w for the w-bit size_t and uint64_t of the build
  Regions,        \* the RAM segments setUpHeap leaves for the heap, in order
  Requests        \* the sizes callers pass to malloc

HDR     == 16     \* sizeof(MemChunk)
GRANULE == 8      \* payloads are multiples of this
NULL    == 0

ASSUME WordAssumption ==
  WORD \in Nat /\ WORD > 64 /\ WORD % 16 = 0

\* What setUpHeap guarantees of the segments it links (module Boot).
ASSUME RegionsAssumption ==
  /\ Regions \in Seq([start : Nat, end : Nat])
  /\ \A r \in 1..Len(Regions) :
       /\ Regions[r].start > 0
       /\ Regions[r].start % GRANULE = 0
       /\ Regions[r].start + HDR + GRANULE <= Regions[r].end
       /\ Regions[r].end - Regions[r].start < WORD \div 2
  /\ \A r, s \in 1..Len(Regions) :
       r # s => \/ Regions[r].end <= Regions[s].start
                \/ Regions[s].end <= Regions[r].start

ASSUME RequestsAssumption == Requests \subseteq 0..WORD-1

VARIABLES
  heap,           \* the chunks reachable from head: [addr, size, used]
  live,           \* the blocks the program holds: [ptr, size as requested]
  ret             \* what the last call of malloc returned

vars == <<heap, live, ret>>
-----------------------------------------------------------------------------
Chunk == [addr : Nat, size : Nat, used : BOOLEAN]
Block == [ptr : Nat, size : 0..WORD-1]

Payload(c)  == c.addr + HDR
ChunkEnd(c) == c.addr + HDR + c.size

\* Mutant: the request is rounded down to a granule.
AllocSize_RoundDown(n) == (n \div GRANULE) * GRANULE

\* (((size-1)>>3)<<3)+8 in unsigned arithmetic: 0 stays 0, because size-1
\* wraps to the largest word and the addition wraps back.
AllocSize(n) ==
  ((((n - 1) % WORD) \div GRANULE) * GRANULE + GRANULE) % WORD

TooBig(n) == n > WORD \div 2 - 1

\* Mutant: the walk does not look at the mark.
Fits_IgnoresMark(c, n) == c.size >= AllocSize(n)

Fits(c, n) == ~c.used /\ c.size >= AllocSize(n)

\* The chunk the walk from head stops at.
FirstFit(i, n) == /\ Fits(heap[i], n)
                  /\ \A j \in 1..i-1 : ~Fits(heap[j], n)

Splits(c, n) == c.size >= AllocSize(n) + HDR + GRANULE

\* Mutant: the rest is one granule too short.
Rest_TooShort(c, n) == [addr |-> c.addr + HDR + AllocSize(n),
                        size |-> c.size - AllocSize(n) - HDR - GRANULE,
                        used |-> FALSE]

Rest(c, n) == [addr |-> c.addr + HDR + AllocSize(n),
               size |-> c.size - AllocSize(n) - HDR,
               used |-> FALSE]

\* Mutant: the mark is forgotten.
MarkUsed_Forgotten(i) == heap

\* The list after chunk i was given whole to a request.
MarkUsed(i) == [heap EXCEPT ![i].used = TRUE]

\* Mutant: the chunk keeps the size that was asked for, not the rounded one.
SplitChunk_Unrounded(i, n) ==
  [k \in 1..Len(heap) + 1 |->
     IF k < i THEN heap[k]
     ELSE IF k = i THEN [addr |-> heap[i].addr, size |-> n, used |-> TRUE]
     ELSE IF k = i + 1 THEN Rest(heap[i], n)
     ELSE heap[k - 1]]

\* Mutant: the new chunk is linked in place of the successor.
SplitChunk_LosesNext(i, n) ==
  [k \in 1..(IF i = Len(heap) THEN i + 1 ELSE Len(heap)) |->
     IF k < i THEN heap[k]
     ELSE IF k = i THEN [addr |-> heap[i].addr, size |-> AllocSize(n), used |-> TRUE]
     ELSE IF k = i + 1 THEN Rest(heap[i], n)
     ELSE heap[k]]

\* The list after the head of chunk i was given to a request of n bytes and
\* its tail became a chunk of its own.
SplitChunk(i, n) ==
  [k \in 1..Len(heap) + 1 |->
     IF k < i THEN heap[k]
     ELSE IF k = i THEN [addr |-> heap[i].addr, size |-> AllocSize(n), used |-> TRUE]
     ELSE IF k = i + 1 THEN Rest(heap[i], n)
     ELSE heap[k - 1]]
-----------------------------------------------------------------------------
Init == heap = <<>> /\ live = {} /\ ret = NULL

\* The constructor setUpHeap links the segments, one free chunk in each.
SetUpHeap ==
  /\ heap = <<>>
  /\ heap' = [r \in 1..Len(Regions) |->
                [addr |-> Regions[r].start,
                 size |-> Regions[r].end - Regions[r].start - HDR,
                 used |-> FALSE]]
  /\ UNCHANGED <<live, ret>>

MallocNull(n) ==
  /\ \/ heap = <<>>
     \/ TooBig(n)
     \/ \A i \in 1..Len(heap) : ~Fits(heap[i], n)
  /\ ret' = NULL
  /\ UNCHANGED <<heap, live>>

MallocAt(i, n) ==
  /\ ~TooBig(n)
  /\ FirstFit(i, n)
  /\ heap' = IF Splits(heap[i], n) THEN SplitChunk(i, n) ELSE MarkUsed(i)
  /\ live' = live \cup {[ptr |-> Payload(heap[i]), size |-> n]}
  /\ ret' = Payload(heap[i])

Malloc(n) == MallocNull(n) \/ \E i \in 1..Len(heap) : MallocAt(i, n)

\* free(p) for a block the program holds: the header is found HDR bytes below.
FreeAt(i, b) ==
  /\ Payload(heap[i]) = b.ptr
  /\ heap' = [heap EXCEPT ![i].used = FALSE]
  /\ live' = live \ {b}
  /\ UNCHANGED ret

Free == \E b \in live : \E i \in 1..Len(heap) : FreeAt(i, b)

Next == SetUpHeap \/ (\E n \in Requests : Malloc(n)) \/ Free

Spec == Init /\ [][Next]_vars
-----------------------------------------------------------------------------
TypeOK == /\ heap \in Seq(Chunk)
          /\ live \subseteq Block
          /\ ret \in Nat

\* Every chunk lies inside one of the segments and starts on an 8-byte boundary
\* (memory.cc:50-52: "AArch64 platforms refuse to cooperate otherwise").
Contained ==
  \A i \in 1..Len(heap) :
    \E r \in 1..Len(Regions) : /\ Regions[r].start <= heap[i].addr
                               /\ ChunkEnd(heap[i]) <= Regions[r].end

Aligned == \A i \in 1..Len(heap) : heap[i].addr % GRANULE = 0

\* No two chunks share a byte, headers included: a split cuts the tail off a
\* chunk and never reaches into the next one (memory.cc:70-76).
SpansDisjoint ==
  \A i, j \in 1..Len(heap) :
    i # j => \/ ChunkEnd(heap[i]) <= heap[j].addr
             \/ ChunkEnd(heap[j]) <= heap[i].addr

\* The mark in the header and what the program holds agree: a block handed out
\* has exactly one used chunk that is large enough, and a used chunk has an
\* owner (a mark nobody owns is a leak, one that is missing is a double use).
OwnedIsUsed ==
  /\ \A b \in live : \E i \in 1..Len(heap) :
       /\ heap[i].used
       /\ Payload(heap[i]) = b.ptr
       /\ AllocSize(b.size) <= heap[i].size
       /\ ~TooBig(b.size)
  /\ \A i \in 1..Len(heap) :
       heap[i].used => \E b \in live : b.ptr = Payload(heap[i])
  /\ \A b, c \in live : b.ptr = c.ptr => b = c

\* The inductive invariant of the heap: the list is well formed and its marks
\* agree with what the program holds.
HeapInv == TypeOK /\ Contained /\ Aligned /\ SpansDisjoint /\ OwnedIsUsed

\* Splitting loses no byte: whatever setUpHeap linked stays covered by chunks,
\* so memory that is freed can be handed out again (memory.cc:72).
NothingLost ==
  heap # <<>> =>
    \A r \in 1..Len(Regions) : \A a \in Regions[r].start .. Regions[r].end - 1 :
      \E i \in 1..Len(heap) : heap[i].addr <= a /\ a < ChunkEnd(heap[i])

\* The bytes of a live block belong to it alone: no other live block and no
\* header, on which malloc and free write, lies inside them.
LiveUndisturbed ==
  \A b \in live :
    /\ \A c \in live : b # c => \/ b.ptr + b.size <= c.ptr
                                \/ c.ptr + c.size <= b.ptr
    /\ \A i \in 1..Len(heap) : \/ b.ptr + b.size <= heap[i].addr
                               \/ Payload(heap[i]) <= b.ptr

FreeLeavesRoom ==
  \A b \in live \ live' :
    \E i \in 1..Len(heap') : Payload(heap'[i]) = b.ptr /\ Fits(heap'[i], b.size)

\* Giving a block back makes room for the same request at the same place:
\* rounding and splitting never leave a chunk smaller than what it was asked
\* for, rounded, and free finds the chunk it has to clear.
FreedIsReusable == [][FreeLeavesRoom]_vars

\* Chunks are cut and never merged or moved: an address that was a header stays
\* one, so the header free looks for below a pointer is always there.
HeadersStay ==
  [][{heap[i].addr : i \in 1..Len(heap)} \subseteq
     {heap'[i].addr : i \in 1..Len(heap')}]_vars

\* The abstract allocator over the same segments.
ArenaBytes == UNION {Regions[r].start .. Regions[r].end : r \in 1..Len(Regions)}
Abs == INSTANCE Allocator WITH Arena <- ArenaBytes, ALIGN <- GRANULE
AllocatorSpec == Abs!Spec

\* What the comment at memory.cc:50-52 says of every chunk: none is smaller
\* than one granule.
ChunkAtLeastGranule ==
  \A i \in 1..Len(heap) : heap[i].size >= GRANULE
=============================================================================
