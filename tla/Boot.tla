-------------------------------- MODULE Boot ---------------------------------
(* boot/*/setup.cc, boot/x86_64/multiboot.cc, the page tables of             *)
(* boot/x86_64/crt0.S and setUpHeap of libruncxx/memory.cc: from what the    *)
(* boot loader, the video core or the Linux kernel says of the memory to the *)
(* list of heap segments that malloc starts from.                            *)
(*                                                                           *)
(* The sizes are parameters, so that TLC can work with a small machine; only *)
(* their ratios matter.  Addresses are numbers, a table is named by its      *)
(* address, and every cell of a page table is a record.                      *)
EXTENDS Integers, Sequences

CONSTANTS
  PAGE,           \* 4 KiB
  MIB,            \* 1 MiB, the least a heap segment must have
  BIG,            \* 2 MiB, what a cell of the last table maps
  ENTRIES,        \* cells of a table, 512 in the hardware
  HDR,            \* sizeof(MemChunk)
  KernelStart, KernelEnd,    \* the kernel image
  BootPages,      \* the pages of 2 MiB that crt0.S maps, 4 in the code
  Tables,         \* addresses of the last level tables, in the image
  ENTRYSIZE,      \* sizeof(MbMmapEntry), 24 in the code
  DEVICES,        \* 0x3f000000, raspi3: where the devices start
  VCMEMORY,       \* 0x3ec00000, raspi3: the end of RAM unless told otherwise
  Firmwares       \* the platforms, and what each may say of the memory:
                  \* [platform, map, after, cmdline, cmdlen]

HUGE  == BIG * ENTRIES             \* 1 GiB, what a cell of the PDPT maps
LIMIT == HUGE * ENTRIES            \* 512 GiB, what the one PDPT maps

AVAILABLE == 1                     \* MULTIBOOT_MEMORY_AVAILABLE

MemEntry == [addr : Nat, len : Nat, type : Nat]

\* platform: the build; map: the memory map; after: what a reader finds who goes
\* on reading it past its end; cmdline, cmdlen: where the command line is.  On
\* raspi3 map is the RAM below the vc_mem.mem_base of the boot loader, or empty
\* when it names none; on linux it is the mapping that mmap returned.
ASSUME BootAssumption ==
  /\ {PAGE, MIB, BIG, ENTRIES, HDR, ENTRYSIZE, DEVICES, VCMEMORY} \subseteq Nat \ {0}
  /\ MIB % PAGE = 0 /\ BIG % MIB = 0 /\ HDR < MIB
  /\ KernelStart \in Nat /\ KernelEnd \in Nat /\ KernelStart < KernelEnd
  /\ BootPages \in 1..ENTRIES /\ KernelEnd <= BootPages * BIG
  /\ Tables \subseteq KernelStart .. KernelEnd - 1
  /\ \E t, u, v \in Tables : t # u /\ t # v /\ u # v
  /\ DEVICES <= BIG * ENTRIES
  /\ \A f \in Firmwares :
       /\ f.platform \in {"x86_64", "raspi3", "linux"}
       /\ f.map \in Seq(MemEntry) /\ f.after \in Seq(MemEntry)
       /\ f.cmdline \in Nat \ {0} /\ f.cmdlen \in 1..PAGE
       /\ f.platform = "linux" =>
            Len(f.map) = 1 /\ f.map[1].addr % PAGE = 0 /\ f.cmdline = f.map[1].addr
       /\ f.platform = "raspi3" => Len(f.map) <= 1

VARIABLES
  pc,             \* how far crt0.S has come
  fw,             \* what the platform says
  regions,        \* bootInfo.memoryMap[0 .. numMemoryRegions-1]
  pdpt,           \* the PDPT (x86_64), tableL1 (raspi3)
  pdt,            \* the last level tables
  head            \* head of memory.cc: the heap segments in list order, or
                  \* NoHead when it was read from an uninitialised object

vars == <<pc, fw, regions, pdpt, pdt, head>>

Platform == fw.platform

Index == 0 .. ENTRIES - 1

Cell(kind, at) == [kind |-> kind, at |-> at]
EmptyTable     == [i \in Index |-> Cell("none", 0)]
Region(s, e, t) == [start |-> s, end |-> e, type |-> t]
NoHead         == <<Region(0, 0, "garbage")>>

\* The idioms (((a-1)>>k)<<k)+2^k and ((a-1)>>k)<<k.
RoundUp(a, q)     == ((a - 1) \div q) * q + q
RoundBelow(a, q)  == ((a - 1) \div q) * q

BigIndex(a)  == (a \div BIG) % ENTRIES       \* (a >> 21) & 0x1ff
HugeIndex(a) == (a \div HUGE) % ENTRIES      \* (a >> 30) & 0x1ff

Least(a, b) == IF a < b THEN a ELSE b
-----------------------------------------------------------------------------
(* _parseMultiboot                                                           *)

\* mmapLength counts bytes, the loop takes it for the number of entries.
Scanned ==
  LET all == fw.map \o fw.after
  IN  SubSeq(all, 1, Least(Len(all), ENTRYSIZE * Len(fw.map)))

\* Mutant: the type of the region is not looked at.
Usable_AnyType(e) == e.addr >= PAGE

Usable(e) == e.addr >= PAGE /\ e.type = AVAILABLE

\* The first of the longest usable entries.
IsLargest(i) ==
  /\ Usable(Scanned[i])
  /\ \A j \in DOMAIN Scanned : Usable(Scanned[j]) =>
       /\ Scanned[j].len <= Scanned[i].len
       /\ j < i => Scanned[j].len < Scanned[i].len

\* The part of e between 2 MiB boundaries, when there is one.
MultibootRegion(e) ==
  IF RoundUp(e.addr, BIG) >= e.addr + e.len THEN <<>>
  ELSE <<Region(RoundUp(e.addr, BIG), RoundBelow(e.addr + e.len, BIG), "RAM")>>

ParseMultiboot ==
  /\ Platform = "x86_64" /\ pc = "start"
  /\ pc' = "parsed"
  /\ \/ \E i \in DOMAIN Scanned :
          IsLargest(i) /\ regions' = MultibootRegion(Scanned[i])
     \/ /\ \A i \in DOMAIN Scanned : ~Usable(Scanned[i])
        /\ regions' = <<>>
  /\ UNCHANGED <<fw, pdpt, pdt, head>>
-----------------------------------------------------------------------------
(* _systemSetup of x86_64: the identity map of the heap, in huge pages where *)
(* they fit and in pages of 2 MiB before and after them.                     *)

PDT  == CHOOSE t \in Tables : TRUE
PDT1 == CHOOSE t \in Tables \ {PDT} : TRUE
PDT2 == CHOOSE t \in Tables \ {PDT, PDT1} : TRUE

Rejected(r) ==
  \/ r.start = 0
  \/ r.end - r.start < BIG
  \/ r.start \div LIMIT > 0

\* Up to the first huge boundary the table already there or pdt1 is used.
FirstTable(r) == IF pdpt[HugeIndex(r.start)].kind = "none" THEN PDT1
                 ELSE pdpt[HugeIndex(r.start)].at

\* Mutant: the huge pages start where the heap does.
AfterFirst_NotMoved(r) == r.start

AfterFirst(r) == IF r.start % HUGE = 0 THEN r.start
                 ELSE r.start + (ENTRIES - BigIndex(r.start)) * BIG

HugePages(r) ==
  LET a == AfterFirst(r)
  IN  IF a >= r.end THEN 0
      ELSE Least((r.end - a) \div HUGE, ENTRIES - HugeIndex(a))

AfterHuge(r) == AfterFirst(r) + HugePages(r) * HUGE

\* Mutant: the table for the remainder is installed one cell too far.
RestIndex_OneOff(r) == HugeIndex(AfterHuge(r) + HUGE)

RestIndex(r) == HugeIndex(AfterHuge(r))

MapPdpt(r) ==
  LET i == HugeIndex(r.start)
      k == HugeIndex(AfterFirst(r))
      first == IF r.start % HUGE = 0 \/ pdpt[i].kind # "none" THEN pdpt
               ELSE [pdpt EXCEPT ![i] = Cell("table", PDT1)]
      huge  == [j \in Index |->
                  IF j >= k /\ j < k + HugePages(r)
                    THEN Cell("page", AfterFirst(r) + (j - k) * HUGE)
                    ELSE first[j]]
  IN  IF AfterHuge(r) < r.end
        THEN [huge EXCEPT ![RestIndex(r)] = Cell("table", PDT2)]
        ELSE huge

\* Mutant: the first table is filled from its first cell on.
MapPdt_FromZero(r) ==
  LET rest == [j \in Index |->
                 IF AfterHuge(r) + j * BIG < r.end
                   THEN Cell("page", AfterHuge(r) + j * BIG) ELSE Cell("none", 0)]
      before == [pdt EXCEPT ![PDT1] = EmptyTable, ![PDT2] = rest]
  IN  IF r.start % HUGE = 0 THEN before
      ELSE [before EXCEPT ![FirstTable(r)] =
              [j \in Index |-> Cell("page", r.start + j * BIG)]]

MapPdt(r) ==
  LET rest == [j \in Index |->
                 IF AfterHuge(r) + j * BIG < r.end
                   THEN Cell("page", AfterHuge(r) + j * BIG) ELSE Cell("none", 0)]
      before == [pdt EXCEPT ![PDT1] = EmptyTable, ![PDT2] = rest]
      i == BigIndex(r.start)
  IN  IF r.start % HUGE = 0 THEN before
      ELSE [before EXCEPT ![FirstTable(r)] =
              [j \in Index |-> IF j < i THEN before[FirstTable(r)][j]
                               ELSE Cell("page", r.start + (j - i) * BIG)]]

SystemSetupX86 ==
  /\ Platform = "x86_64" /\ pc = "parsed"
  /\ pc' = "mapped"
  /\ IF regions = <<>> THEN UNCHANGED <<regions, pdpt, pdt>>
     ELSE IF Rejected(regions[1])
       THEN regions' = <<>> /\ UNCHANGED <<pdpt, pdt>>
     ELSE /\ pdpt' = MapPdpt(regions[1])
          /\ pdt' = MapPdt(regions[1])
          /\ UNCHANGED regions
  /\ UNCHANGED <<fw, head>>
-----------------------------------------------------------------------------
(* _systemSetup of raspi3: RAM up to the memory of the video core, devices   *)
(* at the end of the first GiB.                                              *)

VideoBase(f) == IF f.map = <<>> THEN VCMEMORY ELSE f.map[1].addr + f.map[1].len

RaspiEnd == RoundBelow(VideoBase(fw), BIG)

\* Mutant: the pages stop short of the end of the heap.
RaspiMapped_OneShort(a) == a + BIG < RaspiEnd

\* The loop maps a page as RAM by the cell for the page at a, ...
RaspiMapped(a) == a < RaspiEnd

\* ... last this one: the index has nine bits, so the cell is written again for
\* every GiB that the memory goes on.
RaspiPage(a) == a + ((RaspiEnd - 1 - a) \div HUGE) * HUGE

SystemSetupRaspi ==
  /\ Platform = "raspi3" /\ pc = "start"
  /\ pc' = "mapped"
  /\ regions' = <<Region(RoundUp(KernelEnd, HDR), RaspiEnd, "RAM")>>
  /\ pdpt' = [EmptyTable EXCEPT ![0] = Cell("table", PDT)]
  /\ pdt' = [pdt EXCEPT ![PDT] =
               [i \in Index |-> IF i * BIG >= DEVICES THEN Cell("device", i * BIG)
                                ELSE IF RaspiMapped(i * BIG) THEN Cell("page", RaspiPage(i * BIG))
                                ELSE Cell("none", 0)]]
  /\ UNCHANGED <<fw, head>>

\* _systemSetup of linux: the command line goes to the start of the mapping.
SystemSetupLinux ==
  /\ Platform = "linux" /\ pc = "start"
  /\ pc' = "mapped"
  /\ regions' = <<Region(fw.map[1].addr, fw.map[1].addr + fw.map[1].len, "RAM")>>
  /\ UNCHANGED <<fw, pdpt, pdt, head>>

\* The kernel refuses the mapping: a message, and the process ends.
MmapFails ==
  /\ Platform = "linux" /\ pc = "start"
  /\ pc' = "stopped"
  /\ UNCHANGED <<fw, regions, pdpt, pdt, head>>
-----------------------------------------------------------------------------
(* setUpHeap, the first of the global constructors.                          *)

PastKernel(r) ==
  IF r.start < KernelEnd /\ r.end >= KernelEnd THEN [r EXCEPT !.start = KernelEnd] ELSE r

\* Mutant: the page of the command line is not skipped.
PastCmdline_Kept(r) == r

PastCmdline(r) ==
  IF r.start <= fw.cmdline /\ r.end > fw.cmdline
    THEN [r EXCEPT !.start = fw.cmdline + PAGE] ELSE r

\* Mutant: the start is left as it is.
Trimmed_Unaligned(r) == PastCmdline(PastKernel(r))

Trimmed(r) == LET s == PastCmdline(PastKernel(r))
              IN  [s EXCEPT !.start = RoundUp(@, PAGE)]

\* Large enough to be linked.
Qualifies(r) == r.type = "RAM" /\ Trimmed(r).end - Trimmed(r).start >= MIB

\* The loop over bootInfo.memoryMap, with cursor at the end of the list.
Linked ==
  LET after[i \in 0 .. Len(regions)] ==
        IF i = 0 THEN <<>>
        ELSE IF Qualifies(regions[i]) THEN Append(after[i - 1], Trimmed(regions[i]))
        ELSE after[i - 1]
  IN  after[Len(regions)]

\* With nothing to link, head gets the next field of fakeHead, which nothing
\* has set: null or anything else.
SetUpHeap ==
  /\ pc = "mapped"
  /\ pc' = "constructed"
  /\ head' \in IF Linked = <<>> THEN {<<>>, NoHead} ELSE {Linked}
  /\ UNCHANGED <<fw, regions, pdpt, pdt>>
-----------------------------------------------------------------------------
\* What crt0.S has prepared: on x86_64 the first pages, to run in long mode.
Crt0Tables ==
  IF Platform = "x86_64"
  THEN /\ pdpt = [EmptyTable EXCEPT ![0] = Cell("table", PDT)]
       /\ pdt = [t \in Tables |->
                   IF t = PDT
                     THEN [i \in Index |-> IF i < BootPages THEN Cell("page", i * BIG)
                                           ELSE Cell("none", 0)]
                     ELSE EmptyTable]
  ELSE pdpt = EmptyTable /\ pdt = [t \in Tables |-> EmptyTable]

Init ==
  /\ pc = "start"
  /\ fw \in Firmwares
  /\ regions = <<>>
  /\ Crt0Tables
  /\ head = <<>>

Next == ParseMultiboot \/ SystemSetupX86 \/ SystemSetupRaspi \/ SystemSetupLinux
        \/ MmapFails \/ SetUpHeap

Spec == Init /\ [][Next]_vars
-----------------------------------------------------------------------------
(* Properties                                                                *)

\* The type of the state; in particular no region is inside out.
TypeOK ==
  /\ pc \in {"start", "parsed", "mapped", "constructed", "stopped"}
  /\ fw \in Firmwares
  /\ regions \in Seq([start : Nat, end : Nat, type : {"RAM"}])
  /\ \A i \in DOMAIN regions : regions[i].start <= regions[i].end
  /\ \A t \in {pdpt} \cup {pdt[t] : t \in Tables} :
       t \in [Index -> [kind : {"none", "page", "device", "table"}, at : Nat]]
  /\ head \in Seq([start : Nat, end : Nat, type : {"RAM", "garbage"}])

Bytes(s) == s.start .. s.end - 1

Segments == IF head = NoHead THEN {} ELSE {head[i] : i \in DOMAIN head}

\* The memory that the platform offers to the kernel.
Ram ==
  CASE Platform = "x86_64" ->
         {Region(e.addr, e.addr + e.len, "RAM") :
            e \in {fw.map[i] : i \in {j \in DOMAIN fw.map : fw.map[j].type = AVAILABLE}}}
    [] Platform = "raspi3" -> {Region(0, VideoBase(fw), "RAM")}
    [] Platform = "linux"  -> {Region(fw.map[1].addr, fw.map[1].addr + fw.map[1].len, "RAM")}

\* Where the tables send an address, and how; -1 when they have no page for it.
Walk(a) ==
  LET up  == pdpt[a \div HUGE]
      low == pdt[up.at][BigIndex(a)]
  IN  IF a >= LIMIT THEN Cell("none", -1)
      ELSE IF up.kind = "page" THEN Cell("page", up.at + (a % HUGE))
      ELSE IF up.kind = "table" /\ low.kind # "none" THEN Cell(low.kind, low.at + (a % BIG))
      ELSE Cell("none", -1)

MapsToItself(a) == Walk(a) = Cell("page", a)

\* multiboot.cc, setup.cc, memory.cc: every byte of the heap is memory that the
\* platform offered as RAM, after all the rounding of starts and ends, and the
\* heap spares the kernel image, with the page tables in it, and the command
\* line that main is given.
HeapIsFreeRam ==
  \A s \in Segments :
    /\ \E r \in Ram : Bytes(s) \subseteq Bytes(r)
    /\ Platform # "linux" => Bytes(s) \cap (KernelStart .. KernelEnd - 1) = {}
    /\ Bytes(s) \cap (fw.cmdline .. fw.cmdline + fw.cmdlen - 1) = {}

\* setup.cc: every byte of the heap is mapped to itself as ordinary memory when
\* the heap is linked, wherever the region lies relative to the page sizes.
HeapMapped ==
  Platform # "linux" => \A s \in Segments : \A a \in Bytes(s) : MapsToItself(a)

\* crt0.S, setup.cc: no change of the tables takes the kernel's own memory away
\* from it, the code, the stack and the tables themselves.
KernelStaysMapped ==
  Platform = "x86_64" \/ (Platform = "raspi3" /\ pc # "start") =>
    \A a \in KernelStart .. KernelEnd - 1 : MapsToItself(a)

\* memory.cc: what is linked is what module Heap takes for granted of its
\* segments: page aligned, a megabyte at least, apart from each other.
FitForHeap ==
  /\ TypeOK
  /\ \A s \in Segments : s.start > 0 /\ s.start % PAGE = 0 /\ s.end - s.start >= MIB
  /\ \A i, j \in DOMAIN head :
       i # j => Bytes(head[i]) \cap Bytes(head[j]) = {}

\* setup.cc:70, "We also don't look beyond the first 512GB": no region that is
\* handed to setUpHeap reaches beyond what the one PDPT can map.
NothingBeyondLimit ==
  pc \in {"mapped", "constructed"} /\ Platform = "x86_64" =>
    \A i \in DOMAIN regions : regions[i].end <= LIMIT

\* multiboot.cc:60, "We only populate one entry in bootInfo.memoryMap with the
\* largest usable memory region we can find": the region is part of one the
\* boot loader listed.
RegionIsListed ==
  pc = "parsed" =>
    \A i \in DOMAIN regions : \E r \in Ram : Bytes(regions[i]) \subseteq Bytes(r)

\* NotAcross: the n bytes from a on do not reach over the address p.
NotAcross(a, n, p) == a >= p \/ a + n <= p

\* A platform on which these invariants hold whatever the sizes are.  What each
\* line rules out is a way in which the code trusts the firmware: nothing lies
\* behind the memory map; no available entry reaches over the 512 GiB of the
\* PDPT or ends within the kernel; no command line reaches over the end of the
\* kernel or over a border of 2 MiB; the memory of the video core begins behind
\* the kernel and below the devices; mmap does not return the program's memory.
Orderly(f) ==
  /\ f.platform = "x86_64" =>
       /\ f.after = <<>>
       /\ \A i \in DOMAIN f.map :
            LET e == f.map[i]
                r == Region(RoundUp(e.addr, BIG), RoundBelow(e.addr + e.len, BIG), "RAM")
            IN  e.type = AVAILABLE =>
                  /\ NotAcross(e.addr, e.len, LIMIT)
                  /\ r.end - r.start >= BIG => r.end <= KernelStart \/ r.end >= KernelEnd
       /\ NotAcross(f.cmdline, f.cmdlen, KernelEnd)
       /\ f.cmdline \div BIG = (f.cmdline + f.cmdlen - 1) \div BIG
  /\ f.platform = "raspi3" =>
       /\ RoundUp(KernelEnd, HDR) <= RoundBelow(VideoBase(f), BIG)
       /\ RoundBelow(VideoBase(f), BIG) <= DEVICES
       /\ NotAcross(f.cmdline, f.cmdlen, RoundUp(KernelEnd, HDR))
  /\ f.platform = "linux" =>
       f.map[1].addr >= KernelEnd \/ f.map[1].addr + f.map[1].len <= KernelStart

\* README.md: a linux program may be run with a heap of 100000 bytes; memory.cc
\* answers null to a malloc without a heap, which it tells by head == 0.
HeadIsDefined == head # NoHead
=============================================================================
