# A TLA+ model of libsupcxx

libsupcxx is a C++ runtime for bare metal: an AMD64 PC started by a multiboot
loader, a Raspberry Pi 3, and, for testing, a static Linux process without a C
library. It brings up memory, provides `malloc` and `free`, runs the global
constructors, and carries the GNU exception and RTTI runtime on top.

This directory holds modules that model the parts of it with state of their
own, TLC configurations that check them on small instances, and proofs for
TLAPS. Definitions keep the names of the source where TLA+ allows it;
`PROJECT.json` maps each one to the lines it stands for.

## 1. The system

| part | files | state | operations |
|------|-------|-------|------------|
| heap | `libruncxx/memory.cc` | list of chunks from `head` | `malloc`, `free`, `setUpHeap` |
| boot | `boot/*/setup.cc`, `boot/x86_64/multiboot.cc`, `boot/*/crt0.S` | `bootInfo`, page tables | `_parseMultiboot`, `_systemSetup`, `_start` |
| exception storage | `libruncxx/eh_alloc.cc` | `emergencyAllocated` | `__cxa_allocate_exception`, `__cxa_free_exception` |
| operators new, delete | `libsupcxx/src/new_*.cc`, `del_*.cc` | `__new_handler` | new, nothrow new, delete, `set_new_handler` |
| exception runtime | `eh_throw.cc`, `eh_catch.cc`, `eh_terminate.cc`, `eh_call.cc`, `eh_globals.cc` | `caughtExceptions`, `uncaughtExceptions`, the header of every exception | throw, rethrow, begin and end of a handler, terminate, unexpected |
| personality routine | `eh_personality.cc` | cache in the exception header | search of handlers in two phases |
| RTTI | `tinfo.cc`, `*class_type_info.cc`, `dyncast.cc`, ... | none | `dynamic_cast`, matching a handler |
| static objects | `libruncxx/guard.cc`, `dtors.cc`, `exit.cc` | guards, the table `dtors` | `__cxa_guard_*`, `__cxa_atexit`, `__cxa_finalize`, `exit` |
| text | `io/printf.cc`, `libsupcxx/src/cstring.cc`, `libruncxx/string.cc`, `libsupcxx/src/hash_bytes.cc` | none | formatting, conversion, strings, hashes |
| console | `io/io.cc`, `boot/*/io.cc` | cursor, screen and the device's transmit queue | `putString`, `_putChar`, `_initIo`, `abort` |

How they interact. `crt0.S` calls `_initIo`, the parser of the memory map,
`_systemSetup`, the global constructors (`setUpHeap` is placed first by the
linker script), `main`, and the global destructors. `setUpHeap` reads
`bootInfo` and hands the segments to `malloc`. Operator new, the storage of
exceptions and user code call `malloc`; `throw` calls the storage, then the
unwinder of libgcc, which calls the personality routine and, by landing pads
that the compiler emits, `__cxa_begin_catch` and `__cxa_end_catch`. Guards
throw `recursive_init_error`, and the landing pad of a failed initialiser calls
`__cxa_guard_abort`. `printf` hands every character to `_putChar`; the start-up
code takes the command line, or on Linux the arguments and the environment, from
the firmware with the functions of the text part. There is one thread and no
interrupt: but for the device that sends while the processor runs, what is hard
here is not parallelism but nesting. A destructor runs in the middle of an unwinding, a
handler of operator new in the middle of an allocation, an initialiser in the
middle of another, `exit()` in the middle of anything, and each may throw.

What makes each part correct:

* heap: blocks do not overlap each other or a header, freed memory is usable
  again, nothing is lost;
* boot: what becomes heap is RAM, mapped, and not in use already;
* exception runtime: the signed handler count, the chain of caught exceptions
  and the lives of the objects agree with the handlers that are active;
* storage: every block and slot has one owner, nothing is freed while a handler
  uses it and nothing leaks; the pool serves while it has a free slot;
* static objects: one construction, one destruction, in reverse order; the
  shutdown ends;
* RTTI, personality: the result is that of the language's definition;
* text: a call gives what the C standard says, and one function reads what the
  other wrote;
* console: nothing printed is lost, doubled or reordered, on the screen or on
  the wire.

## 2. Modules

| module | models | uses |
|--------|--------|------|
| `Allocator` | what `malloc` and `free` promise | |
| `Heap` | `memory.cc`, implements `Allocator` | `Allocator` as an instance |
| `Heap_proofs` | theorems about `Heap` | extends `Heap` |
| `Allocation_proofs` | theorems about `Allocation` | extends `Allocation` |
| `Lifecycle_proofs` | theorems about `Lifecycle` | extends `Lifecycle` |
| `EhRuntime_proofs` | theorems about `EhRuntime` | extends `EhRuntime` |
| `Personality_proofs` | theorems about `Personality` | extends `Personality` |
| `Boot_proofs` | theorems about `Boot` | extends `Boot` |
| `Output_proofs` | theorems about `Output` and its console | extends `Output` |
| `Matching_proofs` | theorems about `Matching` and `Rtti` | extends `Matching` |
| `Boot` | memory map to heap segments, on three platforms | |
| `Allocation` | `eh_alloc.cc`, operators new and delete | `Allocator` as an instance |
| `EhRuntime` | throw, catch, rethrow, unexpected, terminate | |
| `Lifecycle` | guards, `dtors.cc`, `exit.cc`, start and stop | |
| `Rtti` | class hierarchies and the three walks over them: `__do_dyncast`, `__do_find_public_src`, `__do_upcast` | |
| `Matching` | `dynamic_cast` and `__do_catch` of every kind of type, asked and judged | extends `Rtti` |
| `Personality` | `eh_personality.cc`: both phases, `__cxa_call_unexpected` | |
| `Vsnprintf` | `printf.cc`, one action per directive | |
| `CString` | `cstring.cc` and `string.cc` as operators | |
| `BootArgs` | the readers of the command lines and the environment | extends `CString` |
| `Hash` | `hash_bytes.cc` as operators | |
| `Text` | one call of any of these four, and what the C standard says of it | extends `Vsnprintf`, `BootArgs`, `Hash` |
| `Console` | `_putChar`, `_initIo`, `abort` of the platforms, with the device | |
| `Output` | a program that prints, from the format to the wire | extends `Vsnprintf`, `Console` |
| `MC...` | the instance of each that TLC checks | extends it |

`Boot` ends where `Heap` begins: its invariant `FitForHeap` is what `Heap`
assumes of its constant `Regions` (`RegionsAssumption`). `Heap` implements
`Allocator`, and `Allocation` uses nothing of the heap but `Allocator`.
`Allocation`, `EhRuntime` and `Personality` look at exceptions from three sides:
where they are stored, counts and the chain, and which frame handles them.
`EhRuntime` leaves the third open (its `Targets` are all frames that might
handle), `Personality` the second: it takes the caught exception from the
innermost handler on the stack, which is what `ChainCorrect` of `EhRuntime` says
of `globals.caughtExceptions`. What `Personality` takes as the parameter
`Matches`, does a handler of one type catch another, is what `Matching` models.

### Heap

The list is a sequence of records `[addr, size, used]`: the position stands for
the pointer, the next position for `next`, and the mark in the top bit of
`size` is a field of its own. `Malloc` is the whole of `malloc` (first fit,
split, mark), `Free` the whole of `free`. `live` is what the program holds, with
the size as requested; `free` is only called with such a block. Arithmetic on
requests is modulo `WORD`, so that 0 - 1 wraps as in the code.

### Boot

The steps are those of `crt0.S`: `ParseMultiboot`, `SystemSetupX86` (or
`SystemSetupRaspi`, `SystemSetupLinux`), `SetUpHeap`. Loops that fill tables are
functions of the index. `fw` is what the platform says; its field `after` is
what lies behind the memory map, because the loop runs on past its end.
`head` is either the list of segments or, when nothing was linked, one of two
values that an uninitialised pointer may have: null, or `NoHead`. The code trusts
the firmware in several ways; `Orderly` collects them. It is not a part of the
specification but the hypothesis under which the invariants hold: nothing lies
behind the memory map (finding 2), no available entry reaches over the 512 GB of
the PDPT or ends within the kernel, no command line reaches over the end of the
kernel or over a border of 2 MiB, the memory of the video core lies between the
kernel and the devices, and `mmap` does not return the program's own memory.

### Exception runtime

`frames` is the stack of regions the program is in: try blocks, handlers,
objects with destructors, destructors that run because of an exception,
functions with exception specifications. `Raise` is the first phase of the
unwinder: it picks the frame that will handle the exception (any that could:
which types match is left open), `UnwindPast` and the `LandIn...` actions are
the second. `rt` is the state of the runtime: the two globals and the headers.
`Allocate` gives the header the count that the last exception in that block
left, or 0. `clean` is a history variable, true while no exception got an old
count other than 0; the invariants hold of clean histories, and the run
`eh_stale` shows what happens otherwise.

### Allocation

`calls` is the stack of user code, operators new in their loops and throw
expressions. User code may at any time allocate, delete, install or remove the
`new_handler`, throw, or finish a handler; the `new_handler` is user code too.
`malloc` may refuse any request. `Free` of something that is not a live block is
undefined, and changes the allocator's state arbitrarily.

When an exception is freed is decided by its header. `count` has the
`handlerCount` of every place where a header can lie, and keeps it when the memory
is given back: a slot of the pool, or a block at the same address, begins with
what the last exception there left, a block also with any value of `Garbage`. `chain`
is what `globals.caughtExceptions` links, and `CxaEndCatch` takes its head, whatever
handler it is that ends; `handlers` are the handlers that are really active,
innermost last, and `base` says how many of them a call found when it began. With
old counts `chain` grows longer than `handlers`: that is the leak. `clean` is
the history variable of `EhRuntime`, true while every header began with 0; only
what says that nothing leaks depends on it. User code does not rethrow here, since
rethrows change counts and not who owns memory; `EhRuntime` has them. In
both modules the destructor of the exception object is left out, which
`__gxx_exception_cleanup` calls before it frees: it is user code, and it runs when the
header is off the chain already.

### Static objects

`stack` holds the activations: the loop of `_init`, constructors, main, the loop
of `__cxa_finalize(nullptr)`, destructors. User code may reach the declaration
of a local static, throw, call `exit` or `atexit`, return. The order of
destruction is checked against `built`, the history of completed constructions.

### Run time type information

`bases` and `flags` are the tables of the class type infos, as the compiler
writes them: per base its type, whether it is virtual and whether it is public,
and per class whether a base is repeated and whether the graph has a diamond.
One object exists; an address is a number that counts subobjects. The walks are
recursive functions with one case per override (leaf class, single inheritance,
`__vmi_class_type_info`), each made of an operator that is given the answers of
the bases (`FindIn`, `ScanBy`, `UpcastBy`). The loops with early returns go from
base to base with a field, `done` or `found`, that stands for the return; that of
the scan has two passes (`IsDue`). A third field, `lost`, is set where a walk would
read the vtable of a null pointer, and the cast then answers `LOST`. The initial states are all
hierarchies within the bounds, and a behaviour is one question: `Cast` from any
subobject to any class, with the hint the compiler would pass, or `Catch` of a
type by a handler. The answer is compared with `RightCast` and `RightCatch`,
which know only subobjects and ways to them.

### Personality routine

`frames` is the stack of functions, each with the place it is at: its body, a
destructor in a landing pad, a handler, the call of `__cxa_call_unexpected`, or
the call of `_Unwind_Resume`. A function is given as the clauses around the call
in its body, innermost first; `Lsda` is the table that the compiler makes of
them. `SearchStep` and `CleanupStep` are one call of `__gxx_personality_v0` in
phase 1 and in phase 2. Between two landings the program may call, return,
throw, rethrow and leave handlers, in the destructors and in the unexpected
handler too; `__cxa_call_unexpected` is a function on the stack with tables of
its own, as in the binary. At each throw `Due` and `Owed` compute from the
clauses, without tables, who shall handle the exception and who shall clean up
before; the properties compare what happens with that.

### Text

`Vsnprintf` holds the state of `_vsnprintf`: the format, the arguments to come,
the position, the count `idx` and what `_out_char` got. `VsnprintfStep` is one
turn of its loop: a plain character, or a whole directive with its flags, width,
precision, length and conversion. `_ntoa_format`, `_ftoa` and `_etoa` are
operators that build the buffer in the order of the code and clip at the same
places. The functions of `CString`, `BootArgs` and `Hash` have no state and are
operators with the names of the source.

A behaviour of `Text` is one question: a directive with arguments, a string with
a base, two strings, an environment, a command line. The answer is compared with
definitions that know nothing of the code: `Rightly` for what a directive
prints, `RightStrtoul` for what a number reads as, quantified formulas for the
string functions; doubles, and the numbers that `printf` wrote, are read back
from the text.

What is scaled: `char`, `short`, `int` and `long` have 2, 4, 8 and 12 bits, so
that the digits of a number reach the end of a buffer of 8 (32 in the code; 10
for doubles) as they do there; a double is a whole number of `1/UNIT`, with
`MANTISSA` bits, so that halves, carries and rounding errors occur within a few
digits; `pow10[]` has `POWERS` = 2 entries behind the first. The hashes run on
words of two digits to the base 4. Of `_etoa`'s approximation of a power of ten
the model keeps the sign of the error: for the exponents in `HIGH_POWERS` it is
too large, and a value right at the power is then scaled up once more.

### Console and output

`Console` has two parties. The processor is in `InitIo`, in `PutChar` up to the
first look at the status register, or in `WriteSerial`, which is enabled when
the busy wait would end; `serial` holds what the call has yet to write, since a
new line goes out with a carriage return by a recursive call. The device takes
from `fifo` with `Transmit`. `Output` puts `Vsnprintf` and `putString` in front
of it: a program is a sequence of calls, `Format` goes on when `_putChar` has
returned for each character, and the program ends in `abort`, which stops the
processor and not the device. The screen is judged by where the characters of a
text belong (`Column`, `Line`), the wire by the text with its carriage returns.
`exit()` of the bare machines and of Linux comes
to the same `abort`, so that under Linux the exit status is always 1.

## 3. Runs

| run | instance | shows |
|-----|----------|-------|
| `heap` | 8-bit words, two adjacent segments of 72 and 35 bytes, seven request sizes | well-formed list, live blocks undisturbed, nothing lost, refinement of `Allocator` |
| `boot` | tables of 8 cells, 27203 memory maps | heap is RAM, mapped, apart from kernel and command line |
| `allocation` | 5 addresses aligned to 2, 2 slots, stack of 4 calls, 3 exceptions not handled yet | one owner for every block and slot, no exception freed under its handler, contract of `malloc` kept; nothing leaks while headers begin with 0 |
| `eh_runtime` | 2 C++ exceptions and 1 foreign, nesting of 4 | counts, chain and lifetimes |
| `lifecycle` | 2 globals, 2 local statics, 1 atexit function, a table of 3 | guards, order of destruction, shutdown |
| `matching` | all hierarchies of up to 4 classes and 5 bases; all kinds of types for up to 2 classes | casts and handler matching follow the language's rules |
| `personality` | 4 kinds of functions and one without tables, stacks of 3 functions, 3 exceptions | innermost handler, cleanups once and in order, specifications kept, cache of phase 1 fresh |
| `text` | over 130 000 calls | conversions, numbers read back, string functions, hashes, boot arguments are right |
| `console` | programs of up to 3 out of 7 calls, a screen of 3 by 2, a queue of 2 bytes, three platforms | the screen and the wire show the text, and all of it is sent |
| `eh_stale` | as `eh_runtime` | finding: second exception in a block is never destroyed |
| `boot_scan` | one entry behind the memory map | finding: it may become the heap |
| `float_rollover` | as `text` | finding: a fraction rounded up to one does not carry |

The type invariant of a module is the first conjunct of one of its invariants
(`HeapInv`, `FitForHeap`, `OneOwner`, `CountCorrect`, `GuardsProtect`,
`CacheIsFresh`) and has no run of its own.

Why the bounds are enough.

* Heap. The two segments allow up to five chunks, so that first, middle and
  last chunk, exact fits, fits too small to split, and a walk past used chunks
  all occur; an 8-bit word makes the three ranges of requests (0, normal, top
  bit set) small. The theorems cover the rest.
* Boot. Only ratios matter: 4 KiB : 1 MiB : 2 MiB : 1 GiB : 512 GB are 2 : 8 :
  16 : 128 : 1024. Starts and ends are chosen at, before and after the
  boundaries of each size, so that a region begins in the kernel's own table, in
  one of its own, on a boundary, spans huge pages, or fits in one table. The
  kernel ends behind the first 2 MiB page. The command line lies below the
  kernel, right behind it, or in the middle of memory. In `boot` it does not
  reach over a 2 MiB boundary: with a kernel that ends just below one, and a
  command line behind it, `HeapIsFreeRam` fails, since `setUpHeap` looks only at
  where the command line begins. `MCOrderly` says that every platform of the
  instance is one that the theorems speak of.
* Allocation. Two slots and three exceptions exhaust the pool; four calls allow
  a new inside the handler of a new, in all mixes of the two forms. How many
  exceptions were thrown before is not bounded, so that every slot and every block
  comes to its second use, and counts on the chain rise to 2 and more. Memory
  without a former exception holds 0; the theorems allow anything.
* Exception runtime. Four regions allow a rethrow inside a handler inside a
  destructor inside an unwinding, two C++ exceptions all orders on the chain.
  `MaxExcess` bounds the rethrows of foreign exceptions, each of which leaves
  `uncaughtExceptions` one too high.
* Static objects. The program ends by itself; the table of three overflows.
* Type information. Four classes and five bases hold every shape that the code
  distinguishes: a diamond, a repeated base, both at once, a cross cast, two
  targets of which one contains the source, public and private ways to the same
  base. The bases of a class are listed in ascending or descending order, and in
  every mixture of virtual and public; the scan goes from the last to the first.
  Pointers nest two deep, since behind the second level `__do_catch` repeats.
* Personality. The functions have an inner and an outer cleanup, catch clauses
  of a type, of its base and of everything, an empty and a non-empty
  specification, and `noexcept`. Three functions and the frame of
  `__cxa_call_unexpected` allow an unexpected handler that categorises an
  exception in a function of its own, below a handler for what comes out; three
  exceptions allow one broken specification, one exception thrown instead, and
  `bad_exception`, or two cleanups that wait while a third is in flight.

* Text. Every set of flags with widths and precisions below, at and above the
  number of digits and the size of the buffer, given as digits or by `*`; the
  values around zero and both ends of each type. Doubles in steps of a hundredth
  up to 1.1 and at the borders of the exponents. All strings of up to four or
  five characters over those that `strtoul` tells apart; in base 10 around the
  largest value.
* Console. A row of three and two rows make a text wrap by a new line, by a full
  row, by one right behind the other, and around the screen; a queue of two
  bytes is filled by a new line with its carriage return. The bytes that the
  firmware left in the queue may be sent or cleared.

Deadlock is not checked where the system stops by design: after `terminate`, at
the end of the boot, when the machine has halted, and when a question is
answered. The heap is checked for it.

Fairness. `Lifecycle` assumes that the runtime's own steps are taken and that
user code returns from the functions the runtime calls (weak fairness of
`Runtime` and `Return`): the first because one processor executes the code and
nothing preempts it, the second because a destructor that never returns stops
any shutdown. `Output` assumes that the processor goes on unless it waits for the device, and that the
device sends what it has: a UART does so by its clock. For the step `Format` weak
fairness is written out with its enabling condition, which TLC would otherwise
compute at great cost. The other modules have no liveness property.

## 4. Findings

1. `eh_throw.cc:58`. Nothing clears `handlerCount` of a new exception, and the
   block it gets may hold the 1 that its predecessor left. The object is then
   never destroyed and stays at the head of the chain. A program that throws
   and catches twice can meet this. In the emergency pool it cannot be missed, since
   the slots have fixed addresses: exceptions thrown and handled one after the
   other lose each slot in its second use, so that after sixteen of them nothing is
   left of the memory that eh_alloc.cc:32 keeps "so that we always have enough to
   at least throw `std::bad_alloc`" (`PoolHasRoom` in `Allocation`, which TLC
   violates with the constants of the run `allocation`).
2. `multiboot.cc:66`. A length in bytes is used as a number of entries.
3. `printf.cc:370`. A fraction that the rule for halves rounds up to one is not
   carried into the whole part: `%.1f` of 0.95, whose tenfold is 9.5 in doubles,
   prints thirty zeros and `10`.

More are seen by changing a constant or checking another definition, and have no
run of their own:

* `dtors.cc:61`: destructors registered by destructors are dropped
  (`AllDestructorsCalled` in `Lifecycle`).
* `memory.cc:146`: without a segment `head` is read from an object that nothing
  has set (`HeadIsDefined` in `Boot`).
* `vmi_class_type_info.cc:350`: `__do_upcast` takes a base that is not public for
  the only way, because no result ever says that it is virtual. With a repeated
  base a handler then catches a class that is ambiguous, or misses one that is
  not (`NoPathIsMissed` in `Matching`).
* `guard.cc:54`: `__cxa_guard_abort` does nothing, so that an initialiser that
  threw once cannot be tried again (`SecondByteMeansRunning` in `Lifecycle`).
* `x86_64/setup.cc:71`: only the start of a region is compared with 512 GB; the
  remainder table then replaces the entry that maps the kernel
  (`NothingBeyondLimit` in `Boot`, with `Firmwares <- MCLarge`).
* `memory.cc:50`: `malloc(0)` makes a chunk of 0 bytes, against the comment
  (`ChunkAtLeastGranule` in `Heap`).
* `eh_throw.cc:107`: `throw;` in a destructor that runs because of the same
  exception makes the handlers left on the way destroy it in flight
  (`NestedRethrow = TRUE` in `EhRuntime`, against `LifetimeCorrect`).
* `vmi_class_type_info.cc:182`: the scan of a cast ends when it has found target
  and source, though a more accessible way to a virtual target may follow. The
  cast then fails; it never succeeds wrongly. This is why `CastIsComplete` asks
  that no base is private or that there is no diamond.
* `vmi_class_type_info.cc:233`: the comment says that source is looked for within
  one of the choices that are not ambiguous, but a base that found several targets
  (`result2_ambig` with no `dst_ptr`) is asked as well, and the walk reads the
  vtable of a null pointer. In the hierarchy V; D: virtual V; A1: D; A2: D; B: A1,
  A2; E: D; C: V; W: C, E, B, the cast of the V of C, or of the virtual V, to D
  does this, and it crashes when compiled (`AsksOfObjects` in `Matching`, with
  `NullSpec` and the classes of `MCMatching`; four classes do not reach it).
* `vmi_class_type_info.cc:372`: a thrown null pointer has no address to compare
  bases by, and with repeated bases may match an ambiguous one. `CatchIsRight`
  leaves null pointers out where a base is repeated.

The text functions part from the C standard in these cases. The properties
exclude those that the instances reach by a condition of its own, which is named
here; the others the instances do not ask.

* Integers. `-` drops the zeros of a precision (`LeftZeros`: `%-8.4d`); a number
  with its zeros that fills the buffer loses its sign or its front (`TooLong`:
  `%033d`); `#` takes back zeros that were digits, or one too few (`HashEats`:
  `%#4x` of 0x1234 gives `0x34`); the 0 of `%#o` comes on top of the precision's
  (`HashedOctal`); a negative precision from `*` counts as 0 instead of none.
  `%hhd` follows the signedness of `char`.
* Characters. A NUL is counted and not printed; `%.Ns` reads the character behind
  the N-th; a format that ends in `%` is read beyond its end.
* Doubles. -0.0 has no sign; `_etoa` of 0.0 or right at a power whose
  approximation is too large prints an exponent one too low and a mantissa of 10
  or more digits (`100.0` gives `10.00e+01`); its relative error of up to 1.8e-8
  shows from `%.8e` on; an infinity or NaN ignores the width with `0` and the
  blank for its sign; `%g` keeps trailing zeros and changes to the exponent at a
  fixed bound.
* Numbers. `strtoul` knows no digit `z`, takes `/` for a digit, and skips only
  blanks and tabs, none of the other characters that are white space; the instance
  has strings with these two only, and so has `RightStrtoul`. Of a bare `0x` it
  reads nothing and gives the start of the string as the end, where the standard
  reads the 0 and ends at the `x` (`BarePrefix`).
* Boot arguments. A name that only begins like `LIBSUPCXX_HEAPLEN` is taken for it
  (`NameOnly`).
* Screen. A row that is full and ended by a new line leaves an empty row.

## 5. Proofs

`Heap_proofs` holds for every word size, every list of disjoint aligned segments
and every set of request sizes, from the three assumptions of `Heap`.

* `HeapInvariant`: `Spec => []HeapInv`. `HeapInv` is inductive as it stands: the
  typing, every chunk inside a segment (`Contained`), headers on 8-byte
  boundaries (`Aligned`), chunks apart (`SpansDisjoint`), marks and owners in
  agreement (`OwnedIsUsed`). The last is the one that ties the list to the
  program: without it nothing says that `free` clears the mark of the chunk it
  is meant to. One lemma per action; `SplitInv` is the long one, since a split
  renumbers the list.
* `TypeCorrect`, `LiveSafe` follow from it.
* `HeapImplementsAllocator`: under the invariant `malloc` is a `Grant` or a
  `Refuse`, `free` a `Release`, `setUpHeap` a stutter.
* `HeadersStayPut`, `FreedFits`: properties of steps, from the invariant.
* `NoByteLost`: an invariant of its own, that chunks cover the segments, kept
  because a split covers what the chunk covered.

`Allocation_proofs` holds for every arena, every size of pool, slot and header
and every depth of the stack, from `AllocationAssumption`.

* `AllocationInvariant`: `Spec => []AllocInv`. The part a reader expects is
  `OneOwnerEach`: the live blocks are those of the program and those of the
  exceptions the runtime keeps, the marked slots those of the exceptions it keeps.
  It is not inductive alone. `end_catch` frees the head of the chain, and that
  this is not an exception another handler still uses needs `Sorted`: the
  exceptions of the handlers stand on the chain in the order of the handlers, with
  leaked ones between them, so the head is that of the handler that ends or of
  none. That a count of 1 is reached before 0 needs `Counted`, every count on the
  chain is at least 1, which `begin_catch` makes true whatever it found. That the
  counts of two exceptions are not the same memory needs `Distinct`. That a
  handler belongs to the call that is left needs the order of the `base`s in
  `Stacked`; that an exception lands in a call that still exists needs `Flight`.
  `Cleanly` is the rest for histories without old counts: chain and handlers are
  the same, all counts on it 1, and that of the exception in flight 0. `AllMarked`
  is what `ThrowFails` saw when it gave up.
* The lemmas come in groups that know nothing of each other: owners (`OwnNew`,
  `OwnBlock`, `OwnFreeSlot`, ...), stacks (`PushStep`, `DropStep`, `KeepStep`), and
  the order of two sequences (`SortedPush`, `SortedPop`). `EndFacts` is about
  `__cxa_end_catch` with any chain and any counts, since the handler of the
  nothrow form begins and ends in one step; each action takes what it needs.
* `EachHasOneOwner` follows for every history, and `CleanDoesNotLeak` for those in
  which each header began with 0. With the first comes `UsesAllocator`: every `free`
  is a `Release`. Together with `HeapImplementsAllocator` this says of the code that
  the exception runtime and the operators can run on this heap.
* `PoolIsUsedUp`: no slot passes for the first free one only when all are
  marked, which takes the least number of a set; and slots and their exceptions
  are in bijection.

`Lifecycle_proofs` holds for any number of global and local objects and of
functions and any size of the table, from `LifecycleAssumption`.

* `LifecycleInvariant`: `Spec => []LifeInv`, in four parts beside the
  properties. `Shape`: `_init` or `main` is at the bottom, there is one
  finalization, destructors run above it, no object is at work twice. `Lives`:
  the state of every object agrees with the stack, the guard and the progress of
  `_init`. `Table`: an object is in the table once, and below the index of the
  loop it is alive. `History`: the table has the order of the history, and what
  has died was called from the table.
* `ReverseOrder` needs all four: an object built before the dying one stands
  below it in the table (`SameOrder`), so the loop has not come to it
  (`Called`), so it is alive (`TableAlive`); one that is not in the table never
  dies (`CalledFrom`).
* `GuardsHold`, `KeptDestroyed` follow from the same invariant, `LivesOnce` from
  it and the actions. The assumption that no object is a function keeps a
  destructor that the table holds apart from a function given to `atexit`.

`EhRuntime_proofs` holds for any number of exceptions and every depth of the
stack, from `EhAssumption`; the four properties also assume `NestedRethrow =
FALSE`, since a `throw;` of an exception that is already in flight breaks them.

* `EhRuntimeInvariant`: `Spec => []EhInv`. Its typing, with `Covered` (there are
  at least as many uncaught exceptions as wait for a destructor or fly, so the
  unsigned count never wraps), holds of every execution. The rest, `Good` and
  `Aimed`, holds while the headers were clean. `Stacked` says of each frame what
  may lie below it: the handlers of one exception are not interrupted by those
  of another, an exception waits for one destructor, above its handlers, and
  none of its handlers begins while it waits. Without this order the link of a
  header says nothing: `__cxa_end_catch` follows it as if the next exception of
  the chain were that of the next handler. `ForeignLives` keeps the only foreign
  exception on the chain from being in flight too.
* The invariant is written for any stack `fs`, exception in flight `y` and
  runtime `r`, so that one lemma for each kind of frame (`PlainRegion`,
  `Parked`, `HandlerBegins`, `HandlerEnds`, `Reserved`, `Constructed`,
  `Abandoned`) serves all actions that push or pop it.
* `CountsHandlers`, `ChainsHandlers`, `LivesAsNeeded` and `FindsNoBug` read the
  properties off the invariant.
* `FlightsAreCounted`: every step, from `EhInv`. What is in flight is a set
  (`Flights`) that a step leaves alone, or that a throw adds to and a handler takes
  from. That the exception was not in it already follows, for a throw, from
  `Built` (a block under construction is not alive), for a handler from `Flying`.

All five are about clean headers. With old counts none of them holds: `eh_stale`
shows that an object may never be destroyed, and with three blocks and a nesting
of six (an instance too large to keep among the runs) TLC finds that the object
of an active handler is destroyed, its block given to the next exception, and
`__cxa_end_catch` terminates with its "bug in the exception handling library".
With a nesting of nine an exception is destroyed in flight and its block thrown
again, so that one flight is counted twice; TLC confirmed a path of 43 steps that
was found when the proof without clean headers failed.

`Personality_proofs` holds for any number of functions, of clauses in them and
of exceptions, and for every depth of the stack, from `PersonalityAssumption`,
which says of the compiler's tables what the routine relies on: a function has
one try block, its catch clauses stand together, the table of types names every
type a handler takes.

* `PersonalityInvariant`: `Spec => []PInv`. TLC had checked `PInv` before, on the
  instance of the run `personality`.
* The tables. What `Search` finds in the LSDA of a function for a place in it is
  what the clauses of the source say at that place. The chain of action records
  is followed by a recursive function; `ScanExists` shows that it is defined,
  `ChainAnswers` that it answers with the first clause, from the inside, that
  wants the exception. Both are inductions over the chain, done on the least
  element of a set of numbers (`HasLeast`), since the induction
  theorems of the library take an operator.
* The stack. At a throw `Due` and `Owed` say who shall handle the exception and
  who shall clean up before. `InSearch` and `InCleanup` tie both to how far the
  search and the unwinding have come, `Waits` to the stack below a destructor
  that runs in between: an exception that waits there is not in use above, so
  nothing that happens above it changes its header. `Passed` and `Resumes` keep
  what is known of the frames that are left, that their specifications let the
  exception pass. `Violated` and `Unexpected` say that `__cxa_call_unexpected`
  sits right above the frame whose specification was broken, with its own copy
  of what phase 1 had left in the header; `__cxa_end_catch` may have given the
  header to the next exception by the time it is read.
* `CacheStaysFresh`, `HandlersAreInnermost`, `CleanupsRunOnce` and
  `SpecificationsHold` are read off the invariant and the actions.

`Boot_proofs` holds for every page size, number of cells of a table, place and
length of the kernel and of the command line, and every memory map, from
`BootAssumption` and a firmware that is `Orderly`. What `BootAssumption` asks of
the tables is that there are three of them inside the kernel image, as in
`crt0.S` and `setup.cc`.

* `BootInvariant`: `Spec => []BootInv`. TLC had checked `BootInv` before, on the
  instance of the run `boot`. The properties speak of the heap, which exists only
  in the last state, so what makes it right has to be carried there: `Stages`
  says which parts are still as `crt0.S` left them, `Parsed` that the region
  comes from an entry that may be used, `Mapped` that the region handed to
  `setUpHeap` is `Free` and `Reached` by the tables, `OneSegment` that the list is
  this region without its beginning. `Free` is more than apart from the kernel:
  it is what makes the two comparisons in `setUpHeap` enough.
* The map of x86_64. `Layout` shows that the three ways of mapping, a table up to
  the first boundary of 1 GiB, huge pages, a table for the rest, cut the region
  as `Cut` describes, without a gap and without a cell outside the tables.
  `PdptCells` and `PdtCells` say what every cell is afterwards, `RegionReached`
  that a walk from any address of the region ends where it began, and
  `KernelReached` that the kernel's pages are still there: the cells before the
  region are kept, and those from its beginning on, which may be pages of the
  kernel too, are written anew with the same content. The arithmetic of multiples
  (`Grows`, `PageOrder`, `LevelsOf`, `QuotientIs`, `Divided`) is
  stated once, since the prover does none of it by itself.
* `KernelKept`, `HeapIsFree`, `HeapIsMapped` and `HeapGetsSegments` are read off
  the invariant. The last discharges what `Heap` assumes of its regions, so that
  the theorems of `Heap_proofs` apply to what the boot hands over.

`Output_proofs` holds for a screen of every size, a device's queue of every length
and every program, from `ConsoleAssumption`. It takes what `io::printf` hands to
`_putChar` as it comes: the theorems assume that `queue` is at all times a sequence
of characters, of any set of characters whatever, and say nothing about which they
are. That they are the right ones is what the run `text` checks.

* `ConsoleInvariant`: the two properties are nearly inductive. `NothingSaid` is
  what makes `_initIo` lose nothing but bytes of the firmware when it clears the
  queue; `NothingWaits` is how Linux differs.
* `ScreenIsRight`. `Column` and `Line` of a text change with one more character as
  the cursor does (`NextColumn`, `NextLine`). A row is used again only when its
  line is more than a screen away (`SameRow`), and on one line no column is used
  twice (`ColumnsDiffer`): between two characters in the same column lies a
  multiple of the width, so a line ends there. So writing a character spares all
  that are still to be seen (`OneMoreShown`).
* `WireIsRight`. A byte is written only when the status register says that there
  is room, which a queue of one place has too; wire, queue and the rest of the
  call, put together, change only when `_putChar` begins with a character.
  `FlattenPushed` is about the recursive function of `FlattenSeq`, again on the
  least element of a set.

`Matching_proofs` holds for class hierarchies of every size and shape, virtual,
repeated and private bases mixed at will, from `RttiAssumption`: the classes are
numbered, a class after its bases, and the object has an address.

* `MatchingInvariant`: `Spec => []MatchingInv`. `MatchingInv` is `CatchIsRight`
  and `Hierarchy`: each list of bases names smaller classes, and the flags are
  those of the ways down. The run `matching` checks `CatchIsRight`; that `Init`
  gives hierarchies (`InitHierarchy`) is proved, and no action changes them.
* Recursion. The sizes, the ways down, the sums and the walk itself are recursive
  functions. `Recursion` shows once that a step that descends in rank has a
  function that it leaves as it is, by the least rank where there is none, and
  `ByRank` stands for induction.
* Layout. The rule speaks of subobjects, the walk of addresses, so one must show
  that different subobjects of one type lie at different places: a non-virtual
  base lies within its class and behind the bases before it (`OffsetFacts`), the
  virtual bases behind the object and apart from each other (`VirtualFacts`), and
  so do all ways down (`WayFacts`).
* No base is repeated (`LoneUpcast`): the walk skips bases that are not public
  and returns with the first that answers. It is right since all ways to the class
  then end at one place, so that any public way will do.
* All bases are public (`OpenUpcast`), but some repeated: the walk compares the
  places. After some bases it has seen none, one place that the bases not yet
  looked at may still contradict, or two (`OpenStep`); where it returns early the
  remaining bases cannot contradict (`"repeat"` is not among the flags of the
  class). This needs an address to compare, hence the condition on null pointers.
* `CatchesAreRight`: `UpcastIsRight` puts the two together, and `CatchesRightly`
  goes through the kinds of handlers and exceptions, with `Qualified` for the
  qualifiers of pointers, which the code compares bit by bit.
* `CastsAreSound`: `CastIsSound` for every object, target and hint. Beside the
  hierarchy, `CastingInvariant` keeps that offsets are smaller than addresses
  (`Laid`), as `Init` has it: it tells a target from a null pointer.
* Objects in objects. Whatever is laid out for itself, the whole object and each
  virtual base, lies apart from the others (`BlocksApart`); within it two
  subobjects are the same, or one has the other in itself, or they lie apart
  (`PartsAreClear`). So a subobject lies in one target at most (`OneAround`), and
  to one that is in no virtual base a single way leads (`StraightWay`).
* `__find_public_src` tells the truth (`FindSound`), of a null pointer too, unless
  it looks for a virtual base there (`FindNowhere`), which is what `lost` stands
  for; and it misses no public way if it may go through virtual bases
  (`FindComplete`).
* The scan tells the truth (`NodeTrue`): where a result names the source, the
  target, or the source in the target, there is a way of that kind
  (`ResultTrue`). This alone decides casts with one target, and those where one
  target has the source in itself.
* What is left are several targets none of which may be chosen. There the scan must
  not miss that there are several, although it leaves out bases and returns early.
  `Counted` says what a result knows of the targets seen: none, one, or more. The
  two passes see every base (`AllSeen`); a class above two targets knows that a
  base is repeated (`TwoAreKnown`), which forbids each of the shortcuts; and
  where the targets share a virtual base with the source in it, both are found to
  hold it (`BothOrNone`), so that neither is taken.
* `CastsAreComplete`: `CastIsComplete` for every object, target and hint. Where all
  ways to one part are public or none (`Even`), the target named is one that alone
  holds the source, or the only one, reached like the source by public ways
  (`RightIsWanted`). `Kept` says what each result must then know: a list of bases
  with the target in it has found it and nothing else, it is not ruled out as
  holder, and a source that was passed has left its mark. A base that is
  not asked for the source hides nothing (`NothingBehind`), a return before the
  last base comes after the target (`LoopKept`), and merging two results loses
  neither (`MergeKept`). The same holds without a hint, which both lemmas on casts
  allow.
* `HintsOnlyHelp`: `HintOnlyHelps` for every hierarchy, private bases and diamonds
  included (`HintIsNoMatter`). If the language names no target both casts give
  null, and if all ways to one part are public or none, or the target named holds
  the source, both find it. There remains a single target, beside the source.
  If its class has another public base of the type of the source, both find it
  (`BesideIsFound`): a class above both knows that a base is repeated, so the scan
  goes on until it has come upon the public ways (`Told`). If it has none the hint
  is -2, and the scan with it may miss the target as the one without it does
  (Section 4, `vmi_class_type_info.cc:182`); but then both scans take the same
  steps (`AlikeIsSame`), since a diamond is known at each list of bases
  (`Meeting`), so that the one with the hint passes over no base.

Only model-checked so far: the invariants of `Text`, and `EhRuntime` with old
headers. Out of the prover's reach, and left to TLC for good: the liveness
properties, `ShutdownEnds` and `AllIsSent`, which need fairness and ENABLED; and what the RECURSIVE operators of `Text` compute.

## 6. Not modelled

The unwinder of libgcc and the code the compiler emits are external and
appear as the choices they may make. Left out, because nothing is decided there:
the numbers in `syscall.h`, the baud rate and the pins in `_initIo`, colours,
control registers other than those that point to tables, the throwers without
state (`bad_cast.cc`, `pure.cc`, ...), the headers of type traits and
declarations. Left out, because nothing in the repository reaches it: signal
frames, `__cxa_finalize` of a single destructor, `_out_buffer`, `_out_null` and
`_out_fct`. Left out for their size: encodings of the LSDA, casts of an object
under construction, comparison of type names,
`set_terminate` and `set_unexpected` (the handlers themselves appear as user
code). The result of the system call that writes a character is not looked at by
`_putChar`; the model takes every write as done.

## 7. Plan

What is left:

* One refinement: `EhRuntime` with the targets that `Personality` picks.
