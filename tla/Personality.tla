---------------------------- MODULE Personality ----------------------------
(* The personality routine, libsupcxx/src/eh_personality.cc: which frame     *)
(* handles an exception, what runs in the frames in between, and what        *)
(* becomes of an exception that breaks an exception specification.           *)
(*                                                                           *)
(* The unwinder (external) asks __gxx_personality_v0 twice of every frame:   *)
(* in phase 1, whether the frame handles the exception, and in phase 2,      *)
(* where to go on in it.  What phase 1 found for a C++ exception is kept in  *)
(* its header, and phase 2 and __cxa_call_unexpected rely on it, whatever    *)
(* other exceptions the destructors and the unexpected handler throw and     *)
(* catch in the meantime.                                                    *)
(*                                                                           *)
(* A function is the sequence of the clauses around the calls in its body,   *)
(* the innermost first; the compiler (external) turns it into an LSDA.       *)
EXTENDS Integers, Sequences, FiniteSets, SequencesExt

CONSTANTS Functions,   \* of each function, its clauses and whether noexcept
          TypeTable,   \* the types of handlers and specifications, in a table
          Thrown,      \* the types of the C++ exceptions
          Matches(_, _),  \* does a handler of this type catch that type?
          Blocks,      \* memory for exceptions, 1..N
          NONE,        \* no function data, no exception
          MaxCalls,    \* bound on the program's functions on the stack
          MaxFrames    \* bound on the stack on which the program calls

ALL == "..."           \* a null type_info: catch all
BAD == "bad_exception"
UNEXPECTED == "__cxa_call_unexpected"
NOPAD == "no pad"

VARIABLES frames,   \* the stack, the innermost function last
          objs,     \* the exceptions, each with its header
          flight,   \* the exception that is on its way, or NONE
          phase,    \* "search" or "cleanup" in the unwinder, "run", "dead"
          at        \* the frame that the unwinder asks

vars == <<frames, objs, flight, phase, at>>

Cleanup   == [kind |-> "cleanup"]
Catch(t)  == [kind |-> "catch", type |-> t]
Throws(s) == [kind |-> "throws", types |-> s]

\* Where a frame is: in the body; in a landing pad, in a destructor, in a
\* handler, calling __cxa_call_unexpected, or calling _Unwind_Resume.
BODY    == 1
DTOR    == 2
HANDLER == 3
SPEC    == 4
RESUME  == 5

CallUnexpectedFn == [body |-> <<Catch(ALL)>>, noexcept |-> FALSE]

Code(fn) == IF fn = UNEXPECTED THEN CallUnexpectedFn ELSE Functions[fn]

\* A function has one try block at most, and a specification around it all.
OneTry(body) ==
  \A i, k \in DOMAIN body :
    /\ body[i].kind = "throws" => i = Len(body)
    /\ body[i].kind = "catch" /\ body[k].kind = "catch"
         => \A j \in i .. k : body[j].kind = "catch"

\* The types of all handlers are in the table of types.
KnownClause(c) ==
  \/ c = Cleanup
  \/ \E i \in DOMAIN TypeTable : c = Catch(TypeTable[i])
  \/ c.kind = "throws" /\ c = Throws(c.types)

ASSUME PersonalityAssumption ==
  /\ {UNEXPECTED, NONE} \cap DOMAIN Functions = {} /\ NONE # UNEXPECTED
  /\ TypeTable \in Seq(Range(TypeTable)) /\ ALL \in Range(TypeTable)
  /\ \A fn \in DOMAIN Functions :
       LET body == Functions[fn].body
       IN  /\ Functions[fn].noexcept \in BOOLEAN
           /\ body \in Seq(Range(body)) /\ OneTry(body)
           /\ \A i \in DOMAIN body : KnownClause(body[i])
  /\ Blocks \subseteq Nat
  /\ NONE \notin Blocks /\ NONE \notin {"gxx", "foreign", "forced"}
  /\ NONE \notin [block : Blocks, lsda : DOMAIN Functions, switch : {-1},
                  base : DOMAIN Functions]

Obj == [kind |-> NONE]       \* a block that no exception is in
Raw == [switch |-> 0, lsda |-> NONE, temp |-> "raw", adjusted |-> "raw"]

Fresh(kind, type) == [kind |-> kind, type |-> type, target |-> 0, hdr |-> Raw,
                      due |-> NONE, owed |-> {}]

Frame(fn) == [fn |-> fn, place |-> BODY, in |-> NONE, switch |-> 0, copied |-> NONE]

Top         == frames[Len(frames)]
Running     == phase = "run"
Domestic(e) == e.kind = "gxx"
exc         == objs[flight]

-----------------------------------------------------------------------------
(* The LSDA of a function, as the compiler makes it. *)

\* The clauses around a handler are those outside of the try block.
Outer(body) ==
  LET last == SelectLastInSeq(body, LAMBDA c : c.kind = "catch")
  IN  IF last = 0 THEN <<>> ELSE SubSeq(body, last + 1, Len(body))

\* A handler that an exception leaves ends with __cxa_end_catch.
Clauses ==
  [fn \in DOMAIN Functions \cup {UNEXPECTED} |-> [place \in BODY .. RESUME |->
     CASE place = BODY    -> Code(fn).body
       [] place = HANDLER -> <<Cleanup>> \o Outer(Code(fn).body)
       [] OTHER           -> <<>>]]

\* The calls of destructors in landing pads, and those in the body of a
\* noexcept function, are in no call site.
Listed(fn, place) == place # DTOR /\ ~(place = BODY /\ Code(fn).noexcept)

SpecOf(fn) == LET body == Code(fn).body
              IN  IF body # <<>> /\ Last(body).kind = "throws"
                  THEN Range(Last(body).types) ELSE {}

FilterOf(c) == CASE c.kind = "cleanup" -> 0
                 [] c.kind = "catch"   -> CHOOSE i \in DOMAIN TypeTable : TypeTable[i] = c.type
                 [] c.kind = "throws"  -> -1

Records(cs, first) ==
  [i \in DOMAIN cs |-> [filter |-> FilterOf(cs[i]),
                        next |-> IF i = Len(cs) THEN 0 ELSE first + i]]

Site(fn, place, pad, first) ==
  LET cs == Clauses[fn][place]
  IN  [start |-> place, len |-> 1, pad |-> IF cs = <<>> THEN NOPAD ELSE pad,
       action |-> IF \A i \in DOMAIN cs : cs[i] = Cleanup THEN 0 ELSE first]

Lsda ==
  [fn \in DOMAIN Functions \cup {UNEXPECTED} |->
     LET second == Len(Clauses[fn][BODY]) + 1
     IN  [sites   |-> (IF Code(fn).noexcept THEN <<>> ELSE <<Site(fn, BODY, "pad 1", 1)>>)
                      \o <<Site(fn, HANDLER, "pad 2", second),
                           Site(fn, SPEC, NOPAD, 0), Site(fn, RESUME, NOPAD, 0)>>,
          actions |-> Records(Clauses[fn][BODY], 1)
                      \o Records(Clauses[fn][HANDLER], second),
          spec    |-> SpecOf(fn),
          base    |-> fn]]

-----------------------------------------------------------------------------
(* The search in one frame. *)

\* The unwinder gives the place behind the call (_Unwind_GetIPInfo).
GetIP(f) == f.place + 1

\* Mutant: the place behind the call is looked up.
Position_Behind(f) == GetIP(f)

Position(f) == GetIP(f) - 1

\* The scan of the call-site table stops at the first entry that covers ip or
\* begins behind it.
SitesAt(l, ip) ==
  {i \in DOMAIN l.sites :
     /\ l.sites[i].start <= ip /\ ip < l.sites[i].start + l.sites[i].len
     /\ \A j \in 1 .. i - 1 : ip >= l.sites[j].start}

\* get_ttype_entry: what the table holds is relative to the right base.
TypeEntry(l, base, t) == IF base = l.base THEN t ELSE "garbage"

\* The list that a filter denotes; behind a positive one are other bytes.
SpecList(l, filter) == IF filter < 0 THEN l.spec ELSE {"garbage"}

\* check_exception_spec: some type of the list catches type t.
CheckSpec(l, base, t, filter) ==
  \E s \in SpecList(l, filter) : Matches(TypeEntry(l, base, s), t)

Takes(l, e, filter) ==
  \/ /\ filter > 0
     /\ TypeTable[filter] = ALL \/ Matches(TypeTable[filter], e.type)
  \/ /\ filter < 0
     /\ IF Domestic(e) THEN ~CheckSpec(l, l.base, e.type, filter)
                       ELSE SpecList(l, filter) = {}

Found(what, switch) == [found |-> what, switch |-> switch]

\* Mutant: a cleanup counts only when it is the last action.
Scan_LastCleanup(l, e, action) ==
  LET scan[a \in DOMAIN l.actions] ==
        LET r == l.actions[a]
        IN  IF Takes(l, e, r.filter) THEN Found("handler", r.filter)
            ELSE IF r.next # 0 THEN scan[r.next]
            ELSE IF r.filter = 0 THEN Found("cleanup", 0) ELSE Found("nothing", 0)
  IN  scan[action]

\* The loop over the chain of action records.
Scan(l, e, action) ==
  LET scan[a \in DOMAIN l.actions] ==
        LET r    == l.actions[a]
            rest == IF r.next = 0 THEN Found("nothing", 0) ELSE scan[r.next]
        IN  IF Takes(l, e, r.filter) THEN Found("handler", r.filter)
            ELSE IF r.filter = 0 /\ rest.found = "nothing" THEN Found("cleanup", 0)
            ELSE rest
  IN  scan[action]

AtSite(l, e, s) ==
  IF s.pad = NOPAD THEN Found("nothing", 0)
  ELSE IF s.action = 0 THEN Found("cleanup", 0)
  ELSE Scan(l, e, s.action)

WithPad(r, pad) == [found |-> r.found, switch |-> r.switch, pad |-> pad]

\* What a frame has for an exception: found_type, the switch value, the pad.
Search(f, e) ==
  LET l   == Lsda[f.fn]
      hit == SitesAt(l, Position(f))
      s   == l.sites[CHOOSE i \in hit : TRUE]
  IN  IF f.fn = NONE THEN WithPad(Found("nothing", 0), NOPAD)
      ELSE IF hit = {} THEN WithPad(Found("terminate", 0), NOPAD)
      ELSE WithPad(AtSite(l, e, s), s.pad)

\* get_adjusted_ptr: the handler's view of the object.
Adjusted(switch) ==
  IF switch > 0 /\ TypeTable[switch] # ALL THEN TypeTable[switch] ELSE "whole"

\* save_caught_exception
Saved(f, r) == [switch |-> r.switch, lsda |-> f.fn, temp |-> r.pad,
                adjusted |-> Adjusted(r.switch)]

\* In phase 1, when the frame f handles the exception e.
AfterSearch(e, f, r) ==
  [e EXCEPT !.hdr = IF Domestic(e) THEN Saved(f, r) ELSE @, !.target = at]

\* restore_caught_exception
Restored(h) == [found  |-> IF h.temp = NOPAD THEN "terminate" ELSE "handler",
                switch |-> h.switch, pad |-> h.temp]

\* Phase 2 searches again, but not for a C++ exception in the frame found.
Answer(e) ==
  IF Domestic(e) /\ at = e.target THEN Restored(e.hdr) ELSE Search(frames[at], e)

\* Mutant: the base is kept for every landing pad.
KeepBase_Always(e, f, switch) ==
  IF Domestic(e) THEN [e EXCEPT !.hdr.temp = Lsda[f.fn].base] ELSE e

\* The base of the types is kept for __cxa_call_unexpected.
KeepBase(e, f, switch) ==
  IF Domestic(e) /\ switch < 0 THEN [e EXCEPT !.hdr.temp = Lsda[f.fn].base] ELSE e

-----------------------------------------------------------------------------
(* What the source says, without tables: which clause of a frame takes an    *)
(* exception, and, from the stack at the throw, which frame will handle it   *)
(* and which will have to clean up before.  due and owed are history.        *)

Allows(types, e) == IF Domestic(e) THEN \E t \in types : Matches(t, e.type)
                                   ELSE types # {}

Accepts(c, e) == \/ c.kind = "catch" /\ (c.type = ALL \/ Matches(c.type, e.type))
                 \/ c.kind = "throws" /\ ~Allows(Range(c.types), e)

ClausesOf(f) == IF f.fn = NONE THEN <<>> ELSE Clauses[f.fn][f.place]
MustNotThrow(f) == f.fn # NONE /\ ~Listed(f.fn, f.place)
Handles(f, e) == MustNotThrow(f) \/ \E i \in DOMAIN ClausesOf(f) : Accepts(ClausesOf(f)[i], e)

DueFrame(fs, e) == SelectLastInSeq(fs, LAMBDA f : Handles(f, e))

Due(fs, e) ==
  LET i == DueFrame(fs, e)
  IN  IF i = 0 THEN [frame |-> 0, how |-> [kind |-> "none"]]
      ELSE [frame |-> i,
            how |-> IF MustNotThrow(fs[i]) THEN [kind |-> "terminate"]
                    ELSE ClausesOf(fs[i])[SelectInSeq(ClausesOf(fs[i]),
                                                      LAMBDA c : Accepts(c, e))]]

Owed(fs, due) == {i \in due.frame + 1 .. Len(fs) :
                    \E j \in DOMAIN ClausesOf(fs[i]) : ClausesOf(fs[i])[j] = Cleanup}

-----------------------------------------------------------------------------
(* Who refers to an exception: the one on its way, the landing pads, and     *)
(* __cxa_call_unexpected.  An exception to which nobody refers is deleted.   *)

Holds(f) == {f.in} \cup (IF f.copied = NONE THEN {} ELSE {f.copied.block})
InUse(fs, fly) == {fly} \cup UNION {Holds(fs[i]) : i \in DOMAIN fs}

Swept(os, fs, fly) ==
  LET used == InUse(fs, fly) IN [b \in Blocks |-> IF b \in used THEN os[b] ELSE Obj]

FreeBlocks == {b \in Blocks : objs[b] = Obj}
FreeBlock  == CHOOSE b \in FreeBlocks : \A c \in FreeBlocks : b <= c

\* The exception whose handler is innermost, globals.caughtExceptions.
Caught(fs) ==
  LET i == SelectLastInSeq(fs, LAMBDA f : f.place = HANDLER \/ f.copied # NONE)
  IN  IF i = 0 THEN NONE
      ELSE IF fs[i].place = HANDLER THEN fs[i].in ELSE fs[i].copied.block

\* An exception that waits until a destructor has run.
Suspended(b) == \E i \in DOMAIN frames : frames[i].place = DTOR /\ frames[i].in = b

Init ==
  /\ \E fn \in DOMAIN Functions \cup {NONE} : frames = <<Frame(fn)>>
  /\ objs = [b \in Blocks |-> Obj]
  /\ flight = NONE
  /\ phase = "run"
  /\ at = 0

\* std::terminate: nothing is left of the program.
Die == /\ phase' = "dead"
       /\ frames' = <<>>
       /\ objs' = [b \in Blocks |-> Obj]
       /\ flight' = NONE
       /\ at' = 0

\* Forced unwinding has no phase 1.
Raise(b, e) ==
  LET due == Due(frames, e)
  IN  /\ objs' = [objs EXCEPT ![b] = [e EXCEPT !.target = 0, !.due = due,
                                               !.owed = Owed(frames, due)]]
      /\ flight' = b
      /\ phase' = IF e.kind = "forced" THEN "cleanup" ELSE "search"
      /\ at' = Len(frames)
      /\ UNCHANGED frames

-----------------------------------------------------------------------------
(* The program. *)

UserCode == /\ Running
            /\ Top.place \in {BODY, DTOR, HANDLER}
            /\ ~(Top.fn = UNEXPECTED /\ Top.place # BODY)

Call ==
  /\ UserCode
  /\ Len(frames) < MaxFrames
  /\ Cardinality({i \in DOMAIN frames : frames[i].fn # UNEXPECTED}) < MaxCalls
  /\ \E fn \in DOMAIN Functions \cup {NONE} : frames' = Append(frames, Frame(fn))
  /\ UNCHANGED <<objs, flight, phase, at>>

Return ==
  /\ UserCode /\ Top.place = BODY /\ Top.fn # UNEXPECTED
  /\ Len(frames) > 1
  /\ frames' = Front(frames)
  /\ UNCHANGED <<objs, flight, phase, at>>

Throw ==
  /\ UserCode
  /\ FreeBlocks # {}
  /\ \/ \E t \in Thrown : Raise(FreeBlock, Fresh("gxx", t))
     \/ \E k \in {"foreign", "forced"} : Raise(FreeBlock, Fresh(k, k))

\* "throw;".  Not in a destructor that runs because of the same exception, and
\* an exception of another kind only from its own handler (see EhRuntime).
Rethrow ==
  LET b == Caught(frames)
  IN  /\ UserCode
      /\ b # NONE
      /\ ~Suspended(b)
      /\ ~Domestic(objs[b]) => Top.place = HANDLER /\ Top.in = b
      /\ Raise(b, objs[b])

\* A handler may not swallow a forced unwinding.
LeaveHandler ==
  /\ UserCode /\ Top.place = HANDLER
  /\ objs[Top.in].kind # "forced"
  /\ frames' = Append(Front(frames), Frame(Top.fn))
  /\ objs' = Swept(objs, frames', NONE)
  /\ UNCHANGED <<flight, phase, at>>

\* The landing pad has cleaned up and calls _Unwind_Resume.
FinishCleanup ==
  /\ Running /\ Top.place = DTOR
  /\ flight' = Top.in
  /\ frames' = [frames EXCEPT ![Len(frames)].place = RESUME, ![Len(frames)].in = NONE]
  /\ phase' = "cleanup"
  /\ at' = Len(frames)
  /\ UNCHANGED objs

-----------------------------------------------------------------------------
(* The unwinder, and what the personality routine does. *)

NextFrame == /\ at' = at - 1
             /\ UNCHANGED <<frames, objs, flight, phase>>

\* Phase 1 found no handler, phase 2 of a forced unwinding came to its end.
EndOfStack ==
  /\ flight # NONE /\ at = 0
  /\ Die

SearchStep ==
  /\ phase = "search" /\ at > 0
  /\ LET r == Search(frames[at], exc)
     IN  IF r.found \in {"nothing", "cleanup"} THEN NextFrame
         ELSE /\ objs' = [objs EXCEPT ![flight] = AfterSearch(@, frames[at], r)]
              /\ phase' = "cleanup"
              /\ at' = Len(frames)
              /\ UNCHANGED <<frames, flight>>

\* std::terminate: asked for by the tables; on behalf of an exception that
\* breaks a specification and is not of C++; by a begin_catch that cannot stack.
Terminates(r) ==
  \/ r.found = "terminate"
  \/ ~Domestic(exc) /\ r.switch < 0
  \/ ~Domestic(exc) /\ r.switch > 0 /\ Caught(SubSeq(frames, 1, at)) \notin {NONE, flight}

Landed(f, r) ==
  [f EXCEPT !.place  = IF r.switch > 0 THEN HANDLER ELSE IF r.switch < 0 THEN SPEC ELSE DTOR,
            !.in     = flight,
            !.switch = r.switch,
            !.copied = IF r.switch = 0 THEN NONE ELSE @]

InstallContext(r) ==
  LET kept == KeepBase(exc, frames[at], r.switch)
  IN  /\ frames' = Append(SubSeq(frames, 1, at - 1), Landed(frames[at], r))
      /\ objs' = Swept([objs EXCEPT ![flight] = [kept EXCEPT !.owed = @ \ {at}]],
                       frames', NONE)
      /\ flight' = NONE
      /\ phase' = "run"
      /\ at' = 0

CleanupStep ==
  /\ phase = "cleanup" /\ at > 0
  /\ LET r == Answer(exc)
     IN  IF r.found = "nothing" THEN NextFrame
         ELSE IF Terminates(r) THEN Die
         ELSE InstallContext(r)

-----------------------------------------------------------------------------
(* __cxa_call_unexpected *)

\* Begin_catch, and the data copied out before the unexpected handler runs.
CallUnexpected ==
  /\ Running /\ Top.place = SPEC
  /\ LET h == objs[Top.in].hdr
     IN  frames' = Append(frames,
           [Frame(UNEXPECTED) EXCEPT !.copied = [block |-> Top.in, lsda |-> h.lsda,
                                                 switch |-> h.switch, base |-> h.temp]])
  /\ UNCHANGED <<objs, flight, phase, at>>

\* An unexpected handler must not return.
UnexpectedReturns ==
  /\ UserCode /\ Top.fn = UNEXPECTED
  /\ Die

\* Mutant: the header is read when the unexpected handler has thrown.
Promised_Reread(f) ==
  LET h == objs[f.copied.block].hdr
  IN  [f.copied EXCEPT !.lsda = h.lsda, !.switch = h.switch, !.base = h.temp]

Promised(f) == f.copied

\* The unexpected handler has thrown; this is the catch around it.
Meets(t) == LET c == Promised(Top) IN CheckSpec(Lsda[c.lsda], c.base, t, c.switch)

UnexpectedThrew ==
  /\ Running /\ Top.fn = UNEXPECTED /\ Top.place = HANDLER
  /\ IF Meets(objs[Top.in].type) THEN Raise(Top.in, objs[Top.in])
     ELSE IF ~Meets(BAD) THEN Die
     ELSE FreeBlocks # {} /\ Raise(FreeBlock, Fresh("gxx", BAD))

Next ==
  \/ Call \/ Return \/ Throw \/ Rethrow \/ LeaveHandler \/ FinishCleanup
  \/ EndOfStack \/ SearchStep \/ CleanupStep
  \/ CallUnexpected \/ UnexpectedReturns \/ UnexpectedThrew

Spec == Init /\ [][Next]_vars

-----------------------------------------------------------------------------
\* The state keeps its type, and the header of an exception that is not of C++
\* is never written: it belongs to another language (__gxx_personality_v0).
TypeOK ==
  /\ \A i \in DOMAIN frames :
       /\ frames[i].fn \in DOMAIN Functions \cup {NONE, UNEXPECTED}
       /\ frames[i].place \in BODY .. RESUME
       /\ frames[i].in \in Blocks \cup {NONE}
       /\ frames[i].switch \in -1 .. Len(TypeTable)
  /\ flight \in Blocks \cup {NONE}
  /\ phase \in {"run", "search", "cleanup", "dead"}
  /\ at \in 0 .. Len(frames)
  /\ \A b \in Blocks : objs[b] # Obj =>
       /\ objs[b].kind \in {"gxx", "foreign", "forced"}
       /\ ~Domestic(objs[b]) => objs[b].hdr = Raw

Lands  == flight # NONE /\ phase' = "run"
Pad    == Last(frames')

\* Through all tables, phases and interruptions by other exceptions an
\* exception ends up in the innermost frame that the source says takes it, in
\* the clause the source says, with that clause's view of the object; and a C++
\* exception that a clause takes is not the end of the program.
HandlerIsInnermost ==
  [][/\ Lands /\ Pad.switch # 0 =>
          /\ exc.due.frame = Len(frames')
          /\ IF Pad.switch > 0 THEN exc.due.how = Catch(TypeTable[Pad.switch])
                               ELSE exc.due.how.kind = "throws"
          /\ Domestic(exc) /\ Pad.switch > 0 =>
               exc.hdr.adjusted = IF exc.due.how.type = ALL THEN "whole"
                                                            ELSE exc.due.how.type
     /\ flight # NONE /\ phase' = "dead" /\ Domestic(exc) =>
          exc.due.how.kind \in {"none", "terminate"}]_vars

\* Before the handler, every frame that is left cleans up, once, the innermost
\* first; without a handler none does.
CleanupsOnce ==
  [][Lands => IF Pad.switch = 0
              THEN /\ Len(frames') \in exc.owed
                   /\ \A i \in exc.owed : i <= Len(frames')
                   /\ exc.due.frame # 0 \/ exc.kind = "forced"
              ELSE exc.owed = {}]_vars

Specified(fn) == fn \notin {NONE, UNEXPECTED} /\ Code(fn).body # <<>>
                 /\ Last(Code(fn).body).kind = "throws"

\* No exception leaves a function whose specification does not allow it, and
\* what the unexpected handler throws, whatever it caught and rethrew before,
\* goes on if the specification allows it, is replaced by bad_exception if that
\* is allowed, and otherwise is the end (__cxa_call_unexpected).
SpecKept ==
  [][/\ Lands => \A i \in Len(frames') + 1 .. Len(frames) :
                   Specified(frames[i].fn) => Allows(SpecOf(frames[i].fn), exc)
     /\ UnexpectedThrew =>
          LET types == SpecOf(frames[Len(frames) - 1].fn)
              new   == objs[Top.in]
          IN  IF Allows(types, new) THEN flight' = Top.in
              ELSE IF Allows(types, Fresh("gxx", BAD))
              THEN flight' \notin {NONE, Top.in} /\ objs'[flight'].type = BAD
              ELSE phase' = "dead"]_vars

\* What phase 1 saved is what it would find, as long as phase 2 needs it: also
\* after the destructors on the way have thrown and caught other exceptions; and
\* it is not saved in front of an exception that has no C++ header (TypeOK).
CacheIsFresh ==
  /\ TypeOK
  /\ \A b \in Blocks :
       Domestic(objs[b]) /\ (Suspended(b) \/ (flight = b /\ phase = "cleanup")) =>
         LET f == frames[objs[b].target] IN objs[b].hdr = Saved(f, Search(f, objs[b]))
=============================================================================
