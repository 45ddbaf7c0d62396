------------------------------ MODULE Matching ------------------------------
(* The questions a program asks of the run time type information, and their  *)
(* answers: dynamic_cast of a subobject, and whether a handler catches what  *)
(* was thrown (the __do_catch of all kinds of type_info, with                *)
(* get_adjusted_ptr of eh_personality.cc, which asks it).  Each answer is    *)
(* compared with the language's rule, stated over the subobjects of the      *)
(* object and not over a walk.                                               *)
(*                                                                           *)
(* A type_info is a record: its kind, and what it refers to.  The flags of a *)
(* pointer are the qualifiers of its pointee, and noexcept of a function.    *)
EXTENDS Rtti

CONSTANTS MaxEdges,   \* bound on the base classes of all classes together
          MaxRich     \* bound on the classes for which all kinds of types are tried

VARIABLE asked        \* the last question and its answer

vars == <<bases, flags, whole, asked>>

Nobody == [op |-> "nobody"]

-----------------------------------------------------------------------------
No          == [ok |-> FALSE, obj |-> NULL]
Yes(obj)    == [ok |-> TRUE, obj |-> obj]
IsPbase(t)  == t.kind \in {"pointer", "member"}
FQUAL       == {"noexcept"}
NULLMEMBER  == -1     \* the address of the static pmf or pm of __do_catch

\* __class_type_info::__do_upcast(dst_type, obj_ptr)
Upcast(t, c, obj) ==
  LET r == DoUpcast[[class |-> t.class, dst |-> c, obj |-> obj, details |-> {"unknown"}]]
  IN  IF t.kind = "class" /\ Publicly(r.part) THEN Yes(r.dst) ELSE No

CatchNull(h) ==
  IF h.kind = "pointer" THEN Yes(NULL) ELSE Yes(NULLMEMBER)

\* The qualifiers of the thrown pointer that the handler's must include.
ThrownFlags(h, t) ==
  IF (t.flags \cap FQUAL) \ h.flags # {} THEN t.flags \cap h.flags \cap FQUAL
                                         ELSE t.flags

LessQualified(h, t) ==
  \/ (h.flags \cap FQUAL) \ t.flags # {}
  \/ ThrownFlags(h, t) \ h.flags # {}

\* __do_catch, depth pointers down, each so far const in the handler if
\* allConst: the argument outer is 2 * depth, plus 1 if allConst.  pointee is its
\* answer for what the pointers point to.
DoCatch(h, t, obj, depth, allConst, pointee) ==
  IF h = t THEN Yes(obj)
  ELSE IF h.kind = "class"
  THEN IF depth >= 2 \/ t.kind # "class" THEN No ELSE Upcast(t, h.class, obj)
  ELSE IF ~IsPbase(h) THEN No
  ELSE IF t.kind = "nullptr" THEN CatchNull(h)
  ELSE IF t.kind # h.kind \/ ~allConst \/ LessQualified(h, t) THEN No
  ELSE IF h.kind = "member" /\ h.class # t.class THEN No
  ELSE IF h.kind = "pointer" /\ depth = 0 /\ h.to.kind = "void"
  THEN IF t.to.kind = "function" THEN No ELSE Yes(obj)
  ELSE pointee

\* get_adjusted_ptr: a thrown pointer stands for what it points to.  Types nest
\* no deeper than two pointers.
Catches(h, t, obj) ==
  LET inner(g, s, const) == DoCatch(g, s, obj, 2, const, No)
      outer(g, s, const) == DoCatch(g, s, obj, 1, const,
                                    inner(g.to, s.to, const /\ "const" \in g.flags))
  IN  DoCatch(h, t, obj, 0, TRUE, outer(h.to, t.to, "const" \in h.flags))

-----------------------------------------------------------------------------
(* The type_infos that name class c, or none. *)

Class(c)     == [kind |-> "class", class |-> c]
Plain(k)     == [kind |-> k]
Pointers(q, to) ==
  {[kind |-> "pointer", flags |-> f, to |-> t] : f \in SUBSET q, t \in to}
Members(c, q, to) ==
  {[kind |-> "member", flags |-> f, to |-> t, class |-> c] : f \in SUBSET q, t \in to}

ObjectPointers(c) == Pointers({"const"}, {Class(c), Plain("int"), Plain("void")})
CodePointers      == Pointers({"noexcept"}, {Plain("function")})

Types(c) ==
  IF whole > MaxRich THEN {Class(c)} \cup Pointers({}, {Class(c)})
  ELSE {Class(c), Plain("int"), Plain("nullptr")}
       \cup ObjectPointers(c) \cup CodePointers
       \cup Pointers({"const"}, ObjectPointers(c) \cup CodePointers)
       \cup Members(c, {"const"}, {Plain("int")})
       \cup Members(c, {"noexcept"}, {Plain("function")})

(* The hierarchies: every class below whole is one of its bases. *)

Base(b, virt, pub, e) == [type |-> b, virtual |-> e \in virt, public |-> e \in pub]

\* The bases of c in ascending or descending order.
BaseList(edges, virt, pub, down, c) ==
  LET Nth(n) == IF down THEN c - n ELSE n
      upTo[n \in 0 .. c - 1] ==
        IF n = 0 THEN <<>>
        ELSE IF <<Nth(n), c>> \in edges
        THEN Append(upTo[n - 1], Base(Nth(n), virt, pub, <<Nth(n), c>>))
        ELSE upTo[n - 1]
  IN  upTo[c - 1]

EdgeSets(w) ==
  {edges \in UNION {kSubset(n, {e \in (1 .. w) \X (1 .. w) : e[1] < e[2]}) :
                    n \in 0 .. MaxEdges} :
     \A b \in 1 .. w - 1 : \E c \in 1 .. w : <<b, c>> \in edges}

Init ==
  /\ whole \in Classes
  /\ \E edges \in EdgeSets(whole) :
       \E virt \in SUBSET edges, pub \in SUBSET edges, down \in BOOLEAN :
         bases = [c \in Classes |-> BaseList(edges, virt, pub, down, c)]
  /\ flags = [c \in Classes |-> Flags(c)]
  /\ \A c \in Classes : Size[c] <= Origin   \* offsets are smaller than addresses
  /\ asked = Nobody

DerivesFrom(c, b) == \E w \in Ways(c, NULL) : w.type = b

\* dynamic_cast<dst *>(p), where p points to a subobject of the object; a cast
\* to a base needs no help from the run time.
Cast ==
  /\ asked = Nobody
  /\ \E w \in Ways(whole, Origin), dst \in 1 .. whole :
       /\ ~DerivesFrom(w.type, dst)
       /\ asked' = [op |-> "cast", src |-> w.type, at |-> w.at, dst |-> dst,
                    got |-> DynamicCast(w.type, w.at, dst, Hint(w.type, dst))]
  /\ UNCHANGED <<bases, flags, whole>>

\* The object is thrown, or a pointer to it or to nothing.
Catch ==
  /\ asked = Nobody
  /\ \E t \in Types(whole), c \in 1 .. whole, obj \in {Origin, NULL} :
       \E h \in Types(c) :
         /\ obj = NULL => t.kind \in {"pointer", "nullptr", "member"}
         /\ asked' = [op |-> "catch", handler |-> h, thrown |-> t, obj |-> obj,
                      got |-> Catches(h, t, obj)]
  /\ UNCHANGED <<bases, flags, whole>>

Next == Cast \/ Catch

Spec == Init /\ [][Next]_vars

-----------------------------------------------------------------------------
\* The subobjects of class c that contain the subobject src at the address at.
Around(c, src, at, pub) ==
  {w.at : w \in {v \in Ways(whole, Origin) :
                   /\ v.type = c
                   /\ \E u \in Ways(c, v.at) :
                        u.type = src /\ u.at = at /\ (pub => u.public)}}

RightCast(q) ==
  LET ways   == Ways(whole, Origin)
      dsts   == {w.at : w \in {v \in ways : v.type = q.dst}}
      around == Around(q.dst, q.src, q.at, FALSE)
      down   == Around(q.dst, q.src, q.at, TRUE)
      pub(c, at) == \E w \in ways : w.type = c /\ w.at = at /\ w.public
  IN  IF Cardinality(around) = 1 /\ down # {} THEN CHOOSE a \in down : TRUE
      ELSE IF pub(q.src, q.at) /\ \E a \in dsts : dsts = {a} /\ pub(q.dst, a)
      THEN CHOOSE a \in dsts : TRUE
      ELSE NULL

\* Some way down from class c is not public.
HasPrivate(c) == \E w \in Ways(c, NULL) : ~w.public

\* dynamic_cast never returns anything but the object the language names: not
\* one of several, none behind a private base (__dynamic_cast, dyncast.cc).
CastIsSound ==
  asked.op = "cast" => asked.got \in {LOST, NULL, RightCast(asked)}

\* Where every base is public, or no two ways meet in a virtual base, the scan
\* that stops at the first good answer of __do_dyncast misses no target.
CastIsComplete ==
  asked.op = "cast" /\ (~HasPrivate(whole) \/ "diamond" \notin flags[whole])
    => asked.got \in {LOST, RightCast(asked)}

\* The compiler's hint saves work: without one the answer is the same.
HintOnlyHelps ==
  asked.op = "cast" =>
    LET bare == DynamicCast(asked.src, asked.at, asked.dst, -1)
    IN  asked.got = bare \/ LOST \in {asked.got, bare}

\* __find_public_src is asked about an object, never about a null pointer: its
\* argument, says cxxabi.h, "points to a base object of our type".
AsksOfObjects == asked.op = "cast" => asked.got # LOST

\* Of the classes below whole.
UniquePublicBase(c, b) ==
  LET ways == {w \in Ways(c, Origin) : w.type = b}
  IN  (\E w \in ways : w.public) /\ \A v, w \in ways : v.at = w.at

\* The qualifiers of a pointer may grow; noexcept may only be dropped.
Converts(h, t) == /\ t.flags \ FQUAL \subseteq h.flags
                  /\ h.flags \cap FQUAL \subseteq t.flags

\* The language's rule for a handler of type h and an exception of type t.  As
\* the code has it, function pointers convert behind a pointer to const too.
Handles(h, t) ==
  \/ h = t
  \/ h.kind = "class" /\ t.kind = "class" /\ UniquePublicBase(t.class, h.class)
  \/ IsPbase(h) /\ t.kind = "nullptr"
  \/ /\ h.kind = "pointer" /\ t.kind = "pointer" /\ Converts(h, t)
     /\ \/ h.to = t.to
        \/ h.to.kind = "void" /\ t.to.kind # "function"
        \/ /\ h.to.kind = "class" /\ t.to.kind = "class"
           /\ UniquePublicBase(t.to.class, h.to.class)
        \/ /\ h.to.kind = "pointer" /\ t.to.kind = "pointer"
           /\ "const" \in h.flags /\ h.to.to = t.to.to /\ Converts(h.to, t.to)
  \/ /\ h.kind = "member" /\ t.kind = "member" /\ Converts(h, t)
     /\ h.class = t.class /\ h.to = t.to

\* Where an object of class c at obj has its base b.
PlaceIn(c, b, obj) == (CHOOSE w \in Ways(c, obj) : w.type = b).at

\* What the handler gets: its base of the object, a null pointer, the object.
Caught(h, t, obj) ==
  LET from == IF t.kind = "pointer" THEN t.to ELSE t
      to   == IF h.kind = "pointer" THEN h.to ELSE h
  IN  IF t.kind = "nullptr" /\ IsPbase(h) THEN CatchNull(h).obj
      ELSE IF obj # NULL /\ from.kind = "class" /\ to.kind = "class"
      THEN PlaceIn(from.class, to.class, obj)
      ELSE obj

RightCatch(q) == IF Handles(q.handler, q.thrown)
                 THEN Yes(Caught(q.handler, q.thrown, q.obj)) ELSE No

\* A handler catches what the language says, and gets the object the language
\* says, unless a base is repeated and, besides, some base is not public or a
\* null pointer is thrown (__do_catch, __do_upcast).
CatchIsRight ==
  /\ asked.op = "catch"
  /\ "repeat" \notin flags[whole] \/ (~HasPrivate(whole) /\ asked.obj # NULL)
  => asked.got = RightCatch(asked)

\* The walk of __do_upcast returns at a base that is not public with the words
\* "cannot have another path" and "cannot have a more accessible path": the
\* object thrown would then have no public way to the handler's type.
NoPathIsMissed ==
  asked.op = "catch" /\ asked.obj # NULL => (asked.got.ok <=> RightCatch(asked).ok)
=============================================================================
