-------------------------------- MODULE Rtti --------------------------------
(* The run time type information of classes: what a __class_type_info knows  *)
(* about its bases, and the three walks over a class hierarchy that dynamic  *)
(* casts and handler matching are made of (libsupcxx/src/tinfo.h,            *)
(* class_type_info.cc, si_class_type_info.cc, vmi_class_type_info.cc,        *)
(* dyncast.cc).                                                              *)
(*                                                                           *)
(* One complete object of class whole exists, at address Origin.  Only the   *)
(* addresses of subobjects count: an object has one unit of its own, its     *)
(* non-virtual bases come first, the virtual bases of whole come last.  A    *)
(* __sub_kind is the set of its bits; as in the code the two answers without *)
(* the bit "in", not contained and ambiguous, use the other bits once more.  *)
EXTENDS Integers, Sequences, FiniteSets, SequencesExt

CONSTANTS Classes,  \* 1..N; the bases of a class have smaller numbers
          Origin    \* where the object is, larger than any offset

ASSUME RttiAssumption == /\ IsFiniteSet(Classes)
                         /\ Classes = 1 .. Cardinality(Classes)
                         /\ Origin \in Nat

VARIABLES bases,    \* of each class, __base_info
          flags,    \* of each class, __flags
          whole     \* the most derived class

NULL == 0
NONVIRTUAL == -1   \* nonvirtual_base_type, no class
BITS    == {"in", "public", "virtual"}
DETAILS == {"unknown", "repeat", "diamond"}   \* __flags_masks

UNKNOWN == {}
NOT     == {"virtual"}
AMBIG   == {"public"}
PRIVATE == {"in"}
PUBLIC  == {"in", "public"}

Contained(k) == "in" \in k
Virtual(k)   == "virtual" \in k
Publicly(k)  == PUBLIC \subseteq k

IsLeaf(c) == bases[c] = <<>>
IsSi(c)   == Len(bases[c]) = 1 /\ bases[c][1].public /\ ~bases[c][1].virtual
IsVmi(c)  == ~IsLeaf(c) /\ ~IsSi(c)

-----------------------------------------------------------------------------
(* Layout: what the compiler stores in __offset and in the vtables. *)

\* s[1] + ... + s[n]
SumTo(s, n) == LET sum[k \in 0 .. n] == IF k = 0 THEN 0 ELSE sum[k - 1] + s[k]
               IN  sum[n]

\* What each base adds to its class, given the sizes of all.
Parts(c, size) == [i \in DOMAIN bases[c] |-> IF bases[c][i].virtual THEN 0
                                            ELSE size[bases[c][i].type]]
Size[c \in Classes] == 1 + SumTo(Parts(c, Size), Len(bases[c]))
Offset(c, i) == SumTo(Parts(c, Size), i - 1)

IsVirtualBase(v) == \E c \in Classes : \E i \in DOMAIN bases[c] :
                      bases[c][i].virtual /\ bases[c][i].type = v

VirtualAt(v) ==
  Origin + Size[whole]
  + SumTo([u \in Classes |-> IF IsVirtualBase(u) THEN Size[u] ELSE 0], v - 1)

ConvertToBase(c, i, at) ==
  IF bases[c][i].virtual THEN VirtualAt(bases[c][i].type) ELSE at + Offset(c, i)

\* The ways down from an object of class c: each ends at a subobject and is
\* public, or goes through a virtual base, or both.  The place of the subobject
\* counts from the object, or behind a virtual base as all addresses do.
Here(c) == [type |-> c, at |-> 0, public |-> TRUE, virtual |-> FALSE, route |-> <<>>]
Through(c, i, w) ==
  [type    |-> w.type,
   at      |-> IF w.virtual THEN w.at ELSE ConvertToBase(c, i, 0) + w.at,
   public  |-> w.public /\ bases[c][i].public,
   virtual |-> w.virtual \/ bases[c][i].virtual,
   route   |-> <<i>> \o w.route]
Routes[c \in Classes] ==
  {Here(c)} \cup UNION {{Through(c, i, w) : w \in Routes[bases[c][i].type]} :
                       i \in DOMAIN bases[c]}

\* The same ways from an object at the given address.
Place(w, at) == IF w.virtual THEN w.at ELSE at + w.at
Ways(c, at) == {[w EXCEPT !.at = Place(w, at)] : w \in Routes[c]}

\* __flags: an instance of a base is repeated; two ways meet in one.
SameObject(v, w) == v.type = w.type /\ v.at = w.at /\ v.virtual = w.virtual
Repeats(c)  == \E v, w \in Routes[c] : v.type = w.type /\ ~SameObject(v, w)
Diamond(c)  == \E v, w \in Routes[c] : SameObject(v, w) /\ v.route # w.route
Flags(c) == (IF Repeats(c) THEN {"repeat"} ELSE {})
            \cup (IF Diamond(c) THEN {"diamond"} ELSE {})

\* src2dst, the compiler's hint: how src is a public base of dst.
Hint(src, dst) ==
  LET ways == {w \in Ways(dst, NULL) : w.type = src /\ w.public}
  IN  IF \E w \in ways : w.virtual THEN -1
      ELSE IF ways = {} THEN -2
      ELSE IF Cardinality(ways) > 1 THEN -3
      ELSE (CHOOSE w \in ways : TRUE).at

-----------------------------------------------------------------------------
(* __do_find_public_src: the subobject q.src at q.at, in c at obj. *)

FirstIn(kinds) ==   \* the last base is looked at first
  LET hits == {i \in DOMAIN kinds : Contained(kinds[i])}
  IN  IF hits = {} THEN NOT ELSE kinds[CHOOSE i \in hits : \A j \in hits : j <= i]

\* find is asked about the bases.
FindIn(q, a, find) ==
  LET c == a.class
      inBase(i) == find[[class |-> bases[c][i].type, obj |-> ConvertToBase(c, i, a.obj)]]
      through(i, k) == IF Contained(k) /\ bases[c][i].virtual
                       THEN k \cup {"virtual"} ELSE k
      mayHold(i) == bases[c][i].public /\ ~(bases[c][i].virtual /\ q.hint = -3)
  IN  IF q.at = a.obj /\ (c = q.src \/ IsLeaf(c)) THEN PUBLIC
      ELSE FirstIn([i \in DOMAIN bases[c] |->
                      IF mayHold(i) THEN through(i, inBase(i)) ELSE NOT])

DoFindPublicSrc(q, c, obj) ==
  LET find[a \in [class : Classes, obj : Nat]] == FindIn(q, a, find)
  IN  find[[class |-> c, obj |-> obj]]

\* Mutant: any object of the type is taken for the one at the hint.
AtHint_Anywhere(q, obj) == PUBLIC

AtHint(q, obj) == IF obj + q.hint = q.at THEN PUBLIC ELSE NOT

FindPublicSrc(q, obj) ==
  IF q.hint >= 0 THEN AtHint(q, obj)
  ELSE IF q.hint = -2 THEN NOT
  ELSE DoFindPublicSrc(q, q.dst, obj)

-----------------------------------------------------------------------------
(* __do_dyncast.  A result is __dyncast_result with the returned ambig; done *)
(* is set where the loop over the bases returns, and lost where a walk over  *)
(* an object began at a null pointer.                                        *)

Fresh(details) == [dst |-> NULL, whole2dst |-> UNKNOWN, whole2src |-> UNKNOWN,
                   dst2src |-> UNKNOWN, details |-> details,
                   ambig |-> FALSE, done |-> FALSE, lost |-> FALSE]

Details(c, details) == IF "unknown" \in details /\ IsVmi(c) THEN flags[c] ELSE details

\* Mutant: a base that is not public is entered as if it were.
Access_Open(b, access) ==
  IF b.virtual THEN access \cup {"virtual"} ELSE access

Access(b, access) ==
  LET k == IF b.virtual THEN access \cup {"virtual"} ELSE access
  IN  IF b.public THEN k ELSE k \ {"public"}

\* The source is found, in a place that no second way can lead to.
OnlyWay(k, details) == Contained(k) /\ (~Virtual(k) \/ "diamond" \notin details)

\* Is it not known whether target holds the source, which the other target
\* holds like other?
Asks(c, r, target, other) == /\ target.dst2src = UNKNOWN
                             /\ ~OnlyWay(r.whole2src, r.details)
                             /\ ~OnlyWay(other, flags[c])

\* Does target hold the source?
KindIn(q, c, r, target, other) ==
  IF Asks(c, r, target, other) THEN FindPublicSrc(q, target.dst)
  ELSE IF target.dst2src = UNKNOWN THEN NOT ELSE target.dst2src

\* The walk needs a virtual base of an object that is not there.
Astray(q, c, r, target, other) ==
  Asks(c, r, target, other) /\ q.hint = -1 /\ target.dst = NULL

SettledBy(one) ==
  LET sure == "public" \in one.dst2src \/ ~Virtual(one.dst2src)
  IN  [one EXCEPT !.ambig = @ /\ ~sure, !.done = sure]

\* Which of two targets holds the source: old, that of r, or new, that of r2?
Choose(r, r2, old, new) ==
  IF Contained(new) /\ Contained(old)
  THEN [r EXCEPT !.dst = NULL, !.dst2src = AMBIG, !.ambig = TRUE, !.done = TRUE]
  ELSE IF Contained(new)
  THEN SettledBy([r EXCEPT !.dst = r2.dst, !.whole2dst = r2.whole2dst,
                           !.ambig = FALSE, !.dst2src = new])
  ELSE IF Contained(old) THEN SettledBy([r EXCEPT !.dst2src = old])
  ELSE [r EXCEPT !.dst = NULL, !.dst2src = NOT, !.ambig = TRUE]

Disambiguate(q, c, r, r2) ==
  LET old == KindIn(q, c, r, r, r2.dst2src)
      new == KindIn(q, c, r, r2, old)
  IN  [Choose(r, r2, old, new) EXCEPT
         !.lost = @ \/ Astray(q, c, r, r, r2.dst2src) \/ Astray(q, c, r, r2, old)]

\* What the result r2 found in one base adds to r, which has r2's whole2src.
MergeTarget(q, c, r, r2) ==
  IF r2.dst2src \in {PUBLIC, AMBIG}
  THEN [r EXCEPT !.dst = r2.dst, !.whole2dst = r2.whole2dst,
                 !.dst2src = r2.dst2src, !.ambig = r2.ambig, !.done = TRUE]
  ELSE IF ~r.ambig /\ r.dst = NULL
  THEN [r EXCEPT !.dst = r2.dst, !.whole2dst = r2.whole2dst, !.ambig = r2.ambig,
                 !.done = r2.dst # NULL /\ r.whole2src # UNKNOWN
                          /\ "repeat" \notin flags[c]]
  ELSE IF r.dst # NULL /\ r.dst = r2.dst
  THEN [r EXCEPT !.whole2dst = @ \cup r2.whole2dst]
  ELSE IF \/ r.dst # NULL /\ (r2.dst # NULL \/ r2.ambig)
          \/ r2.dst # NULL /\ r.ambig
  THEN Disambiguate(q, c, r, r2)
  ELSE r

Merge(q, c, r, r2) ==
  MergeTarget(q, c, [r EXCEPT !.whole2src = @ \cup r2.whole2src,
                              !.lost = @ \/ r2.lost], r2)

StopAtPrivate(r) == [r EXCEPT !.done = @ \/ r.whole2src = PRIVATE]

NothingHidden(q, c, r, i) ==
  ~bases[c][i].public /\ q.hint = -2 /\ r.details \cap {"repeat", "diamond"} = {}

VisitBase(q, a, r, i, r2) ==
  IF r.done \/ NothingHidden(q, a.class, r, i) THEN r
  ELSE StopAtPrivate(Merge(q, a.class, r, r2))

\* There are two passes over the bases, from the last to the first.
BaseAt(c, k) == LET n == Len(bases[c])
                IN  IF k <= n THEN n + 1 - k ELSE 2 * n + 1 - k

\* Mutant: what the first pass skips is not looked at again.
IsDue_OnePass(q, a, k) ==
  /\ k <= Len(bases[a.class])
  /\ q.hint < 0 \/ ConvertToBase(a.class, BaseAt(a.class, k), a.obj) <= q.at - q.hint

\* The second is for the bases that lie behind the place where the hint expects
\* the target.
IsDue(q, a, k) ==
  LET likely == \/ q.hint < 0
                \/ ConvertToBase(a.class, BaseAt(a.class, k), a.obj) <= q.at - q.hint
  IN  likely <=> k <= Len(bases[a.class])

AllScanned(q, a, answers) ==
  LET step(r, k) ==
        IF IsDue(q, a, k)
        THEN VisitBase(q, a, r, BaseAt(a.class, k), answers[BaseAt(a.class, k)])
        ELSE r
      after[k \in 0 .. 2 * Len(bases[a.class])] ==
        IF k = 0 THEN Fresh(Details(a.class, a.details)) ELSE step(after[k - 1], k)
  IN  after[2 * Len(bases[a.class])]

\* What is asked of the i-th base.
ScanBase(a, i) ==
  [class   |-> bases[a.class][i].type,
   access  |-> Access(bases[a.class][i], a.access),
   obj     |-> ConvertToBase(a.class, i, a.obj),
   details |-> Details(a.class, a.details)]

ScanBy(q, a, answers) ==
  LET c == a.class
      fresh == Fresh(Details(c, a.details))
  IN  IF c = q.src /\ a.obj = q.at THEN [fresh EXCEPT !.whole2src = a.access]
      ELSE IF c = q.dst
      THEN [fresh EXCEPT !.dst = a.obj, !.whole2dst = a.access,
              !.dst2src = IF IsLeaf(c) \/ q.hint = -2 THEN NOT
                          ELSE IF q.hint >= 0 THEN AtHint(q, a.obj) ELSE UNKNOWN]
      ELSE IF IsLeaf(c) THEN fresh
      ELSE IF IsSi(c) THEN answers[1]
      ELSE AllScanned(q, a, answers)

Scans == [class : Classes, access : SUBSET BITS, obj : Nat, details : SUBSET DETAILS]
DoDyncast(q) ==
  LET scan[a \in Scans] ==
        ScanBy(q, a, [i \in DOMAIN bases[a.class] |-> scan[ScanBase(a, i)]])
  IN  scan[[class |-> whole, access |-> PUBLIC, obj |-> Origin, details |-> {"unknown"}]]

\* What __dynamic_cast makes of the result r of the scan.
TargetOf(q, r) ==
  LET crosses == Publicly(r.whole2src \cap r.whole2dst)
      hidden  == Contained(r.whole2src) /\ ~Virtual(r.whole2src)
      down    == IF r.dst2src = UNKNOWN THEN FindPublicSrc(q, r.dst) ELSE r.dst2src
  IN  IF r.dst # NULL
         /\ (Publicly(r.dst2src) \/ crosses \/ (~hidden /\ Publicly(down)))
      THEN r.dst ELSE NULL

\* __dynamic_cast of the subobject src at the address at.
LOST == -1   \* no address: the program may do anything
DynamicCast(src, at, dst, hint) ==
  LET q == [src |-> src, at |-> at, dst |-> dst, hint |-> hint]
      r == DoDyncast(q)
  IN  IF r.lost THEN LOST ELSE TargetOf(q, r)

-----------------------------------------------------------------------------
(* __do_upcast, from a thrown class to the class of a handler.  base is what *)
(* base_type records: NULL, the class of the virtual base, or NONVIRTUAL.    *)

NotFound == [dst |-> NULL, part |-> UNKNOWN, base |-> NULL, found |-> FALSE]

\* In vmi: the loop returns on the result r of the first base that has dst.
Settled(c, r) ==
  \/ ~Contained(r.part)
  \/ "public" \in r.part /\ "repeat" \notin flags[c]
  \/ "public" \notin r.part /\ (~Virtual(r.part) \/ "diamond" \notin flags[c])

\* Mutant: a second base of the type is not compared with the first.
MergeUp_FirstWins(c, r, r2) ==
  IF r.base = NULL THEN [r2 EXCEPT !.found = Settled(c, r2)]
  ELSE [r EXCEPT !.part = @ \cup r2.part]

SameVirtualBase(r, r2) ==
  r2.base # NONVIRTUAL /\ r.base # NONVIRTUAL /\ r2.base = r.base

MergeUp(c, r, r2) ==
  IF r.base = NULL THEN [r2 EXCEPT !.found = Settled(c, r2)]
  ELSE IF r.dst # r2.dst
  THEN [r EXCEPT !.dst = NULL, !.part = AMBIG, !.found = TRUE]
  ELSE IF r.dst = NULL /\ ~SameVirtualBase(r, r2)
  THEN [r EXCEPT !.part = AMBIG, !.found = TRUE]
  ELSE [r EXCEPT !.part = @ \cup r2.part]

\* What the answer of the i-th base is for the class.
InBase(c, i, r2) ==
  [r2 EXCEPT !.base = IF @ = NONVIRTUAL /\ bases[c][i].virtual THEN bases[c][i].type
                      ELSE @,
             !.part = IF Contained(@) /\ ~bases[c][i].public THEN @ \ {"public"} ELSE @]

Visit(a, r, i, r2) ==
  IF \/ r.found \/ ~r2.found
     \/ ~bases[a.class][i].public /\ "repeat" \notin Details(a.class, a.details)
  THEN r
  ELSE MergeUp(a.class, r, InBase(a.class, i, r2))

\* The bases from the last to the first, with their answers.
AllVisited(a, answers) ==
  LET n == Len(bases[a.class])
      after[k \in 0 .. n] == IF k = 0 THEN NotFound
                             ELSE Visit(a, after[k - 1], n + 1 - k, answers[n + 1 - k])
  IN  after[n]

\* What is asked of the i-th base.
AskBase(a, i) ==
  [a EXCEPT !.class = bases[a.class][i].type,
            !.obj = IF @ = NULL THEN NULL ELSE ConvertToBase(a.class, i, @),
            !.details = Details(a.class, @)]

UpcastBy(a, answers) ==
  LET all == AllVisited(a, answers)
  IN  IF a.class = a.dst
      THEN [dst |-> a.obj, part |-> PUBLIC, base |-> NONVIRTUAL, found |-> TRUE]
      ELSE IF IsLeaf(a.class) THEN NotFound
      ELSE IF IsSi(a.class) THEN answers[1]
      ELSE [all EXCEPT !.found = all.part # UNKNOWN]

Upcasts == [class : Classes, dst : Classes, obj : Nat, details : SUBSET DETAILS]
DoUpcast[a \in Upcasts] ==
  UpcastBy(a, [i \in DOMAIN bases[a.class] |-> DoUpcast[AskBase(a, i)]])
=============================================================================
