----------------------------- MODULE MCMatching -----------------------------
EXTENDS Matching

MCClasses == 1 .. 4

\* One larger hierarchy: V; D: virtual V; A1: D; A2: D; B: A1, A2; E: D; C: V;
\* W: C, E, B.
NullClasses == 1 .. 8
Plainly(bs) == [i \in DOMAIN bs |-> [type |-> bs[i], virtual |-> FALSE, public |-> TRUE]]
NullBases ==
  <<<<>>, <<[type |-> 1, virtual |-> TRUE, public |-> TRUE]>>, Plainly(<<2>>),
    Plainly(<<2>>), Plainly(<<3, 4>>), Plainly(<<2>>), Plainly(<<1>>),
    Plainly(<<7, 6, 5>>)>>
NullInit == /\ whole = 8 /\ bases = NullBases
            /\ flags = [c \in Classes |-> Flags(c)]
            /\ \A c \in Classes : Size[c] <= Origin
            /\ asked = Nobody
NullSpec == NullInit /\ [][Next]_vars
=============================================================================
