--------------------------- MODULE MCPersonality ----------------------------
(* Functions with a destructor, a try block or both, an empty and a         *)
(* non-empty exception specification, and noexcept; a handler of "a"        *)
(* catches "b" too.                                                         *)
EXTENDS Personality

MCMatches(h, t) == h = t \/ <<h, t>> = <<"a", "b">>

Function(body) == [body |-> body, noexcept |-> FALSE]

MCFunctions == [
  all      |-> Function(<<Catch("b"), Catch(ALL), Cleanup>>),
  strict   |-> Function(<<Catch("a"), Throws(<<>>)>>),
  lenient  |-> Function(<<Cleanup, Throws(<<"b", BAD>>)>>),
  noexcept |-> [body |-> <<>>, noexcept |-> TRUE]]

MCTypeTable == <<"a", "b", ALL>>
=============================================================================
