---------------------------- MODULE MCLifecycle -----------------------------
(* Lifecycle on a small program: two globals, two local statics and one      *)
(* function for atexit, with a table that four registrations overflow.       *)
EXTENDS Lifecycle

CONSTANTS g1, g2, s1, s2, f1

MCGlobals   == <<g1, g2>>
MCStatics   == {s1, s2}
MCFunctions == {f1}
=============================================================================
