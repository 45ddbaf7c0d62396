---------------------------- MODULE MCAllocation ----------------------------
(* Allocation with a heap of five addresses, two of them aligned, and a pool *)
(* of two slots that hold a bad_alloc but not the larger exceptions.  Where  *)
(* no exception was before, the memory of the heap holds 0.                  *)
EXTENDS Allocation

MCArena   == 1..5
MCSizes   == {0, 2}
MCThrown  == {2}
MCGarbage == {0}
=============================================================================
