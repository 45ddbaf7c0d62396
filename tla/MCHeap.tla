------------------------------- MODULE MCHeap -------------------------------
(* A word of 8 bits: requests from 128 on have the top bit set and are       *)
(* refused, and 0 - 1 is 255.  Two adjacent segments, the second one with an *)
(* end that is not aligned, so that the last chunk has an odd size.          *)
EXTENDS Heap

MCRegions  == <<[start |-> 64, end |-> 136], [start |-> 136, end |-> 171]>>
MCRequests == {0, 8, 9, 32, 127, 128, 255}
=============================================================================
