----------------------------- MODULE Allocator ------------------------------
(* What malloc and free promise to every part of the runtime that uses them: *)
(* malloc(n) answers the null pointer, or the address of n bytes of the      *)
(* arena that no other live block covers; free gives a live block back.      *)
(* Nothing is said here of chunks, headers or of how the block is found.     *)
EXTENDS Integers

CONSTANTS
  Arena,          \* the addresses the allocator may hand out
  Requests,       \* the sizes callers ask for
  ALIGN           \* every block starts at a multiple of this

VARIABLES
  live,           \* the blocks handed out and not yet freed: [ptr, size]
  ret             \* what the last call of malloc returned

vars == <<live, ret>>

NULL == 0

BytesOf(b) == b.ptr .. b.ptr + b.size - 1

Init == live = {} /\ ret = NULL

Refuse == ret' = NULL /\ UNCHANGED live

Grant(n) ==
  \E b \in [ptr : {a \in Arena : a # NULL /\ a % ALIGN = 0}, size : {n}] :
    /\ \A c \in live : c.ptr # b.ptr /\ BytesOf(b) \cap BytesOf(c) = {}
    /\ BytesOf(b) \subseteq Arena
    /\ live' = live \cup {b}
    /\ ret' = b.ptr

Release(b) == live' = live \ {b} /\ UNCHANGED ret

Next == \/ Refuse
        \/ \E n \in Requests : Grant(n)
        \/ \E b \in live : Release(b)

Spec == Init /\ [][Next]_vars
=============================================================================
