------------------------------ MODULE CString ------------------------------
(* The string functions of libruncxx/string.cc and                           *)
(* libsupcxx/src/cstring.cc.                                                 *)
(*                                                                           *)
(* A string is the sequence of its bytes before the NUL, 1 .. 255; a pointer *)
(* into it is a position, and the position 0 is a null pointer.  Memory is a *)
(* sequence of bytes.                                                        *)
EXTENDS Integers, Sequences, SequencesExt

CONSTANTS ULONG_BITS,    \* the width of an unsigned long
          SIGNED_CHAR    \* is a plain char signed? (not on AArch64)

ASSUME CStringAssumption == ULONG_BITS \in Nat \ {0} /\ SIGNED_CHAR \in BOOLEAN

ULONG_MAX == 2^ULONG_BITS - 1

Byte(s, i) == IF i <= Len(s) THEN s[i] ELSE 0
\* The byte as a plain char.
PlainChar(b) == IF SIGNED_CHAR /\ b > 127 THEN b - 256 ELSE b

\* The first i from `from` on at which T holds, the last at `to`; or `none`.
FirstAt(from, to, T(_), none) ==
  IF \E i \in from .. to : T(i)
  THEN CHOOSE i \in from .. to : T(i) /\ \A j \in from .. i - 1 : ~T(j)
  ELSE none

Strlen(s) == FirstAt(1, Len(s) + 1, LAMBDA i : Byte(s, i) = 0, 0) - 1

\* The bytes go one by one, the first one first.
Memcpy(mem, dest, src, n) ==
  FoldLeft(LAMBDA m, i : [m EXCEPT ![dest + i - 1] = m[src + i - 1]], mem,
           [i \in 1 .. n |-> i])

Memset(mem, s, c, n) == [i \in DOMAIN mem |-> IF i \in s .. s + n - 1 THEN c % 256
                                              ELSE mem[i]]

\* c is an int and the characters are not converted to unsigned ones.
Strchr(s, c) == FirstAt(1, Len(s) + 1, LAMBDA i : PlainChar(Byte(s, i)) = c, 0)

Strncmp(s1, s2, n) ==
  LET Stops(i) == Byte(s1, i) # Byte(s2, i) \/ Byte(s1, i) = 0
      i == FirstAt(1, n, Stops, 0)
  IN  IF i = 0 THEN 0 ELSE Byte(s1, i) - Byte(s2, i)

Behind(s, i) == SubSeq(s, i + 1, Len(s))

Strstr(s, find) ==
  LET Found(i) == /\ Byte(s, i) = Head(find)
                  /\ Strncmp(Behind(s, i), Tail(find), Strlen(Tail(find))) = 0
  IN  IF find = <<>> THEN 1 ELSE FirstAt(1, Len(s), Found, 0)

Strncpy(mem, src, n) == [i \in DOMAIN mem |-> IF i <= n THEN Byte(src, i) ELSE mem[i]]

-----------------------------------------------------------------------------
(* strtoul.  The classes of characters are the file's own: '/' is a digit,   *)
(* of value 255, and neither 'Z' nor 'z' is a letter.                        *)

IsAlpha(c) == c \in 65 .. 89 \cup 97 .. 121
IsDigit(c) == c \in 47 .. 57
IsSpace(c) == c \in {32, 9}
IsUpper(c) == c \in 65 .. 89

\* Mutant: upper case letters are taken for lower case ones.
DigitOf_LowerOnly(c) == IF IsDigit(c) THEN (c - 48) % 256
                        ELSE IF IsAlpha(c) THEN (c - 87) % 256 ELSE 256
\* The loop ends at a character that is no digit in any base.
DigitOf(c) == IF IsDigit(c) THEN (c - 48) % 256
              ELSE IF IsAlpha(c) THEN IF IsUpper(c) THEN c - 55 ELSE c - 87
              ELSE 256

\* Mutant: a last digit too many at the cutoff is not noticed.
Accumulate_Late(base, a, c) ==
  IF a.over \/ a.acc > ULONG_MAX \div base THEN [a EXCEPT !.over = TRUE]
  ELSE [a EXCEPT !.acc = a.acc * base + c]
\* One turn of the loop: after an overflow the value no longer counts.
Accumulate(base, a, c) ==
  LET cutoff == ULONG_MAX \div base
      cutlim == ULONG_MAX % base
  IN  IF a.over \/ a.acc > cutoff \/ (a.acc = cutoff /\ c > cutlim)
      THEN [a EXCEPT !.over = TRUE]
      ELSE [a EXCEPT !.acc = a.acc * base + c]

\* The value and *endptr, which is nptr when no digit was read.
Strtoul(nptr, base) ==
  LET c(i)   == Byte(nptr, i)
      first  == FirstAt(1, Len(nptr) + 1, LAMBDA i : ~IsSpace(c(i)), 0)
      signed == c(first) \in {43, 45}
      start  == IF signed THEN first + 1 ELSE first
      hex    == base \in {0, 16} /\ c(start) = 48 /\ c(start + 1) \in {88, 120}
      digits == IF hex THEN start + 2 ELSE start
      b      == IF hex THEN 16 ELSE IF base # 0 THEN base
                ELSE IF c(digits) = 48 THEN 8 ELSE 10
      stop   == FirstAt(digits, Len(nptr) + 1, LAMBDA i : DigitOf(c(i)) >= b, 0)
      read   == FoldLeft(LAMBDA a, d : Accumulate(b, a, d), [acc |-> 0, over |-> FALSE],
                         [i \in 1 .. stop - digits |-> DigitOf(c(digits + i - 1))])
  IN  [value |-> IF read.over THEN ULONG_MAX
                 ELSE IF c(first) = 45 THEN (0 - read.acc) % 2^ULONG_BITS ELSE read.acc,
       end   |-> IF stop > digits THEN stop ELSE 1]
=============================================================================
