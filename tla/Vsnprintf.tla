----------------------------- MODULE Vsnprintf -----------------------------
(* io::printf, io/printf.cc: one call of _vsnprintf with _out_char as its    *)
(* output, one action per turn of its loop over the format.                  *)
(*                                                                           *)
(* A character is a string of length one, and NUL ends a string.  The widths *)
(* of the machine's words, of its doubles and of the buffers are constants.  *)
(* A double is its sign and its magnitude in units of 1/UNIT, or a special   *)
(* value; the arithmetic of _ftoa and _etoa rounds to MANTISSA bits.         *)
EXTENDS Integers, Sequences, FiniteSets, SequencesExt

CONSTANTS NTOA_BUFFER,      \* PRINTF_NTOA_BUFFER_SIZE
          FTOA_BUFFER,      \* PRINTF_FTOA_BUFFER_SIZE
          FLOAT_PRECISION,  \* PRINTF_DEFAULT_FLOAT_PRECISION
          POWERS,           \* the largest index of pow10[] and exponent of
                            \* PRINTF_MAX_FLOAT
          G_MIN, G_MAX,     \* the bounds of %g for %f, in units
          CHAR_BITS, SHORT_BITS, INT_BITS, LONG_BITS,
          CHAR_SIGNED,      \* is a plain char signed? (not on AArch64)
          MANTISSA, UNIT,
          HIGH_POWERS,      \* the e for which the machine's 10^e is too large
          NUL

ASSUME PrintAssumption ==
  /\ NTOA_BUFFER \in Nat \ {0} /\ FTOA_BUFFER \in Nat \ {0}
  /\ CHAR_BITS <= SHORT_BITS /\ SHORT_BITS <= INT_BITS /\ INT_BITS <= LONG_BITS
  /\ 0 < G_MIN /\ G_MIN < G_MAX /\ G_MAX <= 10^POWERS * UNIT

VARIABLES format,   \* the format's characters
          va,       \* the arguments not yet taken
          pos,      \* where *format is
          idx,      \* characters counted
          sent,     \* characters given to _putChar
          done      \* has the call returned?

printVars == <<format, va, pos, idx, sent, done>>

Lesser(m, n)  == IF m < n THEN m ELSE n
Greater(m, n) == IF m > n THEN m ELSE n
Times(c, n) == [i \in 1 .. n |-> c]
\* What of s goes into a buffer of n characters that is never overrun.
Clip(s, n) == SubSeq(s, 1, Lesser(Len(s), n))

NumDigits(n, base) == CHOOSE d \in 1 .. 64 :
                         n < base^d /\ (d > 1 => n >= base^(d-1))
LOWER == <<"0", "1", "2", "3", "4", "5", "6", "7",
           "8", "9", "a", "b", "c", "d", "e", "f">>
UPPER == SubSeq(LOWER, 1, 10) \o <<"A", "B", "C", "D", "E", "F">>
\* The digits of n, the lowest first, as in the buffers of the conversions.
Digits(n, base, flags) ==
  [i \in 1 .. NumDigits(n, base) |->
     (IF "upper" \in flags THEN UPPER ELSE LOWER)[1 + ((n \div base^(i-1)) % base)]]

Sign(negative, flags) == IF negative THEN <<"-">>
                         ELSE IF "plus" \in flags THEN <<"+">>
                         ELSE IF "space" \in flags THEN <<" ">> ELSE <<>>

\* Mutant: the zeros leave no room for the sign.
Unsigned_Whole(width, negative, flags) == width
\* The width that is left for the digits when zeros fill it.
Unsigned(width, negative, flags) ==
  IF /\ {"left", "zero"} \cap flags = {"zero"} /\ width > 0
     /\ Sign(negative, flags) # <<>>
  THEN width - 1 ELSE width

OutRev(buf, width, flags) ==
  LET spaces == Times(" ", width - Len(buf))
  IN  (IF {"left", "zero"} \cap flags = {} THEN spaces ELSE <<>>)
      \o Reverse(buf) \o (IF "left" \in flags THEN spaces ELSE <<>>)

-----------------------------------------------------------------------------
(* Integers. *)

Zeros(len, prec, width, flags) ==
  IF "left" \in flags THEN <<>>
  ELSE Times("0", Lesser(NTOA_BUFFER,
                         IF "zero" \in flags THEN Greater(prec, width) ELSE prec)
                  - len)

\* The base's mark takes the place of zeros that filled the whole width.
Hashed(buf, base, prec, width, flags) ==
  LET len  == Len(buf)
      cut  == IF "precision" \in flags \/ len = 0 \/ len \notin {prec, width} THEN 0
              ELSE IF base = 16 /\ len > 1 THEN 2 ELSE 1
      mark == IF base = 16 THEN IF "upper" \in flags THEN <<"X">> ELSE <<"x">>
              ELSE IF base = 2 THEN <<"b">> ELSE <<>>
  IN  Clip(SubSeq(buf, 1, len - cut) \o mark \o <<"0">>, NTOA_BUFFER)

NtoaFormat(digits, negative, base, prec, width, flags) ==
  LET padded == digits \o Zeros(Len(digits), prec, width, flags)
      hashed == IF "hash" \in flags THEN Hashed(padded, base, prec, width, flags)
                ELSE padded
  IN  OutRev(Clip(hashed \o Sign(negative, flags), NTOA_BUFFER), width, flags)

Ntoa(n, negative, base, prec, width, flags) ==
  NtoaFormat(IF "precision" \notin flags \/ n # 0
             THEN Clip(Digits(n, base, flags), NTOA_BUFFER) ELSE <<>>,
             negative, base, prec, Unsigned(width, negative, flags),
             IF n = 0 THEN flags \ {"hash"} ELSE flags)

\* va_arg and the conversion to the type that the length names; the negation
\* of the least value, which C++ leaves undefined, wraps in the builds.
Bits(flags) == IF "long" \in flags THEN LONG_BITS
               ELSE IF "char" \in flags THEN CHAR_BITS
               ELSE IF "short" \in flags THEN SHORT_BITS ELSE INT_BITS
AsUnsigned(n, bits) == n % 2^bits
AsSigned(n, bits) == LET u == n % 2^bits
                     IN  IF u >= 2^(bits-1) THEN u - 2^bits ELSE u

Base(conv) == IF conv \in {"x", "X"} THEN 16 ELSE IF conv = "o" THEN 8
              ELSE IF conv = "b" THEN 2 ELSE 10
IntegerFlags(conv, flags) ==
  (flags \cup (IF conv = "X" THEN {"upper"} ELSE {}))
  \ ((IF Base(conv) = 10 THEN {"hash"} ELSE {})
     \cup (IF conv \in {"d", "i"} THEN {} ELSE {"plus", "space"})
     \cup (IF "precision" \in flags THEN {"zero"} ELSE {}))

Integer(d, n) ==
  LET bits  == Bits(d.flags)
      value == IF d.conv \notin {"d", "i"} \/ ("char" \in d.flags /\ ~CHAR_SIGNED)
               THEN AsUnsigned(n, bits) ELSE AsSigned(n, bits)
  IN  Ntoa(IF value < 0 THEN -value ELSE value, value < 0, Base(d.conv), d.prec,
           d.width, IntegerFlags(d.conv, d.flags))

-----------------------------------------------------------------------------
(* Doubles. *)

BitLength(n) == IF n = 0 THEN 0 ELSE NumDigits(n, 2)

\* n / d units as a double: to the nearest, halves to even.
Rounded(n, d) ==
  LET q    == n \div d
      step == 2^Greater(0, BitLength(q) - MANTISSA)
      low  == step * (q \div step)
      rest == 2 * (n - d * low) - d * step
  IN  IF rest > 0 \/ (rest = 0 /\ (low \div step) % 2 = 1) THEN low + step ELSE low

\* _ftoa behind its tests for values it cannot print.
Fixed(units, negative, prec, width, flags) ==
  LET prec0  == IF "precision" \in flags THEN prec ELSE FLOAT_PRECISION
      extra  == Lesser(FTOA_BUFFER, Greater(0, prec0 - POWERS))
      p      == prec0 - extra
      tmp    == Rounded((units % UNIT) * 10^p, 1)
      diff   == 2 * (tmp % UNIT) - UNIT
      frac0  == tmp \div UNIT
      carry  == diff > 0 /\ frac0 + 1 >= 10^p
      frac   == IF carry THEN 0
                ELSE IF diff > 0 \/ (diff = 0 /\ (frac0 = 0 \/ frac0 % 2 = 1))
                THEN frac0 + 1 ELSE frac0
      whole0 == units \div UNIT + (IF carry THEN 1 ELSE 0)
      whole  == IF p = 0 /\ 2 * (units - whole0 * UNIT) >= UNIT /\ whole0 % 2 = 1
                THEN whole0 + 1 ELSE whole0
      digits == Digits(frac, 10, {})
      \* count is unsigned: with a digit too many its zeros fill the buffer
      zeros  == IF Len(digits) > p THEN FTOA_BUFFER ELSE p - Len(digits)
      number == Clip(Times("0", extra)
                     \o (IF p = 0 THEN <<>> ELSE digits \o Times("0", zeros) \o <<".">>),
                     FTOA_BUFFER)
                \o Digits(whole, 10, {})
      fill   == Lesser(FTOA_BUFFER, Unsigned(width, negative, flags))
      padded == Clip(number, FTOA_BUFFER)
                \o (IF {"left", "zero"} \cap flags = {"zero"}
                    THEN Times("0", fill - Len(number)) ELSE <<>>)
  IN  OutRev(Clip(padded \o Sign(negative, flags), FTOA_BUFFER), width, flags)

Special(v, width, flags) ==
  OutRev(IF v.special = "nan" THEN <<"n", "a", "n">>
         ELSE <<"f", "n", "i">> \o (IF v.negative THEN <<"-">>
                                   ELSE IF "plus" \in flags THEN <<"+">> ELSE <<>>),
         width, flags)

\* The estimate of the decimal exponent, in millionths: log2 and an expansion
\* of ln around 1.5.  A zero has the least exponent and a mantissa of 1.
LogEstimate(units) ==
  LET exp2 == IF units = 0 THEN -1023 ELSE BitLength(units) - BitLength(UNIT)
      sig  == IF units = 0 THEN 1
              ELSE units \div 2^Greater(0, BitLength(units) - MANTISSA)
      one  == 2^(BitLength(sig) - 1)
  IN  176091 + exp2 * 301030 + ((2 * sig - 3 * one) * 289530) \div (2 * one)
Truncated(n, d) == IF n < 0 THEN -((-n) \div d) ELSE n \div d

\* Is the value less than the machine's 10^e?  The approximation errs by less
\* than 1 in 50 million, so that it matters where the value is a power of ten.
Below(units, e) ==
  LET value == IF e < 0 THEN (IF units = 0 THEN 0 ELSE units * 10^(-e)) ELSE units
      power == UNIT * 10^Greater(0, e)
  IN  value < power \/ (value = power /\ e \in HIGH_POWERS)
Exponent(units) == LET e == Truncated(LogEstimate(units), 1000000)
                   IN  IF Below(units, e) THEN e - 1 ELSE e

\* Mutant: only large numbers are rescaled.
Rescaled_OneWay(units, e) == IF units = 0 \/ e <= 0 THEN units ELSE Rounded(units, 10^e)
\* Divided by the power of ten, here without its error.
Rescaled(units, e) == IF units = 0 \/ e = 0 THEN units
                      ELSE IF e < 0 THEN Rounded(units * 10^(-e), 1)
                      ELSE Rounded(units, 10^e)

Etoa(units, negative, prec, width, flags) ==
  LET expval   == Exponent(units)
      adapt    == "adapt" \in flags
      asFixed  == adapt /\ G_MIN <= units /\ units < G_MAX
      prec0    == IF "precision" \in flags THEN prec ELSE FLOAT_PRECISION
      prec1    == IF asFixed THEN Greater(0, prec0 - expval - 1)
                  ELSE IF adapt /\ prec0 > 0 /\ "precision" \in flags THEN prec0 - 1
                  ELSE prec0
      minwidth == IF asFixed THEN 0 ELSE IF expval \in -99 .. 99 THEN 4 ELSE 5
      fwidth   == IF width <= minwidth \/ ("left" \in flags /\ ~asFixed) THEN 0
                  ELSE width - minwidth
      mantissa == Fixed(IF asFixed THEN units ELSE Rescaled(units, expval), negative,
                        prec1, fwidth, IF asFixed THEN flags \cup {"precision"} ELSE flags)
      exponent == Ntoa(IF expval < 0 THEN -expval ELSE expval, expval < 0, 10, 0,
                       minwidth - 1, {"zero", "plus"})
      text     == mantissa \o <<IF "upper" \in flags THEN "E" ELSE "e">> \o exponent
  IN  IF asFixed THEN mantissa
      ELSE text \o (IF "left" \in flags THEN Times(" ", width - Len(text)) ELSE <<>>)

Double(d, v) ==
  LET flags == d.flags
               \cup (IF d.conv \in {"g", "G"} THEN {"adapt"} ELSE {})
               \cup (IF d.conv \in {"E", "F", "G"} THEN {"upper"} ELSE {})
      negative == v.negative /\ v.units > 0
  IN  IF v.special # "" THEN Special(v, d.width, flags)
      ELSE IF d.conv \in {"f", "F"} /\ v.units <= 10^POWERS * UNIT
      THEN Fixed(v.units, negative, d.prec, d.width, flags)
      ELSE Etoa(v.units, negative, d.prec, d.width, flags)

-----------------------------------------------------------------------------
(* Characters and strings; a string ends before its first NUL. *)

Char(d, c) == LET pad == Times(" ", d.width - 1)
              IN  IF "left" \in d.flags THEN <<c>> \o pad ELSE pad \o <<c>>

String(d, s) ==
  LET shown == IF "precision" \in d.flags THEN Clip(s, d.prec) ELSE s
      pad   == Times(" ", d.width - Len(shown))
  IN  IF "left" \in d.flags THEN shown \o pad ELSE pad \o shown

Pointer(d, n) == Ntoa(AsUnsigned(n, LONG_BITS), FALSE, 16, d.prec, LONG_BITS \div 4,
                      d.flags \cup {"zero", "upper"})

-----------------------------------------------------------------------------
(* The directive behind a '%': %[flags][width][.precision][length]. *)

At(i) == IF i <= Len(format) THEN format[i] ELSE NUL
\* The first place from i on whose character is not one of cs.
Past(i, cs) == CHOOSE j \in i .. Len(format) + 1 :
                 At(j) \notin cs /\ \A k \in i .. j - 1 : At(k) \in cs

DIGIT == {"0", "1", "2", "3", "4", "5", "6", "7", "8", "9"}
Atoi(i) == LET Add(n, c) == (10 * n + SelectInSeq(LOWER, LAMBDA l : l = c) - 1)
                            % 2^INT_BITS
           IN  FoldLeft(Add, 0, SubSeq(format, i, Past(i, DIGIT) - 1))

FLAG == [c \in {"0", "-", "+", " ", "#"} |->
           CASE c = "0" -> "zero" [] c = "-" -> "left" [] c = "+" -> "plus"
             [] c = " " -> "space" [] c = "#" -> "hash"]
FlagsAt(i) == {FLAG[At(j)] : j \in i .. Past(i, DOMAIN FLAG) - 1}

\* A number or a '*', which takes an argument: its value, what is behind it.
FieldAt(i, args) ==
  IF At(i) = "*" THEN [n |-> Head(args), to |-> i + 1, va |-> Tail(args)]
  ELSE [n |-> Atoi(i), to |-> Past(i, DIGIT), va |-> args]

\* In all three builds ptrdiff_t, intmax_t and size_t are as long as a long.
LengthAt(i) ==
  CASE At(i) = "l" -> [flags |-> {"long"}, to |-> IF At(i+1) = "l" THEN i + 2 ELSE i + 1]
    [] At(i) = "h" -> IF At(i+1) = "h" THEN [flags |-> {"short", "char"}, to |-> i + 2]
                      ELSE [flags |-> {"short"}, to |-> i + 1]
    [] At(i) \in {"t", "j", "z"} -> [flags |-> {"long"}, to |-> i + 1]
    [] OTHER -> [flags |-> {}, to |-> i]

WithPrecision(i, width, flags, args) ==
  LET dot == At(i) = "."
      p   == IF dot THEN FieldAt(i + 1, args) ELSE [n |-> 0, to |-> i, va |-> args]
      l   == LengthAt(p.to)
  IN  [flags |-> flags \cup l.flags \cup (IF dot THEN {"precision"} ELSE {}),
       width |-> width, prec |-> Greater(0, p.n), conv |-> At(l.to), at |-> l.to,
       va |-> p.va]

\* The directive whose flags start at i; a negative width means '-'.
DirectiveAt(i) ==
  LET w == FieldAt(Past(i, DOMAIN FLAG), va)
  IN  IF w.n < 0 THEN WithPrecision(w.to, -w.n, FlagsAt(i) \cup {"left"}, w.va)
      ELSE WithPrecision(w.to, w.n, FlagsAt(i), w.va)

INTEGERS == {"d", "i", "u", "x", "X", "o", "b"}
DOUBLES  == {"f", "F", "e", "E", "g", "G"}

Converted(d) ==
  CASE d.conv \in INTEGERS -> Integer(d, Head(d.va))
    [] d.conv \in DOUBLES  -> Double(d, Head(d.va))
    [] d.conv = "c" -> Char(d, Head(d.va))
    [] d.conv = "s" -> String(d, Head(d.va))
    [] d.conv = "p" -> Pointer(d, Head(d.va))
    [] OTHER -> <<d.conv>>
Takes(d) == d.conv \in INTEGERS \cup DOUBLES \cup {"c", "s", "p"}

-----------------------------------------------------------------------------
(* _vsnprintf. *)

\* _out_char counts every character and keeps the NULs to itself.
Out(cs) == /\ idx' = idx + Len(cs)
           /\ sent' = sent \o SelectSeq(cs, LAMBDA c : c # NUL)

Call(f, args) == /\ format = f /\ va = args
                 /\ pos = 1 /\ idx = 0 /\ sent = <<>> /\ done = FALSE

Literal == /\ ~done /\ At(pos) \notin {NUL, "%"}
           /\ Out(<<At(pos)>>)
           /\ pos' = pos + 1
           /\ UNCHANGED <<format, va, done>>

Directive == /\ ~done /\ At(pos) = "%"
             /\ LET d == DirectiveAt(pos + 1)
                IN  /\ Out(Converted(d))
                    /\ va' = IF Takes(d) THEN Tail(d.va) ELSE d.va
                    /\ pos' = d.at + 1
             /\ UNCHANGED <<format, done>>

\* The NUL at the end goes to _out_char as well, uncounted.
Terminate == /\ ~done /\ At(pos) = NUL
             /\ done' = TRUE
             /\ UNCHANGED <<format, va, pos, idx, sent>>

VsnprintfStep == Literal \/ Directive \/ Terminate
=============================================================================
