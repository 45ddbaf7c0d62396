-------------------------------- MODULE Text -------------------------------
(* The text functions and those who ask them: every behaviour is one call    *)
(* of io::printf (Vsnprintf), of a string function (CString), of the hashes  *)
(* (Hash) or of a reader of the boot arguments (BootArgs), with what the C   *)
(* standard says of it.                                                      *)
EXTENDS Vsnprintf, BootArgs, Hash

CONSTANT Questions   \* the calls, as the records below

VARIABLE asked       \* the call, with its answer when it is over

vars == <<printVars, asked>>

(* A call of printf prints one directive between two known characters and   *)
(* has an argument more, which shows that the others were taken in step.    *)
(* A field is absent, digits, or '*' with its argument.                      *)
ABSENT == [as |-> "absent", n |-> 0]
Number(n) == [as |-> "digits", n |-> n]
DOT == [as |-> "dot", n |-> 0]
Star(n) == [as |-> "star", n |-> n]

Written(f) == CASE f.as \in {"absent", "dot"} -> <<>>
                [] f.as = "digits" -> Reverse(Digits(f.n, 10, {}))
                [] f.as = "star"   -> <<"*">>
FormatOf(q) == <<"=", "%">> \o SelectSeq(<<"0", "-", "+", " ", "#">>, LAMBDA c : c \in q.flags)
               \o Written(q.width) \o (IF q.prec = ABSENT THEN <<>> ELSE <<".">> \o Written(q.prec))
               \o q.length \o <<q.conv, "%", "c">>
StarArg(f) == IF f.as = "star" THEN <<f.n>> ELSE <<>>
ArgsOf(q) == StarArg(q.width) \o StarArg(q.prec) \o <<q.arg, "!">>

Init == \E q \in Questions :
          /\ asked = q
          /\ IF q.op = "printf" THEN Call(FormatOf(q), ArgsOf(q)) ELSE Call(<<>>, <<>>)

\* The firmware's part, two blanks, the user's part.
CmdLineOf(q) == q.before \o VC_MEM_BASE \o q.number
                \o (IF q.after = <<>> THEN <<>> ELSE <<32>> \o q.after) \o <<32, 32>> \o q.user

Got(q) ==
  CASE q.op = "strtoul" -> Strtoul(q.s, q.base)
    [] q.op = "strings" -> [cmp  |-> Strncmp(q.s, q.t, q.n), rcmp |-> Strncmp(q.t, q.s, q.n),
                            at   |-> Strstr(q.s, q.t), len |-> Strlen(q.s),
                            copy |-> Strncpy(q.mem, q.s, q.n), chr |-> Strchr(q.s, q.c)]
    [] q.op = "memory"  -> [copy |-> Memcpy(q.mem, q.dest, q.src, q.n),
                            set  |-> Memset(q.mem, q.dest, q.c, q.n)]
    [] q.op = "hash"    -> [s |-> HashBytes(q.s, q.seed), t |-> HashBytes(q.t, q.seed),
                            fnvS |-> FnvHashBytes(q.s, q.seed, SIGNED_CHAR),
                            fnvT |-> FnvHashBytes(q.t, q.seed, SIGNED_CHAR)]
    [] q.op = "heapLen" -> HeapLen(q.envp)
    [] q.op = "addCmdLine" -> AddCmdLine(q.argv, q.mem)
    [] q.op = "firmware" -> FirmwareCmdLine(CmdLineOf(q))

Printf == asked.op = "printf" /\ VsnprintfStep /\ UNCHANGED asked
Answer == /\ asked.op # "printf" /\ ~done
          /\ asked' = [got |-> Got(asked)] @@ asked
          /\ done' = TRUE
          /\ UNCHANGED <<format, va, pos, idx, sent>>
Next == Printf \/ Answer
Spec == Init /\ [][Next]_vars

Printed(convs) == done /\ asked.op = "printf" /\ asked.conv \in convs
Answered(op) == done /\ asked.op = op

-----------------------------------------------------------------------------
(* What the C standard says a directive prints. *)

Left == "-" \in asked.flags \/ asked.width.n < 0
Width == IF asked.width.n < 0 THEN -asked.width.n ELSE asked.width.n
HasPrecision == asked.prec # ABSENT /\ asked.prec.n >= 0
Precision == Greater(0, asked.prec.n)
Justified(s) == LET spaces == Times(" ", Width - Len(s))
                IN  IF Left THEN s \o spaces ELSE spaces \o s

RECURSIVE Numeral(_, _, _)
Numeral(n, base, digits) ==
  IF n = 0 THEN <<>> ELSE Numeral(n \div base, base, digits) \o <<digits[1 + (n % base)]>>

BitsOf(length) == CASE length = <<"h", "h">> -> CHAR_BITS [] length = <<"h">> -> SHORT_BITS
                    [] length = <<>> -> INT_BITS [] OTHER -> LONG_BITS
\* The number that is printed: the argument, in the type that the length names.
ValueOf == LET n == asked.arg % 2^BitsOf(asked.length)
           IN  IF asked.conv \in {"d", "i"} /\ 2 * n >= 2^BitsOf(asked.length)
                  /\ (CHAR_SIGNED \/ asked.length # <<"h", "h">>)
               THEN n - 2^BitsOf(asked.length) ELSE n
Magnitude == IF ValueOf < 0 THEN -ValueOf ELSE ValueOf
SignOf == IF asked.conv \notin {"d", "i"} THEN <<>> ELSE Sign(ValueOf < 0,
            (IF "+" \in asked.flags THEN {"plus"} ELSE {})
            \cup (IF " " \in asked.flags THEN {"space"} ELSE {}))
Significant == Numeral(Magnitude, Base(asked.conv), IF asked.conv = "X" THEN UPPER ELSE LOWER)
DigitsOf == LET least == IF HasPrecision THEN Precision ELSE 1
            IN  Times("0", least - Len(Significant)) \o Significant
PrefixOf == IF "#" \notin asked.flags THEN <<>>
            ELSE CASE asked.conv = "o" /\ (DigitsOf = <<>> \/ Head(DigitsOf) # "0") -> <<"0">>
                   [] asked.conv \in {"x", "X", "b"} /\ ValueOf # 0 -> <<"0", asked.conv>>
                   [] OTHER -> <<>>
Fill == IF "0" \in asked.flags /\ ~Left /\ ~HasPrecision
        THEN Times("0", Width - Len(SignOf \o PrefixOf \o DigitsOf)) ELSE <<>>
IntegerText == SignOf \o PrefixOf \o Fill \o DigitsOf

Rightly == CASE asked.conv \in INTEGERS -> Justified(IntegerText)
             [] asked.conv = "p" -> LET n == Numeral(asked.arg, 16, UPPER)
                                    IN  Times("0", LONG_BITS \div 4 - Len(n)) \o n
             [] asked.conv = "c" -> Justified(<<asked.arg>>)
             [] asked.conv = "s" -> Justified(IF HasPrecision THEN Clip(asked.arg, Precision)
                                              ELSE asked.arg)

(* Where _ntoa_format prints something else. *)
\* '-' keeps it from writing the zeros that the precision asks for.
LeftZeros == Left /\ HasPrecision /\ Precision > Len(Significant)
\* The number with its zeros and its sign does not fit into the buffer.
TooLong == Len(IntegerText) > NTOA_BUFFER
\* The zeros that '#' takes back were digits, or were one too few.
HashEats ==
  /\ PrefixOf # <<>> /\ ~HasPrecision
  /\ \/ Width = Len(DigitsOf)
     \/ /\ "0" \in asked.flags /\ ~Left /\ Len(DigitsOf) < Width
        /\ Width < Len(PrefixOf \o DigitsOf) \/ asked.conv = "b"
\* The 0 of %#o comes on top of those of the precision, and %#.0o of 0 is empty.
HashedOctal == /\ "#" \in asked.flags /\ asked.conv = "o" /\ HasPrecision
               /\ IF ValueOf = 0 THEN Precision = 0 ELSE Precision > Len(Significant)
Misprinted == LeftZeros \/ TooLong \/ HashEats \/ HashedOctal

\* But for these, and for a negative precision, which the code takes for 0, a
\* directive prints what the C standard says, takes the arguments that belong
\* to it, and the count is that of the characters, with the NULs that _out_char
\* keeps to itself (_vsnprintf, _ntoa_format).
PrintfIsRight ==
  /\ Printed(INTEGERS \cup {"c", "s", "p"}) /\ asked.prec.n >= 0
  /\ asked.conv \in INTEGERS => ~Misprinted
  => LET text == <<"=">> \o Rightly \o <<"!">>
     IN  sent = SelectSeq(text, LAMBDA c : c # NUL) /\ idx = Len(text)

-----------------------------------------------------------------------------
(* Doubles. *)

\* What the directive printed.
Shown == SubSeq(sent, 2, Len(sent) - 1)
Body == SelectSeq(Shown, LAMBDA c : c # " ")

\* The text read back: sign, digits before and behind the point, exponent.
NumberOf(s) == FoldLeft(LAMBDA n, c : 10 * n + SelectInSeq(LOWER, LAMBDA l : l = c) - 1, 0, s)
Place(s, cs) == SelectInSeq(Append(s, NUL), LAMBDA c : c \in cs \cup {NUL})
ReadBack(s) ==
  LET digits == SelectSeq(s, LAMBDA c : c \notin {"+", "-"})
      e     == Place(digits, {"e", "E"})
      point == Place(SubSeq(digits, 1, e - 1), {"."})
      power == NumberOf(Behind(digits, e))
  IN  [negative |-> Head(s) = "-",
       whole    |-> SubSeq(digits, 1, point - 1),
       decimals |-> SubSeq(digits, point + 1, e - 1),
       exponent |-> IF s[Lesser(Len(s), Place(s, {"e", "E"}) + 1)] = "-"
                    THEN -power ELSE power]

IsNear(r) ==
  LET kept  == Lesser(Len(r.decimals), POWERS)
      shift == r.exponent - kept
      value == NumberOf(r.whole \o SubSeq(r.decimals, 1, kept))
      last  == UNIT * 10^Greater(0, shift)     \* one in the last digit, scaled
      error == value * last - asked.arg.units * 10^Greater(0, -shift)
  IN  IF asked.arg.units = 0 THEN value = 0
      ELSE 4 * error \in -3 * last .. 3 * last

\* The fraction is rounded to a half that it does not have, behind nines only.
RollsOver == LET u == asked.arg.units
             IN  \E v \in {u, Rescaled(u, Exponent(u))}, p \in 1 .. POWERS :
                   Rounded((v % UNIT) * 10^p, 1) = 10^p * UNIT - UNIT \div 2

FloatPrecision == IF HasPrecision THEN Precision ELSE FLOAT_PRECISION
\* The sign of a negative zero is not printed.
Negative == asked.arg.negative /\ asked.arg.units > 0

\* Blanks fill the width and no more, on the side of the '-', and not with '0'.
RightlyFilled ==
  LET blanks == Len(Shown) - Len(Body)
                - (IF " " \in asked.flags /\ "+" \notin asked.flags /\ ~Negative THEN 1 ELSE 0)
  IN  /\ Len(Shown) >= Width
      /\ blanks > 0 => /\ Len(Shown) = Width /\ ("0" \in asked.flags => Left)
                       /\ Shown[IF Left THEN Len(Shown) ELSE 1] = " "

\* The sign of infinity takes no blank.
SpecialText == (IF asked.arg.special = "nan" THEN <<>>
                ELSE Sign(asked.arg.negative, IF "+" \in asked.flags THEN {"plus"} ELSE {}))
               \o (IF asked.arg.special = "nan" THEN <<"n", "a", "n">> ELSE <<"i", "n", "f">>)

\* But for a rounding that rolls over at a half, the number that is printed is
\* the nearest with its digits, up to the error of the arithmetic, and a reader
\* gets it back from the text: precision, exponent, sign, width and filling
\* agree, whether _ftoa, _etoa or _etoa by way of _ftoa wrote it.  What is not a
\* number is written as its name; '0' makes it ignore the width.
FloatsReadBack ==
  /\ Printed(DOUBLES) /\ asked.arg.special = "" /\ ~RollsOver
     => LET r == ReadBack(Body)
        IN  /\ IsNear(r) /\ RightlyFilled
            /\ r.negative = Negative
            /\ asked.conv \notin {"g", "G"} => Len(r.decimals) = FloatPrecision
            /\ \A i \in POWERS + 1 .. Len(r.decimals) : r.decimals[i] = "0"
  /\ Printed(DOUBLES) /\ asked.arg.special # ""
     => Shown = IF "0" \in asked.flags THEN SpecialText ELSE Justified(SpecialText)

\* "handle rollover, e.g. case 0.99 with prec 1 is 1.0" (_ftoa, printf.cc:362):
\* a fraction that is rounded up to one goes into the whole part.
RolloverHandled ==
  Printed({"f"}) /\ asked.arg.special = ""
  => Len(ReadBack(Body).decimals) = FloatPrecision

-----------------------------------------------------------------------------
(* Strings and numbers; bytes as in CString. *)

ByteOf == [c \in DIGIT \cup {"a", "b", "c", "d", "e", "f"} |->
             IF c \in DIGIT THEN 47 + SelectInSeq(LOWER, LAMBDA l : l = c)
             ELSE 86 + SelectInSeq(LOWER, LAMBDA l : l = c)]
           @@ ("A" :> 65 @@ "B" :> 66 @@ "C" :> 67 @@ "D" :> 68 @@ "E" :> 69 @@ "F" :> 70)
           @@ (" " :> 32 @@ "+" :> 43 @@ "-" :> 45 @@ "x" :> 120 @@ "X" :> 88)

\* What printf wrote, strtoul reads: the same number, to the end of the digits,
\* in the base of the directive or in the base that the prefix names.
NumbersReadBack ==
  Printed(INTEGERS) /\ asked.prec.n >= 0 /\ ~Misprinted /\ DigitsOf # <<>>
  /\ ("#" \in asked.flags => asked.conv # "b")
  => LET bytes == [i \in DOMAIN Shown |-> ByteOf[Shown[i]]]
         base  == IF "#" \in asked.flags /\ asked.conv \in {"x", "X", "o"} THEN 0
                  ELSE Base(asked.conv)
         read  == Strtoul(bytes, base)
     IN  /\ read.value = ValueOf % 2^ULONG_BITS
         /\ \A i \in read.end .. Len(bytes) : bytes[i] = 32

\* strtoul by the standard: the longest beginning that is blanks, a sign, 0x in
\* bases 0 and 16, and digits; the value is ULONG_MAX when it does not fit.  The
\* blanks are those that isspace of cstring.cc knows, space and tab.
Letter(c) == IF c \in 97 .. 122 THEN c - 87 ELSE IF c \in 65 .. 90 THEN c - 55 ELSE 99
Numerical(s, base) == s # <<>> /\ \A i \in DOMAIN s :
                        (IF s[i] \in 48 .. 57 THEN s[i] - 48 ELSE Letter(s[i])) < base
RECURSIVE Evaluated(_, _)
Evaluated(s, base) ==
  IF s = <<>> THEN 0
  ELSE LET c == Last(s)
       IN  Evaluated(Front(s), base) * base + (IF c \in 48 .. 57 THEN c - 48 ELSE Letter(c))

Blank(s) == LET b == {i \in DOMAIN s : \A j \in 1 .. i : s[j] \in {32, 9}} IN Cardinality(b)
\* The readings of the beginning s as a number: value and sign.
Readings(s, base) ==
  LET t == Behind(s, Blank(s))
      minus == t # <<>> /\ t[1] = 45
      u == IF t # <<>> /\ t[1] \in {43, 45} THEN Tail(t) ELSE t
      x == base \in {0, 16} /\ Len(u) > 2 /\ u[1] = 48 /\ u[2] \in {88, 120}
      b == IF x THEN 16 ELSE IF base # 0 THEN base
           ELSE IF u # <<>> /\ u[1] = 48 THEN 8 ELSE 10
      d == IF x THEN SubSeq(u, 3, Len(u)) ELSE u
  IN  {n \in {IF Numerical(d, b) THEN Evaluated(d, b) ELSE -1} : n >= 0} \X {minus}

RightStrtoul(s, base) ==
  LET ends == {e \in 1 .. Len(s) : Readings(SubSeq(s, 1, e), base) # {}}
      read == CHOOSE r \in Readings(SubSeq(s, 1, CHOOSE e \in ends : \A f \in ends : f <= e), base) : TRUE
  IN  IF ends = {} THEN [value |-> 0, end |-> 1]
      ELSE [value |-> IF read[1] > ULONG_MAX THEN ULONG_MAX
                      ELSE IF read[2] THEN (0 - read[1]) % 2^ULONG_BITS ELSE read[1],
            end   |-> 1 + CHOOSE e \in ends : \A f \in ends : f <= e]

\* A 0x without a digit behind it, of which the standard reads the 0, and the
\* code nothing: its end is the start of the string (cstring.cc:166).
BarePrefix(s) == \E i \in 1 .. Len(s) - 1 :
                   /\ s[i] = 48 /\ s[i+1] \in {88, 120}
                   /\ ~Numerical(SubSeq(s, i + 2, Lesser(Len(s), i + 2)), 16)
StrtoulRight(q) ==
  LET right == RightStrtoul(q.s, q.base)
  IN  /\ q.got.value = right.value
      /\ q.got.end = right.end \/ (q.base \in {0, 16} /\ BarePrefix(q.s))

\* s as a function that is 0 from its end on.
OrderedBefore(s, t, n) == \E i \in 1 .. n : /\ Byte(s, i) < Byte(t, i)
                                            /\ SubSeq(s, 1, i - 1) = SubSeq(t, 1, i - 1)
OccursAt(t, s) == {i \in 1 .. Len(s) + 1 : /\ i + Len(t) - 1 <= Len(s)
                                           /\ SubSeq(s, i, i + Len(t) - 1) = t}
IsFirst(i, set) == IF set = {} THEN i = 0 ELSE i \in set /\ \A j \in set : i <= j

StringsRight(q) ==
  LET text == Clip(q.s, q.n)
  IN  /\ q.got.cmp = 0 <=> text = Clip(q.t, q.n)
      /\ q.got.cmp < 0 <=> OrderedBefore(text, Clip(q.t, q.n), q.n)
      /\ q.got.rcmp = -q.got.cmp
      /\ IsFirst(q.got.at, OccursAt(q.t, q.s))
      /\ IsFirst(q.got.chr, {i \in 1 .. Len(q.s) + 1 : Byte(q.s, i) = q.c})
      /\ q.got.len = Len(q.s)
      /\ q.got.copy = text \o Times(0, q.n - Len(text)) \o Behind(q.mem, q.n)

\* Forward copying is right, also into an overlapping place before the source.
MemoryRight(q) ==
  /\ q.dest \notin q.src + 1 .. q.src + q.n - 1
     => \A i \in DOMAIN q.mem : q.got.copy[i] = IF i \in q.dest .. q.dest + q.n - 1
                                             THEN q.mem[i - q.dest + q.src] ELSE q.mem[i]
  /\ \A i \in DOMAIN q.mem : q.got.set[i] = IF i \in q.dest .. q.dest + q.n - 1
                                         THEN q.c ELSE q.mem[i]

\* Strings of one length that differ in one word, or for FNV in one byte, never
\* have the same hash: every step in between can be undone, so that no byte of
\* the string is lost.
HashesApart(q) ==
  LET Differ(size) == {(i - 1) \div size : i \in {j \in DOMAIN q.s : q.s[j] # q.t[j]}}
  IN  /\ Cardinality(Differ(WORD_LEN)) = 1 => q.got.s # q.got.t
      /\ Cardinality(Differ(1)) = 1 => q.got.fnvS # q.got.fnvT

\* strtoul, but for the end of a bare 0x and for digits z, reads what the
\* standard says, the string functions compare, find and copy what they should,
\* and the hashes tell strings apart (cstring.cc, string.cc, hash_bytes.cc).
StringsAreRight ==
  /\ Answered("hash")    => HashesApart(asked)
  /\ Answered("strtoul") => StrtoulRight(asked)
  /\ Answered("strings") => StringsRight(asked)
  /\ Answered("memory")  => MemoryRight(asked)

-----------------------------------------------------------------------------
(* The boot arguments. *)

EQUALS == 61
NameOnly(e, name) == /\ Clip(e, Len(name)) = name
                     /\ Byte(e, Len(name) + 1) # EQUALS
HeapLenRight(q) ==
  LET set == {e \in DOMAIN q.envp : Clip(q.envp[e], Len(ENV_HEAPLEN) + 1)
                                     = Append(ENV_HEAPLEN, EQUALS)}
      first == CHOOSE e \in set : \A f \in set : e <= f
  IN  IF set = {} THEN q.got = HEAPLEN_DEFAULT
      ELSE q.got = RightStrtoul(Behind(q.envp[first], Len(ENV_HEAPLEN) + 1), 0).value

Joined(argv) == FoldLeft(LAMBDA s, a : s \o a \o <<32>>, <<>>, argv)
CmdLineRight(q) ==
  LET line == Joined(q.argv)
  IN  q.got = IF line = <<>> THEN q.mem ELSE Append(Front(line), 0) \o Behind(q.mem, Len(line))

\* The heap's size is the value of the variable, unless the environment holds
\* a name that only begins like it; the heap starts with the arguments; and on
\* the Raspberry Pi the firmware's number ends the heap and its two blanks
\* begin the user's part (_heapLen, _addCmdLine, _systemSetup).
BootArgsRead ==
  /\ Answered("heapLen") /\ (\A e \in DOMAIN asked.envp : ~NameOnly(asked.envp[e], ENV_HEAPLEN))
     => HeapLenRight(asked)
  /\ Answered("addCmdLine") => CmdLineRight(asked)
  /\ Answered("firmware")
     => asked.got = [user |-> asked.user, end |-> RightStrtoul(asked.number, 16).value]
=============================================================================
