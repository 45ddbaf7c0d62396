-------------------------------- MODULE Hash --------------------------------
(* libsupcxx/src/hash_bytes.cc in its 64-bit form: the Murmur hash and FNV.  *)
(* The sizes of a byte and of a word, the multipliers and the shift are      *)
(* constants; a string of bytes is a sequence of numbers.                    *)
EXTENDS Integers, Sequences, SequencesExt

CONSTANTS BYTE,        \* the values of a byte, 256
          WORD_LEN,    \* bytes of a size_t, 8
          MUL, SHIFT,  \* of the Murmur hash: 0xc6a4a7935bd1e995 and 47
          FNV_PRIME    \* 1099511628211

ASSUME HashAssumption == /\ BYTE \in Nat \ {0, 1} /\ WORD_LEN \in Nat \ {0}
                         /\ MUL % 2 = 1 /\ FNV_PRIME % 2 = 1 /\ SHIFT \in Nat

SIZE_VALUES == BYTE^WORD_LEN

\* a ^ b, one bit at a time.
XorOf[a \in Nat, b \in Nat] ==
  IF a = 0 \/ b = 0 THEN a + b
  ELSE ((a + b) % 2) + 2 * XorOf[a \div 2, b \div 2]

Mul(a, b) == (a * b) % SIZE_VALUES
ShiftMix(v) == XorOf[v, v \div 2^SHIFT]

\* unaligned_load, and load_bytes of the last few: the first byte is the lowest.
Load(bytes) == FoldRight(LAMBDA b, v : v * BYTE + b, bytes, 0)

\* _Hash_bytes
HashBytes(buf, seed) ==
  LET words == Len(buf) \div WORD_LEN
      Word(i) == SubSeq(buf, (i - 1) * WORD_LEN + 1, i * WORD_LEN)
      Mix(hash, i) == Mul(XorOf[hash, Mul(ShiftMix(Mul(Load(Word(i)), MUL)), MUL)], MUL)
      mixed == FoldLeft(Mix, XorOf[seed, Mul(Len(buf), MUL)], [i \in 1 .. words |-> i])
      rest  == SubSeq(buf, words * WORD_LEN + 1, Len(buf))
      hash  == IF rest = <<>> THEN mixed ELSE Mul(XorOf[mixed, Load(rest)], MUL)
  IN  ShiftMix(Mul(ShiftMix(hash), MUL))

\* _Fnv_hash_bytes: the characters keep their sign when they are widened.
Widened(b, signed) == IF signed /\ 2 * b >= BYTE THEN SIZE_VALUES - BYTE + b ELSE b
FnvHashBytes(buf, seed, signed) ==
  FoldLeft(LAMBDA hash, b : Mul(XorOf[hash, Widened(b, signed)], FNV_PRIME), seed, buf)
=============================================================================
