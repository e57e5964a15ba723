----------------------------- MODULE Serializer -----------------------------
(***************************************************************************)
(* The integer and float encodings of Serializer (serializer.cpp).  A byte *)
(* has Base values instead of 256, so that TLC can try every integer of    *)
(* 2, 4 and 8 bytes.  Shifting a number right by k bytes is division by    *)
(* Power(Base, k) rounded down, as >> of a negative int64_t is, and & 0xFF *)
(* is the remainder modulo Base.                                           *)
(***************************************************************************)
EXTENDS Integers, Sequences

CONSTANTS
  Base,      \* values of a byte
  WordBits   \* bits of a long long and of a uint64_t

ASSUME BaseAssumption == Base \in Nat \ {0} /\ Base % 2 = 0
ASSUME WordAssumption == WordBits \in Nat \ {0}

\* What a shift by n digits to the base b multiplies or divides by.
Power(b, n) ==
  LET power[k \in 0..n] == IF k = 0 THEN 1 ELSE b * power[k - 1]
  IN power[n]

\* The integer types of w bytes.
Limit(w) == Power(Base, w)
Ints(w) == -(Limit(w) \div 2)..(Limit(w) \div 2 - 1)

\* The conversion of any integer to the signed type, and to the unsigned one.
Signed(x, w) == ((x + Limit(w) \div 2) % Limit(w)) - Limit(w) \div 2

Unsigned(x, w) == x % Limit(w)

\* Mutant of Serialized: the most significant byte is forgotten.
SerializedShort(num, w) ==
  [k \in 1..w |-> IF k = 1 THEN 0 ELSE (num \div Power(Base, w - k)) % Base]

\* serialize_int16, _int32 and _int64, for w = 2, 4 and 8: the most significant
\* of the low w bytes of num comes first.
Serialized(num, w) == [k \in 1..w |-> (num \div Power(Base, w - k)) % Base]

\* deserialize_int16, _int32 and _int64: result = (result << 8) | byte, kept in
\* the signed type.
Deserialized(buff) ==
  LET result[k \in 0..Len(buff)] ==
        IF k = 0 THEN 0 ELSE Signed(result[k - 1] * Base + buff[k], Len(buff))
  IN result[Len(buff)]

(***************************************************************************)
(* A word of WordBits bits instead of 64 is the set of its bits that are   *)
(* 1, so that | is the union of two words.                                 *)
(***************************************************************************)
Words == SUBSET (0..(WordBits - 1))

\* The word that holds an integer, in two's complement.
Bits(n) == {i \in 0..(WordBits - 1) : (n \div Power(2, i)) % 2 = 1}

\* What << n can make of a word: a shift by the width of the word or more is
\* undefined.
ShiftLeft(w, n) ==
  IF n < WordBits THEN {{i + n : i \in w} \cap 0..(WordBits - 1)} ELSE Words

\* Mutant of SerializedFloat: the leading 1 is not taken off the fraction.
SerializedFloatWhole(sign, exp, frac, fracBits, p) ==
  {s \cup e \cup Bits((Power(2, fracBits) + frac) \div Power(2, fracBits - p.significand)) :
     s \in ShiftLeft(sign, p.total), e \in ShiftLeft(Bits(exp + p.bias), p.significand)}

(***************************************************************************)
(* The words that serialize_float can return for a number that is not      *)
(* zero, with binary exponent exp and a fraction of fracBits bits, and a   *)
(* precision p (see get_precision_info).  Bits of the fraction beyond the  *)
(* significand are cut off.                                                *)
(***************************************************************************)
SerializedFloat(sign, exp, frac, fracBits, p) ==
  {s \cup e \cup Bits(frac \div Power(2, fracBits - p.significand)) :
     s \in ShiftLeft(sign, p.total), e \in ShiftLeft(Bits(exp + p.bias), p.significand)}
=============================================================================
