-------------------------------- MODULE Vectors -------------------------------
(***************************************************************************)
(* The lane loops of avx_core.cpp. A vector is a function from lanes to    *)
(* what an operation sees in them: words of bits, 16-bit integers, or      *)
(* floats, which are records [nan, negative, value]; the two zeros have    *)
(* one value.                                                              *)
(***************************************************************************)
EXTENDS Bits

CONSTANTS
  Lanes,            \* lanes of both 128-bit halves
  WordBits,         \* 64
  ShortBits,        \* 16
  Rounded(_, _, _)  \* Rounded(op, a, b): what the floating-point unit returns

ASSUME VectorsAssumption == WordBits \in Nat \ {0} /\ ShortBits \in Nat \ {0}

Lanewise(F(_, _), a, b) == [lane \in DOMAIN a |-> F(a[lane], b[lane])]

ZeroVector == [lane \in Lanes |-> 0]

BitsOf(op) ==
  [p \in 0..1 |-> [q \in 0..1 |->
     CASE op = "packed and"     -> p * q
       [] op = "packed and not" -> (1 - p) * q
       [] op = "packed or"      -> p + q - p * q
       [] op = "packed xor"     -> (p + q) % 2]]

Bitwise(op, a, b) ==
  LET word(u, v) == Combine(BitsOf(op), u, v, WordBits)
  IN  Lanewise(word, a, b)

\* The product is one of ints, and its low 16 bits are kept.
MultiplyLow(a, b) ==
  LET low(u, v) == (Signed(u, ShortBits) * Signed(v, ShortBits)) % TwoTo[ShortBits]
  IN  Lanewise(low, a, b)

\* The comparison of C++, which no NaN takes part in.
Greater(x, y) == ~ x.nan /\ ~ y.nan /\ x.value > y.value

\* a > b ? a : b, and a < b ? a : b.
Extreme(op, a, b) ==
  LET pick(x, y) == IF op = "packed max" THEN IF Greater(x, y) THEN x ELSE y
                    ELSE IF Greater(y, x) THEN x ELSE y
  IN  Lanewise(pick, a, b)

Floating(op, a, b) ==
  LET result(x, y) == Rounded(op, x, y) IN Lanewise(result, a, b)
=============================================================================
