-------------------------------- MODULE Words --------------------------------
(***************************************************************************)
(* Machine words, for the processor and for its specification.             *)
(***************************************************************************)
EXTENDS Bits

CONSTANT WordSize   \* 2^32

Word == 0..(WordSize - 1)

\* The sign bit is set.
Negative(v) == v >= WordSize \div 2

\* The bits of a and b that differ.
ExclusiveOr(a, b) ==
  LET differ == [p \in 0..1 |-> [q \in 0..1 |-> IF p = q THEN 0 ELSE 1]]
      width  == CHOOSE w \in 0..WordSize : TwoTo[w] = WordSize
  IN  Combine(differ, a, b, width)
=============================================================================
