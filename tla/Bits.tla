--------------------------------- MODULE Bits ---------------------------------
(***************************************************************************)
(* Binary numbers of a given width.                                        *)
(***************************************************************************)
EXTENDS Integers

\* 2^n.
TwoTo[n \in Nat] == IF n = 0 THEN 1 ELSE 2 * TwoTo[n - 1]

Bit(n, k) == (n \div TwoTo[k]) % 2

\* The number of width w whose bits are those of a and b, combined by the
\* table op.
Combine(op, a, b, w) ==
  LET sum[k \in 0..w] ==
        IF k = 0 THEN 0
        ELSE sum[k - 1] + op[Bit(a, k - 1)][Bit(b, k - 1)] * TwoTo[k - 1]
  IN  sum[w]

\* The value of v as two's complement of width w.
Signed(v, w) == IF v >= TwoTo[w - 1] THEN v - TwoTo[w] ELSE v
=============================================================================
