------------------------------ MODULE MCExecutor ------------------------------
(***************************************************************************)
(* Operands of 3, 4, 5 and 6 bits stand for those of 8, 16, 32 and 64; two *)
(* lanes, one in each half, for those of a vector; words of two bits and   *)
(* integers of three in them. Of the floats there are two numbers, both    *)
(* zeros and a NaN; what the floating-point unit returns is left open as   *)
(* a term.                                                                 *)
(***************************************************************************)
EXTENDS LegacyHandlers

MCWidth == [size \in Sizes |->
              CASE size = 8 -> 3 [] size = 16 -> 4 [] size = 32 -> 5 [] size = 64 -> 6]

\* No high half, low ones, the least signed one, and one that no quotient fits.
MCHighs == {0, 1, 2, 5, 14, 16, 33, 63}

MCLanes == {"low", "high"}
MCWords  == [MCLanes -> 0..3]
MCShorts == [MCLanes -> 0..7]

Number(v, negative) == [nan |-> FALSE, negative |-> negative, value |-> v]

MCFloats ==
  [MCLanes -> {Number(-1, TRUE), Number(0, TRUE), Number(0, FALSE), Number(2, FALSE),
               [nan |-> TRUE, negative |-> FALSE, value |-> 0]}]

(* For the shift of 1011 by two places that a test makes, registers wide   *)
(* enough to hold the result, and nothing in the vectors.                  *)
MCWiderWidth == [size \in Sizes |->
                   CASE size = 8 -> 2 [] size = 16 -> 3 [] size = 32 -> 6 [] size = 64 -> 7]

MCNoHighs  == {0}
MCNoWords  == {[lane \in MCLanes |-> 0]}
MCNoFloats == {[lane \in MCLanes |-> Number(0, FALSE)]}

MCRounded(operation, x, y) == <<operation, x, y>>
=============================================================================
