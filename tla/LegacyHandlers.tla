---------------------------- MODULE LegacyHandlers ----------------------------
(***************************************************************************)
(* The handlers that the IR replaces, of x86_simulator_private_helpers.cpp:*)
(* what each makes of the 32-bit registers eax and edx and of the flags,   *)
(* with the operand in a register (for a shift: a count). They work in 32  *)
(* bits only, and take the signs of operands and result apart where the IR *)
(* handlers compare with the larger type.                                  *)
(***************************************************************************)
EXTENDS ExecutorProperties

Bits32   == Width[32]
Two32    == TwoTo[Bits32]
Top(v)   == v \div TwoTo[Bits32 - 1] = 1   \* v & 0x80000000

\* The registers and flags a handler starts from.
Old == [eax |-> Get(before.rax, 32), edx |-> Get(before.rdx, 32),
        zf |-> FALSE, sf |-> FALSE, cf |-> before.cf, of |-> before.of]

Operand == Get(source, 32)

WithResult(state, result) ==
  [state EXCEPT !.eax = result, !.zf = (result = 0), !.sf = Top(result)]

LegacyMove == [Old EXCEPT !.eax = Operand]

LegacyAdd ==
  LET result == (Old.eax + Operand) % Two32
  IN  [WithResult(Old, result) EXCEPT
         !.cf = result < Old.eax,
         !.of = Top(Old.eax) = Top(Operand) /\ Top(Old.eax) # Top(result)]

LegacySub ==
  LET result == (Old.eax - Operand) % Two32
  IN  [WithResult(Old, result) EXCEPT
         !.cf = Old.eax < Operand,
         !.of = Top(Old.eax) # Top(Operand) /\ Top(Old.eax) # Top(result)]

LegacyCmp == [LegacySub EXCEPT !.eax = Old.eax]

LegacyInc ==
  [WithResult(Old, (Old.eax + 1) % Two32) EXCEPT !.of = (Old.eax = Two32 \div 2 - 1)]

LegacyDec ==
  [WithResult(Old, (Old.eax - 1) % Two32) EXCEPT !.of = (Old.eax = Two32 \div 2)]

LegacyMul ==
  LET product == Old.eax * Operand
      high    == product \div Two32
  IN  [Old EXCEPT !.eax = product % Two32, !.edx = high,
                  !.cf = (high # 0), !.of = (high # 0)]

LegacyImul ==
  LET product == Signed(Old.eax, Bits32) * Signed(Operand, Bits32)
      low     == product % Two32
      high    == (product \div Two32) % Two32
      large   == ~ \/ high = 0 /\ ~ Top(low)
                   \/ high = Two32 - 1 /\ Top(low)
  IN  [Old EXCEPT !.eax = low, !.edx = high, !.cf = large, !.of = large]

\* An error is logged, and the registers stay.
LegacyDiv ==
  LET dividend == Old.edx * Two32 + Old.eax
  IN  IF Operand = 0 THEN Old
      ELSE IF dividend \div Operand > Two32 - 1 THEN Old
      ELSE [Old EXCEPT !.eax = dividend \div Operand, !.edx = dividend % Operand]

LegacyLogic ==
  [WithResult(Old, Combine(BitOf, Old.eax, Operand, Bits32)) EXCEPT
     !.cf = FALSE, !.of = FALSE]

LegacyNot == [Old EXCEPT !.eax = Two32 - 1 - Old.eax]

LegacyCount == Get(source, 8) % Bits32

LegacyShl ==
  IF LegacyCount = 0 THEN Old
  ELSE [WithResult(Old, (Old.eax * TwoTo[LegacyCount]) % Two32) EXCEPT
          !.cf = (Bit(Old.eax, Bits32 - LegacyCount) = 1),
          !.of = IF LegacyCount = 1
                 THEN Bit(Old.eax, Bits32 - 1) # Bit(Old.eax, Bits32 - 2) ELSE @]

LegacyShr ==
  IF LegacyCount = 0 THEN Old
  ELSE [WithResult(Old, Old.eax \div TwoTo[LegacyCount]) EXCEPT
          !.cf = (Bit(Old.eax, LegacyCount - 1) = 1),
          !.of = IF LegacyCount = 1 THEN Top(Old.eax) ELSE @]

LegacySar ==
  IF LegacyCount = 0 THEN Old
  ELSE [WithResult(Old, (Signed(Old.eax, Bits32) \div TwoTo[LegacyCount]) % Two32) EXCEPT
          !.cf = (Bit(Old.eax, LegacyCount - 1) = 1),
          !.of = IF LegacyCount = 1 THEN FALSE ELSE @]

\* Mutant: a right rotation reports the bit a left one would.
LegacyRorLow ==
  LET result == (Old.eax \div TwoTo[LegacyCount]
                   + Old.eax * TwoTo[Bits32 - LegacyCount]) % Two32
  IN  IF LegacyCount = 0 THEN Old
      ELSE [Old EXCEPT !.eax = result, !.cf = (Bit(result, 0) = 1)]

LegacyRol ==
  LET result == (Old.eax * TwoTo[LegacyCount]
                   + Old.eax \div TwoTo[Bits32 - LegacyCount]) % Two32
      low    == Bit(result, 0) = 1
  IN  IF LegacyCount = 0 THEN Old
      ELSE [Old EXCEPT !.eax = result, !.cf = low,
                       !.of = IF LegacyCount = 1 THEN Top(result) # low ELSE @]

LegacyRor ==
  LET result == (Old.eax \div TwoTo[LegacyCount]
                   + Old.eax * TwoTo[Bits32 - LegacyCount]) % Two32
  IN  IF LegacyCount = 0 THEN Old
      ELSE [Old EXCEPT !.eax = result, !.cf = Top(result),
                       !.of = IF LegacyCount = 1
                              THEN Top(result) # (Bit(result, Bits32 - 2) = 1) ELSE @]

\* The quotient of C++, which is cut off towards zero.
Magnitude(n)    == IF n < 0 THEN -n ELSE n
Truncated(n, d) == LET q == Magnitude(n) \div Magnitude(d)
                   IN  IF (n < 0) = (d < 0) THEN q ELSE -q

SignedDividend == Signed(Old.edx * Two32 + Old.eax, 2 * Bits32)
SignedDivisor  == Signed(Operand, Bits32)

\* The least dividend by -1 overflows the division itself, which comes before
\* the test of the quotient: undefined, and a trap on x86.
IdivTraps == SignedDivisor = -1 /\ SignedDividend = -(TwoTo[2 * Bits32 - 1])

\* Mutant: the quotient is tested as an unsigned one is.
LegacyIdivUnsigned ==
  IF SignedDivisor = 0 THEN Old
  ELSE LET quotient == Truncated(SignedDividend, SignedDivisor)
       IN  IF quotient > Two32 - 1 THEN Old
           ELSE [Old EXCEPT !.eax = quotient % Two32,
                   !.edx = (SignedDividend - quotient * SignedDivisor) % Two32]

LegacyIdiv ==
  IF SignedDivisor = 0 THEN Old
  ELSE LET quotient == Truncated(SignedDividend, SignedDivisor)
       IN  IF quotient \notin -(Two32 \div 2)..(Two32 \div 2 - 1) THEN Old
           ELSE [Old EXCEPT !.eax = quotient % Two32,
                   !.edx = (SignedDividend - quotient * SignedDivisor) % Two32]

\* Whether the handler of a conditional jump sets rip to the target: those
\* that look at SF or OF, and the others.
SignedJumps(state, condition) ==
  CASE condition = "s"  -> state.sf
    [] condition = "ns" -> ~ state.sf
    [] condition = "o"  -> state.of
    [] condition = "no" -> ~ state.of
    [] condition = "l"  -> state.sf # state.of
    [] condition = "ge" -> state.sf = state.of
    [] condition = "le" -> state.zf \/ state.sf # state.of
    [] condition = "g"  -> ~ state.zf /\ state.sf = state.of

\* Mutant: below or equal looks at the carry only.
JumpsBelowOnly(state, condition) ==
  CASE condition = "e"  -> state.zf
    [] condition = "ne" -> ~ state.zf
    [] condition \in {"b", "be"} -> state.cf
    [] condition \in {"a", "ae"} -> ~ state.cf
    [] OTHER -> SignedJumps(state, condition)

Jumps(state, condition) ==
  CASE condition = "e"  -> state.zf
    [] condition = "ne" -> ~ state.zf
    [] condition = "b"  -> state.cf
    [] condition = "ae" -> ~ state.cf
    [] condition = "be" -> state.cf \/ state.zf
    [] condition = "a"  -> ~ state.cf /\ ~ state.zf
    [] OTHER -> SignedJumps(state, condition)

Legacy ==
  CASE op = "move" -> LegacyMove
    [] op = "add"  -> LegacyAdd
    [] op = "sub"  -> LegacySub
    [] op = "cmp"  -> LegacyCmp
    [] op = "inc"  -> LegacyInc
    [] op = "dec"  -> LegacyDec
    [] op = "mul"  -> LegacyMul
    [] op = "imul" -> LegacyImul
    [] op = "div"  -> LegacyDiv
    [] op = "not"  -> LegacyNot
    [] op = "shl"  -> LegacyShl
    [] op = "shr"  -> LegacyShr
    [] op = "sar"  -> LegacySar
    [] op \in Logic -> LegacyLogic

Ended == [eax |-> Get(rax, 32), edx |-> Get(rdx, 32),
          zf |-> zf, sf |-> sf, cf |-> cf, of |-> of]

\* The part of a state in which the two should not differ: a shift by no
\* places sets ZF and SF now, and set nothing then; OF is compared apart.
Comparable(state) ==
  IF op \in Shifts /\ Places = 0 THEN [state EXCEPT !.zf = FALSE, !.sf = FALSE]
  ELSE IF op \in Arithmetic THEN [state EXCEPT !.of = FALSE]
  ELSE state

SignedOverflow ==
  LET a == Signed(Old.eax, Bits32)
      b == Signed(Operand, Bits32)
  IN  (IF op = "add" THEN a + b ELSE a - b)
        \notin -(Two32 \div 2)..(Two32 \div 2 - 1)

(* On 32-bit registers the IR handlers do what the ones they replace did:  *)
(* the same registers and the same CF, ZF and SF, for all operands, after  *)
(* a divide error, and for every count a shift has a defined result for;   *)
(* and the same OF except after add, sub and cmp, where the old handlers   *)
(* found signed overflow and the new ones leave OF as it was.              *)
MigrationAgrees ==
  /\ bits = 32 /\ op \in Scalar \ {"unsupported"} /\ outcome # "called"
  /\ op \in Shifts => Places < Bits32
  => /\ Comparable(Ended) = Comparable(Legacy)
     /\ op \in Arithmetic => of = before.of /\ Legacy.of = SignedOverflow

\* What the conditions say of the operands of a comparison.
Decides(condition) ==
  LET a == Old.eax
      b == Operand
      m == Signed(a, Bits32)
      n == Signed(b, Bits32)
  IN  CASE condition = "e"  -> a = b
        [] condition = "ne" -> a # b
        [] condition = "b"  -> a < b
        [] condition = "ae" -> a >= b
        [] condition = "be" -> a <= b
        [] condition = "a"  -> a > b
        [] condition = "l"  -> m < n
        [] condition = "ge" -> m >= n
        [] condition = "le" -> m <= n
        [] condition = "g"  -> m > n
        [] condition = "o"  -> SignedOverflow
        [] condition = "no" -> ~ SignedOverflow
        [] condition = "s"  -> (m < n) # SignedOverflow
        [] condition = "ns" -> (m < n) = SignedOverflow

Unsigned32 == {"e", "ne", "b", "ae", "be", "a", "s", "ns"}
Signed32   == {"l", "ge", "le", "g", "o", "no"}

(* After the old cmp, all fourteen conditional jumps (handleJe to handleJa)*)
(* decide the comparison of the operands as unsigned and signed integers.  *)
(* On the flags of the new cmp (handle_ir_cmp) those without OF still do;  *)
(* the others do if an earlier instruction happens to have left OF as the  *)
(* comparison would have set it, and of equal operands le and g anyway.    *)
JumpsDecide ==
  op = "cmp" /\ bits = 32 /\ outcome = "returned" =>
    /\ \A condition \in Unsigned32 \cup Signed32 :
         Jumps(LegacyCmp, condition) <=> Decides(condition)
    /\ \A condition \in Unsigned32 : Jumps(Ended, condition) <=> Decides(condition)
    /\ \A condition \in Signed32 :
         (Jumps(Ended, condition) <=> Decides(condition)) <=>
           \/ before.of = SignedOverflow
           \/ condition \in {"le", "g"} /\ Old.eax = Operand

RotatedOnce(v) ==
  IF op = "shl" THEN ((2 * v) % Two32) + v \div (Two32 \div 2)
  ELSE (v \div 2) + (v % 2) * (Two32 \div 2)

(* A rotation by n places, n taken modulo the width (handleRol, handleRor),*)
(* is n rotations by one; CF is the bit that the last of them has moved    *)
(* around, and OF tells whether a rotation by one has changed the sign.    *)
RotatesRepeat ==
  LET rotated[n \in 0..Bits32] == IF n = 0 THEN Old.eax ELSE RotatedOnce(rotated[n - 1])
      ended == IF op = "shl" THEN LegacyRol ELSE LegacyRor
  IN  op \in {"shl", "shr"} /\ bits = 32 =>
        /\ ended.eax = rotated[LegacyCount]
        /\ LegacyCount > 0 =>
             ended.cf = IF op = "shl" THEN Top(rotated[LegacyCount - 1])
                        ELSE rotated[LegacyCount - 1] % 2 = 1
        /\ LegacyCount = 1 => ended.of = (Top(Old.eax) # Top(ended.eax))
        /\ LegacyCount = 0 => ended = Old

(* handleIdiv either divides, with a quotient cut off towards zero and a   *)
(* remainder of the sign of the dividend, or changes nothing because there *)
(* is no quotient or none that fits eax. Dividing the least dividend by -1 *)
(* is not covered: it traps.                                               *)
IdivExact ==
  LET quotient  == Signed(LegacyIdiv.eax, Bits32)
      remainder == Signed(LegacyIdiv.edx, Bits32)
      Divides(q, r) ==
        /\ q * SignedDivisor + r = SignedDividend
        /\ Magnitude(r) < Magnitude(SignedDivisor)
        /\ r = 0 \/ (r < 0) = (SignedDividend < 0)
  IN  op = "div" /\ bits = 32 /\ ~ IdivTraps =>
        \/ Divides(quotient, remainder)
        \/ /\ LegacyIdiv = Old
           /\ ~ \E q \in -(Two32 \div 2)..(Two32 \div 2 - 1) :
                  Divides(q, SignedDividend - q * SignedDivisor)
=============================================================================
