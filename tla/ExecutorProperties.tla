-------------------------- MODULE ExecutorProperties --------------------------
(***************************************************************************)
(* What the handlers compute, against the arithmetic they stand for.       *)
(***************************************************************************)
EXTENDS Executor

Returned(ops) == outcome = "returned" /\ op \in ops

\* The operands and the result, of the operand size.
Left   == Get(before.rax, bits)
Right  == Get(source, bits)
Result == Get(rax, bits)

(* However the operand size and the opcode, a call leaves the part of the  *)
(* register beyond the operand alone, and clears it behind a 32-bit result *)
(* (register_map.cpp, set8 to set64). A comparison, a divide error and an  *)
(* opcode without a case change no register at all.                        *)
RegisterParts ==
  outcome # "called" =>
    IF op \in {"cmp", "unsupported"} \cup Packed \/ outcome = "halted"
    THEN rax = before.rax /\ rdx = before.rdx
    ELSE op \notin {"mul", "imul"} => rax \div Modulus(bits) =
           IF bits = 32 THEN 0 ELSE before.rax \div Modulus(bits)

(* Addition, subtraction and comparison (handle_ir_add, _sub, _cmp) agree  *)
(* with integer arithmetic in all sizes: the result is congruent to the    *)
(* exact one, CF says that the exact one does not fit, SF that the result  *)
(* is negative as two's complement, and ZF that the operands cancel out.   *)
ArithmeticExact ==
  LET exact  == IF op = "add" THEN Left + Right ELSE Left - Right
      result == IF op = "cmp" THEN exact % Modulus(bits) ELSE Result
  IN  Returned(Arithmetic) =>
        /\ (exact - result) % Modulus(bits) = 0
        /\ cf <=> exact \notin 0..(Modulus(bits) - 1)
        /\ sf <=> Signed(result, Width[bits]) < 0
        /\ zf <=> exact \in {0, Modulus(bits)}

(* A value and a carry, shifted by one place within w bits.                *)
ShiftedOnce(v, w) ==
  CASE op = "shl" -> [value |-> (2 * v) % TwoTo[w], carry |-> v >= TwoTo[w - 1]]
    [] op = "shr" -> [value |-> v \div 2, carry |-> v % 2 = 1]
    [] op = "sar" -> [value |-> (v \div 2) + (IF v >= TwoTo[w - 1] THEN TwoTo[w - 1] ELSE 0),
                      carry |-> v % 2 = 1]

Places == source % Modulus(8)

Shifted(v, w, n) ==
  LET after[k \in 0..n] ==
        IF k = 0 THEN [value |-> v, carry |-> before.cf]
        ELSE ShiftedOnce(after[k - 1].value, w)
  IN  after[n]

(* A shift by n places (handle_ir_shl, _shr, _sar) is n shifts by one, and *)
(* CF the last bit out of it; a shift by one sets OF when the sign is not  *)
(* what it was, except that OF is the old sign for shr. Stated for the 32  *)
(* bits the handlers compute in.                                           *)
ShiftsRepeat ==
  Returned(Shifts) /\ bits = 32 /\ Places < Width[32] =>
    LET shifted == Shifted(Left, Width[32], Places)
    IN  /\ Result = shifted.value /\ cf = shifted.carry
        /\ zf <=> Result = 0
        /\ sf <=> Signed(Result, Width[32]) < 0
        /\ of = IF Places = 1
                THEN SignBit(Left, 32) # SignBit(Result, 32) ELSE before.of

(* What tests/ir_executor_test.cpp:73-86 expects of handle_ir_shl: 1011 in *)
(* eax, shifted left by two places, becomes 101100, and CF is set: "Last   *)
(* bit shifted out was 1". The handler takes CF from bit 30, as ShiftsRepeat *)
(* has it, and the ones of so small a number never get that far.           *)
ShlSetsCarry ==
  op = "shl" /\ bits = 32 /\ Left = 11 /\ Places = 2 /\ outcome = "returned" =>
    Result = 44 /\ cf

(* A left or right shift of a shorter register is right as well, if not    *)
(* its flags, which are those of the 32 bits it is computed in.            *)
ShortShiftsRepeat ==
  Returned({"shl", "shr"}) /\ bits < 32 /\ Places < Width[32] =>
    Result = Shifted(Left, Width[bits], Places).value

(* handle_ir_div divides: quotient and remainder are those of the double-  *)
(* width dividend, and #DE means that no quotient fits its register.       *)
DivisionExact ==
  LET divisor  == Get(source, bits)
      dividend == IF bits = 8 THEN Get(before.rax, 16)
                  ELSE Get(before.rdx, bits) * Modulus(bits) + Left
      Divides(q, r) == q * divisor + r = dividend /\ r \in 0..(divisor - 1)
  IN  op = "div" =>
        /\ outcome = "returned" => Divides(Result, Get(rdx, bits))
        /\ outcome = "threw" => Divides(Result, dividend % divisor)
        /\ outcome = "halted" =>
             ~ \E q \in 0..(Modulus(bits) - 1) : Divides(q, dividend - q * divisor)

(* A packed operation (handle_ir_packed_*, avx_core.cpp) changes its first *)
(* register alone, also when both are the same, and nothing at all when    *)
(* the architecture lacks a name for one. In every lane of both halves the *)
(* bits are those of the logical formula, packed and not inverting the     *)
(* first operand; a product is congruent to that of the signed and of the  *)
(* unsigned integers; a maximum or minimum bounds both operands, and is    *)
(* the second one if they are equal or do not compare.                     *)
PackedExact ==
  op \in Packed /\ outcome # "called" =>
    /\ \A v \in Vectors256 : (v # dest \/ outcome = "threw") => ymm[v] = before.ymm[v]
    /\ outcome = "threw" <=> \E v \in Operands : v \in UnmappedVectors
    /\ outcome = "returned" => \A lane \in Lanes :
         LET a == before.ymm[dest][lane]
             b == before.ymm[src][lane]
             r == ymm[dest][lane]
             Compares == ~ a.nan /\ ~ b.nan /\ a.value # b.value
         IN  /\ op \in PackedBits => \A k \in 0..(WordBits - 1) :
                  LET p == Bit(a, k) = 1
                      q == Bit(b, k) = 1
                  IN  Bit(r, k) = 1 <=> CASE op = "packed and"     -> p /\ q
                                          [] op = "packed and not" -> ~ p /\ q
                                          [] op = "packed or"      -> p \/ q
                                          [] op = "packed xor"     -> p # q
             /\ op = "packed mul low" =>
                  \A x \in {a, a - TwoTo[ShortBits]}, y \in {b, b - TwoTo[ShortBits]} :
                    (r - x * y) % TwoTo[ShortBits] = 0
             /\ op \in PackedExtremes =>
                  IF ~ Compares THEN r = b
                  ELSE r \in {a, b} /\ \A x \in {a, b} :
                         IF op = "packed max" THEN r.value >= x.value ELSE r.value <= x.value
=============================================================================
