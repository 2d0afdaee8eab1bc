------------------------------- MODULE Executor -------------------------------
(***************************************************************************)
(* One call of X86Simulator::execute_ir_instruction, from any registers    *)
(* and flags: the handlers of ir_executor_helpers.cpp for the general      *)
(* registers, in the four operand sizes they distinguish, on the register  *)
(* map, where the four sizes are parts of one 64-bit register.             *)
(*                                                                         *)
(* The destination is rax. The source operand, in a register or immediate, *)
(* is a 64-bit number that each handler narrows itself. The widths are     *)
(* those of Bits32 and so on: a model may choose smaller ones. The packed  *)
(* operations take two vector registers, the first of them the result.     *)
(***************************************************************************)
EXTENDS Vectors

CONSTANTS
  Width,        \* the number of bits of the sizes 8, 16, 32 and 64
  Highs,        \* the values of rdx a division starts from
  MappedVectors, UnmappedVectors,    \* by whether an Architecture names them
  Words, Shorts, Floats   \* contents of the vector registers

Sizes == {8, 16, 32, 64}

ASSUME ExecutorAssumption ==
  /\ Width \in [Sizes -> Nat]
  /\ 1 < Width[8] /\ Width[8] < Width[16]
  /\ Width[16] < Width[32] /\ Width[32] < Width[64]
  /\ Highs \subseteq 0..(TwoTo[Width[64]] - 1)
  /\ MappedVectors # {} /\ MappedVectors \cap UnmappedVectors = {}
  /\ Words \subseteq [Lanes -> 0..(TwoTo[WordBits] - 1)]
  /\ Shorts \subseteq [Lanes -> 0..(TwoTo[ShortBits] - 1)]
  /\ Floats \subseteq [Lanes -> [nan : BOOLEAN, negative : BOOLEAN, value : Int]]

Arithmetic == {"add", "sub", "cmp"}
Logic      == {"and", "or", "xor"}
Shifts     == {"shl", "shr", "sar"}

\* Handlers that no case of the dispatch calls: called as they stand.
Uncalled == {"inc", "dec", "mul", "imul"}

PackedBits   == {"packed and", "packed and not", "packed or", "packed xor"}
PackedExtremes == {"packed max", "packed min"}
PackedBinary == {"packed add", "packed sub", "packed mul", "packed div"}
PackedUnary  == {"packed sqrt", "packed reciprocal"}
Packed == PackedBits \cup PackedExtremes \cup PackedBinary \cup PackedUnary
            \cup {"packed mul low", "vector zero"}

\* "unsupported" is any opcode without a case (Load, Store, Mul, Nop, ...).
Scalar  == Arithmetic \cup Logic \cup Shifts \cup {"not", "div", "move", "unsupported"}
             \cup Uncalled
Opcodes == Scalar \cup Packed

Vectors256 == MappedVectors \cup UnmappedVectors

Quad == 0..(TwoTo[Width[64]] - 1)

VARIABLES
  op, bits,     \* the IR opcode and the size of its operands
  source,       \* the value of the source operand
  dest, src,    \* the vector registers of a packed operation
  before,       \* the registers, cf and of when the handler is called
  rax, rdx,
  ymm,          \* the contents of the vector registers
  zf, sf, cf, of,
  outcome       \* "called", "returned", "halted" (rip past the memory) or "threw"

input == <<op, bits, source, dest, src, before>>
flags == <<zf, sf, cf, of>>
vars  == <<input, rax, rdx, ymm, flags, outcome>>

ExecutorTypeOK ==
  /\ op \in Opcodes
  /\ bits \in Sizes
  /\ source \in Quad
  /\ dest \in Vectors256 /\ src \in Vectors256
  /\ before.rax \in Quad /\ before.rdx \in Quad
  /\ rax \in Quad /\ rdx \in Quad
  /\ DOMAIN ymm = Vectors256 /\ \A v \in Vectors256 : DOMAIN ymm[v] = Lanes
  /\ zf \in BOOLEAN /\ sf \in BOOLEAN /\ cf \in BOOLEAN /\ of \in BOOLEAN
  /\ outcome \in {"called", "returned", "halted", "threw"}

-----------------------------------------------------------------------------
(* The register map.                                                       *)

\* The number of values of an operand of one size.
Modulus(size) == TwoTo[Width[size]]

\* What get8, get16, get32 and get64 return of the register v.
Get(v, size) == v % Modulus(size)

\* Mutant: a 32-bit write keeps the upper half, as the shorter ones do.
SetKeepingUpper(v, size, value) ==
  IF size = 64 THEN value % Modulus(64)
  ELSE v - Get(v, size) + (value % Modulus(size))

\* Mutant: a 64-bit value is not narrowed to the register.
SetUnmasked(v, size, value) ==
  IF size = 64 THEN value
  ELSE IF size = 32 THEN value % Modulus(32)
  ELSE v - Get(v, size) + (value % Modulus(size))

\* The register v after set8, set16, set32 or set64: a 32-bit value clears
\* the upper half, a shorter one leaves the rest of the register alone.
Set(v, size, value) ==
  IF size \in {32, 64} THEN value % Modulus(size)
  ELSE v - Get(v, size) + (value % Modulus(size))

-----------------------------------------------------------------------------
(* The handlers.                                                           *)

CalledWith(ops) == outcome = "called" /\ op \in ops /\ UNCHANGED input
Called(ops)     == CalledWith(ops) /\ UNCHANGED ymm
Return          == outcome' = "returned"

SignBit(v, size) == Bit(v, Width[size] - 1) = 1

ResultFlags(result, size) ==
  /\ zf' = (result = 0)
  /\ sf' = SignBit(result, size)

\* Mutant: a sum equal to an operand counts as wrapped around.
CarryOfSumOrEqual(a, b, size) ==
  IF size = 64 THEN (a + b) % Modulus(64) <= a ELSE a + b > Modulus(size) - 1

\* The narrower sums are computed in the next wider type and compared with
\* the largest value; the 64-bit one is compared with its first operand.
CarryOfSum(a, b, size) ==
  IF size = 64 THEN (a + b) % Modulus(64) < a ELSE a + b > Modulus(size) - 1

\* add, sub and cmp leave OF as it is.
HandleArithmetic ==
  /\ Called(Arithmetic)
  /\ LET a      == Get(rax, bits)
         b      == Get(source, bits)
         result == (IF op = "add" THEN a + b ELSE a - b) % Modulus(bits)
     IN  /\ rax' = IF op = "cmp" THEN rax ELSE Set(rax, bits, result)
         /\ ResultFlags(result, bits)
         /\ cf' = IF op = "add" THEN CarryOfSum(a, b, bits) ELSE a < b
  /\ Return /\ UNCHANGED <<rdx, of>>

BitOf ==
  [p \in 0..1 |-> [q \in 0..1 |->
     CASE op = "and" -> p * q
       [] op = "or"  -> p + q - p * q
       [] op = "xor" -> (p + q) % 2]]

HandleLogic ==
  /\ Called(Logic)
  /\ LET result == Combine(BitOf, Get(rax, bits), Get(source, bits), Width[bits])
     IN  /\ rax' = Set(rax, bits, result)
         /\ ResultFlags(result, bits)
  /\ cf' = FALSE /\ of' = FALSE
  /\ Return /\ UNCHANGED rdx

\* not and the shifts compute in 32 bits, whatever the size of the register.
HandleNot ==
  /\ Called({"not"})
  /\ rax' = Set(rax, bits, Modulus(32) - 1 - Get(Get(rax, bits), 32))
  /\ Return /\ UNCHANGED <<rdx, flags>>

\* Mutant: the count is taken modulo the number of bits.
CountOfSize == Get(source, 8) % Width[bits]

Count == Get(source, 8)

\* Mutant: the bit above the last one shifted out.
ShiftedOutFurther(a) ==
  IF op = "shl" THEN Bit(a, Width[32] - Count) = 1 ELSE Bit(a, Count) = 1

\* destValue >> (32 - count) for shl, destValue >> (count - 1) otherwise.
ShiftedOut(a) ==
  IF op = "shl" THEN Bit(a, Width[32] - Count) = 1 ELSE Bit(a, Count - 1) = 1

HandleShift ==
  /\ Called(Shifts) /\ Count < Width[32]
  /\ LET a      == Get(Get(rax, bits), 32)
         signed == Signed(a, Width[32])
         result == CASE op = "shl" -> (a * TwoTo[Count]) % Modulus(32)
                     [] op = "shr" -> a \div TwoTo[Count]
                     [] op = "sar" -> signed \div TwoTo[Count]
     IN  /\ rax' = Set(rax, bits, result)
         /\ ResultFlags(result % Modulus(32), 32)
         /\ cf' = IF Count > 0 THEN ShiftedOut(a) ELSE cf
         /\ of' = IF Count # 1 THEN of
                  ELSE CASE op = "shl" -> SignBit(result, 32) # ShiftedOut(a)
                         [] op = "shr" -> SignBit(a, 32)
                         [] op = "sar" -> FALSE
  /\ Return /\ UNCHANGED rdx

\* A shift by 32 or more has no defined result in C++.
HandleLongShift ==
  /\ Called(Shifts) /\ Count >= Width[32]
  /\ \E result \in 0..(Modulus(32) - 1) :
       /\ rax' = Set(rax, bits,
                      IF op = "sar" THEN Signed(result, Width[32]) ELSE result)
       /\ ResultFlags(result, 32)
  /\ cf' \in BOOLEAN
  /\ Return /\ UNCHANGED <<rdx, of>>

Divisor == Get(source, bits)

\* ax for 8 bits, rdx and rax side by side for the others.
Dividend ==
  IF bits = 8 THEN Get(rax, 16)
  ELSE Get(rdx, bits) * Modulus(bits) + Get(rax, bits)

\* Mutant: only a zero divisor is an error.
DivideErrorOnlyZero == Divisor = 0

\* No divisor, or a quotient beyond the register.
DivideError ==
  Divisor # 0 => Dividend \div Divisor > Modulus(bits) - 1

\* #DE is logged and rip set to the end of the memory.
HandleDivideError ==
  /\ Called({"div"}) /\ DivideError
  /\ outcome' = "halted"
  /\ UNCHANGED <<rax, rdx, flags>>

HandleDivide ==
  /\ Called({"div"}) /\ bits # 8 /\ ~ DivideError
  /\ rax' = Set(rax, bits, Dividend \div Divisor)
  /\ rdx' = Set(rdx, bits, Dividend % Divisor)
  /\ Return /\ UNCHANGED flags

\* The remainder belongs in ah, which the register map does not have: set8
\* throws once al is written.
HandleDivideByte ==
  /\ Called({"div"}) /\ bits = 8 /\ ~ DivideError
  /\ rax' = Set(rax, 8, Dividend \div Divisor)
  /\ outcome' = "threw"
  /\ UNCHANGED <<rdx, flags>>

HandleMove ==
  /\ Called({"move"})
  /\ rax' = Set(rax, bits, Get(source, bits))
  /\ Return /\ UNCHANGED <<rdx, flags>>

\* The opcode is logged as unsupported.
Ignore ==
  /\ Called({"unsupported"})
  /\ Return /\ UNCHANGED <<rax, rdx, flags>>

\* inc and dec, in 32 bits whatever the size of the register; they keep CF.
HandleStep ==
  /\ Called({"inc", "dec"})
  /\ LET value   == Get(Get(rax, bits), 32)
         result  == (IF op = "inc" THEN value + 1 ELSE value - 1) % Modulus(32)
         highest == TwoTo[Width[32] - 1]
     IN  /\ rax' = Set(rax, bits, result)
         /\ ResultFlags(result, 32)
         /\ of' = (value = IF op = "inc" THEN highest - 1 ELSE highest)
  /\ Return /\ UNCHANGED <<rdx, cf>>

\* Mutant: a negative result fits whatever its high half.
FitsOrNegative(high, low) ==
  IF op = "mul" THEN high = 0
  ELSE SignBit(low, 32) \/ high = 0

\* The high half repeats the sign of the low one, or is zero.
Fits(high, low) ==
  IF op = "mul" THEN high = 0
  ELSE IF SignBit(low, 32) THEN high = Modulus(32) - 1 ELSE high = 0

\* mul and imul of eax by 32 bits of the operand, into edx and eax.
HandleMultiply ==
  /\ Called({"mul", "imul"})
  /\ LET a       == Get(rax, 32)
         b       == Get(Get(source, bits), 32)
         product == IF op = "mul" THEN a * b
                    ELSE Signed(a, Width[32]) * Signed(b, Width[32])
         low     == product % Modulus(32)
         high    == (product \div Modulus(32)) % Modulus(32)
     IN  /\ rax' = Set(rax, 32, low) /\ rdx' = Set(rdx, 32, high)
         /\ cf' = ~ Fits(high, low) /\ of' = ~ Fits(high, low)
  /\ Return /\ UNCHANGED <<zf, sf>>

-----------------------------------------------------------------------------
(* The packed handlers.                                                    *)

\* Mutant: the result goes to the second register.
WriteVectorSecond(v) == ymm' = [ymm EXCEPT ![src] = v]

WriteVector(v) == ymm' = [ymm EXCEPT ![dest] = v]

Operands == IF op = "vector zero" THEN {dest} ELSE {dest, src}

PackedResult ==
  LET a == ymm[dest]
      b == ymm[src]
  IN  CASE op \in PackedBits     -> Bitwise(op, a, b)
        [] op \in PackedExtremes -> Extreme(op, a, b)
        [] op \in PackedBinary   -> Floating(op, a, b)
        [] op \in PackedUnary    -> Floating(op, b, b)
        [] op = "packed mul low" -> MultiplyLow(a, b)
        [] op = "vector zero"    -> ZeroVector

HandlePacked ==
  /\ CalledWith(Packed) /\ Operands \subseteq MappedVectors
  /\ WriteVector(PackedResult)
  /\ Return /\ UNCHANGED <<rax, rdx, flags>>

\* The architecture has no name for the register.
HandlePackedUnmapped ==
  /\ CalledWith(Packed) /\ ~ Operands \subseteq MappedVectors
  /\ outcome' = "threw"
  /\ UNCHANGED <<rax, rdx, ymm, flags>>

-----------------------------------------------------------------------------
(* Calls.                                                                  *)

\* Operands a handler does not read are left at 0.
Sources ==
  CASE op \in Shifts -> 0..(Modulus(8) - 1)
    [] op \in Arithmetic \cup Logic \cup {"div", "move", "mul", "imul"} -> Quad
    [] OTHER -> {0}

\* The registers the operation reads hold what it takes them for.
Contents ==
  CASE op \in PackedBits       -> Words
    [] op = "packed mul low"   -> Shorts
    [] op \in PackedExtremes \cup PackedBinary \cup PackedUnary -> Floats
    [] OTHER                   -> {ZeroVector}

\* The vector registers that no operation can name stay zero.
VectorStates ==
  {[v \in Vectors256 |-> IF v \in MappedVectors THEN f[v] ELSE ZeroVector] :
     f \in [MappedVectors -> Contents]}

Init ==
  /\ op \in Opcodes
  /\ IF op \in Scalar
     THEN /\ bits \in Sizes /\ source \in Sources
          /\ rax \in Quad /\ rdx \in IF op = "div" THEN Highs ELSE {0}
          /\ cf \in IF op \in Shifts \cup Logic \cup Uncalled \cup {"cmp"} THEN BOOLEAN ELSE {FALSE}
          /\ dest = CHOOSE v \in MappedVectors : TRUE
          /\ src = dest
     ELSE /\ bits = 64 /\ source = 0 /\ rax = 0 /\ rdx = 0 /\ cf = FALSE
          /\ dest \in Vectors256
          /\ src \in IF op = "vector zero" THEN {dest} ELSE Vectors256
  /\ ymm \in VectorStates
  /\ zf = FALSE /\ sf = FALSE /\ of = cf
  /\ before = [rax |-> rax, rdx |-> rdx, ymm |-> ymm, cf |-> cf, of |-> of]
  /\ outcome = "called"

Next ==
  \/ HandleArithmetic \/ HandleLogic \/ HandleNot
  \/ HandleShift \/ HandleLongShift
  \/ HandleDivideError \/ HandleDivide \/ HandleDivideByte
  \/ HandleMove \/ HandleStep \/ HandleMultiply \/ Ignore
  \/ HandlePacked \/ HandlePackedUnmapped

Spec == Init /\ [][Next]_vars
=============================================================================
