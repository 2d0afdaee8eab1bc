---------------------------- MODULE ExecutorProofs ----------------------------
(***************************************************************************)
(* For all widths of the four operand sizes, all operands and all contents *)
(* of the vector registers: what the handlers of the IR and the ones they  *)
(* replace compute is the arithmetic they stand for.                       *)
(***************************************************************************)
EXTENDS LegacyHandlers, NumberProofs

-----------------------------------------------------------------------------
(* The operand sizes.                                                      *)

LEMMA Widths ==
  ASSUME NEW s \in Sizes
  PROVE  /\ Width[s] \in Nat /\ Width[s] > 1
         /\ Modulus(s) \in Nat \ {0} /\ TwoTo[Width[s] - 1] \in Nat \ {0}
         /\ Modulus(s) = 2 * TwoTo[Width[s] - 1]
         /\ Modulus(s) = TwoTo[Width[s]]
<1>1. Width[s] \in Nat /\ Width[s] > 1
  BY ExecutorAssumption DEF Sizes
<1>2. Width[s] - 1 \in Nat /\ Width[s] # 0
  BY <1>1
<1>3. QED
  BY <1>1, <1>2, PowerType, PowerSteps DEF Modulus

\* The number of values of a size divides that of a larger one.
LEMMA SizesDivide ==
  ASSUME NEW s \in Sizes, NEW t \in Sizes, s <= t
  PROVE  /\ Modulus(s) <= Modulus(t)
         /\ \E q \in Nat \ {0} : Modulus(t) = Modulus(s) * q
<1>1. /\ Width[s] \in Nat /\ Width[t] \in Nat
      /\ Modulus(s) \in Nat \ {0} /\ Modulus(t) \in Nat \ {0}
  BY Widths
<1>2. CASE s = t
  BY <1>1, <1>2
<1>3. CASE s # t
  <2>1. Width[s] < Width[t]
    BY <1>3, ExecutorAssumption DEF Sizes
  <2>2. /\ 2 * Modulus(s) <= Modulus(t)
        /\ \E q \in Nat : Modulus(t) = Modulus(s) * (2 * q)
    BY <1>1, <2>1, PowerBelow DEF Modulus
  <2>3. PICK q \in Nat : Modulus(t) = Modulus(s) * (2 * q)
    BY <2>2
  <2>4. 2 * q \in Nat \ {0}
    BY <1>1, <2>3
  <2>5. QED
    BY <1>1, <2>2, <2>3, <2>4
<1>4. QED
  BY <1>2, <1>3

LEMMA QuadSize == Quad = 0..(Modulus(64) - 1) /\ 64 \in Sizes /\ 32 \in Sizes
                  /\ 16 \in Sizes /\ 8 \in Sizes
BY DEF Quad, Modulus, Sizes

\* A remainder is that of the remainder by a larger size.
LEMMA Narrowed ==
  ASSUME NEW s \in Sizes, NEW t \in Sizes, s <= t, NEW a \in Int
  PROVE  (a % Modulus(t)) % Modulus(s) = a % Modulus(s)
<1>1. PICK q \in Nat \ {0} : Modulus(t) = Modulus(s) * q
  BY SizesDivide
<1> DEFINE m == Modulus(s)
           n == Modulus(t)
           d == a \div n
           r == a % n
<1>2. m \in Nat \ {0} /\ n \in Nat \ {0}
  BY Widths
<1>3. n = m * q
  BY <1>1
<1> HIDE DEF m, n
<1>4. d \in Int /\ r \in Int /\ a = d * n + r
  BY <1>2, DivideType
<1> HIDE DEF d, r
<1>5. a = r + (d * q) * m /\ d * q \in Int
  BY <1>2, <1>3, <1>4
<1>6. (r + (d * q) * m) % m = r % m
  BY <1>2, <1>4, <1>5, DivideShifted
<1>7. QED
  BY <1>5, <1>6 DEF m, n, r

-----------------------------------------------------------------------------
(* The register map.                                                       *)

LEMMA GetType ==
  ASSUME NEW v \in Int, NEW s \in Sizes
  PROVE  /\ Get(v, s) \in 0..(Modulus(s) - 1) /\ Get(v, s) \in Quad
         /\ Get(v, s) \in Nat /\ Get(v, s) < Modulus(s)
<1>1. Modulus(s) \in Nat \ {0} /\ Modulus(64) \in Nat \ {0} /\ Modulus(s) <= Modulus(64)
  <2>1. s <= 64
    BY DEF Sizes
  <2>2. QED
    BY <2>1, Widths, SizesDivide, QuadSize
<1>2. Get(v, s) \in 0..(Modulus(s) - 1)
  BY <1>1, DivideType DEF Get
<1>3. QED
  BY <1>1, <1>2, QuadSize

\* A value of a size is got as it is in every larger one.
LEMMA GetSmall ==
  ASSUME NEW s \in Sizes, NEW t \in Sizes, s <= t, NEW v \in 0..(Modulus(s) - 1)
  PROVE  Get(v, t) = v
<1>1. Modulus(s) \in Nat \ {0} /\ Modulus(t) \in Nat \ {0} /\ Modulus(s) <= Modulus(t)
  BY Widths, SizesDivide
<1>2. QED
  BY <1>1, ModSmall DEF Get

LEMMA GetTwice ==
  ASSUME NEW s \in Sizes, s <= 32, NEW v \in Int
  PROVE  Get(Get(v, s), 32) = Get(v, s)
BY GetType, GetSmall, QuadSize

(* What a register holds after a value was put into its lower part.        *)
LEMMA SetParts ==
  ASSUME NEW v \in Quad, NEW s \in Sizes, NEW value \in Int
  PROVE  /\ Set(v, s, value) \in Quad
         /\ Get(Set(v, s, value), s) = value % Modulus(s)
         /\ Set(v, s, value) \div Modulus(s) = IF s = 32 THEN 0 ELSE v \div Modulus(s)
<1> DEFINE m == Modulus(s)
           top == Modulus(64)
           x == value % m
           d == v \div m
           r == v % m
<1>1. m \in Nat \ {0} /\ top \in Nat \ {0} /\ m <= top
  <2>1. s <= 64
    BY DEF Sizes
  <2>2. QED
    BY <2>1, Widths, SizesDivide, QuadSize
<1>2. \E q \in Nat \ {0} : top = m * q
  BY SizesDivide, QuadSize DEF Sizes
<1>3. v \in Nat /\ v < top
  BY <1>1, QuadSize
<1> HIDE DEF m, top
<1>4. x \in Nat /\ x < m
  BY <1>1, DivideType
<1>5. d \in Nat /\ r \in Nat /\ r < m /\ v = d * m + r
  <2>1. d \in Nat
    BY <1>1, <1>3, DivideNat
  <2>2. r \in 0..(m - 1) /\ v = d * m + r
    BY <1>1, <1>3, DivideType
  <2>3. QED
    BY <1>1, <2>1, <2>2
<1>6. x % m = x /\ x \div m = 0
  BY <1>1, <1>4, ModSmall
<1> HIDE DEF x, d, r
<1>7. CASE s \in {32, 64}
  <2>1. Set(v, s, value) = x
    BY <1>7 DEF Set, x, m
  <2>2. x \in Quad
    BY <1>1, <1>4, QuadSize DEF top
  <2>3. s = 64 => d = 0
    BY <1>1, <1>3, ModSmall DEF m, top, d
  <2>4. QED
    BY <1>6, <1>7, <2>1, <2>2, <2>3 DEF Get, m, d, x
<1>8. CASE s \notin {32, 64}
  <2>1. Set(v, s, value) = (v - r) + x
    BY <1>8 DEF Set, Get, x, m, r
  <2>2. Set(v, s, value) = d * m + x
    BY <1>1, <1>4, <1>5, <2>1
  <2>3. (d * m + x) \div m = d /\ (d * m + x) % m = x
    BY <1>1, <1>4, <1>5, DivideUnique
  <2>4. d * m + x < top
    <3>1. PICK q \in Nat \ {0} : top = m * q
      BY <1>2
    <3>2. d < q
      BY <1>1, <1>3, <1>5, <3>1
    <3>3. (d + 1) * m <= q * m
      BY <1>1, <1>5, <3>2
    <3>4. (d + 1) * m = d * m + m /\ q * m = top
      BY <1>1, <1>5, <3>1
    <3>5. QED
      BY <1>1, <1>4, <1>5, <3>3, <3>4
  <2>5. d * m + x \in Quad
    BY <1>1, <1>4, <1>5, <2>4, QuadSize DEF top
  <2>6. QED
    BY <1>8, <2>2, <2>3, <2>5 DEF Get, m, d, x
<1>9. QED
  BY <1>7, <1>8

-----------------------------------------------------------------------------
(* Calls.                                                                  *)

\* A handler finds the registers and flags it is called with.
StartKept ==
  outcome = "called" =>
    /\ rax = before.rax /\ rdx = before.rdx /\ ymm = before.ymm
    /\ cf = before.cf /\ of = before.of /\ zf = FALSE /\ sf = FALSE

Prepared ==
  /\ before.cf \in BOOLEAN /\ before.of \in BOOLEAN
  /\ \A v \in MappedVectors : before.ymm[v] \in Contents

\* The inductive invariant.
CallInvariant == ExecutorTypeOK /\ StartKept /\ Prepared

LEMMA ContentsAreVectors == \A f \in Contents : DOMAIN f = Lanes
<1>1. \A f \in Words \cup Shorts \cup Floats : DOMAIN f = Lanes
  BY ExecutorAssumption
<1>2. DOMAIN ZeroVector = Lanes
  BY DEF ZeroVector
<1>3. QED
  BY <1>1, <1>2 DEF Contents

LEMMA InitStarts == Init => CallInvariant
<1> SUFFICES ASSUME Init PROVE CallInvariant
  OBVIOUS
<1>1. MappedVectors # {} /\ Highs \subseteq Quad /\ 0 \in Quad
      /\ 0..(Modulus(8) - 1) \subseteq Quad
  <2>1. Modulus(8) <= Modulus(64) /\ Modulus(8) \in Nat \ {0} /\ Modulus(64) \in Nat \ {0}
    BY SizesDivide, Widths, QuadSize
  <2>2. QED
    BY <2>1, QuadSize, ExecutorAssumption DEF Modulus
<1>2. op \in Opcodes /\ bits \in Sizes /\ source \in Quad
  BY <1>1, QuadSize DEF Init, Sources
<1>3. dest \in Vectors256 /\ src \in Vectors256
  <2>1. (CHOOSE v \in MappedVectors : TRUE) \in MappedVectors
    BY <1>1
  <2>2. QED
    BY <2>1 DEF Init, Vectors256
<1>4. rax \in Quad /\ rdx \in Quad
  BY <1>1 DEF Init
<1>5. cf \in BOOLEAN /\ of = cf /\ zf = FALSE /\ sf = FALSE /\ outcome = "called"
  BY DEF Init
<1>6. /\ before.rax = rax /\ before.rdx = rdx /\ before.ymm = ymm
      /\ before.cf = cf /\ before.of = of
  BY DEF Init
<1>7. PICK f \in [MappedVectors -> Contents] :
        ymm = [v \in Vectors256 |-> IF v \in MappedVectors THEN f[v] ELSE ZeroVector]
  BY DEF Init, VectorStates
<1>8. DOMAIN ymm = Vectors256 /\ \A v \in Vectors256 : DOMAIN ymm[v] = Lanes
  <2>1. DOMAIN ZeroVector = Lanes
    BY DEF ZeroVector
  <2>2. QED
    BY <1>7, <2>1, ContentsAreVectors
<1>9. \A v \in MappedVectors : ymm[v] \in Contents
  BY <1>7 DEF Vectors256
<1>10. QED
  BY <1>2, <1>3, <1>4, <1>5, <1>6, <1>8, <1>9
  DEF CallInvariant, ExecutorTypeOK, StartKept, Prepared

LEMMA SetType ==
  \A v \in Quad, s \in Sizes, value \in Int : Set(v, s, value) \in Quad
BY SetParts

\* A handler leaves its inputs, and leaves "called" behind.
LEMMA HandlersEnd ==
  ASSUME Next
  PROVE  UNCHANGED input /\ outcome = "called" /\ outcome' \in {"returned", "halted", "threw"}
BY DEF Next, Called, CalledWith, Return, HandleArithmetic, HandleLogic, HandleNot,
   HandleShift, HandleLongShift, HandleDivideError, HandleDivide, HandleDivideByte,
   HandleMove, HandleStep, HandleMultiply, Ignore, HandlePacked, HandlePackedUnmapped

LEMMA FlagsKeepTypes ==
  ASSUME ExecutorTypeOK, Next
  PROVE  zf' \in BOOLEAN /\ sf' \in BOOLEAN /\ cf' \in BOOLEAN /\ of' \in BOOLEAN
<1> USE DEF ResultFlags, flags
<1>1. zf \in BOOLEAN /\ sf \in BOOLEAN /\ cf \in BOOLEAN /\ of \in BOOLEAN
  BY DEF ExecutorTypeOK
<1>2. CASE HandleArithmetic
  <2>1. zf' \in BOOLEAN /\ sf' \in BOOLEAN /\ of' = of
    BY <1>2 DEF HandleArithmetic, SignBit
  <2>2. cf' \in BOOLEAN
    <3>1. /\ Get(rax, bits) \in Int /\ Get(source, bits) \in Int
          /\ Modulus(bits) \in Nat \ {0} /\ Modulus(64) \in Nat \ {0}
      BY QuadSize, Widths, GetType DEF ExecutorTypeOK
    <3>2. /\ CarryOfSum(Get(rax, bits), Get(source, bits), bits) \in BOOLEAN
          /\ (Get(rax, bits) < Get(source, bits)) \in BOOLEAN
      <4> DEFINE a == Get(rax, bits)
                 b == Get(source, bits)
                 sum == (a + b) % Modulus(64)
      <4> HIDE DEF a, b
      <4>1. a \in Int /\ b \in Int
        BY <3>1 DEF a, b
      <4>2. sum \in Int
        BY <3>1, <4>1, DivideInt
      <4> HIDE DEF sum
      <4>3. (sum < a) \in BOOLEAN /\ (a + b > Modulus(bits) - 1) \in BOOLEAN
            /\ (a < b) \in BOOLEAN
        BY <3>1, <4>1, <4>2
      <4>4. CarryOfSum(a, b, bits) = IF bits = 64 THEN sum < a ELSE a + b > Modulus(bits) - 1
        BY DEF CarryOfSum, sum
      <4>5. QED
        BY <4>3, <4>4 DEF a, b
    <3>3. cf' = IF op = "add" THEN CarryOfSum(Get(rax, bits), Get(source, bits), bits)
                ELSE Get(rax, bits) < Get(source, bits)
      BY <1>2 DEF HandleArithmetic
    <3>4. QED
      BY <3>2, <3>3
  <2>3. QED
    BY <1>1, <2>1, <2>2
<1>3. CASE HandleLogic
  BY <1>1, <1>3 DEF HandleLogic, SignBit
<1>4. CASE HandleNot \/ HandleMove \/ Ignore \/ HandlePacked \/ HandlePackedUnmapped
           \/ HandleDivide \/ HandleDivideByte \/ HandleDivideError
  BY <1>1, <1>4 DEF HandleNot, HandleMove, Ignore, HandlePacked, HandlePackedUnmapped,
     HandleDivide, HandleDivideByte, HandleDivideError
<1>5. CASE HandleShift
  <2>1. zf' \in BOOLEAN /\ sf' \in BOOLEAN
    BY <1>5 DEF HandleShift, SignBit
  <2>2. cf' \in BOOLEAN
    <3>1. \A a : ShiftedOut(a) \in BOOLEAN
      BY DEF ShiftedOut
    <3>2. \E a : cf' = IF Count > 0 THEN ShiftedOut(a) ELSE cf
      BY <1>5 DEF HandleShift
    <3>3. QED
      BY <1>1, <3>1, <3>2
  <2>3. of' \in BOOLEAN
    BY <1>1, <1>5 DEF HandleShift, ShiftedOut, SignBit, Called, CalledWith, Shifts
  <2>4. QED
    BY <2>1, <2>2, <2>3
<1>6. CASE HandleLongShift
  BY <1>1, <1>6 DEF HandleLongShift, SignBit
<1>7. CASE HandleStep
  BY <1>1, <1>7 DEF HandleStep, SignBit
<1>8. CASE HandleMultiply
  BY <1>1, <1>8 DEF HandleMultiply
<1>9. QED
  BY <1>2, <1>3, <1>4, <1>5, <1>6, <1>7, <1>8 DEF Next

LEMMA SignedType ==
  ASSUME NEW s \in Sizes, NEW v \in 0..(Modulus(s) - 1)
  PROVE  Signed(v, Width[s]) \in Int
BY Widths DEF Signed

LEMMA ScalarsAreNotPacked == Scalar \cap Packed = {}
BY DEF Scalar, Arithmetic, Logic, Shifts, Uncalled, Packed, PackedBits, PackedExtremes,
   PackedBinary, PackedUnary

Multiplications == {"mul", "imul"}

\* The calls that change no register.
Unwritten == op \in {"cmp", "unsupported"} \cup Packed \/ outcome' = "halted"

\* The others put a number into the part of rax that has the size they work
\* in, and may put one into that of rdx.
Written ==
  LET size == IF op \in Multiplications THEN 32 ELSE bits
  IN  \E x, y \in Int : /\ rax' = Set(rax, size, x)
                        /\ rdx' \in {rdx, Set(rdx, size, y)}

LEMMA WrittenOnce ==
  ASSUME op \notin Multiplications, NEW x \in Int, rax' = Set(rax, bits, x), rdx' = rdx
  PROVE  Written
BY DEF Written

LEMMA ResultsWritten ==
  ASSUME CallInvariant, Next
  PROVE  IF Unwritten THEN rax' = rax /\ rdx' = rdx ELSE Written
<1> USE DEF Called, CalledWith, Multiplications
<1>1. rax \in Quad /\ rdx \in Quad /\ source \in Quad /\ bits \in Sizes
  BY DEF CallInvariant, ExecutorTypeOK
<1>2. rax \in Nat /\ rdx \in Nat /\ source \in Nat
  BY <1>1, QuadSize, Widths
<1>3. Modulus(bits) \in Nat \ {0} /\ Modulus(32) \in Nat \ {0}
  BY <1>1, Widths, QuadSize
<1>4. /\ Get(rax, bits) \in Nat /\ Get(source, bits) \in Nat /\ Get(rax, 16) \in Nat
      /\ Get(rdx, bits) \in Nat /\ Get(rax, 32) \in Nat
  BY <1>1, <1>2, GetType, QuadSize
<1>5. /\ Get(Get(rax, bits), 32) \in 0..(Modulus(32) - 1)
      /\ Get(Get(source, bits), 32) \in 0..(Modulus(32) - 1)
  BY <1>4, GetType, QuadSize
<1>6. CASE HandleArithmetic
  <2> DEFINE x == IF op = "add" THEN Get(rax, bits) + Get(source, bits)
                  ELSE Get(rax, bits) - Get(source, bits)
             r == x % Modulus(bits)
  <2>1. rdx' = rdx /\ rax' = IF op = "cmp" THEN rax ELSE Set(rax, bits, r)
    BY <1>6 DEF HandleArithmetic
  <2>2. x \in Int
    BY <1>4
  <2> HIDE DEF x
  <2>3. r \in Int
    BY <1>3, <2>2, DivideInt
  <2> HIDE DEF r
  <2>4. op \notin Multiplications /\ (Unwritten <=> op = "cmp")
    BY <1>6, ScalarsAreNotPacked
    DEF HandleArithmetic, Unwritten, Arithmetic, Scalar, Return
  <2>5. QED
    BY <2>1, <2>3, <2>4, WrittenOnce
<1>7. CASE HandleLogic
  <2> DEFINE r == Combine(BitOf, Get(rax, bits), Get(source, bits), Width[bits])
  <2>1. BitOf \in Tables
    BY <1>7 DEF BitOf, Tables, HandleLogic, Logic
  <2>2. r \in 0..(TwoTo[Width[bits]] - 1)
    BY <1>1, <1>4, <2>1, CombineBits, Widths
  <2>3. rdx' = rdx /\ rax' = Set(rax, bits, r)
    BY <1>7 DEF HandleLogic
  <2> HIDE DEF r
  <2>4. op \notin Multiplications /\ ~ Unwritten
    BY <1>7, ScalarsAreNotPacked DEF HandleLogic, Unwritten, Logic, Scalar, Return
  <2>5. QED
    BY <2>2, <2>3, <2>4, WrittenOnce
<1>8. CASE HandleNot
  <2>1. Modulus(32) - 1 - Get(Get(rax, bits), 32) \in Int
    BY <1>3, <1>5
  <2>2. op \notin Multiplications /\ ~ Unwritten
    BY <1>8, ScalarsAreNotPacked DEF HandleNot, Unwritten, Scalar, Return
  <2>3. QED
    BY <1>8, <2>1, <2>2, WrittenOnce DEF HandleNot
<1>9. CASE HandleShift
  <2>1. Count \in Nat /\ TwoTo[Count] \in Nat \ {0}
    BY <1>2, GetType, PowerType, QuadSize DEF Count
  <2> DEFINE a == Get(Get(rax, bits), 32)
             r == CASE op = "shl" -> (a * TwoTo[Count]) % Modulus(32)
                    [] op = "shr" -> a \div TwoTo[Count]
                    [] op = "sar" -> Signed(a, Width[32]) \div TwoTo[Count]
  <2>2. rdx' = rdx /\ rax' = Set(rax, bits, r)
    BY <1>9 DEF HandleShift
  <2>3. r \in Int
    <3>1. a \in Int /\ Signed(a, Width[32]) \in Int
      BY <1>5, SignedType, QuadSize
    <3> HIDE DEF a
    <3>2. a * TwoTo[Count] \in Int
      BY <2>1, <3>1
    <3>3. (a * TwoTo[Count]) % Modulus(32) \in Int /\ a \div TwoTo[Count] \in Int
          /\ Signed(a, Width[32]) \div TwoTo[Count] \in Int
      BY <1>3, <2>1, <3>1, <3>2, DivideInt
    <3>4. op \in {"shl", "shr", "sar"}
      BY <1>9 DEF HandleShift, Shifts
    <3>5. QED
      BY <3>3, <3>4
  <2> HIDE DEF r
  <2>4. op \notin Multiplications /\ ~ Unwritten
    BY <1>9, ScalarsAreNotPacked DEF HandleShift, Unwritten, Shifts, Scalar, Return
  <2>5. QED
    BY <2>2, <2>3, <2>4, WrittenOnce
<1>10. CASE HandleLongShift
  <2>1. PICK result \in 0..(Modulus(32) - 1) :
          rax' = Set(rax, bits, IF op = "sar" THEN Signed(result, Width[32]) ELSE result)
    BY <1>10 DEF HandleLongShift
  <2>2. Signed(result, Width[32]) \in Int /\ result \in Int
    BY SignedType, QuadSize
  <2>3. rdx' = rdx /\ op \notin Multiplications /\ ~ Unwritten
    BY <1>10, ScalarsAreNotPacked DEF HandleLongShift, Unwritten, Shifts, Scalar, Return
  <2>4. QED
    BY <2>1, <2>2, <2>3, WrittenOnce
<1>11. CASE HandleDivide \/ HandleDivideByte
  <2>1. Divisor \in Nat /\ Dividend \in Nat /\ Divisor # 0
    BY <1>3, <1>4, <1>11 DEF Divisor, Dividend, HandleDivide, HandleDivideByte, DivideError
  <2>2. Dividend \div Divisor \in Int /\ Dividend % Divisor \in Int
    BY <2>1, DivideInt
  <2>3. op \notin Multiplications /\ ~ Unwritten
    BY <1>11, ScalarsAreNotPacked
    DEF HandleDivide, HandleDivideByte, Unwritten, Scalar, Return
  <2>4. CASE HandleDivide
    BY <2>2, <2>3, <2>4 DEF HandleDivide, Written
  <2>5. CASE HandleDivideByte
    BY <2>2, <2>3, <2>5, WrittenOnce DEF HandleDivideByte
  <2>6. QED
    BY <1>11, <2>4, <2>5
<1>12. CASE HandleMove
  <2>1. op \notin Multiplications /\ ~ Unwritten
    BY <1>12, ScalarsAreNotPacked DEF HandleMove, Unwritten, Scalar, Return
  <2>2. QED
    BY <1>4, <1>12, <2>1, WrittenOnce DEF HandleMove
<1>13. CASE HandleStep
  <2> DEFINE a == Get(Get(rax, bits), 32)
             x == IF op = "inc" THEN a + 1 ELSE a - 1
             r == x % Modulus(32)
  <2>1. x \in Int
    BY <1>5
  <2> HIDE DEF x
  <2>2. r \in Int
    BY <1>3, <2>1, DivideInt
  <2> HIDE DEF r
  <2>3. rdx' = rdx /\ rax' = Set(rax, bits, r)
    BY <1>13 DEF HandleStep, r, x
  <2>4. op \notin Multiplications /\ ~ Unwritten
    BY <1>13, ScalarsAreNotPacked DEF HandleStep, Unwritten, Uncalled, Scalar, Return
  <2>5. QED
    BY <2>2, <2>3, <2>4, WrittenOnce
<1>14. CASE HandleMultiply
  <2> DEFINE a == Get(rax, 32)
             b == Get(Get(source, bits), 32)
             product == IF op = "mul" THEN a * b
                        ELSE Signed(a, Width[32]) * Signed(b, Width[32])
  <2>1. product \in Int
    BY <1>2, <1>5, GetType, SignedType, QuadSize
  <2>2. rax' = Set(rax, 32, product % Modulus(32))
        /\ rdx' = Set(rdx, 32, (product \div Modulus(32)) % Modulus(32))
    BY <1>14 DEF HandleMultiply
  <2> HIDE DEF product
  <2>3. product % Modulus(32) \in Int /\ (product \div Modulus(32)) % Modulus(32) \in Int
    BY <1>3, <2>1, DivideInt
  <2>4. op \in Multiplications /\ ~ Unwritten
    BY <1>14, ScalarsAreNotPacked DEF HandleMultiply, Unwritten, Uncalled, Scalar, Return
  <2>5. QED
    BY <2>2, <2>3, <2>4 DEF Written
<1>15. CASE Ignore \/ HandlePacked \/ HandlePackedUnmapped \/ HandleDivideError
  <2>1. Unwritten /\ rax' = rax /\ rdx' = rdx
    BY <1>15 DEF Ignore, HandlePacked, HandlePackedUnmapped, HandleDivideError, Unwritten
  <2>2. QED
    BY <2>1
<1>16. QED
  BY <1>6, <1>7, <1>8, <1>9, <1>10, <1>11, <1>12, <1>13, <1>14, <1>15 DEF Next

LEMMA RegistersKeepTypes ==
  ASSUME CallInvariant, Next
  PROVE  rax' \in Quad /\ rdx' \in Quad
<1>1. rax \in Quad /\ rdx \in Quad /\ bits \in Sizes
  BY DEF CallInvariant, ExecutorTypeOK
<1>2. CASE Written
  <2> DEFINE size == IF op \in Multiplications THEN 32 ELSE bits
  <2>1. size \in Sizes
    BY <1>1, QuadSize
  <2>2. PICK x, y \in Int : rax' = Set(rax, size, x) /\ rdx' \in {rdx, Set(rdx, size, y)}
    BY <1>2 DEF Written
  <2> HIDE DEF size
  <2>3. QED
    BY <1>1, <2>1, <2>2, SetType
<1>3. Written \/ (rax' = rax /\ rdx' = rdx)
  BY ResultsWritten
<1>4. QED
  BY <1>1, <1>2, <1>3

LEMMA VectorsKeepLanes ==
  ASSUME CallInvariant, Next
  PROVE  DOMAIN ymm' = Vectors256 /\ \A v \in Vectors256 : DOMAIN ymm'[v] = Lanes
<1>1. /\ DOMAIN ymm = Vectors256 /\ \A v \in Vectors256 : DOMAIN ymm[v] = Lanes
      /\ dest \in Vectors256 /\ src \in Vectors256
  BY DEF CallInvariant, ExecutorTypeOK
<1>2. CASE HandlePacked
  <2>1. DOMAIN PackedResult = Lanes
    <3>1. op \in Packed
      BY <1>2 DEF HandlePacked, CalledWith
    <3>2. DOMAIN Bitwise(op, ymm[dest], ymm[src]) = Lanes
      BY <1>1 DEF Bitwise, Lanewise
    <3>3. DOMAIN Extreme(op, ymm[dest], ymm[src]) = Lanes
      BY <1>1 DEF Extreme, Lanewise
    <3>4. DOMAIN Floating(op, ymm[dest], ymm[src]) = Lanes
          /\ DOMAIN Floating(op, ymm[src], ymm[src]) = Lanes
      BY <1>1 DEF Floating, Lanewise
    <3>5. DOMAIN MultiplyLow(ymm[dest], ymm[src]) = Lanes
      BY <1>1 DEF MultiplyLow, Lanewise
    <3>6. DOMAIN ZeroVector = Lanes
      BY DEF ZeroVector
    <3>7. QED
      BY <3>1, <3>2, <3>3, <3>4, <3>5, <3>6
      DEF PackedResult, Packed, PackedBits, PackedExtremes, PackedBinary, PackedUnary
  <2>2. ymm' = [ymm EXCEPT ![dest] = PackedResult]
    BY <1>2 DEF HandlePacked, WriteVector
  <2>3. QED
    BY <1>1, <2>1, <2>2
<1>3. CASE ~ HandlePacked
  <2>1. ymm' = ymm
    BY <1>3 DEF Next, Called, HandleArithmetic, HandleLogic, HandleNot, HandleShift,
       HandleLongShift, HandleDivideError, HandleDivide, HandleDivideByte, HandleMove,
       HandleStep, HandleMultiply, Ignore, HandlePackedUnmapped
  <2>2. QED
    BY <1>1, <2>1
<1>4. QED
  BY <1>2, <1>3

LEMMA CallStep ==
  ASSUME CallInvariant, [Next]_vars
  PROVE  CallInvariant'
<1>1. CASE Next
  <2>1. /\ op' = op /\ bits' = bits /\ source' = source /\ dest' = dest /\ src' = src
        /\ before' = before
        /\ outcome' \in {"returned", "halted", "threw"}
    BY <1>1, HandlersEnd DEF input
  <2>2. ExecutorTypeOK'
    <3>1. rax' \in Quad /\ rdx' \in Quad
      BY <1>1, RegistersKeepTypes
    <3>2. zf' \in BOOLEAN /\ sf' \in BOOLEAN /\ cf' \in BOOLEAN /\ of' \in BOOLEAN
      BY <1>1, FlagsKeepTypes DEF CallInvariant
    <3>3. DOMAIN ymm' = Vectors256 /\ \A v \in Vectors256 : DOMAIN ymm'[v] = Lanes
      BY <1>1, VectorsKeepLanes
    <3>4. QED
      BY <2>1, <3>1, <3>2, <3>3 DEF CallInvariant, ExecutorTypeOK
  <2>3. StartKept'
    BY <2>1 DEF StartKept
  <2>4. Prepared'
    BY <2>1 DEF CallInvariant, Prepared, Contents
  <2>5. QED
    BY <2>2, <2>3, <2>4 DEF CallInvariant
<1>2. CASE UNCHANGED vars
  BY <1>2 DEF vars, input, flags, CallInvariant, ExecutorTypeOK, StartKept, Prepared, Contents
<1>3. QED
  BY <1>1, <1>2

(* The registers hold 64 bits and the flags one before and after a call    *)
(* (the RegisterMap and RFLAGS of register_map.cpp), whatever the handler. *)
THEOREM ExecutorTypeCorrect == Spec => []ExecutorTypeOK
<1>1. CallInvariant => ExecutorTypeOK
  BY DEF CallInvariant
<1>2. QED
  BY <1>1, InitStarts, CallStep, PTL DEF Spec

\* A property of finished calls holds if every handler establishes it.
LEMMA CallStart ==
  ASSUME CallInvariant, Next
  PROVE  /\ rax = before.rax /\ rdx = before.rdx /\ ymm = before.ymm
         /\ cf = before.cf /\ of = before.of /\ zf = FALSE /\ sf = FALSE
         /\ op' = op /\ bits' = bits /\ source' = source /\ dest' = dest /\ src' = src
         /\ before' = before /\ outcome = "called"
         /\ rax \in Quad /\ rdx \in Quad /\ source \in Quad /\ bits \in Sizes
BY HandlersEnd DEF CallInvariant, StartKept, ExecutorTypeOK, input

(* A call changes the part of the register it works on, and clears the     *)
(* rest for 32 bits, or changes no register.                               *)
THEOREM PartsKept == Spec => []RegisterParts
<1>1. Init => RegisterParts
  BY DEF Init, RegisterParts
<1>2. ASSUME CallInvariant, Next PROVE RegisterParts'
  <2>1. CASE Unwritten
    BY <1>2, <2>1, CallStart, ResultsWritten DEF Unwritten, RegisterParts, Packed
  <2>2. CASE ~ Unwritten
    <3>1. ASSUME op \notin Multiplications
          PROVE  rax' \div Modulus(bits) =
                   IF bits = 32 THEN 0 ELSE before.rax \div Modulus(bits)
      <4>1. PICK x \in Int : rax' = Set(rax, bits, x)
        BY <1>2, <2>2, <3>1, ResultsWritten DEF Written
      <4>2. QED
        BY <1>2, <4>1, CallStart, SetParts
    <3>2. QED
      BY <1>2, <2>2, <3>1, CallStart
      DEF Unwritten, RegisterParts, Multiplications, Modulus, Packed
  <2>3. QED
    BY <2>1, <2>2
<1>3. RegisterParts /\ UNCHANGED vars => RegisterParts'
  BY DEF RegisterParts, vars, input, flags
<1>4. QED
  BY <1>1, <1>2, <1>3, InitStarts, CallStep, PTL DEF Spec

-----------------------------------------------------------------------------
(* Sums and differences.                                                   *)

LEMMA SignIs ==
  ASSUME NEW s \in Sizes, NEW v \in 0..(Modulus(s) - 1)
  PROVE  /\ SignBit(v, s) \in BOOLEAN
         /\ SignBit(v, s) <=> v >= TwoTo[Width[s] - 1]
         /\ SignBit(v, s) <=> Signed(v, Width[s]) < 0
<1> DEFINE h == TwoTo[Width[s] - 1]
<1>1. h \in Nat \ {0} /\ Modulus(s) = 2 * h /\ TwoTo[Width[s]] = 2 * h
  BY Widths
<1> HIDE DEF h
<1>2. v \div h = IF v >= h THEN 1 ELSE 0
  <2>1. v >= h => v = 1 * h + (v - h) /\ v - h \in Nat /\ v - h < h /\ v \in Int
    BY <1>1
  <2>2. v >= h => v \div h = 1
    BY <1>1, <2>1, DivideUnique
  <2>3. v < h => v \div h = 0
    BY <1>1, ModSmall
  <2>4. QED
    BY <1>1, <2>2, <2>3
<1>3. SignBit(v, s) <=> v >= h
  BY <1>1, <1>2 DEF SignBit, Bit, h
<1>4. Signed(v, Width[s]) = IF v >= h THEN v - 2 * h ELSE v
  BY <1>1 DEF Signed, h
<1>5. QED
  BY <1>1, <1>3, <1>4 DEF SignBit, h

\* Both forms of the carry say that the sum does not fit.
LEMMA CarryIs ==
  ASSUME NEW s \in Sizes, NEW a \in 0..(Modulus(s) - 1), NEW b \in 0..(Modulus(s) - 1)
  PROVE  CarryOfSum(a, b, s) <=> a + b >= Modulus(s)
<1>1. Modulus(s) \in Nat \ {0}
  BY Widths
<1> DEFINE m == Modulus(s)
           sum == (a + b) % Modulus(64)
<1>2. s = 64 => sum = IF a + b < m THEN a + b ELSE a + b - m
  BY <1>1, SumModulo
<1>3. CarryOfSum(a, b, s) = IF s = 64 THEN sum < a ELSE a + b > m - 1
  BY DEF CarryOfSum
<1> HIDE DEF m, sum
<1>4. s = 64 => (sum < a <=> a + b >= m)
  BY <1>1, <1>2 DEF m
<1>5. (a + b > m - 1) <=> a + b >= m
  BY <1>1 DEF m
<1>6. QED
  BY <1>3, <1>4, <1>5 DEF m

\* What is to be shown of an exact result, of the one that is computed, and
\* of the flags.
LEMMA ExactModulo ==
  ASSUME NEW s \in Sizes, NEW a \in 0..(Modulus(s) - 1), NEW b \in 0..(Modulus(s) - 1)
  PROVE  /\ ((a + b) - ((a + b) % Modulus(s))) % Modulus(s) = 0
         /\ ((a - b) - ((a - b) % Modulus(s))) % Modulus(s) = 0
         /\ (a + b) % Modulus(s) = 0 <=> a + b \in {0, Modulus(s)}
         /\ (a - b) % Modulus(s) = 0 <=> a - b \in {0, Modulus(s)}
         /\ CarryOfSum(a, b, s) <=> a + b \notin 0..(Modulus(s) - 1)
         /\ a < b <=> a - b \notin 0..(Modulus(s) - 1)
<1> DEFINE m == Modulus(s)
<1>1. m \in Nat \ {0} /\ a \in 0..(m - 1) /\ b \in 0..(m - 1)
  BY Widths
<1>2. CarryOfSum(a, b, s) <=> a + b >= m
  BY CarryIs
<1> HIDE DEF m
<1>3. /\ (a + b) % m = IF a + b < m THEN a + b ELSE a + b - m
      /\ (a - b) % m = IF a < b THEN a - b + m ELSE a - b
  BY <1>1, SumModulo
<1>4. 0 % m = 0 /\ m % m = 0 /\ (-m) % m = 0
  <2>1. 0 = 0 * m /\ m = 1 * m /\ -m = (-1) * m
    BY <1>1
  <2>2. QED
    BY <1>1, <2>1, MultipleModulo
<1>5. (a + b) - ((a + b) % m) \in {0, m} /\ (a - b) - ((a - b) % m) \in {0, -m}
  BY <1>1, <1>3
<1>6. /\ ((a + b) - ((a + b) % m)) % m = 0
      /\ ((a - b) - ((a - b) % m)) % m = 0
  BY <1>4, <1>5
<1>7. /\ (a + b) % m = 0 <=> a + b \in {0, m}
      /\ (a - b) % m = 0 <=> a - b \in {0, m}
      /\ a + b >= m <=> a + b \notin 0..(m - 1)
      /\ a < b <=> a - b \notin 0..(m - 1)
  BY <1>1, <1>3
<1>8. QED
  BY <1>2, <1>6, <1>7 DEF m

(* add, sub and cmp agree with the arithmetic of the integers.             *)
THEOREM ArithmeticIsExact == Spec => []ArithmeticExact
<1>1. Init => ArithmeticExact
  BY DEF Init, ArithmeticExact, Returned
<1>2. ASSUME CallInvariant, Next PROVE ArithmeticExact'
  <2> DEFINE a == Get(rax, bits)
             b == Get(source, bits)
             m == Modulus(bits)
             exact == IF op = "add" THEN a + b ELSE a - b
             r == exact % m
  <2>1. SUFFICES ASSUME op \in Arithmetic PROVE ArithmeticExact'
    BY <1>2, CallStart DEF ArithmeticExact, Returned
  <2>2. HandleArithmetic
    BY <1>2, <2>1 DEF Next, Called, CalledWith, HandleLogic, HandleNot, HandleShift,
       HandleLongShift, HandleDivideError, HandleDivide, HandleDivideByte, HandleMove,
       HandleStep, HandleMultiply, Ignore, HandlePacked, HandlePackedUnmapped, Arithmetic,
       Logic, Shifts, Packed, PackedBits, PackedExtremes, PackedBinary, PackedUnary
  <2>3. /\ bits \in Sizes /\ a \in 0..(m - 1) /\ b \in 0..(m - 1) /\ m \in Nat \ {0}
        /\ rax \in Quad
    BY <1>2, CallStart, GetType, Widths, QuadSize
  <2>4. exact \in Int /\ r \in 0..(m - 1)
    <3>1. exact \in Int
      BY <2>3
    <3>2. QED
      BY <2>3, <3>1, DivideType
  <2>5. /\ Left' = a /\ Right' = b /\ Modulus(bits)' = m /\ Width[bits]' = Width[bits]
        /\ op' = op
    BY <1>2, CallStart DEF Left, Right, Modulus
  <2>6. op # "cmp" => Result' = r
    <3>1. op # "cmp" => rax' = Set(rax, bits, r)
      BY <2>2 DEF HandleArithmetic
    <3>2. Get(Set(rax, bits, r), bits) = r % m
      BY <2>3, <2>4, SetParts
    <3>3. r % m = r
      BY <2>3, <2>4, ModSmall
    <3>4. bits' = bits
      BY <1>2, CallStart
    <3>5. QED
      BY <3>1, <3>2, <3>3, <3>4 DEF Result
  <2>7. /\ zf' = (r = 0) /\ sf' = SignBit(r, bits)
        /\ cf' = IF op = "add" THEN CarryOfSum(a, b, bits) ELSE a < b
    BY <2>2 DEF HandleArithmetic, ResultFlags
  <2>8. SignBit(r, bits) <=> Signed(r, Width[bits]) < 0
    BY <2>3, <2>4, SignIs
  <2>9. /\ (exact - r) % m = 0
        /\ r = 0 <=> exact \in {0, m}
        /\ (IF op = "add" THEN CarryOfSum(a, b, bits) ELSE a < b) <=> exact \notin 0..(m - 1)
    <3>1. /\ ((a + b) - ((a + b) % m)) % m = 0
          /\ ((a - b) - ((a - b) % m)) % m = 0
          /\ (a + b) % m = 0 <=> a + b \in {0, m}
          /\ (a - b) % m = 0 <=> a - b \in {0, m}
          /\ CarryOfSum(a, b, bits) <=> a + b \notin 0..(m - 1)
          /\ a < b <=> a - b \notin 0..(m - 1)
      BY <2>3, ExactModulo
    <3> HIDE DEF a, b, m
    <3>2. CASE op = "add"
      <4>1. exact = a + b
        BY <3>2
      <4>2. (IF op = "add" THEN CarryOfSum(a, b, bits) ELSE a < b) <=> CarryOfSum(a, b, bits)
        BY <3>2
      <4> HIDE DEF exact
      <4>3. (exact - r) % m = 0 /\ (r = 0 <=> exact \in {0, m})
            /\ (CarryOfSum(a, b, bits) <=> exact \notin 0..(m - 1))
        BY <2>3, <2>4, <3>1, <4>1
      <4>4. QED
        BY <4>2, <4>3
    <3>3. CASE op # "add"
      <4>1. exact = a - b
        BY <3>3
      <4>2. (IF op = "add" THEN CarryOfSum(a, b, bits) ELSE a < b) <=> a < b
        BY <3>3
      <4> HIDE DEF exact
      <4>3. (exact - r) % m = 0 /\ (r = 0 <=> exact \in {0, m})
            /\ (a < b <=> exact \notin 0..(m - 1))
        BY <2>3, <2>4, <3>1, <4>1
      <4>4. QED
        BY <4>2, <4>3
    <3>4. QED
      BY <3>2, <3>3
  <2> HIDE DEF a, b, m, r
  <2>10. QED
    BY <2>5, <2>6, <2>7, <2>8, <2>9 DEF ArithmeticExact, r
<1>3. ArithmeticExact /\ UNCHANGED vars => ArithmeticExact'
  BY DEF ArithmeticExact, Returned, Left, Right, Result, vars, input, flags
<1>4. QED
  BY <1>1, <1>2, <1>3, InitStarts, CallStep, PTL DEF Spec

-----------------------------------------------------------------------------
(* Division.                                                               *)

\* Handlers are enabled by their opcodes.
LEMMA DivisionHandlers ==
  ASSUME Next, op = "div"
  PROVE  HandleDivide \/ HandleDivideByte \/ HandleDivideError
BY DEF Next, Called, CalledWith, HandleArithmetic, HandleLogic, HandleNot, HandleShift,
   HandleLongShift, HandleMove, HandleStep, HandleMultiply, Ignore, HandlePacked,
   HandlePackedUnmapped, Arithmetic, Logic, Shifts, Packed, PackedBits, PackedExtremes,
   PackedBinary, PackedUnary

(* div computes quotient and remainder, and #DE means that there is none.  *)
THEOREM DivisionIsExact == Spec => []DivisionExact
<1>1. Init => DivisionExact
  BY DEF Init, DivisionExact
<1>2. ASSUME CallInvariant, Next PROVE DivisionExact'
  <2> DEFINE m == Modulus(bits)
             d == Divisor
             n == Dividend
             q == n \div d
             r == n % d
  <2>1. SUFFICES ASSUME op = "div" PROVE DivisionExact'
    BY <1>2, CallStart DEF DivisionExact
  <2>2. /\ bits \in Sizes /\ rax \in Quad /\ rdx \in Quad /\ source \in Quad
        /\ bits' = bits /\ source' = source /\ before' = before
        /\ rax = before.rax /\ rdx = before.rdx
    BY <1>2, CallStart
  <2>3. m \in Nat \ {0} /\ d \in 0..(m - 1) /\ n \in Nat
    <3>1. m \in Nat \ {0} /\ d \in 0..(m - 1)
      BY <2>2, GetType, Widths, QuadSize DEF Divisor
    <3>2. Get(rax, 16) \in Nat /\ Get(rax, bits) \in Nat /\ Get(rdx, bits) \in Nat
      BY <2>2, GetType, QuadSize
    <3>3. QED
      BY <3>1, <3>2 DEF Dividend
  <2>4. Modulus(bits)' = m /\ Get(source, bits)' = d
        /\ (IF bits = 8 THEN Get(before.rax, 16)
            ELSE Get(before.rdx, bits) * Modulus(bits) + Left)' = n
    BY <2>2 DEF Divisor, Dividend, Left, Get, Modulus
  <2>5. d # 0 => /\ q \in Nat /\ r \in 0..(d - 1) /\ n = q * d + r
    <3>1. d \in Int
      BY <2>3
    <3> HIDE DEF d, n
    <3>2. d # 0 => d \in Nat \ {0} /\ n \in Int
      BY <2>3, <3>1
    <3>3. d # 0 => q \in Nat
      BY <2>3, <3>2, DivideNat
    <3>4. d # 0 => r \in 0..(d - 1) /\ n = q * d + r
      BY <3>2, DivideType
    <3>5. QED
      BY <3>3, <3>4
  <2>6. CASE HandleDivideError
    <3>1. outcome' = "halted" /\ (d # 0 => q > m - 1)
      BY <2>6 DEF HandleDivideError, DivideError
    <3>2. ASSUME NEW k \in 0..(m - 1), n - k * d \in 0..(d - 1) PROVE FALSE
      <4>1. d \in Nat \ {0} /\ k \in Int /\ k * d \in Int
        BY <2>3, <3>2
      <4>2. n = k * d + (n - k * d) /\ n - k * d \in Nat /\ n - k * d < d
        BY <2>3, <3>2, <4>1
      <4>3. n \div d = k
        BY <2>3, <4>1, <4>2, DivideUnique
      <4>4. QED
        BY <2>3, <3>1, <4>1, <4>3
    <3> HIDE DEF m, d, n
    <3>3. QED
      BY <2>4, <3>1, <3>2 DEF DivisionExact
  <2>7. CASE HandleDivide \/ HandleDivideByte
    <3>1. d # 0 /\ ~ (q > m - 1)
      BY <2>7 DEF HandleDivide, HandleDivideByte, DivideError
    <3>2. q \in 0..(m - 1) /\ r \in 0..(m - 1) /\ r \in 0..(d - 1) /\ n = q * d + r
      BY <2>3, <2>5, <3>1
    <3>3. rax' = Set(rax, bits, q)
      BY <2>7 DEF HandleDivide, HandleDivideByte
    <3>4. HandleDivide => rdx' = Set(rdx, bits, r)
      BY DEF HandleDivide
    <3>5. outcome' \in {"returned", "threw"} /\ (outcome' = "returned" => HandleDivide)
      BY <2>7 DEF HandleDivide, HandleDivideByte, Return
    <3> HIDE DEF q, r
    <3>6. Get(Set(rax, bits, q), bits) = q /\ Get(Set(rdx, bits, r), bits) = r
      <4>1. q % m = q /\ r % m = r /\ q \in Int /\ r \in Int
        BY <2>3, <3>2, ModSmall
      <4>2. QED
        BY <2>2, <4>1, SetParts
    <3>7. Result' = q /\ (HandleDivide => Get(rdx, bits)' = r)
      BY <2>2, <3>3, <3>4, <3>6 DEF Result, Get, Modulus
    <3> HIDE DEF m, d, n
    <3>8. n % d = r
      BY DEF r
    <3>9. QED
      BY <2>4, <3>2, <3>5, <3>7, <3>8 DEF DivisionExact
  <2>8. QED
    BY <1>2, <2>1, <2>6, <2>7, DivisionHandlers
<1>3. DivisionExact /\ UNCHANGED vars => DivisionExact'
  BY DEF DivisionExact, Left, Result, vars, input, flags
<1>4. QED
  BY <1>1, <1>2, <1>3, InitStarts, CallStep, PTL DEF Spec

-----------------------------------------------------------------------------
(* Packed operations.                                                      *)

\* A number stands for all those congruent to it.
LEMMA SignedShift ==
  ASSUME NEW v \in 0..(TwoTo[ShortBits] - 1)
  PROVE  /\ Signed(v, ShortBits) \in Int
         /\ \E k \in Int : Signed(v, ShortBits) = v + k * TwoTo[ShortBits]
<1>1. TwoTo[ShortBits] \in Nat \ {0}
  BY PowerType, VectorsAssumption
<1>2. Signed(v, ShortBits) = v + 0 * TwoTo[ShortBits]
      \/ Signed(v, ShortBits) = v + (-1) * TwoTo[ShortBits]
  BY <1>1 DEF Signed
<1>3. QED
  BY <1>1, <1>2

LEMMA ProductCongruent ==
  ASSUME NEW m \in Nat \ {0}, NEW x \in Int, NEW y \in Int, NEW k \in Int, NEW l \in Int
  PROVE  ((((x + k * m) * (y + l * m)) % m) - x * y) % m = 0
<1> DEFINE p == (x + k * m) * (y + l * m)
           q == x * y
           e == k * y + x * l + (k * l) * m
<1>1. q \in Int /\ e \in Int /\ p \in Int
  OBVIOUS
<1>2. p = q + e * m
  <2>1. p = x * y + (k * m) * y + x * (l * m) + (k * m) * (l * m)
    OBVIOUS
  <2>2. (k * m) * y = (k * y) * m /\ x * (l * m) = (x * l) * m
        /\ (k * m) * (l * m) = ((k * l) * m) * m
    OBVIOUS
  <2>3. QED
    BY <2>1, <2>2
<1> HIDE DEF p, q, e
<1>3. p % m = q % m
  BY <1>1, <1>2, DivideShifted
<1> DEFINE d == q \div m
           r == q % m
<1>4. q = d * m + r /\ d \in Int /\ r \in Int
  BY <1>1, DivideType
<1> HIDE DEF d, r
<1>5. r - q = (-d) * m /\ -d \in Int
  BY <1>1, <1>4
<1>6. (r - q) % m = 0
  BY <1>5, MultipleModulo
<1>7. QED
  BY <1>3, <1>6 DEF p, q, r

\* What PackedExact says of one lane.
LaneExact(o, a, b, r) ==
  LET Compares == ~ a.nan /\ ~ b.nan /\ a.value # b.value
  IN  /\ o \in PackedBits => \A k \in 0..(WordBits - 1) :
           LET p == Bit(a, k) = 1
               q == Bit(b, k) = 1
           IN  Bit(r, k) = 1 <=> CASE o = "packed and"     -> p /\ q
                                   [] o = "packed and not" -> ~ p /\ q
                                   [] o = "packed or"      -> p \/ q
                                   [] o = "packed xor"     -> p # q
      /\ o = "packed mul low" =>
           \A x \in {a, a - TwoTo[ShortBits]}, y \in {b, b - TwoTo[ShortBits]} :
             (r - x * y) % TwoTo[ShortBits] = 0
      /\ o \in PackedExtremes =>
           IF ~ Compares THEN r = b
           ELSE r \in {a, b} /\ \A x \in {a, b} :
                  IF o = "packed max" THEN r.value >= x.value ELSE r.value <= x.value

LEMMA BitwiseExact ==
  ASSUME NEW o \in PackedBits, NEW a \in Words, NEW b \in Words, NEW lane \in Lanes
  PROVE  LaneExact(o, a[lane], b[lane], Bitwise(o, a, b)[lane])
<1>1. o \notin PackedExtremes /\ o # "packed mul low"
  BY DEF PackedBits, PackedExtremes
<1>2. ASSUME NEW k \in 0..(WordBits - 1)
      PROVE  Bit(Bitwise(o, a, b)[lane], k) = 1 <=>
         CASE o = "packed and"     -> Bit(a[lane], k) = 1 /\ Bit(b[lane], k) = 1
           [] o = "packed and not" -> ~ Bit(a[lane], k) = 1 /\ Bit(b[lane], k) = 1
           [] o = "packed or"      -> Bit(a[lane], k) = 1 \/ Bit(b[lane], k) = 1
           [] o = "packed xor"     -> (Bit(a[lane], k) = 1) # (Bit(b[lane], k) = 1)
  <2> DEFINE u == a[lane]
             v == b[lane]
  <2>1. DOMAIN a = Lanes /\ u \in Int /\ v \in Int /\ WordBits \in Nat /\ k \in Nat
    <3>1. a \in [Lanes -> 0..(TwoTo[WordBits] - 1)] /\ b \in [Lanes -> 0..(TwoTo[WordBits] - 1)]
      BY ExecutorAssumption
    <3>2. QED
      BY <3>1, VectorsAssumption
  <2>2. BitsOf(o) \in Tables
    <3>1. \A p, q \in 0..1 : p * q \in 0..1 /\ (1 - p) * q \in 0..1
                             /\ p + q - p * q \in 0..1 /\ (p + q) % 2 \in 0..1
      <4>1. TAKE p, q \in 0..1
      <4>2. p \in {0, 1} /\ q \in {0, 1}
        OBVIOUS
      <4>3. QED
        BY <4>2
    <3>2. QED
      BY <3>1 DEF BitsOf, Tables, PackedBits
  <2>3. Bitwise(o, a, b)[lane] = Combine(BitsOf(o), u, v, WordBits)
    BY <2>1 DEF Bitwise, Lanewise
  <2> HIDE DEF u, v
  <2>4. Bit(Bitwise(o, a, b)[lane], k) = BitsOf(o)[Bit(u, k)][Bit(v, k)]
    BY <2>1, <2>2, <2>3, CombineBits
  <2>5. Bit(u, k) \in {0, 1} /\ Bit(v, k) \in {0, 1}
    BY <2>1, BitType
  <2> DEFINE p == Bit(u, k)
             q == Bit(v, k)
  <2> HIDE DEF p, q
  <2>6. BitsOf(o)[p][q] = 1 <=>
             CASE o = "packed and"     -> p = 1 /\ q = 1
               [] o = "packed and not" -> ~ p = 1 /\ q = 1
               [] o = "packed or"      -> p = 1 \/ q = 1
               [] o = "packed xor"     -> (p = 1) # (q = 1)
    <3>1. p \in {0, 1} /\ q \in {0, 1} /\ p \in 0..1 /\ q \in 0..1
      BY <2>5 DEF p, q
    <3>2. \A i, j \in 0..1 :
            BitsOf(o)[i][j] = CASE o = "packed and"     -> i * j
                                [] o = "packed and not" -> (1 - i) * j
                                [] o = "packed or"      -> i + j - i * j
                                [] o = "packed xor"     -> (i + j) % 2
      BY DEF BitsOf
    <3>3. CASE o = "packed and"
      <4>1. BitsOf(o)[p][q] = p * q
        BY <3>1, <3>2, <3>3
      <4>2. p * q = 1 <=> p = 1 /\ q = 1
        BY <3>1
      <4>3. QED
        BY <3>3, <4>1, <4>2
    <3>4. CASE o = "packed and not"
      <4>1. BitsOf(o)[p][q] = (1 - p) * q
        BY <3>1, <3>2, <3>4
      <4>2. (1 - p) * q = 1 <=> ~ p = 1 /\ q = 1
        BY <3>1
      <4>3. QED
        BY <3>4, <4>1, <4>2
    <3>5. CASE o = "packed or"
      <4>1. BitsOf(o)[p][q] = p + q - p * q
        BY <3>1, <3>2, <3>5
      <4>2. p + q - p * q = 1 <=> p = 1 \/ q = 1
        BY <3>1
      <4>3. QED
        BY <3>5, <4>1, <4>2
    <3>6. CASE o = "packed xor"
      <4>1. BitsOf(o)[p][q] = (p + q) % 2
        BY <3>1, <3>2, <3>6
      <4>2. (p + q) % 2 = 1 <=> (p = 1) # (q = 1)
        BY <3>1
      <4>3. QED
        BY <3>6, <4>1, <4>2
    <3>7. QED
      BY <3>3, <3>4, <3>5, <3>6 DEF PackedBits
  <2>7. QED
    BY <2>4, <2>6 DEF p, q, u, v
<1>3. QED
  BY <1>1, <1>2 DEF LaneExact

LEMMA MultiplyLanes ==
  ASSUME NEW a \in Shorts, NEW b \in Shorts, NEW lane \in Lanes,
         NEW x \in {a[lane], a[lane] - TwoTo[ShortBits]},
         NEW y \in {b[lane], b[lane] - TwoTo[ShortBits]}
  PROVE  (MultiplyLow(a, b)[lane] - x * y) % TwoTo[ShortBits] = 0
<1> DEFINE m == TwoTo[ShortBits]
           s == Signed(a[lane], ShortBits)
           t == Signed(b[lane], ShortBits)
<1>1. m \in Nat \ {0}
  BY PowerType, VectorsAssumption
<1>2. DOMAIN a = Lanes /\ a[lane] \in 0..(m - 1) /\ b[lane] \in 0..(m - 1)
  BY ExecutorAssumption
<1>3. x \in Int /\ y \in Int
  BY <1>1, <1>2
<1>4. PICK i \in Int : s = a[lane] + i * m
  BY <1>2, SignedShift
<1>5. PICK j \in Int : t = b[lane] + j * m
  BY <1>2, SignedShift
<1>6. MultiplyLow(a, b)[lane] = (s * t) % m
  BY <1>2 DEF MultiplyLow, Lanewise
<1>7. x = a[lane] \/ x = a[lane] - m
  OBVIOUS
<1>8. y = b[lane] \/ y = b[lane] - m
  OBVIOUS
<1> HIDE DEF m, s, t
<1>9. \E k \in Int : s = x + k * m
  <2>1. x = a[lane] => s = x + i * m
    BY <1>1, <1>2, <1>3, <1>4
  <2>2. x = a[lane] - m => s = x + (i + 1) * m
    BY <1>1, <1>2, <1>3, <1>4
  <2>3. QED
    BY <1>7, <2>1, <2>2
<1>10. \E l \in Int : t = y + l * m
  <2>1. y = b[lane] => t = y + j * m
    BY <1>1, <1>2, <1>3, <1>5
  <2>2. y = b[lane] - m => t = y + (j + 1) * m
    BY <1>1, <1>2, <1>3, <1>5
  <2>3. QED
    BY <1>8, <2>1, <2>2
<1>11. PICK k \in Int, l \in Int : s = x + k * m /\ t = y + l * m
  BY <1>9, <1>10
<1>12. (((s * t) % m) - x * y) % m = 0
  BY <1>1, <1>3, <1>11, ProductCongruent
<1>13. QED
  BY <1>6, <1>12 DEF m

LEMMA ExtremeExact ==
  ASSUME NEW o \in PackedExtremes, NEW a \in Floats, NEW b \in Floats, NEW lane \in Lanes
  PROVE  LaneExact(o, a[lane], b[lane], Extreme(o, a, b)[lane])
<1>1. o \notin PackedBits /\ o # "packed mul low"
  BY DEF PackedBits, PackedExtremes
<1>2. IF ~ (~ a[lane].nan /\ ~ b[lane].nan /\ a[lane].value # b[lane].value)
      THEN Extreme(o, a, b)[lane] = b[lane]
      ELSE /\ Extreme(o, a, b)[lane] \in {a[lane], b[lane]}
           /\ \A x \in {a[lane], b[lane]} :
                IF o = "packed max" THEN Extreme(o, a, b)[lane].value >= x.value
                ELSE Extreme(o, a, b)[lane].value <= x.value
  <2> DEFINE u == a[lane]
             v == b[lane]
             e == Extreme(o, a, b)[lane]
             Number == [nan : BOOLEAN, negative : BOOLEAN, value : Int]
  <2>1. DOMAIN a = Lanes /\ u \in Number /\ v \in Number
    BY ExecutorAssumption
  <2>2. u.value \in Int /\ v.value \in Int /\ u.nan \in BOOLEAN /\ v.nan \in BOOLEAN
    BY <2>1
  <2>3. e = IF o = "packed max" THEN IF Greater(u, v) THEN u ELSE v
            ELSE IF Greater(v, u) THEN u ELSE v
    BY <2>1 DEF Extreme, Lanewise
  <2>4. /\ Greater(u, v) <=> ~ u.nan /\ ~ v.nan /\ u.value > v.value
        /\ Greater(v, u) <=> ~ u.nan /\ ~ v.nan /\ v.value > u.value
    BY DEF Greater
  <2> HIDE DEF u, v, e
  <2>5. CASE u.nan \/ v.nan \/ u.value = v.value
    <3>1. ~ Greater(u, v) /\ ~ Greater(v, u)
      BY <2>2, <2>4, <2>5
    <3>2. e = v
      BY <2>3, <3>1
    <3>3. QED
      BY <2>5, <3>2 DEF u, v, e
  <2>6. CASE ~ (u.nan \/ v.nan \/ u.value = v.value)
    <3>1. e = u \/ e = v
      BY <2>3
    <3>2. CASE o = "packed max"
      <4>1. e = IF Greater(u, v) THEN u ELSE v
        BY <2>3, <3>2
      <4>2. Greater(u, v) => u.value >= v.value
        BY <2>2, <2>4
      <4>3. ~ Greater(u, v) => v.value >= u.value
        BY <2>2, <2>4, <2>6
      <4>4. e.value >= u.value /\ e.value >= v.value
        BY <2>2, <4>1, <4>2, <4>3
      <4>5. QED
        BY <2>6, <3>1, <3>2, <4>4 DEF u, v, e
    <3>3. CASE o # "packed max"
      <4>1. e = IF Greater(v, u) THEN u ELSE v
        BY <2>3, <3>3
      <4>2. Greater(v, u) => u.value <= v.value
        BY <2>2, <2>4
      <4>3. ~ Greater(v, u) => v.value <= u.value
        BY <2>2, <2>4, <2>6
      <4>4. e.value <= u.value /\ e.value <= v.value
        BY <2>2, <4>1, <4>2, <4>3
      <4>5. QED
        BY <2>6, <3>1, <3>3, <4>4 DEF u, v, e
    <3>4. QED
      BY <3>2, <3>3
  <2>7. QED
    BY <2>5, <2>6
<1>3. QED
  BY <1>1, <1>2 DEF LaneExact

\* The three kinds of contents the lane lemmas are about.
LEMMA PackedContents ==
  /\ op \in PackedBits => Contents = Words
  /\ op = "packed mul low" => Contents = Shorts
  /\ op \in PackedExtremes => Contents = Floats
BY DEF Contents, PackedBits, PackedExtremes, PackedBinary, PackedUnary

LEMMA PackedResults ==
  /\ op \in PackedBits => PackedResult = Bitwise(op, ymm[dest], ymm[src])
  /\ op = "packed mul low" => PackedResult = MultiplyLow(ymm[dest], ymm[src])
  /\ op \in PackedExtremes => PackedResult = Extreme(op, ymm[dest], ymm[src])
BY DEF PackedResult, PackedBits, PackedExtremes, PackedBinary, PackedUnary

LEMMA PackedHandlers == ASSUME Next, op \in Packed PROVE HandlePacked \/ HandlePackedUnmapped
<1>1. op \notin Scalar
  BY ScalarsAreNotPacked
<1>2. QED
  BY <1>1 DEF Next, Called, CalledWith, HandleArithmetic, HandleLogic, HandleNot, HandleShift,
     HandleLongShift, HandleDivideError, HandleDivide, HandleDivideByte, HandleMove,
     HandleStep, HandleMultiply, Ignore, Scalar, Uncalled

LEMMA LanesExact ==
  ASSUME ymm[dest] \in Contents, ymm[src] \in Contents, NEW lane \in Lanes
  PROVE  LaneExact(op, ymm[dest][lane], ymm[src][lane], PackedResult[lane])
<1> DEFINE a == ymm[dest]
           b == ymm[src]
<1>1. ASSUME op \in PackedBits
      PROVE  LaneExact(op, a[lane], b[lane], PackedResult[lane])
  <2>1. a \in Words /\ b \in Words /\ PackedResult = Bitwise(op, a, b)
    BY <1>1, PackedContents, PackedResults
  <2>2. LaneExact(op, a[lane], b[lane], Bitwise(op, a, b)[lane])
    BY <1>1, <2>1, BitwiseExact
  <2>3. QED
    BY <2>1, <2>2
<1>2. ASSUME op = "packed mul low"
      PROVE  LaneExact(op, a[lane], b[lane], PackedResult[lane])
  <2>1. a \in Shorts /\ b \in Shorts /\ PackedResult = MultiplyLow(a, b)
    BY <1>2, PackedContents, PackedResults
  <2>2. op \notin PackedExtremes /\ op \notin PackedBits
    BY <1>2 DEF PackedBits, PackedExtremes
  <2> HIDE DEF a, b
  <2>3. QED
    BY <1>2, <2>1, <2>2, MultiplyLanes DEF LaneExact
<1>3. ASSUME op \in PackedExtremes
      PROVE  LaneExact(op, a[lane], b[lane], PackedResult[lane])
  <2>1. a \in Floats /\ b \in Floats /\ PackedResult = Extreme(op, a, b)
    BY <1>3, PackedContents, PackedResults
  <2>2. LaneExact(op, a[lane], b[lane], Extreme(op, a, b)[lane])
    BY <1>3, <2>1, ExtremeExact
  <2>3. QED
    BY <2>1, <2>2
<1>4. QED
  BY <1>1, <1>2, <1>3 DEF LaneExact

\* PackedExact with that name for it.
PackedFolded ==
  op \in Packed /\ outcome # "called" =>
    /\ \A v \in Vectors256 : (v # dest \/ outcome = "threw") => ymm[v] = before.ymm[v]
    /\ outcome = "threw" <=> \E v \in Operands : v \in UnmappedVectors
    /\ outcome = "returned" => \A lane \in Lanes :
         LaneExact(op, before.ymm[dest][lane], before.ymm[src][lane], ymm[dest][lane])

LEMMA PackedUnfolds == PackedFolded => PackedExact
BY DEF PackedFolded, PackedExact, LaneExact

(* A packed operation changes one register, in every lane as it should.    *)
THEOREM PackedIsExact == Spec => []PackedExact
<1>1. Init => PackedFolded
  BY DEF Init, PackedFolded
<1>2. ASSUME CallInvariant, Next PROVE PackedFolded'
  <2>1. SUFFICES ASSUME op \in Packed PROVE PackedFolded'
    BY <1>2, CallStart DEF PackedFolded, Packed, PackedBits, PackedExtremes, PackedBinary,
       PackedUnary
  <2>2. /\ op' = op /\ dest' = dest /\ src' = src /\ before' = before /\ ymm = before.ymm
        /\ dest \in Vectors256 /\ src \in Vectors256 /\ DOMAIN ymm = Vectors256
    BY <1>2, CallStart DEF CallInvariant, ExecutorTypeOK
  <2>3. Operands' = Operands /\ Operands \subseteq Vectors256
    BY <2>2 DEF Operands
  <2>4. ~ Operands \subseteq MappedVectors <=> \E v \in Operands : v \in UnmappedVectors
    BY <2>3, ExecutorAssumption DEF Vectors256
  <2>5. CASE HandlePackedUnmapped
    <3>1. outcome' = "threw" /\ ymm' = ymm /\ ~ Operands \subseteq MappedVectors
      BY <2>5 DEF HandlePackedUnmapped
    <3>2. QED
      BY <2>2, <2>3, <2>4, <3>1 DEF PackedFolded
  <2>6. CASE HandlePacked
    <3>1. /\ outcome' = "returned" /\ ymm' = [ymm EXCEPT ![dest] = PackedResult]
          /\ Operands \subseteq MappedVectors
      BY <2>6 DEF HandlePacked, WriteVector, Return
    <3>2. /\ \A v \in Vectors256 : v # dest => ymm'[v] = before.ymm[v]
          /\ ymm'[dest] = PackedResult
      BY <2>2, <3>1
    <3>3. ASSUME NEW lane \in Lanes
          PROVE  LaneExact(op, before.ymm[dest][lane], before.ymm[src][lane], ymm'[dest][lane])
      <4>1. CASE op = "vector zero"
        BY <4>1 DEF LaneExact, PackedBits, PackedExtremes
      <4>2. CASE op # "vector zero"
        <5>1. dest \in MappedVectors /\ src \in MappedVectors
          BY <3>1, <4>2 DEF Operands
        <5>2. ymm[dest] \in Contents /\ ymm[src] \in Contents
          BY <1>2, <2>2, <5>1 DEF CallInvariant, Prepared
        <5>3. QED
          BY <2>2, <3>2, <5>2, LanesExact
      <4>3. QED
        BY <4>1, <4>2
    <3>4. QED
      BY <2>2, <2>3, <2>4, <3>1, <3>2, <3>3 DEF PackedFolded
  <2>7. QED
    BY <1>2, <2>1, <2>5, <2>6, PackedHandlers
<1>3. PackedFolded /\ UNCHANGED vars => PackedFolded'
  BY DEF PackedFolded, Operands, vars, input, flags
<1>4. QED
  BY <1>1, <1>2, <1>3, PackedUnfolds, InitStarts, CallStep, PTL DEF Spec

-----------------------------------------------------------------------------
(* Calls on 32 bits, as the registers and flags they end with.             *)

\* Old, with another eax and other flags.
Changed(eax, z, s, c, o) ==
  [eax |-> eax, edx |-> Old.edx, zf |-> z, sf |-> s, cf |-> c, of |-> o]

NewArithmetic ==
  LET a == Old.eax
      b == Operand
      r == (IF op = "add" THEN a + b ELSE a - b) % Two32
  IN  Changed(IF op = "cmp" THEN a ELSE r, r = 0, SignBit(r, 32),
              IF op = "add" THEN CarryOfSum(a, b, 32) ELSE a < b, before.of)

NewLogic ==
  LET r == Combine(BitOf, Old.eax, Operand, Bits32)
  IN  Changed(r, r = 0, SignBit(r, 32), FALSE, FALSE)

NewNot == Changed(Two32 - 1 - Old.eax, FALSE, FALSE, before.cf, before.of)

NewMove == Changed(Operand, FALSE, FALSE, before.cf, before.of)

ShiftResult(a) ==
  CASE op = "shl" -> (a * TwoTo[Count]) % Two32
    [] op = "shr" -> a \div TwoTo[Count]
    [] op = "sar" -> Signed(a, Bits32) \div TwoTo[Count]

NewShift ==
  LET a == Old.eax
      r == ShiftResult(a) % Two32
  IN  Changed(r, r = 0, SignBit(r, 32),
              IF Count > 0 THEN ShiftedOut(a) ELSE before.cf,
              IF Count # 1 THEN before.of
              ELSE CASE op = "shl" -> SignBit(r, 32) # ShiftedOut(a)
                     [] op = "shr" -> SignBit(a, 32)
                     [] op = "sar" -> FALSE)

NewStep ==
  LET a == Old.eax
      h == TwoTo[Bits32 - 1]
      r == (IF op = "inc" THEN a + 1 ELSE a - 1) % Two32
  IN  Changed(r, r = 0, SignBit(r, 32), before.cf, a = IF op = "inc" THEN h - 1 ELSE h)

NewMultiply ==
  LET product == IF op = "mul" THEN Old.eax * Operand
                 ELSE Signed(Old.eax, Bits32) * Signed(Operand, Bits32)
      low     == product % Two32
      high    == (product \div Two32) % Two32
  IN  [eax |-> low, edx |-> high, zf |-> FALSE, sf |-> FALSE,
       cf |-> ~ Fits(high, low), of |-> ~ Fits(high, low)]

NewDivide ==
  LET n == Old.edx * Two32 + Old.eax
  IN  IF Operand # 0 => n \div Operand > Two32 - 1 THEN Old
      ELSE [eax |-> n \div Operand, edx |-> n % Operand, zf |-> FALSE, sf |-> FALSE,
            cf |-> before.cf, of |-> before.of]

New ==
  CASE op \in Arithmetic   -> NewArithmetic
    [] op \in Logic        -> NewLogic
    [] op = "not"          -> NewNot
    [] op = "move"         -> NewMove
    [] op \in Shifts       -> NewShift
    [] op \in {"inc", "dec"} -> NewStep
    [] op \in Multiplications -> NewMultiply
    [] op = "div"          -> NewDivide

\* The handlers on 32 bits end in the states defined above.
EndsNew ==
  bits = 32 /\ op \in Scalar \ {"unsupported"} /\ outcome # "called"
  /\ (op \in Shifts => Count < Bits32)
  => Ended = New

LEMMA NewKept ==
  ASSUME op' = op, source' = source, before' = before
  PROVE  New' = New
<1>1. Old' = Old /\ Operand' = Operand /\ Count' = Count
  BY DEF Old, Operand, Count, Get, Modulus
<1>2. /\ NewArithmetic' = NewArithmetic /\ NewNot' = NewNot /\ NewMove' = NewMove
      /\ NewLogic' = NewLogic
  BY <1>1 DEF NewArithmetic, NewNot, NewMove, NewLogic, Changed, Two32, Bits32,
     SignBit, CarryOfSum, Modulus, BitOf
<1>3. NewShift' = NewShift
  BY <1>1 DEF NewShift, ShiftedOut, ShiftResult, Changed, Two32, Bits32, SignBit
<1>4. NewStep' = NewStep /\ NewMultiply' = NewMultiply /\ NewDivide' = NewDivide
  BY <1>1 DEF NewStep, NewMultiply, NewDivide, Changed, Two32, Bits32, SignBit,
     Fits, Modulus
<1>5. QED
  BY <1>2, <1>3, <1>4 DEF New

\* The values that go in.
LEMMA Values32 ==
  ASSUME CallInvariant
  PROVE  /\ Two32 = Modulus(32) /\ Bits32 = Width[32] /\ Two32 \in Nat \ {0}
         /\ TwoTo[Bits32 - 1] \in Nat \ {0} /\ Two32 = 2 * TwoTo[Bits32 - 1]
         /\ Bits32 \in Nat /\ Bits32 > 1
         /\ Old.eax = Get(before.rax, 32) /\ Old.edx = Get(before.rdx, 32)
         /\ Old.eax \in 0..(Two32 - 1) /\ Operand \in 0..(Two32 - 1)
         /\ Old.edx \in 0..(Two32 - 1)
         /\ Count = Places /\ Count \in 0..(Modulus(8) - 1) /\ Count \in Nat
<1>1. Two32 = Modulus(32) /\ Bits32 = Width[32]
  BY DEF Two32, Bits32, Modulus
<1>2. before.rax \in Quad /\ before.rdx \in Quad /\ source \in Quad
  BY DEF CallInvariant, ExecutorTypeOK
<1>3. before.rax \in Int /\ before.rdx \in Int /\ source \in Int
  BY <1>2, QuadSize, Widths
<1>4. Old.eax = Get(before.rax, 32) /\ Old.edx = Get(before.rdx, 32)
  BY DEF Old
<1>5. Count = Places
  BY DEF Count, Places, Get
<1>6. Get(before.rax, 32) \in 0..(Modulus(32) - 1) /\ Get(before.rdx, 32) \in 0..(Modulus(32) - 1)
      /\ Operand \in 0..(Modulus(32) - 1) /\ Count \in 0..(Modulus(8) - 1) /\ Count \in Nat
  BY <1>3, GetType, QuadSize DEF Operand, Count
<1>7. QED
  BY <1>1, <1>4, <1>5, <1>6, Widths, QuadSize

\* The registers and flags a handler on 32 bits starts from.
LEMMA Start32 ==
  ASSUME CallInvariant, Next, bits = 32
  PROVE  /\ Get(rax, bits) = Old.eax /\ Get(source, bits) = Operand
         /\ Get(rax, 32) = Old.eax /\ Get(rdx, 32) = Old.edx /\ Get(rdx, bits) = Old.edx
         /\ Get(Get(rax, bits), 32) = Old.eax /\ Get(Get(source, bits), 32) = Operand
         /\ Modulus(bits) = Two32 /\ Width[bits] = Bits32
         /\ Divisor = Operand /\ Dividend = Old.edx * Two32 + Old.eax
         /\ New' = New
<1>1. /\ rax = before.rax /\ rdx = before.rdx /\ op' = op /\ source' = source
      /\ before' = before /\ rax \in Quad /\ source \in Quad
  BY CallStart
<1>2. rax \in Int /\ source \in Int
  BY <1>1, QuadSize, Widths
<1>3. Get(Get(rax, 32), 32) = Get(rax, 32) /\ Get(Get(source, 32), 32) = Get(source, 32)
  BY <1>2, GetTwice, QuadSize
<1>4. Old.eax = Get(before.rax, 32) /\ Old.edx = Get(before.rdx, 32) /\ Two32 = Modulus(32)
      /\ Bits32 = Width[32]
  BY Values32
<1>5. New' = New
  BY <1>1, NewKept
<1>6. QED
  BY <1>1, <1>3, <1>4, <1>5 DEF Operand, Divisor, Dividend

LEMMA NewIs ==
  /\ op \in Arithmetic => New = NewArithmetic
  /\ op \in Logic => New = NewLogic
  /\ op = "not" => New = NewNot
  /\ op = "move" => New = NewMove
  /\ op \in Shifts => New = NewShift
  /\ op \in {"inc", "dec"} => New = NewStep
  /\ op \in Multiplications => New = NewMultiply
  /\ op = "div" => New = NewDivide
BY DEF New, Arithmetic, Logic, Shifts, Multiplications

\* What is left in eax and edx.
LEMMA Ended32 ==
  ASSUME CallInvariant, Next, bits = 32, NEW x \in Int, NEW y \in Int
  PROVE  /\ rax' = Set(rax, 32, x) => Ended'.eax = x % Two32
         /\ rax' = rax => Ended'.eax = Old.eax
         /\ rdx' = Set(rdx, 32, y) => Ended'.edx = y % Two32
         /\ rdx' = rdx => Ended'.edx = Old.edx
         /\ Ended' = [eax |-> Ended'.eax, edx |-> Ended'.edx,
                      zf |-> zf', sf |-> sf', cf |-> cf', of |-> of']
<1>1. rax \in Quad /\ rdx \in Quad /\ Two32 = Modulus(32)
  BY CallStart, Values32
<1>2. Get(Set(rax, 32, x), 32) = x % Two32 /\ Get(Set(rdx, 32, y), 32) = y % Two32
  BY <1>1, SetParts, QuadSize
<1>3. Ended'.eax = Get(rax', 32) /\ Ended'.edx = Get(rdx', 32)
  BY DEF Ended, Get, Modulus
<1>4. Get(rax, 32) = Old.eax /\ Get(rdx, 32) = Old.edx
  BY Start32
<1>5. QED
  BY <1>2, <1>3, <1>4 DEF Ended, Get, Modulus

LEMMA ArithmeticEndsNew ==
  ASSUME CallInvariant, HandleArithmetic, bits = 32
  PROVE  Ended' = New
<1> DEFINE a == Old.eax
           b == Operand
           x == IF op = "add" THEN a + b ELSE a - b
           r == x % Two32
<1>1. Next
  BY DEF Next
<1>2. /\ rax' = IF op = "cmp" THEN rax ELSE Set(rax, 32, r)
      /\ zf' = (r = 0) /\ sf' = SignBit(r, 32)
      /\ cf' = IF op = "add" THEN CarryOfSum(a, b, 32) ELSE a < b
      /\ rdx' = rdx /\ of' = before.of /\ op \in Arithmetic
  BY <1>1, Start32, CallStart DEF HandleArithmetic, ResultFlags, Called, CalledWith
<1>3. x \in Int /\ Two32 \in Nat \ {0}
  BY Values32
<1> HIDE DEF x
<1>4. r \in 0..(Two32 - 1) /\ r \in Int
  BY <1>3, DivideType
<1>5. r % Two32 = r
  BY <1>3, <1>4, ModSmall
<1>6. New = Changed(IF op = "cmp" THEN a ELSE r, r = 0, SignBit(r, 32),
                    IF op = "add" THEN CarryOfSum(a, b, 32) ELSE a < b, before.of)
  BY <1>2, NewIs DEF NewArithmetic, x
<1> HIDE DEF r, a, b
<1>7. Ended'.eax = (IF op = "cmp" THEN a ELSE r) /\ Ended'.edx = Old.edx
  BY <1>1, <1>2, <1>4, <1>5, Ended32 DEF a
<1>8. QED
  BY <1>1, <1>2, <1>4, <1>6, <1>7, Ended32 DEF Changed

LEMMA LogicEndsNew ==
  ASSUME CallInvariant, HandleLogic, bits = 32
  PROVE  Ended' = New
<1> DEFINE r == Combine(BitOf, Old.eax, Operand, Bits32)
<1>1. Next
  BY DEF Next
<1>2. /\ rax' = Set(rax, 32, r)
      /\ zf' = (r = 0) /\ sf' = SignBit(r, 32) /\ cf' = FALSE /\ of' = FALSE
      /\ rdx' = rdx /\ op \in Logic
  BY <1>1, Start32 DEF HandleLogic, ResultFlags, Called, CalledWith
<1>3. r \in 0..(Two32 - 1) /\ Two32 \in Nat \ {0}
  <2>1. BitOf \in Tables
    BY <1>2 DEF BitOf, Tables, Logic
  <2>2. Old.eax \in Int /\ Operand \in Int /\ Bits32 \in Nat /\ Two32 = TwoTo[Bits32]
        /\ Two32 \in Nat \ {0}
    BY Values32 DEF Two32
  <2>3. QED
    BY <2>1, <2>2, CombineBits
<1> HIDE DEF r
<1>4. r % Two32 = r /\ r \in Int
  BY <1>3, ModSmall
<1>5. New = Changed(r, r = 0, SignBit(r, 32), FALSE, FALSE)
  BY <1>2, NewIs DEF NewLogic, r
<1>6. Ended'.eax = r /\ Ended'.edx = Old.edx
  BY <1>1, <1>2, <1>4, Ended32
<1>7. QED
  BY <1>1, <1>2, <1>4, <1>5, <1>6, Ended32 DEF Changed

LEMMA NotEndsNew ==
  ASSUME CallInvariant, HandleNot, bits = 32
  PROVE  Ended' = New
<1> DEFINE r == Two32 - 1 - Old.eax
<1>1. Next
  BY DEF Next
<1>2. r \in 0..(Two32 - 1) /\ Two32 \in Nat \ {0} /\ Two32 = Modulus(32)
  BY Values32
<1>3. r % Two32 = r /\ r \in Int
  BY <1>2, ModSmall
<1>4. /\ rax' = Set(rax, 32, r) /\ rdx' = rdx
      /\ zf' = FALSE /\ sf' = FALSE /\ cf' = before.cf /\ of' = before.of /\ op = "not"
  BY <1>1, <1>2, Start32, CallStart DEF HandleNot, Called, CalledWith, flags
<1>5. New = Changed(r, FALSE, FALSE, before.cf, before.of)
  BY <1>4, NewIs DEF NewNot
<1> HIDE DEF r
<1>6. Ended'.eax = r /\ Ended'.edx = Old.edx
  BY <1>1, <1>3, <1>4, Ended32
<1>7. QED
  BY <1>1, <1>3, <1>4, <1>5, <1>6, Ended32 DEF Changed

LEMMA MoveEndsNew ==
  ASSUME CallInvariant, HandleMove, bits = 32
  PROVE  Ended' = New
<1>1. Next
  BY DEF Next
<1>2. Operand \in 0..(Two32 - 1) /\ Two32 \in Nat \ {0}
  BY Values32
<1>3. Operand % Two32 = Operand /\ Operand \in Int
  BY <1>2, ModSmall
<1>4. /\ rax' = Set(rax, 32, Operand) /\ rdx' = rdx
      /\ zf' = FALSE /\ sf' = FALSE /\ cf' = before.cf /\ of' = before.of /\ op = "move"
  BY <1>1, Start32, CallStart DEF HandleMove, Called, CalledWith, flags
<1>5. New = Changed(Operand, FALSE, FALSE, before.cf, before.of)
  BY <1>4, NewIs DEF NewMove
<1>6. Ended'.eax = Operand /\ Ended'.edx = Old.edx
  BY <1>1, <1>3, <1>4, Ended32
<1>7. QED
  BY <1>1, <1>3, <1>4, <1>5, <1>6, Ended32 DEF Changed

LEMMA ShiftResultType ==
  ASSUME CallInvariant, op \in Shifts
  PROVE  ShiftResult(Old.eax) \in Int /\ (op = "shl" => ShiftResult(Old.eax) \in 0..(Two32 - 1))
<1> DEFINE a == Old.eax
           s == Signed(a, Bits32)
           p == TwoTo[Count]
<1>1. a \in Int /\ Two32 \in Nat \ {0}
  BY Values32
<1>2. s \in Int
  BY Values32, SignedType, QuadSize
<1>3. p \in Nat \ {0}
  BY Values32, PowerType
<1> HIDE DEF a, s, p
<1>4. a * p \in Int
  BY <1>1, <1>3
<1>5. (a * p) % Two32 \in 0..(Two32 - 1) /\ (a * p) % Two32 \in Int
      /\ a \div p \in Int /\ s \div p \in Int
  BY <1>1, <1>2, <1>3, <1>4, DivideInt, DivideType
<1>6. ShiftResult(a) = CASE op = "shl" -> (a * p) % Two32
                         [] op = "shr" -> a \div p
                         [] op = "sar" -> s \div p
  BY DEF ShiftResult, s, p
<1>7. QED
  BY <1>5, <1>6 DEF Shifts, a

LEMMA ShiftEndsNew ==
  ASSUME CallInvariant, HandleShift, bits = 32
  PROVE  Ended' = New
<1> DEFINE a == Old.eax
           x == ShiftResult(a)
           r == x % Two32
<1>1. Next
  BY DEF Next
<1>2. op \in Shifts /\ Two32 = Modulus(32) /\ Bits32 = Width[32] /\ rdx' = rdx
  BY Values32 DEF HandleShift, Called, CalledWith
<1>3. /\ rax' = Set(rax, 32, x)
      /\ zf' = (r = 0) /\ sf' = SignBit(r, 32)
      /\ cf' = IF Count > 0 THEN ShiftedOut(a) ELSE before.cf
  BY <1>1, <1>2, Start32, CallStart DEF HandleShift, ResultFlags, ShiftResult
<1>4. of' = IF Count # 1 THEN before.of
            ELSE CASE op = "shl" -> SignBit(x, 32) # ShiftedOut(a)
                   [] op = "shr" -> SignBit(a, 32)
                   [] op = "sar" -> FALSE
  <2> DEFINE g == Get(Get(rax, bits), 32)
             y == CASE op = "shl" -> (g * TwoTo[Count]) % Modulus(32)
                    [] op = "shr" -> g \div TwoTo[Count]
                    [] op = "sar" -> Signed(g, Width[32]) \div TwoTo[Count]
  <2>1. of' = IF Count # 1 THEN of
              ELSE CASE op = "shl" -> SignBit(y, 32) # ShiftedOut(g)
                     [] op = "shr" -> SignBit(g, 32)
                     [] op = "sar" -> FALSE
    BY DEF HandleShift
  <2>2. g = a /\ of = before.of
    BY <1>1, Start32, CallStart
  <2>3. y = x
    BY <1>2, <2>2 DEF ShiftResult
  <2> HIDE DEF g, y, x, a
  <2>4. QED
    BY <2>1, <2>2, <2>3
<1>5. x \in Int /\ Two32 \in Nat \ {0} /\ (op = "shl" => x \in 0..(Two32 - 1))
  BY <1>2, Values32, ShiftResultType
<1> HIDE DEF x
<1>6. r \in Int /\ (op = "shl" => r = x)
  BY <1>5, DivideInt, ModSmall
<1>7. of' = IF Count # 1 THEN before.of
            ELSE CASE op = "shl" -> SignBit(r, 32) # ShiftedOut(a)
                   [] op = "shr" -> SignBit(a, 32)
                   [] op = "sar" -> FALSE
  <2> HIDE DEF a, r
  <2>1. op = "shl" => SignBit(x, 32) = SignBit(r, 32)
    BY <1>6
  <2>2. QED
    BY <1>2, <1>4, <2>1 DEF Shifts
<1>8. New = Changed(r, r = 0, SignBit(r, 32),
              IF Count > 0 THEN ShiftedOut(a) ELSE before.cf,
              IF Count # 1 THEN before.of
              ELSE CASE op = "shl" -> SignBit(r, 32) # ShiftedOut(a)
                     [] op = "shr" -> SignBit(a, 32)
                     [] op = "sar" -> FALSE)
  BY <1>2, NewIs DEF NewShift, x
<1>9. Ended'.eax = r /\ Ended'.edx = Old.edx
  BY <1>1, <1>2, <1>3, <1>5, Ended32
<1> HIDE DEF r, a
<1>10. QED
  BY <1>1, <1>3, <1>6, <1>7, <1>8, <1>9, Ended32 DEF Changed

LEMMA StepEndsNew ==
  ASSUME CallInvariant, HandleStep, bits = 32
  PROVE  Ended' = New
<1> DEFINE a == Old.eax
           h == TwoTo[Bits32 - 1]
           x == IF op = "inc" THEN a + 1 ELSE a - 1
           r == x % Two32
<1>1. Next
  BY DEF Next
<1>2. op \in {"inc", "dec"} /\ Two32 = Modulus(32) /\ Bits32 = Width[32] /\ rdx' = rdx
  BY Values32 DEF HandleStep, Called, CalledWith
<1>3. /\ rax' = Set(rax, 32, r)
      /\ zf' = (r = 0) /\ sf' = SignBit(r, 32) /\ cf' = before.cf
      /\ of' = (a = IF op = "inc" THEN h - 1 ELSE h)
  BY <1>1, <1>2, Start32, CallStart DEF HandleStep, ResultFlags
<1>4. x \in Int /\ Two32 \in Nat \ {0}
  BY Values32
<1> HIDE DEF x
<1>5. r \in 0..(Two32 - 1) /\ r \in Int
  BY <1>4, DivideType
<1>6. r % Two32 = r
  BY <1>4, <1>5, ModSmall
<1>7. New = Changed(r, r = 0, SignBit(r, 32), before.cf, a = IF op = "inc" THEN h - 1 ELSE h)
  BY <1>2, NewIs DEF NewStep, x
<1> HIDE DEF r, h
<1>8. Ended'.eax = r /\ Ended'.edx = Old.edx
  BY <1>1, <1>2, <1>3, <1>5, <1>6, Ended32
<1>9. QED
  BY <1>1, <1>3, <1>5, <1>7, <1>8, Ended32 DEF Changed

LEMMA MultiplyEndsNew ==
  ASSUME CallInvariant, HandleMultiply, bits = 32
  PROVE  Ended' = New
<1> DEFINE product == IF op = "mul" THEN Old.eax * Operand
                      ELSE Signed(Old.eax, Bits32) * Signed(Operand, Bits32)
           low  == product % Two32
           q    == product \div Two32
           high == q % Two32
<1>1. Next
  BY DEF Next
<1>2. op \in Multiplications /\ Two32 = Modulus(32) /\ Bits32 = Width[32]
  BY Values32 DEF HandleMultiply, Called, CalledWith, Multiplications
<1>3. /\ rax' = Set(rax, 32, low) /\ rdx' = Set(rdx, 32, high)
      /\ zf' = FALSE /\ sf' = FALSE
      /\ cf' = ~ Fits(high, low) /\ of' = ~ Fits(high, low)
  BY <1>1, <1>2, Start32, CallStart DEF HandleMultiply
<1>4. product \in Int /\ Two32 \in Nat \ {0}
  <2>1. Old.eax \in Int /\ Operand \in Int /\ Two32 \in Nat \ {0}
    BY Values32
  <2>2. Signed(Old.eax, Bits32) \in Int
    BY Values32, SignedType, QuadSize
  <2>3. Signed(Operand, Bits32) \in Int
    BY Values32, SignedType, QuadSize
  <2>4. QED
    BY <2>1, <2>2, <2>3
<1>5. New = [eax |-> low, edx |-> high, zf |-> FALSE, sf |-> FALSE,
             cf |-> ~ Fits(high, low), of |-> ~ Fits(high, low)]
  BY <1>2, NewIs DEF NewMultiply
<1> HIDE DEF product
<1>6. low \in 0..(Two32 - 1) /\ q \in Int
  BY <1>4, DivideType
<1> HIDE DEF q
<1>7. high \in 0..(Two32 - 1)
  BY <1>4, <1>6, DivideType
<1> HIDE DEF low, high
<1>8. low % Two32 = low /\ high % Two32 = high /\ low \in Int /\ high \in Int
  BY <1>4, <1>6, <1>7, ModSmall
<1>9. Ended'.eax = low /\ Ended'.edx = high
  BY <1>1, <1>3, <1>8, Ended32
<1>10. QED
  BY <1>1, <1>3, <1>5, <1>8, <1>9, Ended32

LEMMA DivideEndsNew ==
  ASSUME CallInvariant, HandleDivide \/ HandleDivideByte \/ HandleDivideError, bits = 32
  PROVE  Ended' = New
<1> DEFINE n == Old.edx * Two32 + Old.eax
           d == Operand
           q == n \div d
           r == n % d
<1>1. Next
  BY DEF Next
<1>2. /\ op = "div" /\ Two32 = Modulus(32) /\ Two32 \in Nat \ {0} /\ d \in 0..(Two32 - 1)
      /\ n \in Nat
      /\ zf' = FALSE /\ sf' = FALSE /\ cf' = before.cf /\ of' = before.of
  <2>1. Two32 = Modulus(32) /\ Two32 \in Nat \ {0} /\ d \in 0..(Two32 - 1)
        /\ Old.edx \in Nat /\ Old.eax \in Nat
    BY Values32
  <2>2. n \in Nat
    BY <2>1
  <2>3. QED
    BY <1>1, <2>1, <2>2, CallStart
    DEF HandleDivide, HandleDivideByte, HandleDivideError, Called, CalledWith, flags
<1>3. New = IF d # 0 => q > Two32 - 1 THEN Old
            ELSE [eax |-> q, edx |-> r, zf |-> FALSE, sf |-> FALSE,
                  cf |-> before.cf, of |-> before.of]
  BY <1>2, NewIs DEF NewDivide
<1>4. DivideError <=> (d # 0 => q > Two32 - 1)
  BY <1>1, Start32 DEF DivideError
<1>5. CASE HandleDivideError
  <2>1. DivideError /\ rax' = rax /\ rdx' = rdx
    BY <1>5 DEF HandleDivideError
  <2>2. New = Old
    BY <1>3, <1>4, <2>1
  <2>3. Ended'.eax = Old.eax /\ Ended'.edx = Old.edx
    BY <1>1, <2>1, Ended32
  <2>4. QED
    BY <1>1, <1>2, <2>2, <2>3, Ended32 DEF Old
<1>6. CASE HandleDivide
  <2>1. ~ DivideError /\ rax' = Set(rax, 32, q) /\ rdx' = Set(rdx, 32, r)
    BY <1>1, <1>6, Start32 DEF HandleDivide
  <2>2. d # 0 /\ ~ (q > Two32 - 1)
    BY <1>4, <2>1
  <2>3. d \in Nat \ {0} /\ n \in Int
    BY <1>2, <2>2
  <2> HIDE DEF d, n
  <2>4. q \in Nat /\ r \in 0..(d - 1)
    BY <1>2, <2>3, DivideNat, DivideType
  <2>5. q \in 0..(Two32 - 1) /\ r \in 0..(Two32 - 1)
    BY <1>2, <2>2, <2>3, <2>4
  <2> HIDE DEF q, r
  <2>6. q % Two32 = q /\ r % Two32 = r /\ q \in Int /\ r \in Int
    BY <1>2, <2>5, ModSmall
  <2>7. Ended'.eax = q /\ Ended'.edx = r
    BY <1>1, <2>1, <2>6, Ended32
  <2>8. New = [eax |-> q, edx |-> r, zf |-> FALSE, sf |-> FALSE,
               cf |-> before.cf, of |-> before.of]
    BY <1>3, <2>2
  <2>9. QED
    BY <1>1, <1>2, <2>6, <2>7, <2>8, Ended32
<1>7. CASE HandleDivideByte
  BY <1>7 DEF HandleDivideByte
<1>8. QED
  BY <1>5, <1>6, <1>7

LEMMA CallsEndNew == Spec => [](CallInvariant /\ EndsNew)
<1>1. Init => EndsNew
  BY DEF Init, EndsNew
<1>2. ASSUME CallInvariant, Next PROVE EndsNew'
  <2>1. SUFFICES ASSUME bits = 32, op \in Scalar \ {"unsupported"},
                        op \in Shifts => Count < Bits32
                 PROVE  Ended' = New
    <3>1. op' = op /\ source' = source /\ before' = before /\ bits' = bits
      BY <1>2, CallStart
    <3>2. New' = New /\ Count' = Count
      BY <3>1, NewKept DEF Count, Get, Modulus
    <3>3. QED
      BY <3>1, <3>2 DEF EndsNew, Bits32
  <2>2. ~ HandleLongShift /\ ~ Ignore /\ ~ HandlePacked /\ ~ HandlePackedUnmapped
    <3>1. op \notin Packed
      BY <2>1, ScalarsAreNotPacked
    <3>2. Count \in Nat /\ Bits32 \in Nat /\ Bits32 = Width[32]
      BY <1>2, Values32
    <3>3. QED
      BY <2>1, <3>1, <3>2
      DEF HandleLongShift, Ignore, HandlePacked, HandlePackedUnmapped, Called, CalledWith
  <2>3. QED
    BY <1>2, <2>1, <2>2, ArithmeticEndsNew, LogicEndsNew, NotEndsNew, ShiftEndsNew,
       DivideEndsNew, MoveEndsNew, StepEndsNew, MultiplyEndsNew DEF Next
<1>3. EndsNew /\ UNCHANGED vars => EndsNew'
  <2>1. UNCHANGED vars => New' = New /\ Ended' = Ended /\ Count' = Count
    BY NewKept DEF vars, input, flags, Ended, Count, Get, Modulus
  <2>2. QED
    BY <2>1 DEF EndsNew, vars, input
<1>4. QED
  BY <1>1, <1>2, <1>3, InitStarts, CallStep, PTL DEF Spec

-----------------------------------------------------------------------------
(* The handlers and the ones they replace.                                 *)

LEMMA BooleansEqual == \A p, q \in BOOLEAN : (p <=> q) => p = q
OBVIOUS

\* The sign, read in three ways.
LEMMA SignsAgree ==
  ASSUME CallInvariant, NEW v \in 0..(Two32 - 1)
  PROVE  /\ Top(v) \in BOOLEAN /\ SignBit(v, 32) \in BOOLEAN
         /\ Top(v) <=> v >= TwoTo[Bits32 - 1]
         /\ SignBit(v, 32) = Top(v)
         /\ Signed(v, Bits32) = IF v >= TwoTo[Bits32 - 1] THEN v - Two32 ELSE v
         /\ Signed(v, Bits32) \in Int
<1> DEFINE h == TwoTo[Bits32 - 1]
<1>1. h \in Nat \ {0} /\ Two32 = 2 * h /\ Two32 = Modulus(32) /\ Bits32 = Width[32]
  BY Values32
<1>2. SignBit(v, 32) \in BOOLEAN /\ (SignBit(v, 32) <=> v >= h)
  BY <1>1, SignIs, QuadSize
<1>3. Top(v) \in BOOLEAN
  BY DEF Top
<1>4. Top(v) <=> v >= h
  <2> HIDE DEF h
  <2>1. v >= h => v = 1 * h + (v - h) /\ v - h \in Nat /\ v - h < h /\ v \in Int
    BY <1>1
  <2>2. v >= h => v \div h = 1
    BY <1>1, <2>1, DivideUnique
  <2>3. v < h => v \div h = 0
    BY <1>1, ModSmall
  <2>4. (v \div h = 1) <=> v >= h
    BY <1>1, <2>2, <2>3
  <2>5. QED
    BY <2>4 DEF Top, h
<1>5. SignBit(v, 32) = Top(v)
  <2>1. SignBit(v, 32) <=> Top(v)
    BY <1>2, <1>4
  <2>2. QED
    BY <1>2, <1>3, <2>1, BooleansEqual
<1>6. Signed(v, Bits32) = IF v >= h THEN v - Two32 ELSE v
  BY DEF Signed, Two32
<1>7. Signed(v, Bits32) \in Int
  BY <1>1, <1>6
<1>8. QED
  BY <1>2, <1>3, <1>4, <1>5, <1>6, <1>7

\* Sums and differences as signed ones, for half of the numbers negative.
SignedBy(v, h) == IF v >= h THEN v - 2 * h ELSE v

LEMMA SignedSums ==
  ASSUME NEW h \in Nat \ {0}, NEW a \in 0..(2 * h - 1), NEW b \in 0..(2 * h - 1)
  PROVE  /\ LET r == (a + b) % (2 * h)
            IN  (((a >= h) <=> (b >= h)) /\ ~ ((a >= h) <=> (r >= h)))
                  <=> SignedBy(a, h) + SignedBy(b, h) \notin -h..(h - 1)
         /\ LET r == (a - b) % (2 * h)
            IN  /\ (~ ((a >= h) <=> (b >= h)) /\ ~ ((a >= h) <=> (r >= h)))
                     <=> SignedBy(a, h) - SignedBy(b, h) \notin -h..(h - 1)
                /\ (SignedBy(a, h) < SignedBy(b, h))
                     <=> ~ ((r >= h) <=> (SignedBy(a, h) - SignedBy(b, h) \notin -h..(h - 1)))
                /\ r = 0 <=> a = b
<1> DEFINE m == 2 * h
<1>1. m \in Nat \ {0}
  OBVIOUS
<1>2. /\ (a + b) % m = IF a + b < m THEN a + b ELSE a + b - m
      /\ (a - b) % m = IF a < b THEN a - b + m ELSE a - b
  BY <1>1, SumModulo
<1> DEFINE s == (a + b) % m
           r == (a - b) % m
<1>3. /\ a >= h => SignedBy(a, h) = a - 2 * h
      /\ a < h => SignedBy(a, h) = a
      /\ b >= h => SignedBy(b, h) = b - 2 * h
      /\ b < h => SignedBy(b, h) = b
  BY DEF SignedBy
<1>4. /\ a + b < m => s = a + b
      /\ a + b >= m => s = a + b - m
      /\ a < b => r = a - b + m
      /\ a >= b => r = a - b
  BY <1>2
<1> DEFINE x == SignedBy(a, h)
           y == SignedBy(b, h)
<1> HIDE DEF s, r, x, y
<1>5. /\ a >= h => x = a - 2 * h
      /\ a < h => x = a
      /\ b >= h => y = b - 2 * h
      /\ b < h => y = b
  BY <1>3 DEF x, y
<1>6. x \in Int /\ y \in Int /\ s \in Int /\ r \in Int
  BY <1>4, <1>5
<1>7. (((a >= h) <=> (b >= h)) /\ ~ ((a >= h) <=> (s >= h))) <=> x + y \notin -h..(h - 1)
  BY <1>4, <1>5, <1>6
<1>8. (~ ((a >= h) <=> (b >= h)) /\ ~ ((a >= h) <=> (r >= h))) <=> x - y \notin -h..(h - 1)
  BY <1>4, <1>5, <1>6
<1>9. (x < y) <=> ~ ((r >= h) <=> (x - y \notin -h..(h - 1)))
  BY <1>4, <1>5, <1>6
<1>10. r = 0 <=> a = b
  BY <1>4
<1>11. QED
  BY <1>7, <1>8, <1>9, <1>10 DEF s, r, x, y

\* Twos-complement comparison, of the operands on 32 bits.
LEMMA Comparison ==
  ASSUME CallInvariant
  PROVE  LET a == Old.eax
             b == Operand
             x == Signed(a, Bits32)
             y == Signed(b, Bits32)
             r == (a - b) % Two32
             s == (a + b) % Two32
         IN  /\ x \in Int /\ y \in Int /\ (x = y <=> a = b) /\ (r = 0 <=> a = b)
             /\ r \in 0..(Two32 - 1) /\ s \in 0..(Two32 - 1)
             /\ SignedOverflow \in BOOLEAN
             /\ op # "add" => /\ (Top(a) # Top(b) /\ Top(a) # Top(r)) = SignedOverflow
                              /\ Top(r) <=> ((x < y) # SignedOverflow)
             /\ op = "add" => (Top(a) = Top(b) /\ Top(a) # Top(s)) = SignedOverflow
<1> DEFINE a == Old.eax
           b == Operand
           x == Signed(a, Bits32)
           y == Signed(b, Bits32)
           r == (a - b) % Two32
           s == (a + b) % Two32
           h == TwoTo[Bits32 - 1]
           over == SignedOverflow
<1>1. h \in Nat \ {0} /\ Two32 = 2 * h /\ a \in 0..(2 * h - 1) /\ b \in 0..(2 * h - 1)
      /\ Two32 \in Nat \ {0}
  BY Values32
<1>2. r \in 0..(Two32 - 1) /\ s \in 0..(Two32 - 1)
  <2>1. a - b \in Int /\ a + b \in Int
    BY <1>1
  <2> DEFINE d == a - b
             c == a + b
             m == Two32
  <2>2. d \in Int /\ c \in Int /\ m \in Nat \ {0}
    BY <1>1, <2>1
  <2> HIDE DEF d, c, m
  <2>3. d % m \in 0..(m - 1) /\ c % m \in 0..(m - 1)
    BY <2>2, DivideType
  <2>4. QED
    BY <2>3 DEF d, c, m
<1>3. Two32 \div 2 = h
  <2>1. h * 2 = 2 * h /\ 2 \in Nat \ {0} /\ h \in Int
    BY <1>1
  <2>2. QED
    BY <1>1, <2>1, MultipleModulo
<1>4. over = ((IF op = "add" THEN x + y ELSE x - y) \notin -h..(h - 1))
  BY <1>3 DEF SignedOverflow
<1>5. over \in BOOLEAN
  BY <1>4
<1>6. /\ Top(a) \in BOOLEAN /\ Top(b) \in BOOLEAN /\ Top(r) \in BOOLEAN /\ Top(s) \in BOOLEAN
      /\ Top(a) <=> a >= h
      /\ Top(b) <=> b >= h
      /\ Top(r) <=> r >= h
      /\ Top(s) <=> s >= h
  BY <1>1, <1>2, SignsAgree
<1>7. x = SignedBy(a, h) /\ y = SignedBy(b, h)
  BY <1>1, SignsAgree DEF SignedBy
<1>8. /\ (((a >= h) <=> (b >= h)) /\ ~ ((a >= h) <=> (s >= h))) <=> x + y \notin -h..(h - 1)
      /\ (~ ((a >= h) <=> (b >= h)) /\ ~ ((a >= h) <=> (r >= h))) <=> x - y \notin -h..(h - 1)
      /\ (x < y) <=> ~ ((r >= h) <=> (x - y \notin -h..(h - 1)))
      /\ (r = 0 <=> a = b)
  <2> DEFINE X == SignedBy(a, h)
             Y == SignedBy(b, h)
             S == (a + b) % (2 * h)
             R == (a - b) % (2 * h)
  <2>1. /\ (((a >= h) <=> (b >= h)) /\ ~ ((a >= h) <=> (S >= h))) <=> X + Y \notin -h..(h - 1)
        /\ (~ ((a >= h) <=> (b >= h)) /\ ~ ((a >= h) <=> (R >= h))) <=> X - Y \notin -h..(h - 1)
        /\ (X < Y) <=> ~ ((R >= h) <=> (X - Y \notin -h..(h - 1)))
        /\ (R = 0 <=> a = b)
    <3> HIDE DEF a, b, h
    <3>1. QED
      BY <1>1, SignedSums
  <2>2. X = x /\ Y = y /\ S = s /\ R = r
    <3>1. Two32 = 2 * h
      BY <1>1
    <3>2. S = s /\ R = r
      <4> HIDE DEF a, b, h
      <4>1. QED
        BY <3>1
    <3>3. QED
      BY <1>7, <3>2
  <2> HIDE DEF X, Y, S, R, a, b, h, x, y, r, s
  <2>3. QED
    BY <2>1, <2>2
<1>9. x \in Int /\ y \in Int /\ (x = y <=> a = b)
  <2>1. (x = IF a >= h THEN a - 2 * h ELSE a) /\ (y = IF b >= h THEN b - 2 * h ELSE b)
    BY <1>7 DEF SignedBy
  <2> HIDE DEF x, y, a, b, h
  <2>2. QED
    BY <1>1, <2>1
<1> DEFINE lt == x < y
<1>10. lt \in BOOLEAN
  BY <1>9
<1> HIDE DEF a, b, x, y, r, s, h, over
<1>11. op # "add" => (over <=> x - y \notin -h..(h - 1))
  BY <1>4
<1>12. op = "add" => (over <=> x + y \notin -h..(h - 1))
  BY <1>4
<1>13. ASSUME op # "add"
       PROVE  /\ (Top(a) # Top(b) /\ Top(a) # Top(r)) = over
              /\ Top(r) <=> (lt # over)
  <2>1. (~ (Top(a) <=> Top(b)) /\ ~ (Top(a) <=> Top(r))) <=> over
    BY <1>6, <1>8, <1>11, <1>13
  <2>2. lt <=> ~ (Top(r) <=> over)
    BY <1>6, <1>8, <1>11, <1>13
  <2> HIDE DEF lt
  <2>3. QED
    BY <1>5, <1>6, <1>10, <2>1, <2>2
<1>14. ASSUME op = "add"
       PROVE  (Top(a) = Top(b) /\ Top(a) # Top(s)) = over
  <2>1. ((Top(a) <=> Top(b)) /\ ~ (Top(a) <=> Top(s))) <=> over
    BY <1>6, <1>8, <1>12, <1>14
  <2>2. QED
    BY <1>5, <1>6, <2>1
<1>15. QED
  BY <1>2, <1>5, <1>8, <1>9, <1>13, <1>14 DEF a, b, x, y, r, s, over

\* The conditional jumps, on any flags that are those of a comparison but for
\* the overflow flag.
LEMMA JumpsOnFlags ==
  ASSUME CallInvariant, NEW st,
         st.zf \in BOOLEAN, st.sf \in BOOLEAN, st.cf \in BOOLEAN, st.of \in BOOLEAN,
         st.zf <=> Old.eax = Operand, st.cf <=> Old.eax < Operand,
         st.sf <=> ((Signed(Old.eax, Bits32) < Signed(Operand, Bits32)) # SignedOverflow)
  PROVE  /\ \A condition \in Unsigned32 : Jumps(st, condition) <=> Decides(condition)
         /\ \A condition \in Signed32 :
              (Jumps(st, condition) <=> Decides(condition)) <=>
                \/ st.of = SignedOverflow
                \/ condition \in {"le", "g"} /\ Old.eax = Operand
<1> DEFINE a == Old.eax
           b == Operand
           x == Signed(a, Bits32)
           y == Signed(b, Bits32)
           lt == x < y
           over == SignedOverflow
<1>1. a \in Int /\ b \in Int /\ x \in Int /\ y \in Int /\ (x = y <=> a = b) /\ over \in BOOLEAN
  BY Values32, Comparison
<1>2. lt \in BOOLEAN /\ (st.sf <=> (lt # over)) /\ (x <= y <=> lt \/ a = b) /\ (x >= y <=> ~ lt)
      /\ (x > y <=> ~ lt /\ a # b)
  BY <1>1
<1>3. /\ Jumps(st, "e") <=> Decides("e")
      /\ Jumps(st, "ne") <=> Decides("ne")
      /\ Jumps(st, "b") <=> Decides("b")
  BY DEF Jumps, Decides
<1>4. /\ Jumps(st, "ae") <=> Decides("ae")
      /\ Jumps(st, "be") <=> Decides("be")
      /\ Jumps(st, "a") <=> Decides("a")
  <2>1. (a >= b <=> ~ (a < b)) /\ (a <= b <=> a < b \/ a = b) /\ (a > b <=> ~ (a < b) /\ a # b)
    BY <1>1
  <2>2. /\ Jumps(st, "ae") <=> ~ st.cf
        /\ Jumps(st, "be") <=> st.cf \/ st.zf
        /\ Jumps(st, "a") <=> ~ st.cf /\ ~ st.zf
    BY DEF Jumps
  <2>3. /\ Decides("ae") <=> a >= b
        /\ Decides("be") <=> a <= b
        /\ Decides("a") <=> a > b
    BY DEF Decides
  <2> HIDE DEF a, b
  <2>4. QED
    BY <2>1, <2>2, <2>3 DEF a, b
<1>5. /\ Jumps(st, "s") <=> Decides("s")
      /\ Jumps(st, "ns") <=> Decides("ns")
  <2>1. (Jumps(st, "s") <=> st.sf) /\ (Jumps(st, "ns") <=> ~ st.sf)
    BY DEF Jumps, SignedJumps
  <2>2. (Decides("s") <=> (lt # over)) /\ (Decides("ns") <=> (lt = over))
    BY DEF Decides
  <2> HIDE DEF lt, over
  <2>3. QED
    BY <1>1, <1>2, <2>1, <2>2
<1>6. /\ (Jumps(st, "o") <=> Decides("o")) <=> st.of = over
      /\ (Jumps(st, "no") <=> Decides("no")) <=> st.of = over
  <2>1. (Jumps(st, "o") <=> st.of) /\ (Jumps(st, "no") <=> ~ st.of)
    BY DEF Jumps, SignedJumps
  <2>2. (Decides("o") <=> over) /\ (Decides("no") <=> ~ over)
    BY DEF Decides
  <2> HIDE DEF over
  <2>3. QED
    BY <1>1, <2>1, <2>2
<1>7. /\ (Jumps(st, "l") <=> Decides("l")) <=> st.of = over
      /\ (Jumps(st, "ge") <=> Decides("ge")) <=> st.of = over
  <2>1. (Jumps(st, "l") <=> st.sf # st.of) /\ (Jumps(st, "ge") <=> st.sf = st.of)
    BY DEF Jumps, SignedJumps
  <2>2. (Decides("l") <=> lt) /\ (Decides("ge") <=> ~ lt)
    BY <1>2 DEF Decides
  <2> HIDE DEF lt, over
  <2>3. QED
    BY <1>1, <1>2, <2>1, <2>2
<1>8. /\ (Jumps(st, "le") <=> Decides("le")) <=> (st.of = over \/ a = b)
      /\ (Jumps(st, "g") <=> Decides("g")) <=> (st.of = over \/ a = b)
  <2>1. /\ Jumps(st, "le") <=> st.zf \/ st.sf # st.of
        /\ Jumps(st, "g") <=> ~ st.zf /\ st.sf = st.of
    BY DEF Jumps, SignedJumps
  <2>2. (Decides("le") <=> lt \/ a = b) /\ (Decides("g") <=> ~ lt /\ a # b)
    BY <1>2 DEF Decides
  <2>3. a = b => ~ lt
    BY <1>1
  <2> DEFINE eq == a = b
  <2>4. eq \in BOOLEAN /\ (st.zf <=> eq)
    OBVIOUS
  <2> HIDE DEF lt, over, eq
  <2>5. eq => ~ lt
    BY <2>3 DEF eq
  <2>6. (Decides("le") <=> lt \/ eq) /\ (Decides("g") <=> ~ lt /\ ~ eq)
    BY <2>2 DEF eq
  <2>7. /\ (Jumps(st, "le") <=> Decides("le")) <=> (st.of = over \/ eq)
        /\ (Jumps(st, "g") <=> Decides("g")) <=> (st.of = over \/ eq)
    BY <1>1, <1>2, <2>1, <2>4, <2>5, <2>6
  <2>8. QED
    BY <2>7 DEF eq
<1> HIDE DEF over
<1>9. \A condition \in Unsigned32 : Jumps(st, condition) <=> Decides(condition)
  BY <1>3, <1>4, <1>5 DEF Unsigned32
<1>10. ASSUME NEW condition \in Signed32
       PROVE  (Jumps(st, condition) <=> Decides(condition)) <=>
                (st.of = over \/ (condition \in {"le", "g"} /\ a = b))
  <2>1. CASE condition \in {"o", "no", "l", "ge"}
    BY <1>6, <1>7, <2>1
  <2>2. CASE condition \in {"le", "g"}
    BY <1>8, <2>2
  <2>3. QED
    BY <2>1, <2>2 DEF Signed32
<1>11. QED
  BY <1>9, <1>10 DEF over

\* The states a handler ends in, and the changes that lead to them, named so
\* that they can be cited.
State(eax, edx, z, s, c, o) ==
  [eax |-> eax, edx |-> edx, zf |-> z, sf |-> s, cf |-> c, of |-> o]

PutEax(st, x)            == [st EXCEPT !.eax = x]
PutOf(st, x)             == [st EXCEPT !.of = x]
PutCarries(st, x, y)     == [st EXCEPT !.cf = x, !.of = y]
PutSigns(st, x, y)       == [st EXCEPT !.zf = x, !.sf = y]
PutPair(st, x, y)        == [st EXCEPT !.eax = x, !.edx = y]
PutResult(st, x, y, u)   == [st EXCEPT !.eax = x, !.zf = y, !.sf = u]
PutProduct(st, x, y, u, v) == [st EXCEPT !.eax = x, !.edx = y, !.cf = u, !.of = v]

LEMMA StateChanges ==
  ASSUME NEW eax, NEW edx, NEW z, NEW s, NEW c, NEW o,
         NEW st, st = State(eax, edx, z, s, c, o)
  PROVE  /\ \A x : PutEax(st, x) = State(x, edx, z, s, c, o)
         /\ \A x : PutOf(st, x) = State(eax, edx, z, s, c, x)
         /\ \A x, y : PutCarries(st, x, y) = State(eax, edx, z, s, x, y)
         /\ \A x, y : PutSigns(st, x, y) = State(eax, edx, x, y, c, o)
         /\ \A x, y : PutPair(st, x, y) = State(x, y, z, s, c, o)
         /\ \A x, y, u : PutResult(st, x, y, u) = State(x, edx, y, u, c, o)
         /\ \A x, y, u, v : PutProduct(st, x, y, u, v) = State(x, y, z, s, u, v)
<1>1. ASSUME NEW x PROVE PutEax(st, x) = State(x, edx, z, s, c, o)
  BY SMT DEF State, PutEax
<1>2. ASSUME NEW x PROVE PutOf(st, x) = State(eax, edx, z, s, c, x)
  BY SMT DEF State, PutOf
<1>3. ASSUME NEW x, NEW y PROVE PutCarries(st, x, y) = State(eax, edx, z, s, x, y)
  <2> DEFINE st1 == [st EXCEPT !.cf = x]
             st2 == [st1 EXCEPT !.of = y]
  <2>1. PutCarries(st, x, y) = st2
    BY DEF PutCarries
  <2>2. st1 = State(eax, edx, z, s, x, o)
    BY SMT DEF State
  <2>3. st2 = State(eax, edx, z, s, x, y)
    <3> HIDE DEF st1
    <3>1. QED
      BY <2>2, SMT DEF State
  <2> HIDE DEF st2
  <2>4. QED
    BY <2>1, <2>3
<1>4. ASSUME NEW x, NEW y PROVE PutSigns(st, x, y) = State(eax, edx, x, y, c, o)
  <2> DEFINE st1 == [st EXCEPT !.zf = x]
             st2 == [st1 EXCEPT !.sf = y]
  <2>1. PutSigns(st, x, y) = st2
    BY DEF PutSigns
  <2>2. st1 = State(eax, edx, x, s, c, o)
    BY SMT DEF State
  <2>3. st2 = State(eax, edx, x, y, c, o)
    <3> HIDE DEF st1
    <3>1. QED
      BY <2>2, SMT DEF State
  <2> HIDE DEF st2
  <2>4. QED
    BY <2>1, <2>3
<1>5. ASSUME NEW x, NEW y PROVE PutPair(st, x, y) = State(x, y, z, s, c, o)
  <2> DEFINE st1 == [st EXCEPT !.eax = x]
             st2 == [st1 EXCEPT !.edx = y]
  <2>1. PutPair(st, x, y) = st2
    BY DEF PutPair
  <2>2. st1 = State(x, edx, z, s, c, o)
    BY SMT DEF State
  <2>3. st2 = State(x, y, z, s, c, o)
    <3> HIDE DEF st1
    <3>1. QED
      BY <2>2, SMT DEF State
  <2> HIDE DEF st2
  <2>4. QED
    BY <2>1, <2>3
<1>6. ASSUME NEW x, NEW y, NEW u PROVE PutResult(st, x, y, u) = State(x, edx, y, u, c, o)
  <2> DEFINE st1 == [st EXCEPT !.eax = x]
             st2 == [st1 EXCEPT !.zf = y]
             st3 == [st2 EXCEPT !.sf = u]
  <2>1. PutResult(st, x, y, u) = st3
    BY DEF PutResult
  <2>2. st1 = State(x, edx, z, s, c, o)
    BY SMT DEF State
  <2>3. st2 = State(x, edx, y, s, c, o)
    <3> HIDE DEF st1
    <3>1. QED
      BY <2>2, SMT DEF State
  <2>4. st3 = State(x, edx, y, u, c, o)
    <3> HIDE DEF st2
    <3>1. QED
      BY <2>3, SMT DEF State
  <2> HIDE DEF st3
  <2>5. QED
    BY <2>1, <2>4
<1>7. ASSUME NEW x, NEW y, NEW u, NEW v PROVE PutProduct(st, x, y, u, v) = State(x, y, z, s, u, v)
  <2> DEFINE st1 == [st EXCEPT !.eax = x]
             st2 == [st1 EXCEPT !.edx = y]
             st3 == [st2 EXCEPT !.cf = u]
             st4 == [st3 EXCEPT !.of = v]
  <2>1. PutProduct(st, x, y, u, v) = st4
    BY DEF PutProduct
  <2>2. st1 = State(x, edx, z, s, c, o)
    BY SMT DEF State
  <2>3. st2 = State(x, y, z, s, c, o)
    <3> HIDE DEF st1
    <3>1. QED
      BY <2>2, SMT DEF State
  <2>4. st3 = State(x, y, z, s, u, o)
    <3> HIDE DEF st2
    <3>1. QED
      BY <2>3, SMT DEF State
  <2>5. st4 = State(x, y, z, s, u, v)
    <3> HIDE DEF st3
    <3>1. QED
      BY <2>4, SMT DEF State
  <2> HIDE DEF st4
  <2>6. QED
    BY <2>1, <2>5
<1>8. QED
  BY <1>1, <1>2, <1>3, <1>4, <1>5, <1>6, <1>7

LEMMA OldState == Old = State(Old.eax, Old.edx, FALSE, FALSE, before.cf, before.of)
BY DEF Old, State

LEMMA ResultState ==
  ASSUME NEW r
  PROVE  WithResult(Old, r) = State(r, Old.edx, r = 0, Top(r), before.cf, before.of)
<1> DEFINE z == r = 0
           t == Top(r)
           off == FALSE
<1>1. WithResult(Old, r) = PutResult(Old, r, z, t)
  BY DEF WithResult, PutResult
<1>2. Old = State(Old.eax, Old.edx, off, off, before.cf, before.of)
  BY OldState
<1> HIDE DEF z, t, off
<1>3. PutResult(Old, r, z, t) = State(r, Old.edx, z, t, before.cf, before.of)
  BY <1>2, StateChanges
<1>4. QED
  BY <1>1, <1>3 DEF z, t

\* The flags of both forms of cmp.
LEMMA ComparisonFlags ==
  ASSUME CallInvariant, op = "cmp", NEW st \in {NewArithmetic, LegacyCmp}
  PROVE  /\ st.zf \in BOOLEAN /\ st.sf \in BOOLEAN /\ st.cf \in BOOLEAN
         /\ st.zf <=> Old.eax = Operand
         /\ st.cf <=> Old.eax < Operand
         /\ st.sf <=> ((Signed(Old.eax, Bits32) < Signed(Operand, Bits32)) # SignedOverflow)
         /\ NewArithmetic.of = before.of /\ LegacyCmp.of = SignedOverflow
<1> DEFINE a == Old.eax
           b == Operand
           r == (a - b) % Two32
           less == Signed(a, Bits32) < Signed(b, Bits32)
           under == a < b
<1>1. /\ r \in 0..(Two32 - 1) /\ (r = 0 <=> a = b)
      /\ (Top(a) # Top(b) /\ Top(a) # Top(r)) = SignedOverflow
      /\ Top(r) <=> (less # SignedOverflow)
  BY Comparison
<1>2. Top(r) \in BOOLEAN /\ SignBit(r, 32) = Top(r)
  BY <1>1, SignsAgree
<1>3. under \in BOOLEAN
  BY Values32
<1>4. LegacyCmp = Changed(a, r = 0, Top(r), under, Top(a) # Top(b) /\ Top(a) # Top(r))
  <2> DEFINE o == Top(a) # Top(b) /\ Top(a) # Top(r)
             z == r = 0
             t == Top(r)
             w == WithResult(Old, r)
  <2>1. w = State(r, Old.edx, z, t, before.cf, before.of)
    BY ResultState
  <2>2. LegacySub = PutCarries(w, under, o)
    BY DEF LegacySub, PutCarries
  <2>3. LegacyCmp = PutEax(LegacySub, a)
    BY DEF LegacyCmp, PutEax
  <2> HIDE DEF r, o, z, t, w, under, a
  <2>4. LegacySub = State(r, Old.edx, z, t, under, o)
    BY <2>1, <2>2, StateChanges
  <2>5. LegacyCmp = State(a, Old.edx, z, t, under, o)
    BY <2>3, <2>4, StateChanges
  <2>6. QED
    BY <2>5 DEF Changed, State, o, z, t
<1>5. NewArithmetic = Changed(a, r = 0, SignBit(r, 32), under, before.of)
  BY DEF NewArithmetic
<1> HIDE DEF r, a, b, less, under
<1>6. /\ LegacyCmp.zf = (r = 0) /\ LegacyCmp.sf = Top(r) /\ LegacyCmp.cf = under
      /\ LegacyCmp.of = SignedOverflow
  BY <1>1, <1>4 DEF Changed
<1>7. /\ NewArithmetic.zf = (r = 0) /\ NewArithmetic.sf = Top(r) /\ NewArithmetic.cf = under
      /\ NewArithmetic.of = before.of
  BY <1>2, <1>5 DEF Changed
<1>8. st.zf = (r = 0) /\ st.sf = Top(r) /\ st.cf = under
  BY <1>6, <1>7
<1>9. st.zf \in BOOLEAN /\ st.sf \in BOOLEAN /\ st.cf \in BOOLEAN
  BY <1>2, <1>3, <1>8
<1>10. /\ st.zf <=> a = b
       /\ st.sf <=> (less # SignedOverflow)
       /\ st.cf <=> under
  BY <1>1, <1>8
<1>11. QED
  BY <1>6, <1>7, <1>9, <1>10 DEF a, b, less, under

(* The conditional jumps decide the comparison, with the flags of the old  *)
(* cmp all of them, and with those of the new one but for a stale OF.      *)
THEOREM JumpsAreDecided == Spec => []JumpsDecide
<1>1. ASSUME CallInvariant, EndsNew PROVE JumpsDecide
  <2>1. SUFFICES ASSUME op = "cmp", bits = 32, outcome = "returned" PROVE JumpsDecide
    BY DEF JumpsDecide
  <2>2. Ended = NewArithmetic
    <3>1. Ended = New
      BY <1>1, <2>1 DEF EndsNew, Scalar, Arithmetic, Shifts
    <3>2. QED
      BY <2>1, <3>1, NewIs DEF Arithmetic
  <2>3. before.of \in BOOLEAN /\ SignedOverflow \in BOOLEAN
    BY <1>1, Comparison DEF CallInvariant, Prepared
  <2>4. NewArithmetic.of = before.of /\ LegacyCmp.of = SignedOverflow
    BY <1>1, <2>1, ComparisonFlags
  <2>5. ASSUME NEW st \in {NewArithmetic, LegacyCmp}
        PROVE  /\ \A condition \in Unsigned32 : Jumps(st, condition) <=> Decides(condition)
               /\ \A condition \in Signed32 :
                    (Jumps(st, condition) <=> Decides(condition)) <=>
                      \/ st.of = SignedOverflow
                      \/ condition \in {"le", "g"} /\ Old.eax = Operand
    <3>1. st.of \in BOOLEAN
      BY <2>3, <2>4
    <3>2. QED
      BY <1>1, <2>1, <3>1, ComparisonFlags, JumpsOnFlags
  <2>6. \A condition \in Unsigned32 : Jumps(LegacyCmp, condition) <=> Decides(condition)
    BY <2>5
  <2>7. \A condition \in Signed32 : Jumps(LegacyCmp, condition) <=> Decides(condition)
    BY <2>4, <2>5
  <2>8. /\ \A condition \in Unsigned32 : Jumps(Ended, condition) <=> Decides(condition)
        /\ \A condition \in Signed32 :
             (Jumps(Ended, condition) <=> Decides(condition)) <=>
               \/ before.of = SignedOverflow
               \/ condition \in {"le", "g"} /\ Old.eax = Operand
    BY <2>2, <2>4, <2>5
  <2>9. QED
    BY <2>6, <2>7, <2>8 DEF JumpsDecide
<1>2. QED
  BY <1>1, CallsEndNew, PTL

\* What the handlers that the IR replaces do, case by case.
LEMMA LegacyIs ==
  /\ op = "move" => Legacy = LegacyMove
  /\ op = "add" => Legacy = LegacyAdd
  /\ op = "sub" => Legacy = LegacySub
  /\ op = "cmp" => Legacy = LegacyCmp
  /\ op = "inc" => Legacy = LegacyInc
  /\ op = "dec" => Legacy = LegacyDec
  /\ op = "mul" => Legacy = LegacyMul
  /\ op = "imul" => Legacy = LegacyImul
  /\ op = "div" => Legacy = LegacyDiv
  /\ op = "not" => Legacy = LegacyNot
  /\ op = "shl" => Legacy = LegacyShl
  /\ op = "shr" => Legacy = LegacyShr
  /\ op = "sar" => Legacy = LegacySar
  /\ op \in Logic => Legacy = LegacyLogic
BY DEF Legacy, Logic

LEMMA ComparableIs ==
  ASSUME NEW st
  PROVE  /\ op \in Shifts /\ Places = 0 => Comparable(st) = PutSigns(st, FALSE, FALSE)
         /\ op \in Shifts /\ Places # 0 => Comparable(st) = st
         /\ op \in Arithmetic => Comparable(st) = PutOf(st, FALSE)
         /\ op \notin Shifts /\ op \notin Arithmetic => Comparable(st) = st
BY DEF Comparable, PutSigns, PutOf, Shifts, Arithmetic

LEMMA ChangedState ==
  ASSUME NEW eax, NEW z, NEW s, NEW c, NEW o
  PROVE  Changed(eax, z, s, c, o) = State(eax, Old.edx, z, s, c, o)
BY DEF Changed, State

\* Moves and complements.
LEMMA MoveAgrees ==
  ASSUME op \in {"move", "not"}
  PROVE  Comparable(New) = Comparable(Legacy)
<1> DEFINE off == FALSE
           x == IF op = "move" THEN Operand ELSE Two32 - 1 - Old.eax
<1>1. Old = State(Old.eax, Old.edx, off, off, before.cf, before.of)
  BY OldState
<1>2. New = Changed(x, off, off, before.cf, before.of)
  BY NewIs DEF NewMove, NewNot
<1>3. Legacy = PutEax(Old, x)
  BY LegacyIs DEF LegacyMove, LegacyNot, PutEax
<1> HIDE DEF off, x
<1>4. New = Legacy
  BY <1>1, <1>2, <1>3, ChangedState, StateChanges
<1>5. QED
  BY <1>4

\* Steps by one.
LEMMA StepAgrees ==
  ASSUME CallInvariant, op \in {"inc", "dec"}
  PROVE  Comparable(New) = Comparable(Legacy)
<1> DEFINE a == Old.eax
           x == IF op = "inc" THEN a + 1 ELSE a - 1
           r == x % Two32
           h == TwoTo[Bits32 - 1]
           o == a = IF op = "inc" THEN h - 1 ELSE h
           w == WithResult(Old, r)
           z == r = 0
           t == Top(r)
<1>1. x \in Int /\ Two32 \in Nat \ {0} /\ h \in Nat \ {0} /\ Two32 = 2 * h
  BY Values32
<1>2. r \in 0..(Two32 - 1)
  <2> HIDE DEF x
  <2>1. QED
    BY <1>1, DivideType
<1>3. SignBit(r, 32) = t
  BY <1>2, SignsAgree
<1>4. Two32 \div 2 = h
  <2>1. h * 2 = 2 * h /\ 2 \in Nat \ {0} /\ h \in Int
    BY <1>1
  <2>2. QED
    BY <1>1, <2>1, MultipleModulo
<1>5. New = Changed(r, z, SignBit(r, 32), before.cf, o)
  BY NewIs DEF NewStep
<1>6. Legacy = PutOf(w, o)
  <2>1. CASE op = "inc"
    BY <1>4, <2>1, LegacyIs DEF LegacyInc, PutOf
  <2>2. CASE op = "dec"
    BY <1>4, <2>2, LegacyIs DEF LegacyDec, PutOf
  <2>3. QED
    BY <2>1, <2>2
<1>7. w = State(r, Old.edx, z, t, before.cf, before.of)
  BY ResultState
<1> HIDE DEF r, o, w, z, t
<1>8. New = Legacy
  BY <1>3, <1>5, <1>6, <1>7, ChangedState, StateChanges
<1>9. QED
  BY <1>8

LEMMA LogicAgrees ==
  ASSUME CallInvariant, op \in Logic
  PROVE  Comparable(New) = Comparable(Legacy)
<1> DEFINE r == Combine(BitOf, Old.eax, Operand, Bits32)
           w == WithResult(Old, r)
           z == r = 0
           t == Top(r)
           off == FALSE
<1>1. r \in 0..(Two32 - 1)
  <2>1. BitOf \in Tables
    BY DEF BitOf, Tables, Logic
  <2>2. Old.eax \in Int /\ Operand \in Int /\ Bits32 \in Nat /\ Two32 = TwoTo[Bits32]
        /\ Two32 \in Nat \ {0}
    BY Values32 DEF Two32
  <2>3. QED
    BY <2>1, <2>2, CombineBits
<1>2. SignBit(r, 32) = t
  BY <1>1, SignsAgree
<1>3. New = Changed(r, z, SignBit(r, 32), off, off)
  BY NewIs DEF NewLogic
<1>4. Legacy = PutCarries(w, off, off)
  BY LegacyIs DEF LegacyLogic, PutCarries
<1>5. w = State(r, Old.edx, z, t, before.cf, before.of)
  BY ResultState
<1> HIDE DEF r, w, z, t, off
<1>6. New = Legacy
  BY <1>2, <1>3, <1>4, <1>5, ChangedState, StateChanges
<1>7. QED
  BY <1>6

LEMMA DivideAgrees ==
  ASSUME CallInvariant, op = "div"
  PROVE  Comparable(New) = Comparable(Legacy)
<1> DEFINE n == Old.edx * Two32 + Old.eax
           q == n \div Operand
           r == n % Operand
           off == FALSE
<1>1. Old = State(Old.eax, Old.edx, off, off, before.cf, before.of)
  BY OldState
<1>2. New = IF Operand # 0 => q > Two32 - 1 THEN Old
            ELSE State(q, r, off, off, before.cf, before.of)
  BY NewIs DEF NewDivide, State
<1>3. Legacy = IF Operand = 0 THEN Old
               ELSE IF q > Two32 - 1 THEN Old ELSE PutPair(Old, q, r)
  BY LegacyIs DEF LegacyDiv, PutPair
<1> HIDE DEF off
<1>4. PutPair(Old, q, r) = State(q, r, off, off, before.cf, before.of)
  BY <1>1, StateChanges
<1> HIDE DEF q, r
<1>5. New = Legacy
  BY <1>2, <1>3, <1>4
<1>6. QED
  BY <1>5

\* The high half of an unsigned product fits a register.
LEMMA HighHalf ==
  ASSUME NEW m \in Nat \ {0}, NEW a \in 0..(m - 1), NEW b \in 0..(m - 1)
  PROVE  (a * b) \div m \in 0..(m - 1)
<1> DEFINE p == a * b
           q == p \div m
           r == p % m
<1>1. p \in Nat /\ p <= (m - 1) * b
  <2>1. a \in Nat /\ b \in Nat /\ m - 1 \in Nat /\ a <= m - 1
    OBVIOUS
  <2>2. QED
    BY <2>1
<1>2. (m - 1) * b <= (m - 1) * m
  <2>1. b \in Nat /\ m - 1 \in Nat /\ b <= m
    OBVIOUS
  <2> DEFINE k == m - 1
  <2> HIDE DEF k
  <2>2. k * b <= k * m
    BY <2>1 DEF k
  <2>3. QED
    BY <2>2 DEF k
<1>3. (m - 1) * m < m * m /\ (m - 1) * b \in Int /\ (m - 1) * m \in Int /\ m * m \in Int
  OBVIOUS
<1>4. p < m * m
  <2> HIDE DEF p
  <2>1. QED
    BY <1>1, <1>2, <1>3
<1> HIDE DEF p
<1>5. q \in Nat /\ r \in Nat /\ p = q * m + r
  BY <1>1, DivideNat, DivideType
<1> HIDE DEF q, r
<1>6. q < m
  <2>1. SUFFICES ASSUME q >= m PROVE FALSE
    BY <1>5
  <2>2. q * m >= m * m /\ q * m \in Int /\ m * m \in Int
    BY <1>5, <2>1
  <2>3. QED
    BY <1>1, <1>4, <1>5, <2>2
<1>7. QED
  BY <1>5, <1>6 DEF q, p

LEMMA MultiplyAgrees ==
  ASSUME CallInvariant, op \in {"mul", "imul"}
  PROVE  Comparable(New) = Comparable(Legacy)
<1> DEFINE a == Old.eax
           b == Operand
           product == IF op = "mul" THEN a * b ELSE Signed(a, Bits32) * Signed(b, Bits32)
           low  == product % Two32
           q    == product \div Two32
           high == q % Two32
           fits == Fits(high, low)
           large == IF op = "mul" THEN high # 0
                    ELSE ~ \/ high = 0 /\ ~ Top(low)
                           \/ high = Two32 - 1 /\ Top(low)
           off == FALSE
<1>1. Two32 \in Nat \ {0} /\ a \in 0..(Two32 - 1) /\ b \in 0..(Two32 - 1)
      /\ Two32 = Modulus(32)
  BY Values32
<1>2. product \in Int
  <2>1. Signed(a, Bits32) \in Int /\ Signed(b, Bits32) \in Int
    BY <1>1, SignsAgree
  <2>2. QED
    BY <1>1, <2>1
<1>3. op = "mul" => q = high
  <2>1. ASSUME op = "mul" PROVE q \in 0..(Two32 - 1)
    BY <1>1, <2>1, HighHalf
  <2> HIDE DEF q
  <2>2. QED
    BY <1>1, <2>1, ModSmall
<1>4. New = State(low, high, off, off, ~ fits, ~ fits)
  BY NewIs DEF NewMultiply, State, Multiplications
<1>5. Legacy = PutProduct(Old, low, high, large, large)
  <2>1. CASE op = "mul"
    BY <1>3, <2>1, LegacyIs DEF LegacyMul, PutProduct
  <2>2. CASE op = "imul"
    BY <2>2, LegacyIs DEF LegacyImul, PutProduct
  <2>3. QED
    BY <2>1, <2>2
<1> HIDE DEF product
<1>6. low \in 0..(Two32 - 1) /\ q \in Int
  BY <1>1, <1>2, DivideType
<1> HIDE DEF q, low
<1>7. high \in 0..(Two32 - 1)
  BY <1>1, <1>6, DivideType
<1> HIDE DEF high
<1>8. Top(low) \in BOOLEAN /\ SignBit(low, 32) = Top(low)
  BY <1>6, SignsAgree
<1>9. ~ fits <=> large
  BY <1>1, <1>7, <1>8 DEF Fits
<1>10. (~ fits) = large
  <2>1. (~ fits) \in BOOLEAN /\ large \in BOOLEAN
    OBVIOUS
  <2> DEFINE misfits == ~ fits
  <2> HIDE DEF fits, large
  <2>2. misfits \in BOOLEAN /\ large \in BOOLEAN /\ (misfits <=> large)
    BY <1>9, <2>1
  <2> HIDE DEF misfits
  <2>3. misfits = large
    BY <2>2, BooleansEqual
  <2>4. QED
    BY <2>3 DEF misfits
<1>11. Old = State(Old.eax, Old.edx, off, off, before.cf, before.of)
  BY OldState
<1>12. New = State(low, high, off, off, large, large)
  BY <1>4, <1>10
<1> HIDE DEF off, large, fits, a
<1>13. New = Legacy
  BY <1>5, <1>11, <1>12, StateChanges
<1>14. QED
  BY <1>13

\* Sums and differences agree but for OF, which the old handlers set to the
\* signed overflow.
LEMMA ArithmeticAgrees ==
  ASSUME CallInvariant, op \in Arithmetic
  PROVE  /\ Comparable(New) = Comparable(Legacy)
         /\ Legacy.of = SignedOverflow /\ New.of = before.of
<1> DEFINE a == Old.eax
           b == Operand
           x == IF op = "add" THEN a + b ELSE a - b
           r == x % Two32
           e == IF op = "cmp" THEN a ELSE r
           carry == IF op = "add" THEN r < a ELSE a < b
           z == r = 0
           t == Top(r)
           off == FALSE
           over == SignedOverflow
           w == WithResult(Old, r)
<1>1. Two32 \in Nat \ {0} /\ a \in 0..(Two32 - 1) /\ b \in 0..(Two32 - 1)
      /\ Two32 = Modulus(32) /\ x \in Int
  BY Values32
<1>2. r \in 0..(Two32 - 1)
  <2> HIDE DEF x
  <2>1. QED
    BY <1>1, DivideType
<1>3. SignBit(r, 32) = t
  BY <1>2, SignsAgree
<1>4. ASSUME op = "add" PROVE CarryOfSum(a, b, 32) = (r < a)
  <2>1. CarryOfSum(a, b, 32) <=> a + b >= Two32
    BY <1>1, CarryIs, QuadSize
  <2>2. r = IF a + b < Two32 THEN a + b ELSE a + b - Two32
    BY <1>1, <1>4, SumModulo
  <2>3. (r < a) <=> a + b >= Two32
    BY <1>1, <2>2
  <2> DEFINE p == CarryOfSum(a, b, 32)
             s == r < a
  <2>4. p \in BOOLEAN
    BY DEF CarryOfSum
  <2>5. s \in BOOLEAN
    BY <1>1, <1>2
  <2>6. p <=> s
    BY <2>1, <2>3
  <2> HIDE DEF p, s
  <2>7. p = s
    BY <2>4, <2>5, <2>6, BooleansEqual
  <2>8. QED
    BY <2>7 DEF p, s
<1>5. (IF op = "add" THEN CarryOfSum(a, b, 32) ELSE a < b) = carry
  BY <1>4
<1>6. New = State(e, Old.edx, z, SignBit(r, 32), IF op = "add" THEN CarryOfSum(a, b, 32) ELSE a < b, before.of)
  BY NewIs DEF NewArithmetic, Changed, State
<1>7. w = State(r, Old.edx, z, t, before.cf, before.of)
  BY ResultState
<1>8. Legacy = State(e, Old.edx, z, t, carry, over)
  <2> DEFINE o == IF op = "add" THEN Top(a) = Top(b) /\ Top(a) # Top(r)
                  ELSE Top(a) # Top(b) /\ Top(a) # Top(r)
  <2>1. o = over
    BY Comparison
  <2>2. CASE op \in {"add", "sub"}
    <3>1. Legacy = PutCarries(w, carry, o)
      <4>1. CASE op = "add"
        BY <4>1, LegacyIs DEF LegacyAdd, PutCarries
      <4>2. CASE op = "sub"
        BY <4>2, LegacyIs DEF LegacySub, PutCarries
      <4>3. QED
        BY <2>2, <4>1, <4>2
    <3>2. e = r
      BY <2>2
    <3> HIDE DEF e, w, carry, o, over, z, t, r
    <3>3. QED
      BY <1>7, <2>1, <3>1, <3>2, StateChanges
  <2>3. CASE op = "cmp"
    <3>1. LegacySub = PutCarries(w, carry, o)
      BY <2>3 DEF LegacySub, PutCarries
    <3>2. Legacy = PutEax(LegacySub, e)
      BY <2>3, LegacyIs DEF LegacyCmp, PutEax
    <3> HIDE DEF e, w, carry, o, over, z, t, r
    <3>3. LegacySub = State(r, Old.edx, z, t, carry, over)
      BY <1>7, <2>1, <3>1, StateChanges
    <3>4. QED
      BY <3>2, <3>3, StateChanges
  <2>4. QED
    BY <2>2, <2>3 DEF Arithmetic
<1>9. New = State(e, Old.edx, z, t, carry, before.of)
  BY <1>3, <1>5, <1>6
<1> HIDE DEF e, z, t, carry, over, off, r
<1>10. PutOf(New, off) = PutOf(Legacy, off)
  BY <1>8, <1>9, StateChanges
<1>11. Comparable(New) = Comparable(Legacy)
  BY <1>10, ComparableIs DEF off
<1>12. Legacy.of = over /\ New.of = before.of
  BY <1>8, <1>9 DEF State
<1>13. QED
  BY <1>11, <1>12 DEF over

\* A shift by less than the width.
LEMMA ShiftAgrees ==
  ASSUME CallInvariant, op \in Shifts, Places < Bits32
  PROVE  Comparable(New) = Comparable(Legacy)
<1> DEFINE a == Old.eax
           v == Signed(a, Bits32)
           c == Count
           p == TwoTo[c]
           y == ShiftResult(a)
           r == y % Two32
           out == ShiftedOut(a)
           z == r = 0
           t == Top(r)
           off == FALSE
           w == WithResult(Old, r)
<1>1. /\ Two32 \in Nat \ {0} /\ a \in 0..(Two32 - 1) /\ Two32 = Modulus(32) /\ Bits32 = Width[32]
      /\ Bits32 \in Nat /\ Bits32 > 1 /\ c \in Nat /\ c < Bits32 /\ c = Places
      /\ p \in Nat \ {0}
  BY Values32, PowerType
<1>2. v \in Int /\ y \in Int
  BY <1>1, SignsAgree, ShiftResultType
<1>3. r \in 0..(Two32 - 1)
  <2> HIDE DEF y
  <2>1. QED
    BY <1>1, <1>2, DivideType
<1>4. SignBit(r, 32) = t
  BY <1>3, SignsAgree
<1>5. LegacyCount = c
  BY <1>1, ModSmall DEF LegacyCount, Count
<1>6. w = State(r, Old.edx, z, t, before.cf, before.of)
  BY ResultState
<1>7. Old = State(a, Old.edx, off, off, before.cf, before.of)
  BY OldState
<1> DEFINE nc == IF c > 0 THEN out ELSE before.cf
           no == IF c # 1 THEN before.of
                 ELSE CASE op = "shl" -> SignBit(r, 32) # out
                        [] op = "shr" -> SignBit(a, 32)
                        [] op = "sar" -> off
<1>8. New = State(r, Old.edx, z, SignBit(r, 32), nc, no)
  BY NewIs DEF NewShift, Changed, State
<1>9. CASE c = 0
  <2>1. p = 1
    BY <1>9, PowerSteps
  <2>2. r = a
    <3>1. a * 1 = a /\ a \div 1 = a /\ v \div 1 = v /\ a % Two32 = a
      BY <1>1, <1>2, ModSmall
    <3>2. v % Two32 = a
      <4>1. v = a \/ v = a + (-1) * Two32
        BY <1>1, SignsAgree
      <4>2. (a + (-1) * Two32) % Two32 = a % Two32
        <5> DEFINE minus == -1
        <5>1. a \in Int /\ minus \in Int
          BY <1>1
        <5> HIDE DEF minus, a
        <5>2. (a + minus * Two32) % Two32 = a % Two32
          BY <1>1, <5>1, DivideShifted
        <5>3. QED
          BY <5>2 DEF minus
      <4> HIDE DEF v, a
      <4>3. QED
        BY <3>1, <4>1, <4>2
    <3>3. y = CASE op = "shl" -> (a * p) % Two32 [] op = "shr" -> a \div p [] op = "sar" -> v \div p
      BY DEF ShiftResult
    <3> HIDE DEF a, v, p, y
    <3>4. y = CASE op = "shl" -> a % Two32 [] op = "shr" -> a [] op = "sar" -> v
      BY <2>1, <3>1, <3>3
    <3>5. y \in {a, v}
      BY <3>1, <3>4 DEF Shifts
    <3>6. QED
      BY <3>1, <3>2, <3>5
  <2>3. nc = before.cf /\ no = before.of
    BY <1>1, <1>9
  <2>4. Legacy = Old
    BY <1>5, <1>9, LegacyIs DEF Shifts, LegacyShl, LegacyShr, LegacySar
  <2> DEFINE sign == SignBit(r, 32)
  <2> HIDE DEF r, z, sign, nc, no, off, a
  <2>5. New = State(r, Old.edx, z, sign, nc, no)
    BY <1>8 DEF sign
  <2>6. PutSigns(New, off, off) = State(a, Old.edx, off, off, before.cf, before.of)
    BY <2>2, <2>3, <2>5, StateChanges
  <2>7. PutSigns(Old, off, off) = State(a, Old.edx, off, off, before.cf, before.of)
    BY <1>7, StateChanges
  <2>8. PutSigns(New, off, off) = PutSigns(Legacy, off, off)
    BY <2>4, <2>6, <2>7
  <2>9. QED
    BY <1>1, <1>9, <2>8, ComparableIs DEF off
<1>10. CASE c # 0
  <2>1. c > 0
    BY <1>1, <1>10
  <2>2. nc = out /\ out = (IF op = "shl" THEN Bit(a, Bits32 - c) = 1 ELSE Bit(a, c - 1) = 1)
    BY <1>1, <2>1 DEF ShiftedOut
  <2> DEFINE lo == CASE op = "shl" -> Bit(a, Bits32 - 1) # Bit(a, Bits32 - 2)
                     [] op = "shr" -> Top(a)
                     [] op = "sar" -> off
             lof == IF c = 1 THEN lo ELSE before.of
  <2>3. w.of = before.of
    BY <1>6 DEF State
  <2>4. Legacy = PutCarries(w, out, lof)
    <3>1. CASE op = "shl"
      <4>1. w = WithResult(Old, (a * p) % Two32)
        <5>1. y = (a * p) % Two32
          BY <3>1 DEF ShiftResult
        <5>2. y \in 0..(Two32 - 1)
          BY <1>1, <3>1, ShiftResultType
        <5>3. r = y
          <6> HIDE DEF y
          <6>1. QED
            BY <1>1, <5>2, ModSmall
        <5>4. QED
          BY <5>1, <5>3
      <4>2. LegacyShl = [w EXCEPT !.cf = (Bit(a, Bits32 - c) = 1),
                           !.of = IF c = 1 THEN Bit(a, Bits32 - 1) # Bit(a, Bits32 - 2) ELSE @]
        BY <1>5, <1>10, <4>1 DEF LegacyShl
      <4>3. lof = IF c = 1 THEN Bit(a, Bits32 - 1) # Bit(a, Bits32 - 2) ELSE w.of
        BY <2>3, <3>1
      <4>4. out = (Bit(a, Bits32 - c) = 1)
        BY <2>2, <3>1
      <4>5. Legacy = LegacyShl
        BY <3>1, LegacyIs
      <4> HIDE DEF w, lof, out, a
      <4>6. QED
        BY <4>2, <4>3, <4>4, <4>5 DEF PutCarries
    <3>2. CASE op = "shr"
      <4>1. w = WithResult(Old, a \div p)
        <5>1. y = a \div p
          BY <3>2 DEF ShiftResult
        <5>2. y \in 0..(Two32 - 1)
          <6>1. a \div p \in Nat /\ a \div p <= a
            <7>1. a \in Nat
              BY <1>1
            <7> DEFINE d == a \div p
                       e == a % p
            <7>2. d \in Nat /\ e \in 0..(p - 1) /\ a = d * p + e
              <8> HIDE DEF a, p
              <8>1. d \in Nat
                BY <1>1, <7>1, DivideNat
              <8>2. a \in Int
                BY <7>1
              <8>3. QED
                BY <1>1, <8>1, <8>2, DivideType
            <7> HIDE DEF d, e, p, a
            <7>3. d * p >= d
              BY <1>1, <7>2
            <7>4. QED
              BY <1>1, <7>1, <7>2, <7>3 DEF d
          <6> HIDE DEF y
          <6>2. QED
            BY <1>1, <5>1, <6>1
        <5>3. r = y
          <6> HIDE DEF y
          <6>1. QED
            BY <1>1, <5>2, ModSmall
        <5>4. QED
          BY <5>1, <5>3
      <4>2. LegacyShr = [w EXCEPT !.cf = (Bit(a, c - 1) = 1),
                           !.of = IF c = 1 THEN Top(a) ELSE @]
        BY <1>5, <1>10, <4>1 DEF LegacyShr
      <4>3. lof = IF c = 1 THEN Top(a) ELSE w.of
        BY <2>3, <3>2
      <4>4. out = (Bit(a, c - 1) = 1)
        BY <2>2, <3>2
      <4>5. Legacy = LegacyShr
        BY <3>2, LegacyIs
      <4> HIDE DEF w, lof, out, a
      <4>6. QED
        BY <4>2, <4>3, <4>4, <4>5 DEF PutCarries
    <3>3. CASE op = "sar"
      <4>1. w = WithResult(Old, (v \div p) % Two32)
        BY <3>3 DEF ShiftResult
      <4>2. LegacySar = [w EXCEPT !.cf = (Bit(a, c - 1) = 1),
                           !.of = IF c = 1 THEN FALSE ELSE @]
        BY <1>5, <1>10, <4>1 DEF LegacySar
      <4>3. lof = IF c = 1 THEN off ELSE w.of
        BY <2>3, <3>3
      <4>4. out = (Bit(a, c - 1) = 1)
        BY <2>2, <3>3
      <4>5. Legacy = LegacySar
        BY <3>3, LegacyIs
      <4> HIDE DEF w, lof, out, a
      <4>6. QED
        BY <4>2, <4>3, <4>4, <4>5 DEF PutCarries
    <3>4. QED
      BY <3>1, <3>2, <3>3 DEF Shifts
  <2>5. no = lof
    <3>1. CASE c # 1
      BY <3>1
    <3>2. CASE c = 1
      <4>1. CASE op = "shl"
        <5> DEFINE k == Bits32 - 2
        <5>1. k \in Nat /\ k + 1 = Bits32 - 1 /\ k + 1 \in 0..(Bits32 - 1) /\ a \in Int
          BY <1>1
        <5>2. Bit(a, k) \in 0..1 /\ Bit(a, k + 1) \in 0..1
          BY <5>1, BitType
        <5>3. r = (a * TwoTo[1]) % TwoTo[Bits32]
          <6>1. y = (a * p) % Two32 /\ y \in 0..(Two32 - 1)
            BY <1>1, <4>1, ShiftResultType DEF ShiftResult
          <6>2. r = y
            <7> HIDE DEF y
            <7>1. QED
              BY <1>1, <6>1, ModSmall
          <6>3. QED
            BY <3>2, <6>1, <6>2 DEF Two32
        <5>4. a * TwoTo[1] \in Int
          BY <5>1, PowerType
        <5> HIDE DEF k, a, r
        <5>5. Bit(r, k + 1) = Bit(a * TwoTo[1], k + 1)
          BY <1>1, <5>1, <5>3, <5>4, BitOfRemainder
        <5>6. Bit(r, k + 1) = Bit(a, k)
          BY <5>1, <5>5, BitOfMultiple
        <5>7. SignBit(r, 32) = (Bit(a, k) = 1)
          BY <1>1, <5>1, <5>6 DEF SignBit
        <5>8. out = (Bit(a, k + 1) = 1)
          BY <2>2, <3>2, <4>1, <5>1
        <5>9. no = (SignBit(r, 32) # out) /\ lof = (Bit(a, k + 1) # Bit(a, k))
          BY <3>2, <4>1, <5>1 DEF k
        <5> DEFINE f == Bit(a, k)
                   g == Bit(a, k + 1)
        <5> HIDE DEF f, g, no, lof, out
        <5>10. no = ((f = 1) # (g = 1)) /\ lof = (g # f)
          BY <5>7, <5>8, <5>9 DEF f, g
        <5>11. f \in {0, 1} /\ g \in {0, 1}
          BY <5>2 DEF f, g
        <5>12. QED
          BY <5>10, <5>11
      <4>2. CASE op = "shr"
        <5>1. SignBit(a, 32) = Top(a)
          BY <1>1, SignsAgree
        <5>2. QED
          BY <3>2, <4>2, <5>1
      <4>3. CASE op = "sar"
        BY <3>2, <4>3
      <4>4. QED
        BY <4>1, <4>2, <4>3 DEF Shifts
    <3>3. QED
      BY <3>1, <3>2
  <2> HIDE DEF r, z, t, out, nc, no, lof, w
  <2>6. Legacy = State(r, Old.edx, z, t, out, lof)
    BY <1>6, <2>4, StateChanges
  <2>7. New = Legacy
    BY <1>4, <1>8, <2>2, <2>5, <2>6
  <2>8. QED
    BY <2>7
<1>11. QED
  BY <1>9, <1>10

(* On 32 bits the handlers of the IR agree with the ones they replace, but *)
(* for the overflow flag of sums and differences.                          *)
THEOREM MigrationIsFaithful == Spec => []MigrationAgrees
<1>1. ASSUME CallInvariant, EndsNew PROVE MigrationAgrees
  <2>1. SUFFICES ASSUME bits = 32, op \in Scalar \ {"unsupported"}, outcome # "called",
                        op \in Shifts => Places < Bits32
                 PROVE  /\ Comparable(Ended) = Comparable(Legacy)
                        /\ op \in Arithmetic => of = before.of /\ Legacy.of = SignedOverflow
    BY DEF MigrationAgrees
  <2>2. Ended = New
    BY <1>1, <2>1, Values32 DEF EndsNew
  <2>3. Comparable(New) = Comparable(Legacy)
    <3>1. \/ op \in Arithmetic \/ op \in Logic \/ op \in Shifts \/ op \in {"move", "not"}
          \/ op \in {"inc", "dec"} \/ op \in {"mul", "imul"} \/ op = "div"
      BY <2>1 DEF Scalar, Arithmetic, Logic, Shifts, Uncalled
    <3>2. QED
      BY <1>1, <2>1, <3>1, ArithmeticAgrees, LogicAgrees, ShiftAgrees, MoveAgrees, StepAgrees,
         MultiplyAgrees, DivideAgrees
  <2>4. op \in Arithmetic => of = before.of /\ Legacy.of = SignedOverflow
    <3>1. Ended.of = of
      BY DEF Ended
    <3>2. QED
      BY <1>1, <2>2, <3>1, ArithmeticAgrees
  <2>5. QED
    BY <2>2, <2>3, <2>4
<1>2. QED
  BY <1>1, CallsEndNew, PTL

-----------------------------------------------------------------------------
(* Shifts and rotations, one place after the other.                        *)

\* The value v of w bits after k shifts by one, and the last bit out of it.
Moved(v, w, k) ==
  CASE op = "shl" -> (v * TwoTo[k]) % TwoTo[w]
    [] op = "shr" -> v \div TwoTo[k]
    [] op = "sar" -> (Signed(v, w) \div TwoTo[k]) % TwoTo[w]

LastOut(v, w, k) ==
  IF op = "shl" THEN Bit(v, w - k) = 1 ELSE Bit(v, k - 1) = 1

LEMMA TwoHalves ==
  ASSUME NEW w \in Nat, w > 1
  PROVE  /\ TwoTo[w - 1] \in Nat \ {0} /\ TwoTo[w] \in Nat \ {0}
         /\ TwoTo[w] = 2 * TwoTo[w - 1]
<1>1. w - 1 \in Nat /\ w # 0
  OBVIOUS
<1>2. QED
  BY <1>1, PowerType, PowerSteps

\* The sign of a value of w bits.
LEMMA TopBit ==
  ASSUME NEW w \in Nat, w > 1, NEW v \in 0..(TwoTo[w] - 1)
  PROVE  Bit(v, w - 1) = 1 <=> v >= TwoTo[w - 1]
<1> DEFINE h == TwoTo[w - 1]
<1>1. h \in Nat \ {0} /\ TwoTo[w] = 2 * h
  BY TwoHalves
<1> HIDE DEF h
<1>2. v \div h = IF v >= h THEN 1 ELSE 0
  <2>1. v >= h => v = 1 * h + (v - h) /\ v - h \in Nat /\ v - h < h /\ v \in Int
    BY <1>1
  <2>2. v >= h => v \div h = 1
    BY <1>1, <2>1, DivideUnique
  <2>3. v < h => v \div h = 0
    BY <1>1, ModSmall
  <2>4. QED
    BY <1>1, <2>2, <2>3
<1>3. QED
  BY <1>1, <1>2 DEF Bit, h

\* What a value stands for as a signed one.
LEMMA SignedRange ==
  ASSUME NEW w \in Nat, w > 1, NEW v \in 0..(TwoTo[w] - 1)
  PROVE  /\ Signed(v, w) \in -TwoTo[w - 1]..(TwoTo[w - 1] - 1)
         /\ Signed(v, w) % TwoTo[w] = v
<1> DEFINE h == TwoTo[w - 1]
           m == TwoTo[w]
           minus == -1
<1>1. h \in Nat \ {0} /\ m \in Nat \ {0} /\ m = 2 * h
  BY TwoHalves
<1>2. Signed(v, w) = IF v >= h THEN v + minus * m ELSE v
  BY <1>1 DEF Signed
<1>3. Signed(v, w) \in -h..(h - 1)
  BY <1>1, <1>2
<1>4. minus \in Int /\ v \in Int
  OBVIOUS
<1> HIDE DEF h, m, minus
<1>5. v % m = v
  BY <1>1, <1>4, ModSmall DEF m
<1>6. (v + minus * m) % m = v
  BY <1>1, <1>4, <1>5, DivideShifted
<1>7. QED
  BY <1>2, <1>3, <1>5, <1>6 DEF h, m

\* One more place.
LEMMA MovedOnce ==
  ASSUME op \in Shifts, NEW w \in Nat, w > 1, NEW v \in 0..(TwoTo[w] - 1), NEW k \in Nat
  PROVE  /\ Moved(v, w, 0) = v
         /\ Moved(v, w, k) \in 0..(TwoTo[w] - 1)
         /\ ShiftedOnce(Moved(v, w, k), w).value = Moved(v, w, k + 1)
         /\ k < w => (ShiftedOnce(Moved(v, w, k), w).carry <=> LastOut(v, w, k + 1))
         /\ ShiftedOnce(Moved(v, w, k), w).carry \in BOOLEAN
<1> DEFINE h == TwoTo[w - 1]
           m == TwoTo[w]
           p == TwoTo[k]
           u == Moved(v, w, k)
<1>1. /\ h \in Nat \ {0} /\ m \in Nat \ {0} /\ m = 2 * h
      /\ p \in Nat \ {0} /\ TwoTo[k + 1] = 2 * p /\ TwoTo[0] = 1 /\ v \in Int /\ 2 * p = p * 2
      /\ k + 1 \in Nat
  BY TwoHalves, PowerType, PowerSteps, PowerNext
<1>2. CASE op = "shl"
  <2> DEFINE x == v * p
  <2>1. x \in Int /\ v * (2 * p) = 2 * x
    BY <1>1
  <2>2. u = x % m /\ Moved(v, w, k + 1) = (2 * x) % m /\ Moved(v, w, 0) = v
    <3>1. Moved(v, w, 0) = (v * 1) % m
      BY <1>1, <1>2 DEF Moved
    <3>2. (v * 1) % m = v
      BY <1>1, ModSmall
    <3>3. QED
      BY <1>1, <1>2, <2>1, <3>1, <3>2 DEF Moved
  <2>3. /\ ShiftedOnce(u, w).value = (2 * u) % m
        /\ ShiftedOnce(u, w).carry = (u >= h)
    BY <1>2 DEF ShiftedOnce
  <2> HIDE DEF x, u, m
  <2>4. u \in 0..(m - 1)
    BY <1>1, <2>1, <2>2, DivideType
  <2>5. (2 * u) % m = (2 * x) % m
    <3>1. 2 \in Int
      OBVIOUS
    <3>2. QED
      BY <1>1, <2>1, <2>2, <3>1, ProductModulo
  <2>6. ASSUME k < w PROVE u >= h <=> Bit(v, w - (k + 1)) = 1
    <3> DEFINE i == w - (k + 1)
    <3>1. i \in Nat /\ i + k = w - 1 /\ i + k \in 0..(w - 1)
      BY <2>6
    <3>2. Bit(u, w - 1) = 1 <=> u >= h
      BY <2>4, TopBit DEF m
    <3> HIDE DEF i
    <3>3. Bit(u, i + k) = Bit(x, i + k)
      BY <2>1, <2>2, <3>1, BitOfRemainder DEF m
    <3>4. Bit(x, i + k) = Bit(v, i)
      BY <1>1, <3>1, BitOfMultiple DEF x
    <3>5. QED
      BY <3>1, <3>2, <3>3, <3>4 DEF i
  <2>7. (u >= h) \in BOOLEAN
    BY <1>1, <2>4
  <2>8. QED
    BY <1>2, <2>2, <2>3, <2>4, <2>5, <2>6, <2>7 DEF u, m, LastOut
<1>3. CASE op = "shr"
  <2>1. /\ u = v \div p /\ Moved(v, w, k + 1) = v \div (2 * p) /\ Moved(v, w, 0) = v \div 1
    BY <1>1, <1>3 DEF Moved
  <2>2. v \div 1 = v
    OBVIOUS
  <2>3. /\ ShiftedOnce(u, w).value = u \div 2
        /\ ShiftedOnce(u, w).carry = (u % 2 = 1)
    BY <1>3 DEF ShiftedOnce
  <2>4. u \in 0..(m - 1)
    <3> DEFINE d == v \div p
               e == v % p
    <3>1. d \in Nat
      BY <1>1, DivideNat
    <3>2. e \in Nat /\ v = d * p + e
      <4> HIDE DEF p
      <4>1. e \in 0..(p - 1) /\ v = d * p + e
        BY <1>1, DivideType
      <4>2. QED
        BY <1>1, <4>1
    <3> HIDE DEF d, e, p, m
    <3>3. d * p >= d /\ d * p \in Nat
      BY <1>1, <3>1
    <3>4. d <= v
      BY <3>1, <3>2, <3>3
    <3>5. d \in 0..(m - 1)
      BY <1>1, <3>1, <3>4 DEF m
    <3>6. QED
      BY <2>1, <3>5 DEF d
  <2>5. v \div (p * 2) = (v \div p) \div 2
    BY <1>1, DivideTwice
  <2>6. (u % 2 = 1) = (Bit(v, (k + 1) - 1) = 1)
    <3>1. (k + 1) - 1 = k
      OBVIOUS
    <3>2. QED
      BY <2>1, <3>1 DEF Bit
  <2> HIDE DEF u, m, p
  <2>7. QED
    BY <1>1, <1>3, <2>1, <2>2, <2>3, <2>4, <2>5, <2>6 DEF u, m, LastOut
<1>4. CASE op = "sar"
  <2> DEFINE s == Signed(v, w)
             t == s \div p
             y == t \div 2
  <2>1. s \in -h..(h - 1) /\ s % m = v /\ s \in Int
    BY <1>1, SignedRange
  <2> HIDE DEF s
  <2>2. t \in -h..(h - 1) /\ t \in Int
    <3> HIDE DEF h, p
    <3>1. t \in -h..(h - 1)
      BY <1>1, <2>1, QuotientBounds
    <3> HIDE DEF t
    <3>2. QED
      BY <1>1, <3>1
  <2>3. u = t % m /\ Moved(v, w, k + 1) = (s \div (2 * p)) % m /\ Moved(v, w, 0) = (s \div 1) % m
    BY <1>1, <1>4 DEF Moved, s
  <2>4. s \div 1 = s
    BY <2>1
  <2>5. s \div (p * 2) = y
    BY <1>1, <2>1, DivideTwice
  <2>6. /\ ShiftedOnce(u, w).value = (u \div 2) + (IF u >= h THEN h ELSE 0)
        /\ ShiftedOnce(u, w).carry = (u % 2 = 1)
    BY <1>4 DEF ShiftedOnce
  <2> HIDE DEF t, u, h, m
  <2>7. y \in -h..(h - 1) /\ (t >= 0 => y >= 0) /\ (t < 0 => y < 0)
    <3>1. 2 \in Nat \ {0}
      OBVIOUS
    <3>2. QED
      BY <1>1, <2>2, <3>1, QuotientBounds
  <2> HIDE DEF y
  <2>8. /\ t >= 0 => u = t
        /\ t < 0 => u = t + m
        /\ y >= 0 => y % m = y
        /\ y < 0 => y % m = y + m
    <3>1. ASSUME NEW z \in Int, z >= -h, z < h
          PROVE  z % m = IF z >= 0 THEN z ELSE z + m
      <4>1. z >= 0 => z % m = z
        <5>1. z >= 0 => z \in Nat /\ z < m /\ m \in Nat
          BY <1>1, <3>1
        <5>2. QED
          BY <5>1, ModSmall
      <4>2. z < 0 => z = (-1) * m + (z + m) /\ z + m \in Nat /\ z + m < m
        BY <1>1, <3>1
      <4>3. z < 0 => z % m = z + m
        <5>1. -1 \in Int
          OBVIOUS
        <5>2. QED
          BY <1>1, <3>1, <4>2, <5>1, DivideUnique
      <4>4. QED
        BY <4>1, <4>3
    <3>2. t \in Int /\ t >= -h /\ t < h /\ y \in Int /\ y >= -h /\ y < h
      BY <1>1, <2>2, <2>7
    <3>3. t % m = IF t >= 0 THEN t ELSE t + m
      BY <3>1, <3>2
    <3>4. y % m = IF y >= 0 THEN y ELSE y + m
      BY <3>1, <3>2
    <3>5. QED
      BY <2>3, <3>2, <3>3, <3>4
  <2>9. u \in 0..(m - 1) /\ (u >= h <=> t < 0)
    BY <1>1, <2>2, <2>8
  <2>10. t < 0 => u \div 2 = y + h
    <3>1. (t + h * 2) \div 2 = (t \div 2) + h
      <4>1. 2 \in Nat \ {0} /\ h \in Int
        BY <1>1
      <4>2. QED
        BY <2>2, <4>1, DivideShifted
    <3>2. m = h * 2
      BY <1>1
    <3>3. QED
      BY <2>8, <3>1, <3>2 DEF y
  <2>11. t >= 0 => u \div 2 = y
    BY <2>8 DEF y
  <2>12. (u \div 2) + (IF u >= h THEN h ELSE 0) = y % m
    <3>1. CASE t >= 0
      BY <1>1, <2>2, <2>7, <2>8, <2>9, <2>11, <3>1
    <3>2. CASE t < 0
      BY <1>1, <2>2, <2>7, <2>8, <2>9, <2>10, <3>2
    <3>3. QED
      BY <2>2, <3>1, <3>2
  <2>13. ASSUME k < w PROVE (u % 2 = 1) <=> Bit(v, (k + 1) - 1) = 1
    <3>1. (k + 1) - 1 = k /\ k \in 0..(w - 1)
      BY <2>13
    <3>2. u % 2 = t % 2
      <4>1. (t + h * 2) % 2 = t % 2
        <5>1. 2 \in Nat \ {0} /\ h \in Int
          BY <1>1
        <5>2. QED
          BY <2>2, <5>1, DivideShifted
      <4>2. m = h * 2
        BY <1>1
      <4>3. QED
        BY <2>2, <2>8, <4>1, <4>2
    <3>3. t % 2 = Bit(s, k)
      BY DEF Bit, t
    <3>4. Bit(s % TwoTo[w], k) = Bit(s, k)
      BY <2>1, <3>1, BitOfRemainder
    <3>5. QED
      BY <2>1, <3>1, <3>2, <3>3, <3>4 DEF m
  <2>14. QED
    BY <1>1, <1>4, <2>1, <2>3, <2>4, <2>5, <2>6, <2>9, <2>12, <2>13 DEF u, m, LastOut
<1>5. QED
  BY <1>2, <1>3, <1>4 DEF Shifts

\* The recursion of Shifted in closed form.
LEMMA ShiftedIs ==
  ASSUME op \in Shifts, NEW w \in Nat, w > 1, NEW v \in 0..(TwoTo[w] - 1), NEW n \in Nat
  PROVE  /\ Shifted(v, w, n).value = Moved(v, w, n)
         /\ n = 0 => Shifted(v, w, n).carry = before.cf
         /\ n # 0 /\ n <= w =>
              /\ Shifted(v, w, n).carry \in BOOLEAN
              /\ Shifted(v, w, n).carry <=> LastOut(v, w, n)
<1> DEFINE start == [value |-> v, carry |-> before.cf]
           At(k) == IF k = 0 THEN start ELSE ShiftedOnce(Moved(v, w, k - 1), w)
           Solves(f) == f = [k \in 0..n |-> IF k = 0 THEN start ELSE ShiftedOnce(f[k - 1].value, w)]
           g == [k \in 0..n |-> At(k)]
<1>1. \A k \in 0..n : At(k).value = Moved(v, w, k)
  <2>1. At(0).value = Moved(v, w, 0)
    <3>1. At(0) = start
      OBVIOUS
    <3>2. Moved(v, w, 0) = v
      BY MovedOnce
    <3>3. QED
      BY <3>1, <3>2
  <2>2. ASSUME NEW k \in 1..n PROVE At(k).value = Moved(v, w, k)
    <3> DEFINE j == k - 1
    <3>1. j \in Nat /\ j + 1 = k /\ k # 0
      OBVIOUS
    <3>2. At(k) = ShiftedOnce(Moved(v, w, j), w)
      BY <3>1
    <3> HIDE DEF j, At
    <3>3. ShiftedOnce(Moved(v, w, j), w).value = Moved(v, w, j + 1)
      BY <3>1, MovedOnce
    <3>4. QED
      BY <3>1, <3>2, <3>3
  <2>3. \A k \in 0..n : k = 0 \/ k \in 1..n
    OBVIOUS
  <2> HIDE DEF At
  <2>4. QED
    BY <2>1, <2>2, <2>3
<1>2. Shifted(v, w, n) = (CHOOSE f : Solves(f))[n]
  BY DEF Shifted
<1>3. Solves(g)
  <2>1. ASSUME NEW k \in 0..n
        PROVE  g[k] = IF k = 0 THEN start ELSE ShiftedOnce(g[k - 1].value, w)
    <3>1. CASE k = 0
      BY <3>1
    <3>2. CASE k # 0
      <4> DEFINE j == k - 1
      <4>1. j \in 0..n
        BY <3>2
      <4>2. g[k] = ShiftedOnce(Moved(v, w, j), w)
        BY <3>2
      <4>3. g[j] = At(j)
        BY <4>1
      <4>4. g[j].value = Moved(v, w, j)
        <5> HIDE DEF g, At, j
        <5>1. QED
          BY <1>1, <4>1, <4>3
      <4>5. g[k] = ShiftedOnce(g[j].value, w)
        <5> HIDE DEF g, At, j
        <5>1. QED
          BY <4>2, <4>4
      <4> HIDE DEF g, At
      <4>6. QED
        BY <3>2, <4>5
    <3>3. QED
      BY <3>1, <3>2
  <2> HIDE DEF At, start
  <2>2. g = [k \in 0..n |-> g[k]]
    OBVIOUS
  <2> HIDE DEF g
  <2>3. QED
    BY <2>1, <2>2
<1>4. ASSUME NEW f, Solves(f) PROVE f[n] = At(n)
  <2>1. /\ f[0] = start
        /\ \A k \in 1..n : f[k] = ShiftedOnce(f[k - 1].value, w)
    <3>1. \A k \in 0..n : f[k] = IF k = 0 THEN start ELSE ShiftedOnce(f[k - 1].value, w)
      <4> HIDE DEF start
      <4>1. QED
        BY <1>4
    <3> HIDE DEF start, Solves
    <3>2. 0 \in 0..n /\ \A k \in 1..n : k \in 0..n /\ k # 0
      OBVIOUS
    <3>3. QED
      BY <3>1, <3>2
  <2> DEFINE S == {k \in Nat : f[k] = At(k)}
  <2>2. 0 \in S
    BY <2>1
  <2>3. ASSUME NEW k \in 0..(n - 1), k \in S PROVE k + 1 \in S
    <3> DEFINE i == k + 1
    <3>1. i \in 1..n /\ i - 1 = k /\ i # 0 /\ k \in 0..n /\ i \in Nat
      OBVIOUS
    <3>2. At(i) = ShiftedOnce(Moved(v, w, i - 1), w)
      BY <3>1
    <3>3. f[k] = At(k)
      BY <2>3
    <3> HIDE DEF i, At, S
    <3>4. f[i] = ShiftedOnce(f[k].value, w)
      BY <2>1, <3>1
    <3>5. f[k].value = Moved(v, w, k)
      BY <1>1, <3>1, <3>3
    <3>6. f[i] = At(i)
      BY <3>1, <3>2, <3>4, <3>5
    <3>7. QED
      BY <3>1, <3>6 DEF S, i
  <2> HIDE DEF S
  <2>4. n \in S
    BY <2>2, <2>3, BoundedInduction
  <2>5. QED
    BY <2>4 DEF S
<1> HIDE DEF Solves, g
<1>5. Shifted(v, w, n) = At(n)
  <2>1. Solves(CHOOSE f : Solves(f))
    BY <1>3
  <2>2. QED
    BY <1>2, <1>4, <2>1
<1>6. n # 0 /\ n <= w =>
        /\ At(n).carry \in BOOLEAN
        /\ At(n).carry <=> LastOut(v, w, n)
  <2>1. SUFFICES ASSUME n # 0, n <= w
                 PROVE  At(n).carry \in BOOLEAN /\ (At(n).carry <=> LastOut(v, w, n))
    OBVIOUS
  <2> DEFINE j == n - 1
  <2>2. j \in Nat /\ j + 1 = n /\ j < w
    BY <2>1
  <2>3. At(n) = ShiftedOnce(Moved(v, w, j), w)
    BY <2>1
  <2> HIDE DEF j, At
  <2>4. /\ ShiftedOnce(Moved(v, w, j), w).carry \in BOOLEAN
        /\ ShiftedOnce(Moved(v, w, j), w).carry <=> LastOut(v, w, j + 1)
    BY <2>2, MovedOnce
  <2>5. QED
    BY <2>2, <2>3, <2>4
<1>7. n = 0 => At(n).carry = before.cf
  OBVIOUS
<1>8. n \in 0..n
  OBVIOUS
<1> HIDE DEF At
<1>9. QED
  BY <1>1, <1>5, <1>6, <1>7, <1>8

(* A shift by n places is n shifts by one, and CF the last bit out of it.  *)
THEOREM ShiftsAreRepeated == Spec => []ShiftsRepeat
<1>1. ASSUME CallInvariant, EndsNew PROVE ShiftsRepeat
  <2>1. SUFFICES ASSUME op \in Shifts, outcome = "returned", bits = 32, Places < Width[32]
                 PROVE  ShiftsRepeat
    BY DEF ShiftsRepeat, Returned
  <2> DEFINE a == Old.eax
             c == Places
             w == Bits32
             y == ShiftResult(a)
             r == y % Two32
             out == ShiftedOut(a)
             shifted == Shifted(a, w, c)
  <2>2. /\ Two32 \in Nat \ {0} /\ a \in 0..(Two32 - 1) /\ Two32 = Modulus(32) /\ w = Width[32]
        /\ w \in Nat /\ w > 1 /\ c \in Nat /\ c < w /\ c = Count /\ c <= w /\ Two32 = TwoTo[w]
        /\ Old.eax = Get(before.rax, 32) /\ Two32 = 2 * TwoTo[w - 1] /\ TwoTo[w - 1] \in Nat \ {0}
    BY <1>1, <2>1, Values32 DEF Two32
  <2>3. a \in 0..(TwoTo[w] - 1)
    BY <2>2
  <2>4. y \in Int
    BY <1>1, <2>1, ShiftResultType
  <2>5. r = Moved(a, w, c)
    <3>1. Moved(a, w, c) \in 0..(Two32 - 1)
      BY <2>1, <2>2, <2>3, MovedOnce
    <3>2. CASE op = "sar"
      BY <2>2, <3>2 DEF Moved, ShiftResult
    <3>3. CASE op # "sar"
      <4>1. y = Moved(a, w, c)
        BY <2>1, <2>2, <3>3 DEF Moved, ShiftResult, Shifts
      <4> HIDE DEF y, a, w, c
      <4>2. y % Two32 = y
        BY <2>2, <3>1, <4>1, ModSmall
      <4>3. QED
        BY <4>1, <4>2
    <3>4. QED
      BY <3>2, <3>3
  <2>6. r \in 0..(Two32 - 1)
    <3> HIDE DEF r, a, c, w
    <3>1. Moved(a, w, c) \in 0..(TwoTo[w] - 1)
      BY <2>1, <2>2, <2>3, MovedOnce
    <3>2. QED
      BY <2>2, <2>5, <3>1
  <2>7. Ended = NewShift
    BY <1>1, <2>1, <2>2, NewIs DEF EndsNew, Scalar, Shifts
  <2> DEFINE nc == IF c > 0 THEN out ELSE before.cf
             no == IF c # 1 THEN before.of
                   ELSE CASE op = "shl" -> SignBit(r, 32) # out
                          [] op = "shr" -> SignBit(a, 32)
                          [] op = "sar" -> FALSE
             z == r = 0
             t == SignBit(r, 32)
  <2>8. NewShift = State(r, Old.edx, z, t, nc, no)
    BY <2>2 DEF NewShift, Changed, State
  <2>9. Left = a /\ Result = r /\ zf = z /\ sf = t /\ cf = nc /\ of = no
    <3> DEFINE left == Get(rax, 32)
               high == Get(rdx, 32)
    <3>1. Ended = State(left, high, zf, sf, cf, of)
      BY DEF Ended, State
    <3> HIDE DEF left, high, r, z, t, nc, no
    <3>2. left = r /\ zf = z /\ sf = t /\ cf = nc /\ of = no
      BY <2>7, <2>8, <3>1 DEF State
    <3>3. QED
      BY <2>1, <2>2, <3>2 DEF Left, Result, left
  <2>10. /\ shifted.value = r
         /\ c = 0 => shifted.carry = before.cf
         /\ c # 0 => shifted.carry \in BOOLEAN /\ (shifted.carry <=> LastOut(a, w, c))
    <3> HIDE DEF r, a, c, w
    <3>1. /\ Shifted(a, w, c).value = Moved(a, w, c)
          /\ c = 0 => Shifted(a, w, c).carry = before.cf
          /\ c # 0 => /\ Shifted(a, w, c).carry \in BOOLEAN
                      /\ Shifted(a, w, c).carry <=> LastOut(a, w, c)
      <4>1. op \in Shifts /\ w \in Nat /\ w > 1 /\ a \in 0..(TwoTo[w] - 1) /\ c \in Nat /\ c <= w
        BY <2>1, <2>2, <2>3
      <4>2. QED
        BY <4>1, ShiftedIs
    <3>2. QED
      BY <2>5, <3>1
  <2>11. out = LastOut(a, w, c)
    BY <2>2 DEF ShiftedOut, LastOut
  <2>12. out \in BOOLEAN
    BY DEF ShiftedOut
  <2>13. cf = shifted.carry
    <3> HIDE DEF shifted, out
    <3>1. CASE c = 0
      BY <2>2, <2>9, <2>10, <3>1
    <3>2. CASE c # 0
      <4>1. c > 0 /\ cf = out
        BY <2>2, <2>9, <3>2
      <4>2. shifted.carry \in BOOLEAN /\ (shifted.carry <=> out)
        BY <2>10, <2>11, <3>2
      <4>3. QED
        BY <2>12, <4>1, <4>2, BooleansEqual
    <3>3. QED
      BY <3>1, <3>2
  <2>14. t <=> Signed(r, Width[32]) < 0
    BY <2>2, <2>6, SignIs, QuadSize
  <2>15. of = IF c = 1 THEN SignBit(a, 32) # SignBit(r, 32) ELSE before.of
    <3>1. CASE c # 1
      BY <2>9, <3>1
    <3>2. CASE c = 1
      <4> DEFINE h == TwoTo[w - 1]
                 sign == SignBit(a, 32)
      <4>1. sign \in BOOLEAN /\ t \in BOOLEAN /\ (sign <=> a >= h) /\ (t <=> r >= h)
        BY <2>2, <2>6, SignIs, QuadSize
      <4>2. CASE op = "shl"
        <5>1. out = (Bit(a, w - 1) = 1)
          BY <2>2, <3>2, <4>2 DEF ShiftedOut
        <5>2. Bit(a, w - 1) = 1 <=> a >= h
          BY <2>2, <2>3, TopBit
        <5>3. out = sign
          <6>1. out <=> sign
            BY <4>1, <5>1, <5>2
          <6> HIDE DEF out, sign
          <6>2. QED
            BY <2>12, <4>1, <6>1, BooleansEqual
        <5>4. of = (t # out)
          BY <2>9, <3>2, <4>2
        <5> HIDE DEF out, sign, t
        <5>5. of = (sign # t)
          BY <4>1, <5>3, <5>4
        <5>6. QED
          BY <3>2, <5>5 DEF sign, t
      <4>3. CASE op \in {"shr", "sar"}
        <5>1. r = ShiftedOnce(a, w).value
          <6> DEFINE k == 0
          <6>1. k \in Nat /\ k + 1 = c /\ k = 0
            BY <3>2
          <6> HIDE DEF r, a, c, w, k
          <6>2. Moved(a, w, 0) = a
            BY <2>1, <2>2, <2>3, MovedOnce
          <6>3. ShiftedOnce(Moved(a, w, k), w).value = Moved(a, w, k + 1)
            <7>1. op \in Shifts /\ w \in Nat /\ w > 1 /\ a \in 0..(TwoTo[w] - 1) /\ k \in Nat
              BY <2>1, <2>2, <2>3, <6>1
            <7>2. QED
              BY <7>1, MovedOnce
          <6>4. QED
            BY <2>5, <6>1, <6>2, <6>3
        <5>2. r = (a \div 2) + (IF op = "sar" /\ a >= h THEN h ELSE 0)
          <6>1. a \div 2 \in Int /\ (a \div 2) + 0 = a \div 2
            BY <2>2
          <6>2. ShiftedOnce(a, w).value =
                  IF op = "shr" THEN a \div 2 ELSE (a \div 2) + (IF a >= h THEN h ELSE 0)
            BY <4>3 DEF ShiftedOnce
          <6> HIDE DEF a, r, h, w
          <6>3. QED
            BY <4>3, <5>1, <6>1, <6>2
        <5>3. a \div 2 \in 0..(h - 1)
          <6> HIDE DEF h, a, w
          <6>1. a \in Int /\ 0 <= a /\ a < 2 * h /\ h \in Nat \ {0}
            BY <2>2 DEF h
          <6>2. QED
            BY <6>1
        <5>4. t <=> op = "sar" /\ sign
          <6> DEFINE d == a \div 2
          <6> HIDE DEF h, a, w, d, r, sign, t
          <6>1. d \in 0..(h - 1) /\ r = d + (IF op = "sar" /\ a >= h THEN h ELSE 0)
                /\ h \in Nat \ {0}
            BY <2>2, <5>2, <5>3 DEF d, h
          <6>2. r >= h <=> op = "sar" /\ a >= h
            BY <6>1
          <6>3. QED
            BY <4>1, <6>2
        <5>5. of = IF op = "shr" THEN sign ELSE FALSE
          BY <2>9, <3>2, <4>3
        <5> HIDE DEF sign, t
        <5>6. of = (sign # t)
          BY <4>1, <4>3, <5>4, <5>5
        <5>7. QED
          BY <3>2, <5>6 DEF sign, t
      <4>4. QED
        BY <2>1, <4>2, <4>3 DEF Shifts
    <3>3. QED
      BY <3>1, <3>2
  <2> DEFINE shown == Shifted(Left, Width[32], Places)
  <2>16. shown = shifted
    BY <2>2, <2>9
  <2>17. /\ Result = shown.value /\ cf = shown.carry
         /\ zf <=> Result = 0
         /\ sf <=> Signed(Result, Width[32]) < 0
         /\ of = IF Places = 1 THEN SignBit(Left, 32) # SignBit(Result, 32) ELSE before.of
    <3> HIDE DEF shown, shifted, r, a, t, c
    <3>1. Result = shown.value /\ cf = shown.carry
      BY <2>9, <2>10, <2>13, <2>16
    <3>2. (zf <=> Result = 0) /\ (sf <=> Signed(Result, Width[32]) < 0)
      BY <2>9, <2>14
    <3>3. of = IF Places = 1 THEN SignBit(Left, 32) # SignBit(Result, 32) ELSE before.of
      BY <2>9, <2>15 DEF c
    <3>4. QED
      BY <3>1, <3>2, <3>3
  <2>18. QED
    BY <2>17 DEF ShiftsRepeat
<1>2. QED
  BY <1>1, CallsEndNew, PTL

\* What a shift leaves in a shorter register.
ShortMoved ==
  Returned({"shl", "shr"}) /\ bits < 32 /\ Places < Width[32] =>
    Result = Moved(Left, Width[bits], Places)

LEMMA ShortShifts ==
  ASSUME CallInvariant, HandleShift, op \in {"shl", "shr"}, bits < 32
  PROVE  Get(rax', bits) = Moved(Left, Width[bits], Places)
<1> DEFINE a == Left
           c == Places
           w == Width[bits]
           m == Modulus(bits)
           g == Get(Get(rax, bits), 32)
           y == IF op = "shl" THEN (a * TwoTo[c]) % Modulus(32) ELSE a \div TwoTo[c]
<1>1. bits \in Sizes /\ bits <= 32 /\ rax \in Quad /\ rax = before.rax
  <2>1. Next
    BY DEF Next
  <2>2. bits \in {8, 16}
    BY DEF CallInvariant, ExecutorTypeOK, Sizes
  <2>3. QED
    BY <2>1, <2>2, CallStart DEF Sizes
<1>2. /\ m \in Nat \ {0} /\ m = TwoTo[w] /\ w \in Nat /\ w > 1
      /\ Modulus(32) \in Nat \ {0} /\ rax \in Int
  BY <1>1, Widths, QuadSize
<1>3. a \in 0..(m - 1) /\ a \in Int /\ g = a
  BY <1>1, <1>2, GetType, GetTwice DEF Left
<1>4. c \in Nat /\ c = Count /\ TwoTo[c] \in Nat \ {0}
  BY Values32, PowerType
<1>5. rax' = Set(rax, bits, y)
  <2> DEFINE x == CASE op = "shl" -> (g * TwoTo[Count]) % Modulus(32)
                    [] op = "shr" -> g \div TwoTo[Count]
                    [] op = "sar" -> Signed(g, Width[32]) \div TwoTo[Count]
  <2>1. rax' = Set(rax, bits, x)
    BY DEF HandleShift
  <2>2. x = y
    BY <1>3, <1>4
  <2>3. QED
    BY <2>1, <2>2
<1>6. a * TwoTo[c] \in Int
  BY <1>3, <1>4
<1>7. y \in Int
  <2>1. (a * TwoTo[c]) % Modulus(32) \in Int /\ a \div TwoTo[c] \in Int
    BY <1>2, <1>3, <1>4, <1>6, DivideInt
  <2>2. QED
    BY <2>1
<1>8. Get(rax', bits) = y % m
  <2> HIDE DEF y
  <2>1. QED
    BY <1>1, <1>5, <1>7, SetParts
<1>9. CASE op = "shl"
  <2> DEFINE x == a * TwoTo[c]
  <2>1. y = x % Modulus(32) /\ Moved(a, w, c) = x % m
    BY <1>2, <1>9 DEF Moved
  <2> HIDE DEF x, y, m
  <2>2. (x % Modulus(32)) % m = x % m
    BY <1>1, <1>6, Narrowed, QuadSize DEF x, m
  <2>3. QED
    BY <1>8, <2>1, <2>2
<1>10. CASE op = "shr"
  <2>1. y = Moved(a, w, c)
    BY <1>10 DEF Moved
  <2> HIDE DEF a, c, w, y
  <2>2. Moved(a, w, c) \in 0..(TwoTo[w] - 1)
    <3>1. op \in Shifts /\ a \in 0..(TwoTo[w] - 1)
      BY <1>2, <1>3, <1>10 DEF Shifts
    <3>2. QED
      BY <1>2, <1>4, <3>1, MovedOnce
  <2>3. y % m = y
    BY <1>2, <1>7, <2>1, <2>2, ModSmall
  <2>4. QED
    BY <1>8, <2>1, <2>3 DEF a, c, w
<1>11. QED
  BY <1>9, <1>10

(* In a shorter register a shift to the left, or an unsigned one to the    *)
(* right, still repeats the shift by one.                                  *)
THEOREM ShortShiftsAreRepeated == Spec => []ShortShiftsRepeat
<1>1. Init => ShortMoved
  BY DEF Init, ShortMoved, Returned
<1>2. ASSUME CallInvariant, Next PROVE ShortMoved'
  <2>1. SUFFICES ASSUME op \in {"shl", "shr"}, bits < 32, Places < Width[32]
                 PROVE  ShortMoved'
    BY <1>2, CallStart DEF ShortMoved, Returned, Places, Modulus
  <2>2. HandleShift
    <3>1. Count < Width[32] /\ ~ (Count >= Width[32])
      BY <1>2, <2>1, Values32
    <3>2. op \notin Packed
      BY <2>1 DEF Packed, PackedBits, PackedExtremes, PackedBinary, PackedUnary
    <3>3. QED
      BY <1>2, <2>1, <3>1, <3>2
      DEF Next, Called, CalledWith, HandleArithmetic, HandleLogic, HandleNot, HandleLongShift,
          HandleDivideError, HandleDivide, HandleDivideByte, HandleMove, HandleStep,
          HandleMultiply, Ignore, HandlePacked, HandlePackedUnmapped, Arithmetic, Logic
  <2>3. Get(rax', bits) = Moved(Left, Width[bits], Places)
    BY <1>2, <2>1, <2>2, ShortShifts
  <2>4. op' = op /\ bits' = bits /\ source' = source /\ before' = before
    BY <1>2, CallStart
  <2>5. /\ Result' = Get(rax', bits)
        /\ Moved(Left, Width[bits], Places)' = Moved(Left, Width[bits], Places)
    BY <2>4 DEF Result, Moved, Left, Places, Get, Modulus
  <2>6. QED
    BY <2>3, <2>5 DEF ShortMoved
<1>3. ShortMoved /\ UNCHANGED vars => ShortMoved'
  BY DEF ShortMoved, Returned, Result, Moved, Left, Places, Get, Modulus, vars, input, flags
<1>4. ASSUME CallInvariant, ShortMoved PROVE ShortShiftsRepeat
  <2>1. SUFFICES ASSUME Returned({"shl", "shr"}), bits < 32, Places < Width[32]
                 PROVE  Result = Shifted(Left, Width[bits], Places).value
    BY DEF ShortShiftsRepeat
  <2>2. Result = Moved(Left, Width[bits], Places)
    BY <1>4, <2>1 DEF ShortMoved
  <2> DEFINE a == Left
             c == Places
             w == Width[bits]
  <2>3. op \in Shifts /\ w \in Nat /\ w > 1 /\ a \in 0..(TwoTo[w] - 1) /\ c \in Nat
    <3>1. bits \in Sizes /\ before.rax \in Quad
      BY <1>4 DEF CallInvariant, ExecutorTypeOK
    <3>2. w \in Nat /\ w > 1 /\ Modulus(bits) = TwoTo[w] /\ before.rax \in Int
      BY <3>1, Widths, QuadSize
    <3>3. a \in 0..(Modulus(bits) - 1)
      BY <3>1, <3>2, GetType DEF Left
    <3>4. c \in Nat
      BY <1>4, Values32
    <3>5. QED
      BY <2>1, <3>2, <3>3, <3>4 DEF Returned, Shifts
  <2> HIDE DEF a, c, w
  <2>4. Shifted(a, w, c).value = Moved(a, w, c)
    BY <2>3, ShiftedIs
  <2>5. QED
    BY <2>2, <2>4 DEF a, c, w
<1>5. QED
  BY <1>1, <1>2, <1>3, <1>4, InitStarts, CallStep, PTL DEF Spec

\* The value v of w bits, turned around by j places to the left.
Turned(v, w, j) == (v % TwoTo[w - j]) * TwoTo[j] + v \div TwoTo[w - j]

\* One place more moves the highest bit to the other end.
LEMMA TurnedOnce ==
  ASSUME NEW w \in Nat, w > 1, NEW v \in 0..(TwoTo[w] - 1), NEW j \in 0..(w - 1)
  PROVE  \E t \in 0..1, g \in 0..(TwoTo[w - 1] - 1) :
           /\ Turned(v, w, j) = t * TwoTo[w - 1] + g
           /\ Turned(v, w, j + 1) = 2 * g + t
<1> DEFINE i == w - (j + 1)
           h == TwoTo[w - 1]
           x == TwoTo[i]
           y == TwoTo[j]
           d == v \div x
           f == v % x
           e == d \div 2
           t == d % 2
           g == f * y + e
<1>1. i \in Nat /\ i + 1 = w - j /\ i + j = w - 1 /\ j \in Nat /\ w - 1 \in Nat
  OBVIOUS
<1>2. /\ x \in Nat \ {0} /\ y \in Nat \ {0} /\ TwoTo[j + 1] = 2 * y /\ TwoTo[w - j] = 2 * x
      /\ h = x * y
  <2>1. TwoTo[i + 1] = 2 * x /\ TwoTo[j + 1] = 2 * y /\ TwoTo[i + j] = TwoTo[i] * TwoTo[j]
    BY <1>1, PowerNext, PowerSum
  <2>2. QED
    BY <1>1, <2>1, PowerType
<1>3. h \in Nat \ {0} /\ TwoTo[w] = 2 * h /\ v \in Int /\ v >= 0 /\ v < 2 * h
  BY TwoHalves
<1> HIDE DEF x, y, h
<1>4. d \in Int /\ f \in 0..(x - 1) /\ v = d * x + f
  BY <1>2, <1>3, DivideType
<1> HIDE DEF d, f
<1>5. e \in Int /\ t \in 0..1 /\ d = e * 2 + t
  BY <1>4
<1> HIDE DEF e, t
<1>6. v = e * (2 * x) + (t * x + f) /\ t * x + f \in Nat /\ t * x + f < 2 * x
  <2>1. v = (e * 2 + t) * x + f
    BY <1>4, <1>5
  <2>2. (e * 2 + t) * x = e * (2 * x) + t * x
    BY <1>2, <1>5
  <2>3. t * x \in Nat /\ t * x <= x
    BY <1>2, <1>5
  <2>4. QED
    BY <1>2, <1>4, <1>5, <2>1, <2>2, <2>3
<1>7. v \div (2 * x) = e /\ v % (2 * x) = t * x + f
  <2> DEFINE r == t * x + f
             m == 2 * x
  <2>1. m \in Nat \ {0} /\ r \in Nat /\ r < m /\ v = e * m + r /\ e \in Int /\ v \in Int
    BY <1>2, <1>3, <1>5, <1>6
  <2> HIDE DEF r, m
  <2>2. v \div m = e /\ v % m = r
    BY <2>1, DivideUnique
  <2>3. QED
    BY <2>2 DEF r, m
<1>8. e >= 0 /\ e < y
  <2> DEFINE r == t * x + f
             m == 2 * x
  <2>1. m \in Nat \ {0} /\ r \in Nat /\ r < m /\ v = e * m + r
    BY <1>2, <1>6
  <2>2. 2 * h = y * m
    BY <1>2
  <2> HIDE DEF r, m
  <2>3. e >= 0
    <3>1. SUFFICES ASSUME e < 0 PROVE FALSE
      BY <1>5
    <3>2. e * m <= (-1) * m /\ (-1) * m = -m /\ e * m \in Int
      BY <1>5, <2>1, <3>1
    <3>3. QED
      BY <1>3, <2>1, <3>2
  <2>4. e < y
    <3>1. SUFFICES ASSUME e >= y PROVE FALSE
      BY <1>2, <1>5
    <3>2. e * m >= y * m /\ e * m \in Int /\ y * m \in Int
      BY <1>2, <1>5, <2>1, <3>1
    <3>3. QED
      BY <1>3, <2>1, <2>2, <3>2
  <2>5. QED
    BY <2>3, <2>4
<1>9. g \in 0..(h - 1)
  <2>1. f * y <= (x - 1) * y
    BY <1>2, <1>4
  <2>2. (x - 1) * y = h - y
    BY <1>2
  <2>3. f * y \in Nat
    BY <1>2, <1>4
  <2>4. QED
    BY <1>2, <1>3, <1>5, <1>8, <2>1, <2>2, <2>3
<1>10. Turned(v, w, j) = t * h + g
  <2>1. Turned(v, w, j) = (t * x + f) * y + e
    BY <1>2, <1>7 DEF Turned, y
  <2>2. (t * x + f) * y = (t * x) * y + f * y
    BY <1>2, <1>4, <1>5
  <2>3. (t * x) * y = t * h
    BY <1>2, <1>5
  <2>4. t * h \in Int /\ f * y \in Int
    BY <1>2, <1>3, <1>4, <1>5
  <2>5. QED
    BY <1>5, <2>1, <2>2, <2>3, <2>4
<1>11. Turned(v, w, j + 1) = 2 * g + t
  <2>1. Turned(v, w, j + 1) = f * (2 * y) + d
    BY <1>2 DEF Turned, f, d, x, i
  <2>2. f * (2 * y) = 2 * (f * y) /\ f * y \in Int
    BY <1>2, <1>4
  <2>3. QED
    BY <1>5, <2>1, <2>2
<1>12. QED
  BY <1>5, <1>9, <1>10, <1>11 DEF h

\* All the way around is where it was.
LEMMA TurnedAround ==
  ASSUME NEW w \in Nat, NEW v \in 0..(TwoTo[w] - 1)
  PROVE  Turned(v, w, 0) = v /\ Turned(v, w, w) = v
<1>1. TwoTo[0] = 1 /\ TwoTo[w] \in Nat \ {0} /\ w - w = 0 /\ w - 0 = w
  BY PowerSteps, PowerType
<1>2. v % 1 = 0 /\ v \div 1 = v
  OBVIOUS
<1>3. v % TwoTo[w] = v /\ v \div TwoTo[w] = 0
  BY <1>1, ModSmall
<1>4. Turned(v, w, 0) = v * 1 + 0
  BY <1>1, <1>3 DEF Turned
<1>5. Turned(v, w, w) = 0 * TwoTo[w] + v
  BY <1>1, <1>2 DEF Turned
<1>6. QED
  BY <1>1, <1>4, <1>5

\* What the handlers compute by shifts is the value turned around.
LEMMA TurnedByShifts ==
  ASSUME NEW w \in Nat, w > 1, NEW v \in 0..(TwoTo[w] - 1), NEW j \in 0..w
  PROVE  (v * TwoTo[j] + v \div TwoTo[w - j]) % TwoTo[w] = Turned(v, w, j)
<1> DEFINE x == TwoTo[w - j]
           y == TwoTo[j]
           m == TwoTo[w]
           d == v \div x
           f == v % x
           u == f * y + d
<1>1. x \in Nat \ {0} /\ y \in Nat \ {0} /\ m \in Nat \ {0} /\ m = x * y /\ v \in Int
      /\ w - j \in Nat
  <2>1. w - j \in Nat /\ j \in Nat /\ (w - j) + j = w
    OBVIOUS
  <2>2. TwoTo[(w - j) + j] = TwoTo[w - j] * TwoTo[j]
    BY <2>1, PowerSum
  <2>3. QED
    BY <2>1, <2>2, PowerType
<1>2. u \in 0..(m - 1)
  <2>1. CASE j = w
    BY <2>1, TurnedAround DEF Turned
  <2>2. CASE j # w
    <3>1. j \in 0..(w - 1)
      BY <2>2
    <3>2. PICK t \in 0..1, g \in 0..(TwoTo[w - 1] - 1) : Turned(v, w, j) = t * TwoTo[w - 1] + g
      BY <3>1, TurnedOnce
    <3>3. TwoTo[w - 1] \in Nat \ {0} /\ m = 2 * TwoTo[w - 1]
      BY TwoHalves
    <3>4. u = Turned(v, w, j)
      BY DEF Turned
    <3> HIDE DEF u, m
    <3>5. t * TwoTo[w - 1] = IF t = 1 THEN TwoTo[w - 1] ELSE 0
      BY <3>3
    <3>6. QED
      BY <3>2, <3>3, <3>4, <3>5
  <2>3. QED
    BY <2>1, <2>2
<1> HIDE DEF x, y, m
<1>3. d \in Int /\ f \in Int /\ v = d * x + f
  <2>1. v \in Int /\ x \in Nat \ {0}
    BY <1>1
  <2>2. d \in Int /\ f \in Int
    BY <2>1, DivideInt
  <2>3. v = d * x + f
    BY <2>1, DivideType
  <2>4. QED
    BY <2>2, <2>3
<1> HIDE DEF d, f
<1>4. v * y + d = u + d * m
  <2>1. (d * x + f) * y = (d * x) * y + f * y
    BY <1>1, <1>3
  <2>2. (d * x) * y = d * m
    BY <1>1, <1>3
  <2>3. d * m \in Int /\ f * y \in Int
    BY <1>1, <1>3
  <2>4. QED
    BY <1>3, <2>1, <2>2, <2>3
<1> HIDE DEF u
<1>5. (u + d * m) % m = u % m
  <2>1. u \in Int /\ m \in Nat \ {0}
    BY <1>1, <1>2
  <2>2. QED
    BY <1>3, <2>1, DivideShifted
<1>6. u % m = u
  BY <1>1, <1>2, ModSmall
<1>7. QED
  BY <1>4, <1>5, <1>6 DEF Turned, u, d, f, x, y, m

\* The bit that goes around, before and after.
LEMMA RotatedBit ==
  ASSUME CallInvariant, NEW t \in 0..1, NEW g \in 0..(TwoTo[Bits32 - 1] - 1)
  PROVE  LET before1 == t * TwoTo[Bits32 - 1] + g
             after1  == 2 * g + t
         IN  /\ op = "shl" => RotatedOnce(before1) = after1
             /\ op = "shr" => RotatedOnce(after1) = before1
             /\ before1 \in 0..(Two32 - 1) /\ after1 \in 0..(Two32 - 1)
             /\ Top(before1) <=> t = 1
             /\ after1 % 2 = t /\ Bit(after1, 0) = t
<1> DEFINE h == TwoTo[Bits32 - 1]
           x == t * h + g
           y == 2 * g + t
<1>1. h \in Nat \ {0} /\ Two32 = 2 * h
  BY Values32
<1>2. g \in 0..(h - 1)
  OBVIOUS
<1> HIDE DEF h
<1>3. (t = 0 => x = g) /\ (t = 1 => x = h + g)
  BY <1>1, <1>2
<1>4. x \in 0..(Two32 - 1) /\ y \in 0..(Two32 - 1) /\ (x >= h <=> t = 1)
  BY <1>1, <1>2, <1>3
<1>5. Top(x) <=> t = 1
  BY <1>4, SignsAgree DEF h
<1>6. y \div 2 = g /\ y % 2 = t
  BY <1>2
<1>7. Bit(y, 0) = t
  <2>1. TwoTo[0] = 1 /\ y \div 1 = y
    BY <1>4, PowerSteps
  <2>2. QED
    BY <1>6, <2>1 DEF Bit
<1>8. Two32 \div 2 = h
  <2>1. h * 2 = 2 * h /\ 2 \in Nat \ {0} /\ h \in Int
    BY <1>1
  <2>2. QED
    BY <1>1, <2>1, MultipleModulo
<1>9. ASSUME op = "shl" PROVE RotatedOnce(x) = y
  <2>1. x \div h = t
    <3>1. x \in Int /\ t \in Int /\ x = t * h + g /\ g \in Nat /\ g < h
      BY <1>1, <1>2, <1>4
    <3> HIDE DEF x
    <3>2. QED
      BY <1>1, <3>1, DivideUnique
  <2>2. (2 * x) % Two32 = 2 * g
    <3> DEFINE m == 2 * h
    <3>1. 2 * x = t * m + 2 * g /\ 2 * g \in Nat /\ 2 * g < m /\ m \in Nat \ {0} /\ 2 * x \in Int
      BY <1>1, <1>2, <1>3, <1>4
    <3> HIDE DEF m, x
    <3>2. (2 * x) % m = 2 * g
      BY <3>1, DivideUnique
    <3>3. QED
      BY <1>1, <3>2 DEF m
  <2>3. RotatedOnce(x) = ((2 * x) % Two32) + x \div (Two32 \div 2)
    BY <1>9 DEF RotatedOnce
  <2> HIDE DEF x
  <2>4. QED
    BY <1>8, <2>1, <2>2, <2>3
<1>10. ASSUME op = "shr" PROVE RotatedOnce(y) = x
  <2>1. RotatedOnce(y) = (y \div 2) + (y % 2) * (Two32 \div 2)
    BY <1>10 DEF RotatedOnce
  <2> HIDE DEF y
  <2>2. RotatedOnce(y) = g + t * h
    BY <1>6, <1>8, <2>1
  <2>3. QED
    BY <1>1, <1>2, <2>2
<1>11. QED
  BY <1>4, <1>5, <1>6, <1>7, <1>9, <1>10 DEF h

\* eax after k rotations by one.
RotatedBy(k) == Turned(Old.eax, Bits32, IF op = "shl" THEN k ELSE Bits32 - k)

\* One more rotation: the bit t goes around.
LEMMA RotationStep ==
  ASSUME CallInvariant, op \in {"shl", "shr"}, NEW k \in 1..Bits32
  PROVE  /\ RotatedBy(0) = Old.eax
         /\ RotatedBy(k) \in 0..(Two32 - 1)
         /\ RotatedBy(k) = RotatedOnce(RotatedBy(k - 1))
         /\ op = "shl" => (Bit(RotatedBy(k), 0) = 1 <=> Top(RotatedBy(k - 1)))
         /\ op = "shr" => (Top(RotatedBy(k)) <=> RotatedBy(k - 1) % 2 = 1)
<1> DEFINE v == Old.eax
           w == Bits32
           j == IF op = "shl" THEN k - 1 ELSE w - k
<1>1. w \in Nat /\ w > 1 /\ v \in 0..(TwoTo[w] - 1) /\ TwoTo[w] = Two32
  BY Values32 DEF Two32
<1>2. j \in 0..(w - 1) /\ (op = "shl" => j + 1 = k) /\ (op = "shr" => j + 1 = w - (k - 1))
  BY <1>1
<1>3. RotatedBy(0) = v
  <2> HIDE DEF v
  <2>1. w - 0 = w
    BY <1>1
  <2> HIDE DEF w
  <2>2. Turned(v, w, 0) = v /\ Turned(v, w, w) = v
    BY <1>1, TurnedAround
  <2>3. QED
    BY <2>1, <2>2 DEF RotatedBy, v, w
<1>4. /\ op = "shl" => RotatedBy(k - 1) = Turned(v, w, j) /\ RotatedBy(k) = Turned(v, w, j + 1)
      /\ op = "shr" => RotatedBy(k - 1) = Turned(v, w, j + 1) /\ RotatedBy(k) = Turned(v, w, j)
  BY <1>2 DEF RotatedBy
<1> HIDE DEF j, v
<1>5. PICK t \in 0..1, g \in 0..(TwoTo[w - 1] - 1) :
         /\ Turned(v, w, j) = t * TwoTo[w - 1] + g
         /\ Turned(v, w, j + 1) = 2 * g + t
  BY <1>1, <1>2, TurnedOnce
<1> DEFINE x == t * TwoTo[w - 1] + g
           y == 2 * g + t
<1>6. /\ op = "shl" => RotatedOnce(x) = y
      /\ op = "shr" => RotatedOnce(y) = x
      /\ x \in 0..(Two32 - 1) /\ y \in 0..(Two32 - 1)
      /\ Top(x) <=> t = 1
      /\ y % 2 = t /\ Bit(y, 0) = t
  BY RotatedBit
<1>7. /\ op = "shl" => RotatedBy(k - 1) = x /\ RotatedBy(k) = y
      /\ op = "shr" => RotatedBy(k - 1) = y /\ RotatedBy(k) = x
  BY <1>4, <1>5
<1> HIDE DEF x, y
<1>8. QED
  BY <1>3, <1>6, <1>7 DEF v

\* The fields that a rotation changes.
PutRotation(st, x, y, u) == [st EXCEPT !.eax = x, !.cf = y, !.of = u]

LEMMA RotationFields ==
  ASSUME NEW x, NEW y, NEW u
  PROVE  /\ PutRotation(Old, x, y, u).eax = x
         /\ PutRotation(Old, x, y, u).cf = y
         /\ PutRotation(Old, x, y, u).of = u
<1> DEFINE z == FALSE
           st == Old
<1>1. st = [eax |-> Get(before.rax, 32), edx |-> Get(before.rdx, 32), zf |-> z, sf |-> z,
            cf |-> before.cf, of |-> before.of]
  BY DEF Old
<1> HIDE DEF z
<1>2. /\ [st EXCEPT !.eax = x, !.cf = y, !.of = u].eax = x
      /\ [st EXCEPT !.eax = x, !.cf = y, !.of = u].cf = y
      /\ [st EXCEPT !.eax = x, !.cf = y, !.of = u].of = u
  <2> HIDE DEF st
  <2>1. QED
    BY <1>1, SMT
<1>3. QED
  BY <1>2 DEF PutRotation

\* The recursion of RotatesRepeat in closed form.
LEMMA RotatedIs ==
  ASSUME CallInvariant, op \in {"shl", "shr"},
         NEW f, f = CHOOSE f1 : f1 = [n \in 0..Bits32 |-> IF n = 0 THEN Old.eax
                                                        ELSE RotatedOnce(f1[n - 1])]
  PROVE  \A k \in 0..Bits32 : f[k] = RotatedBy(k)
<1> DEFINE v == Old.eax
           Solves(f1) == f1 = [n \in 0..Bits32 |-> IF n = 0 THEN v ELSE RotatedOnce(f1[n - 1])]
           g == [n \in 0..Bits32 |-> RotatedBy(n)]
<1>1. Bits32 \in Nat
  BY Values32
<1>2. f = CHOOSE f1 : Solves(f1)
  OBVIOUS
<1> HIDE DEF v
<1>3. Solves(g)
  <2>1. ASSUME NEW n \in 0..Bits32
        PROVE  g[n] = IF n = 0 THEN v ELSE RotatedOnce(g[n - 1])
    <3>1. CASE n = 0
      <4>1. 1 \in 1..Bits32
        BY Values32
      <4>2. RotatedBy(0) = v
        BY <4>1, RotationStep DEF v
      <4>3. QED
        BY <3>1, <4>2
    <3>2. CASE n # 0
      <4>1. n \in 1..Bits32 /\ n - 1 \in 0..Bits32
        BY <1>1, <3>2
      <4>2. RotatedBy(n) = RotatedOnce(RotatedBy(n - 1))
        BY <4>1, RotationStep
      <4>3. QED
        BY <3>2, <4>1, <4>2
    <3>3. QED
      BY <3>1, <3>2
  <2>2. g = [n \in 0..Bits32 |-> g[n]]
    OBVIOUS
  <2> HIDE DEF g
  <2>3. QED
    BY <2>1, <2>2
<1>4. Solves(f)
  <2> HIDE DEF Solves, g
  <2>1. QED
    BY <1>2, <1>3
<1>5. ASSUME NEW k \in 0..Bits32 PROVE f[k] = IF k = 0 THEN v ELSE RotatedOnce(f[k - 1])
  BY <1>4
<1> DEFINE S == {k \in Nat : f[k] = RotatedBy(k)}
<1>6. 0 \in S
  <2>1. 1 \in 1..Bits32 /\ 0 \in 0..Bits32
    BY Values32
  <2>2. RotatedBy(0) = v
    BY <2>1, RotationStep DEF v
  <2> HIDE DEF Solves
  <2>3. QED
    BY <1>5, <2>1, <2>2
<1>7. ASSUME NEW k \in 0..(Bits32 - 1), k \in S PROVE k + 1 \in S
  <2> DEFINE i == k + 1
  <2>1. i \in 1..Bits32 /\ i \in 0..Bits32 /\ i # 0 /\ i - 1 = k /\ i \in Nat
    BY <1>1
  <2>2. f[k] = RotatedBy(k)
    BY <1>7
  <2> HIDE DEF S, i, Solves
  <2>3. f[i] = RotatedOnce(f[k])
    BY <1>5, <2>1
  <2>4. RotatedBy(i) = RotatedOnce(RotatedBy(k))
    BY <2>1, RotationStep
  <2>5. QED
    BY <2>1, <2>2, <2>3, <2>4 DEF S, i
<1> HIDE DEF S
<1>8. 0..Bits32 \subseteq S
  BY <1>1, <1>6, <1>7, BoundedInduction
<1>9. QED
  BY <1>8 DEF S

\* The states that the rotations end in.
LEMMA RotationEnds ==
  ASSUME CallInvariant, op \in {"shl", "shr"}
  PROVE  LET ended == IF op = "shl" THEN LegacyRol ELSE LegacyRor
             c == LegacyCount
             r == RotatedBy(c)
         IN  /\ c \in 0..(Bits32 - 1)
             /\ c = 0 => ended = Old
             /\ c # 0 =>
                  /\ ended.eax = r
                  /\ ended.cf = IF op = "shl" THEN Bit(r, 0) = 1 ELSE Top(r)
                  /\ c = 1 => ended.of = IF op = "shl" THEN Top(r) # (Bit(r, 0) = 1)
                                         ELSE Top(r) # (Bit(r, Bits32 - 2) = 1)
<1> DEFINE ended == IF op = "shl" THEN LegacyRol ELSE LegacyRor
           c == LegacyCount
           r == RotatedBy(c)
           v == Old.eax
           w == Bits32
<1>1. w \in Nat /\ w > 1 /\ v \in 0..(TwoTo[w] - 1) /\ TwoTo[w] = Two32 /\ v \in Int
  BY Values32 DEF Two32
<1>2. c \in 0..(w - 1)
  <2>1. Count \in Nat /\ w \in Nat \ {0} /\ c = Count % w
    BY <1>1, Values32 DEF LegacyCount, Count
  <2> HIDE DEF c, w
  <2>2. QED
    BY <2>1, DivideType
<1>3. c = 0 => ended = Old
  BY DEF LegacyRol, LegacyRor
<1>4. ASSUME c # 0
      PROVE  /\ ended.eax = r
             /\ ended.cf = IF op = "shl" THEN Bit(r, 0) = 1 ELSE Top(r)
             /\ c = 1 => ended.of = IF op = "shl" THEN Top(r) # (Bit(r, 0) = 1)
                                    ELSE Top(r) # (Bit(r, Bits32 - 2) = 1)
  <2>1. CASE op = "shl"
    <3> DEFINE s == (v * TwoTo[c] + v \div TwoTo[w - c]) % Two32
               low == Bit(s, 0) = 1
               o == IF c = 1 THEN Top(s) # low ELSE Old.of
    <3>1. s = r
      <4>1. c \in 0..w
        BY <1>1, <1>2
      <4> HIDE DEF c, v, w
      <4>2. (v * TwoTo[c] + v \div TwoTo[w - c]) % TwoTo[w] = Turned(v, w, c)
        BY <1>1, <4>1, TurnedByShifts
      <4>3. QED
        BY <1>1, <2>1, <4>2 DEF RotatedBy, v, w
    <3>2. ended = PutRotation(Old, s, low, o)
      BY <1>4, <2>1 DEF LegacyRol, PutRotation
    <3> HIDE DEF s, low, o
    <3>3. ended.eax = s /\ ended.cf = low /\ ended.of = o
      BY <3>2, RotationFields
    <3>4. low = (Bit(r, 0) = 1) /\ (c = 1 => o = (Top(r) # (Bit(r, 0) = 1)))
      BY <3>1 DEF low, o
    <3>5. QED
      BY <2>1, <3>1, <3>3, <3>4
  <2>2. CASE op = "shr"
    <3> DEFINE s == (v \div TwoTo[c] + v * TwoTo[w - c]) % Two32
               high == Top(s)
               o == IF c = 1 THEN Top(s) # (Bit(s, w - 2) = 1) ELSE Old.of
    <3>1. s = r
      <4> DEFINE j == w - c
                 x == v \div TwoTo[c]
                 y == v * TwoTo[w - c]
      <4>1. j \in 0..w /\ w - j = c /\ c \in Nat
        BY <1>1, <1>2
      <4>2. x \in Int /\ y \in Int
        <5>1. TwoTo[c] \in Nat \ {0} /\ TwoTo[j] \in Nat \ {0}
          BY <4>1, PowerType
        <5> HIDE DEF v, c, j, w
        <5>2. v \div TwoTo[c] \in Int
          BY <1>1, <5>1, DivideInt
        <5>3. v * TwoTo[j] \in Int
          BY <1>1, <5>1
        <5>4. QED
          BY <5>2, <5>3 DEF j
      <4>3. (v * TwoTo[j] + v \div TwoTo[w - j]) % TwoTo[w] = Turned(v, w, j)
        <5> HIDE DEF c, v, w, j
        <5>1. QED
          BY <1>1, <4>1, TurnedByShifts
      <4>4. v * TwoTo[j] + v \div TwoTo[w - j] = y + x
        BY <4>1
      <4>5. s = (x + y) % TwoTo[w]
        BY <1>1
      <4>6. r = Turned(v, w, j)
        BY <2>2 DEF RotatedBy
      <4> HIDE DEF x, y, s, r, v, w, j
      <4>7. y + x = x + y
        BY <4>2
      <4>8. QED
        BY <4>3, <4>4, <4>5, <4>6, <4>7
    <3>2. ended = PutRotation(Old, s, high, o)
      BY <1>4, <2>2 DEF LegacyRor, PutRotation
    <3> HIDE DEF s, high, o
    <3>3. ended.eax = s /\ ended.cf = high /\ ended.of = o
      BY <3>2, RotationFields
    <3>4. high = Top(r) /\ (c = 1 => o = (Top(r) # (Bit(r, Bits32 - 2) = 1)))
      BY <3>1 DEF high, o
    <3>5. QED
      BY <2>2, <3>1, <3>3, <3>4
  <2>3. QED
    BY <2>1, <2>2
<1>5. QED
  BY <1>2, <1>3, <1>4

\* The sign before a rotation to the right is the second bit after it.
LEMMA SecondBit ==
  ASSUME CallInvariant, op = "shr"
  PROVE  Bit(RotatedBy(1), Bits32 - 2) = 1 <=> Top(Old.eax)
<1> DEFINE v == Old.eax
           w == Bits32
           h == TwoTo[w - 1]
           q == TwoTo[w - 2]
           j == w - 1
<1>1. w \in Nat /\ w > 1 /\ v \in 0..(TwoTo[w] - 1) /\ TwoTo[w] = Two32 /\ v \in 0..(Two32 - 1)
  BY Values32 DEF Two32
<1>2. h = 2 * q /\ q \in Nat \ {0} /\ Two32 = 2 * h
  <2>1. w - 2 \in Nat /\ w - 1 \in Nat /\ w - 1 # 0 /\ (w - 1) - 1 = w - 2
    BY <1>1
  <2>2. QED
    BY <2>1, PowerType, PowerSteps, Values32
<1>3. j \in 0..(w - 1) /\ j + 1 = w
  BY <1>1
<1>4. Top(v) <=> v >= h
  BY <1>1, SignsAgree
<1>5. RotatedBy(1) = Turned(v, w, j)
  BY DEF RotatedBy
<1> HIDE DEF v, w, j
<1>6. Turned(v, w, w) = v
  BY <1>1, TurnedAround
<1>7. PICK t \in 0..1, g \in 0..(TwoTo[w - 1] - 1) :
         Turned(v, w, j) = t * TwoTo[w - 1] + g /\ Turned(v, w, j + 1) = 2 * g + t
  BY <1>1, <1>3, TurnedOnce
<1> DEFINE x == t * h + g
<1>8. v = 2 * g + t /\ RotatedBy(1) = x
  BY <1>3, <1>5, <1>6, <1>7
<1>9. g \in Nat /\ g < 2 * q
  BY <1>2
<1>10. (t = 0 => x = g) /\ (t = 1 => x = 2 * q + g)
  BY <1>2, <1>9
<1> HIDE DEF h, q, x
<1>11. v >= h <=> g >= q
  BY <1>2, <1>8, <1>9
<1>12. x \div q = IF g >= q THEN 2 * t + 1 ELSE 2 * t
  <2>1. x \in Int
    BY <1>2, <1>9, <1>10
  <2>2. g < q => x = (2 * t) * q + g
    BY <1>2, <1>9, <1>10
  <2>3. g >= q => x = (2 * t + 1) * q + (g - q) /\ g - q \in Nat /\ g - q < q
    BY <1>2, <1>9, <1>10
  <2>4. g < q => x \div q = 2 * t
    BY <1>2, <1>9, <2>1, <2>2, DivideUnique
  <2>5. g >= q => x \div q = 2 * t + 1
    BY <1>2, <1>9, <2>1, <2>3, DivideUnique
  <2>6. QED
    BY <1>2, <1>9, <2>4, <2>5
<1>13. Bit(x, w - 2) = 1 <=> g >= q
  BY <1>12 DEF Bit, q
<1>14. QED
  BY <1>4, <1>8, <1>11, <1>13 DEF v, w

(* A rotation by n places is n rotations by one, and the flags those of    *)
(* the last of them.                                                       *)
THEOREM RotatesAreRepeated == Spec => []RotatesRepeat
<1>1. ASSUME CallInvariant PROVE RotatesRepeat
  <2> DEFINE rotated == CHOOSE f : f = [n \in 0..Bits32 |-> IF n = 0 THEN Old.eax
                                                         ELSE RotatedOnce(f[n - 1])]
             ended == IF op = "shl" THEN LegacyRol ELSE LegacyRor
             c == LegacyCount
             r == RotatedBy(c)
  <2>1. ASSUME op \in {"shl", "shr"}
        PROVE  /\ ended.eax = rotated[LegacyCount]
               /\ LegacyCount > 0 =>
                    ended.cf = IF op = "shl" THEN Top(rotated[LegacyCount - 1])
                               ELSE rotated[LegacyCount - 1] % 2 = 1
               /\ LegacyCount = 1 => ended.of = (Top(Old.eax) # Top(ended.eax))
               /\ LegacyCount = 0 => ended = Old
    <3>1. \A k \in 0..Bits32 : rotated[k] = RotatedBy(k)
      BY <1>1, <2>1, RotatedIs
    <3>2. /\ c \in 0..(Bits32 - 1)
          /\ c = 0 => ended = Old
          /\ c # 0 =>
               /\ ended.eax = r
               /\ ended.cf = IF op = "shl" THEN Bit(r, 0) = 1 ELSE Top(r)
               /\ c = 1 => ended.of = IF op = "shl" THEN Top(r) # (Bit(r, 0) = 1)
                                      ELSE Top(r) # (Bit(r, Bits32 - 2) = 1)
      BY <1>1, <2>1, RotationEnds
    <3>3. Bits32 \in Nat /\ 1 \in 1..Bits32
      BY <1>1, Values32
    <3>4. RotatedBy(0) = Old.eax
      BY <1>1, <2>1, <3>3, RotationStep
    <3> HIDE DEF rotated, ended, c, r
    <3>5. c \in 0..Bits32 /\ (c # 0 => c \in 1..Bits32 /\ c - 1 \in 0..Bits32)
      BY <3>2, <3>3
    <3>6. ended.eax = rotated[c]
      <4>1. CASE c = 0
        <5>1. ended.eax = Old.eax /\ rotated[0] = Old.eax
          BY <3>1, <3>2, <3>3, <3>4, <3>5, <4>1
        <5>2. QED
          BY <4>1, <5>1
      <4>2. CASE c # 0
        BY <3>1, <3>2, <3>5, <4>2 DEF r
      <4>3. QED
        BY <4>1, <4>2
    <3>7. ASSUME c # 0
          PROVE  ended.cf = IF op = "shl" THEN Top(rotated[c - 1]) ELSE rotated[c - 1] % 2 = 1
      <4> DEFINE p == rotated[c - 1]
                 low == Bit(r, 0) = 1
                 odd == p % 2 = 1
      <4>1. p = RotatedBy(c - 1)
        BY <3>1, <3>5, <3>7
      <4>2. /\ op = "shl" => (low <=> Top(p))
            /\ op = "shr" => (Top(r) <=> odd)
        BY <1>1, <2>1, <3>5, <3>7, <4>1, RotationStep DEF r
      <4>3. low \in BOOLEAN /\ odd \in BOOLEAN /\ Top(p) \in BOOLEAN /\ Top(r) \in BOOLEAN
        BY DEF Top
      <4>4. ended.cf = IF op = "shl" THEN low ELSE Top(r)
        BY <3>2, <3>7
      <4> HIDE DEF low, odd, p
      <4>5. op = "shl" => low = Top(p)
        BY <4>2, <4>3, BooleansEqual
      <4>6. op = "shr" => Top(r) = odd
        BY <4>2, <4>3, BooleansEqual
      <4>7. ended.cf = IF op = "shl" THEN Top(p) ELSE odd
        BY <2>1, <4>4, <4>5, <4>6
      <4>8. QED
        BY <4>7 DEF p, odd
    <3>8. ASSUME c = 1 PROVE ended.of = (Top(Old.eax) # Top(ended.eax))
      <4> DEFINE bit == IF op = "shl" THEN Bit(r, 0) = 1 ELSE Bit(r, Bits32 - 2) = 1
                 top == Top(r)
                 sign == Top(Old.eax)
      <4>1. ended.eax = r /\ ended.of = (top # bit)
        BY <2>1, <3>2, <3>8
      <4>2. bit <=> sign
        <5>1. CASE op = "shl"
          <6>1. Bit(RotatedBy(1), 0) = 1 <=> Top(RotatedBy(1 - 1))
            BY <1>1, <3>3, <5>1, RotationStep
          <6>2. RotatedBy(1 - 1) = Old.eax
            BY <3>4
          <6>3. QED
            BY <3>8, <5>1, <6>1, <6>2 DEF r
        <5>2. CASE op = "shr"
          BY <1>1, <3>8, <5>2, SecondBit DEF r
        <5>3. QED
          BY <2>1, <5>1, <5>2
      <4>3. bit \in BOOLEAN /\ sign \in BOOLEAN /\ top \in BOOLEAN
        BY DEF Top
      <4> HIDE DEF bit, sign, top
      <4>4. bit = sign
        BY <4>2, <4>3, BooleansEqual
      <4>5. ended.of = (sign # top)
        BY <4>1, <4>3, <4>4
      <4>6. QED
        BY <4>1, <4>5 DEF sign, top
    <3>9. c > 0 <=> c # 0
      BY <3>2, <3>3
    <3>10. QED
      BY <3>2, <3>6, <3>7, <3>8, <3>9 DEF c
  <2> HIDE DEF rotated, ended
  <2>2. op \in {"shl", "shr"} /\ bits = 32 =>
          /\ ended.eax = rotated[LegacyCount]
          /\ LegacyCount > 0 =>
               ended.cf = IF op = "shl" THEN Top(rotated[LegacyCount - 1])
                          ELSE rotated[LegacyCount - 1] % 2 = 1
          /\ LegacyCount = 1 => ended.of = (Top(Old.eax) # Top(ended.eax))
          /\ LegacyCount = 0 => ended = Old
    BY <2>1
  <2>3. QED
    BY <2>2 DEF RotatesRepeat, rotated, ended
<1>2. QED
  BY <1>1, InitStarts, CallStep, PTL DEF Spec

-----------------------------------------------------------------------------
(* Signed division.                                                        *)

\* A quotient and a remainder as C++ and the processor define them.
SignedParts(n, d, q, r) ==
  /\ q * d + r = n
  /\ Magnitude(r) < Magnitude(d)
  /\ r = 0 \/ (r < 0) = (n < 0)

LEMMA TruncatedDivides ==
  ASSUME NEW n \in Int, NEW d \in Int, d # 0
  PROVE  /\ Truncated(n, d) \in Int
         /\ SignedParts(n, d, Truncated(n, d), n - Truncated(n, d) * d)
<1> DEFINE a == Magnitude(n)
           b == Magnitude(d)
           u == a \div b
           v == a % b
           q == Truncated(n, d)
<1>1. a \in Nat /\ b \in Nat \ {0} /\ a \in Int
  BY DEF Magnitude
<1>2. a = IF n < 0 THEN -n ELSE n
  BY DEF Magnitude
<1>3. b = IF d < 0 THEN -d ELSE d
  BY DEF Magnitude
<1>4. q = IF (n < 0) = (d < 0) THEN u ELSE -u
  BY DEF Truncated
<1> HIDE DEF a, b
<1>5. u \in Int /\ v \in Int /\ 0 <= v /\ v < b /\ a = u * b + v
  BY <1>1, DivideType
<1> HIDE DEF u, v, q
<1>6. /\ n < 0 /\ d < 0 => q = u
      /\ ~ (n < 0) /\ ~ (d < 0) => q = u
      /\ n < 0 /\ ~ (d < 0) => q = -u
      /\ ~ (n < 0) /\ d < 0 => q = -u
  BY <1>4
<1>7. q \in Int
  BY <1>5, <1>6
<1>8. q * d \in Int /\ u * b \in Int
  BY <1>1, <1>5, <1>7
<1>9. q * d = IF n < 0 THEN -(u * b) ELSE u * b
  BY <1>1, <1>3, <1>5, <1>6
<1> DEFINE p == q * d
           r == n - p
<1>10. p \in Int /\ p = IF n < 0 THEN v - a ELSE a - v
  BY <1>1, <1>5, <1>8, <1>9
<1> HIDE DEF p
<1>11. r = IF n < 0 THEN -v ELSE v
  BY <1>2, <1>5, <1>10
<1>12. p + r = n
  BY <1>10
<1>13. Magnitude(r) < b
  BY <1>5, <1>11 DEF Magnitude
<1>14. r = 0 \/ (r < 0) = (n < 0)
  BY <1>5, <1>11
<1>15. SignedParts(n, d, q, r)
  BY <1>12, <1>13, <1>14 DEF SignedParts, p, b
<1>16. QED
  BY <1>7, <1>15 DEF p, q

\* There is only one.
LEMMA SignedPartsUnique ==
  ASSUME NEW n \in Int, NEW d \in Int, NEW q1 \in Int, NEW q2 \in Int,
         SignedParts(n, d, q1, n - q1 * d), SignedParts(n, d, q2, n - q2 * d)
  PROVE  q1 = q2
<1> DEFINE p1 == q1 * d
           p2 == q2 * d
           b  == Magnitude(d)
<1>1. p1 \in Int /\ p2 \in Int /\ p1 - p2 = (q1 - q2) * d
  OBVIOUS
<1>2. /\ Magnitude(n - p1) < b /\ (n - p1 = 0 \/ (n - p1 < 0) = (n < 0))
      /\ Magnitude(n - p2) < b /\ (n - p2 = 0 \/ (n - p2 < 0) = (n < 0))
  BY DEF SignedParts
<1>3. b \in Nat
  BY DEF Magnitude
<1> HIDE DEF p1, p2, b
<1>4. p1 - p2 < b /\ p2 - p1 < b
  BY <1>1, <1>2, <1>3 DEF Magnitude
<1>5. CASE q1 < q2
  <2>1. q2 - q1 \in Nat \ {0} /\ p2 - p1 = (q2 - q1) * d
    BY <1>1, <1>5
  <2>2. (q2 - q1) * d >= d \/ d < 0
    BY <2>1
  <2>3. (q2 - q1) * d <= d \/ d >= 0
    BY <2>1
  <2>4. QED
    BY <1>1, <1>4, <2>1, <2>2, <2>3 DEF b, Magnitude
<1>6. CASE q2 < q1
  <2>1. q1 - q2 \in Nat \ {0} /\ p1 - p2 = (q1 - q2) * d
    BY <1>1, <1>6
  <2>2. (q1 - q2) * d >= d \/ d < 0
    BY <2>1
  <2>3. (q1 - q2) * d <= d \/ d >= 0
    BY <2>1
  <2>4. QED
    BY <1>1, <1>4, <2>1, <2>2, <2>3 DEF b, Magnitude
<1>7. QED
  BY <1>5, <1>6

\* A number in range is what its remainder stands for as a signed one.
LEMMA SignedRemainder ==
  ASSUME NEW w \in Nat, w > 1, NEW x \in -TwoTo[w - 1]..(TwoTo[w - 1] - 1)
  PROVE  Signed(x % TwoTo[w], w) = x
<1> DEFINE h == TwoTo[w - 1]
           m == TwoTo[w]
           one == 1
<1>1. h \in Nat \ {0} /\ m \in Nat \ {0} /\ m = 2 * h
  BY TwoHalves
<1>2. x \in Int /\ one \in Int /\ x >= -h /\ x < h
  BY <1>1
<1>3. \A v : Signed(v, w) = IF v >= h THEN v - m ELSE v
  BY DEF Signed
<1>4. one * m = m
  BY <1>1
<1> HIDE DEF h, m, one
<1>5. CASE x >= 0
  <2>1. x \in Nat /\ x < m
    BY <1>1, <1>2, <1>5
  <2>2. x % m = x
    BY <1>1, <2>1, ModSmall
  <2>3. Signed(x % m, w) = x
    BY <1>1, <1>2, <1>3, <2>2
  <2>4. QED
    BY <2>3 DEF m
<1>6. CASE x < 0
  <2>1. x + m \in Nat /\ x + m < m /\ x + m >= h
    BY <1>1, <1>2, <1>6
  <2>2. (x + m) % m = x + m
    BY <1>1, <2>1, ModSmall
  <2>3. (x + one * m) % m = x % m
    BY <1>1, <1>2, DivideShifted
  <2>4. x % m = x + m
    BY <1>4, <2>2, <2>3
  <2>5. Signed(x % m, w) = x
    BY <1>1, <1>2, <1>3, <2>1, <2>4
  <2>6. QED
    BY <2>5 DEF m
<1>7. QED
  BY <1>2, <1>5, <1>6

LEMMA IdivOperands ==
  ASSUME CallInvariant
  PROVE  /\ SignedDividend \in Int /\ SignedDivisor \in Int
         /\ Magnitude(SignedDivisor) <= Two32 \div 2
         /\ Two32 \div 2 = TwoTo[Bits32 - 1]
<1> DEFINE h == TwoTo[Bits32 - 1]
           m == Two32
           d == SignedDivisor
           wide == Old.edx * Two32 + Old.eax
<1>1. /\ Operand \in 0..(m - 1) /\ m = 2 * h /\ h \in Nat \ {0} /\ m \in Nat \ {0}
      /\ Old.edx \in 0..(m - 1) /\ Old.eax \in 0..(m - 1)
      /\ Bits32 \in Nat /\ Bits32 > 1 /\ TwoTo[Bits32] = m
  BY Values32 DEF Two32
<1>2. d \in -h..(h - 1)
  BY <1>1, SignedRange DEF SignedDivisor
<1>3. wide \in Int /\ 2 * Bits32 \in Nat
  BY <1>1
<1>4. TwoTo[2 * Bits32] \in Int
  BY <1>3, PowerType
<1> HIDE DEF wide
<1>5. Signed(wide, 2 * Bits32) \in Int
  BY <1>3, <1>4 DEF Signed
<1>6. SignedDividend \in Int
  BY <1>5 DEF SignedDividend, wide
<1> HIDE DEF h, m, d
<1>7. m \div 2 = h
  BY <1>1
<1>8. d \in Int /\ Magnitude(d) <= h
  BY <1>1, <1>2 DEF Magnitude
<1>9. QED
  BY <1>6, <1>7, <1>8 DEF h, m, d

(* A signed division gives the quotient and the remainder, or changes      *)
(* nothing because there is no quotient that fits.                         *)
THEOREM SignedDivisionIsExact == Spec => []IdivExact
<1>1. ASSUME CallInvariant PROVE IdivExact
  <2> DEFINE n == SignedDividend
             d == SignedDivisor
             q == Truncated(n, d)
             r == n - q * d
             h == Two32 \div 2
             quotient  == Signed(LegacyIdiv.eax, Bits32)
             remainder == Signed(LegacyIdiv.edx, Bits32)
             fits == \E x \in -h..(h - 1) : SignedParts(n, d, x, n - x * d)
  <2>1. /\ n \in Int /\ d \in Int /\ Magnitude(d) <= h /\ h = TwoTo[Bits32 - 1]
    BY <1>1, IdivOperands
  <2>2. Bits32 \in Nat /\ Bits32 > 1 /\ Two32 = TwoTo[Bits32] /\ h \in Nat \ {0}
    BY <1>1, <2>1, Values32 DEF Two32
  <2>3. d = 0 => LegacyIdiv = Old
    BY DEF LegacyIdiv
  <2>4. d # 0 => LegacyIdiv = IF q \notin -h..(h - 1) THEN Old
                              ELSE [Old EXCEPT !.eax = q % Two32, !.edx = r % Two32]
    BY DEF LegacyIdiv
  <2>5. LegacyIdiv = [Old EXCEPT !.eax = q % Two32, !.edx = r % Two32] =>
          LegacyIdiv.eax = q % Two32 /\ LegacyIdiv.edx = r % Two32
    BY DEF Old
  <2>6. d # 0 => q \in Int /\ SignedParts(n, d, q, r)
    BY <2>1, TruncatedDivides
  <2> SUFFICES SignedParts(n, d, quotient, remainder) \/ (LegacyIdiv = Old /\ ~ fits)
    BY DEF IdivExact, SignedParts
  <2> HIDE DEF n, d, q, h
  <2>7. CASE d = 0
    <3>1. ASSUME NEW x \in -h..(h - 1), SignedParts(n, d, x, n - x * d) PROVE FALSE
      <4>1. x \in Int /\ x * d \in Int
        BY <2>1, <2>2
      <4>2. n - x * d \in Int
        BY <2>1, <4>1
      <4>3. Magnitude(n - x * d) < Magnitude(d)
        BY <3>1 DEF SignedParts
      <4> DEFINE y == n - x * d
      <4> HIDE DEF y
      <4>4. y \in Int /\ Magnitude(y) < Magnitude(d)
        BY <4>2, <4>3 DEF y
      <4>5. QED
        BY <2>7, <4>4 DEF Magnitude
    <3>2. QED
      BY <2>3, <2>7, <3>1
  <2>8. CASE d # 0 /\ q \notin -h..(h - 1)
    <3>1. ASSUME NEW x \in -h..(h - 1), SignedParts(n, d, x, n - x * d) PROVE FALSE
      <4>1. x \in Int
        BY <2>2
      <4>2. x = q
        BY <2>1, <2>6, <2>8, <3>1, <4>1, SignedPartsUnique
      <4>3. QED
        BY <2>8, <4>2
    <3>2. QED
      BY <2>4, <2>8, <3>1
  <2>9. CASE d # 0 /\ q \in -h..(h - 1)
    <3>1. LegacyIdiv.eax = q % Two32 /\ LegacyIdiv.edx = r % Two32
      BY <2>4, <2>5, <2>9
    <3>2. q * d \in Int
      BY <2>1, <2>6, <2>9
    <3> DEFINE p == r
    <3>3. p \in Int
      BY <2>1, <3>2
    <3>4. Magnitude(p) < Magnitude(d) /\ SignedParts(n, d, q, p)
      BY <2>6, <2>9 DEF SignedParts
    <3> HIDE DEF p
    <3>5. p \in -h..(h - 1)
      BY <2>1, <2>2, <3>3, <3>4 DEF Magnitude
    <3>6. quotient = q /\ remainder = p
      <4>1. Signed(q % TwoTo[Bits32], Bits32) = q
        BY <2>1, <2>2, <2>9, SignedRemainder
      <4>2. Signed(p % TwoTo[Bits32], Bits32) = p
        BY <2>1, <2>2, <3>5, SignedRemainder
      <4>3. QED
        BY <2>2, <3>1, <4>1, <4>2 DEF p
    <3> HIDE DEF quotient, remainder
    <3>7. SignedParts(n, d, quotient, remainder)
      BY <3>4, <3>6
    <3>8. QED
      BY <3>7
  <2>10. QED
    BY <2>7, <2>8, <2>9
<1>2. QED
  BY <1>1, InitStarts, CallStep, PTL DEF Spec

=============================================================================
