----------------------------- MODULE SourceProofs -----------------------------
(***************************************************************************)
(* For every source file, memory layout and word size: a run keeps the     *)
(* types of the processor's state, and a regular file runs as the machine  *)
(* that executes its lines, which knows no address: every call implements  *)
(* the step of one line or none.                                           *)
(***************************************************************************)
EXTENDS SimulatorProofs

-----------------------------------------------------------------------------
(* The types of the processor's state.                                     *)

\* Every instruction is that of a line of the file.
CodeOfLines ==
  \A i \in DOMAIN code :
    /\ code[i].line \in DOMAIN program
    /\ Generates(program[code[i].line])
    /\ code[i].form = program[code[i].line].what

\* Only the second pass changes the code.
LEMMA OtherStepCode ==
  ASSUME [Next]_vars, ~ GenerateLine
  PROVE  UNCHANGED <<program, code, size, genAddress>>
BY DEF Next, FirstPass, SkipOrLabel, SwitchSection, RejectSection, DefineData,
       DataOverflow, DefineOther, ReserveBss, ReserveThrows, ReserveQuad, Misplaced, SizeText,
       Reserve, EndFirst, SecondPass, TextOverflow, Install,
       Decoding, Sweep, SweepInside, EndSweep, Rest, vars, secondVars

\* What the second pass appends to the code for a line.
LEMMA GenerateLineCode ==
  ASSUME TypeOK, GenerateLine
  PROVE  /\ line \in DOMAIN program /\ line' = line + 1
         /\ UNCHANGED <<program, symbols, placed, firstOk, phase>>
         /\ \/ Emitted(Here, symbols) = 0 /\ code' = code
            \/ /\ Generates(Here) /\ Emitted(Here, symbols) # 0
               /\ Len(code) \in Nat /\ DOMAIN code' = 1..(Len(code) + 1)
               /\ \A j \in 1..Len(code) : code'[j] = code[j]
               /\ code'[Len(code) + 1].line = line
               /\ code'[Len(code) + 1].form = Here.what
               /\ code'[Len(code) + 1].dest =
                    Destination(Here, symbols, TextEnd, genAddress)
<1> DEFINE i == [line |-> line, form |-> Here.what, at |-> TextStart + size,
                 len |-> Emitted(Here, symbols),
                 dest |-> Destination(Here, symbols, TextStart + size, genAddress),
                 name |-> Here.name]
<1>1. /\ line \in DOMAIN program /\ line' = line + 1
      /\ UNCHANGED <<program, symbols, placed, firstOk, phase>>
  BY HereType DEF GenerateLine, firstVars, TypeOK
<1>2. /\ Emitted(Here, symbols) = 0 => code' = code
      /\ Emitted(Here, symbols) # 0 => code' = Append(code, i)
  BY DEF GenerateLine
<1>3. i.line = line /\ i.form = Here.what
      /\ i.dest = Destination(Here, symbols, TextEnd, genAddress)
  BY DEF TextEnd
<1>4. Emitted(Here, symbols) # 0 => Generates(Here)
  BY DEF Emitted
<1>5. code \in Seq(Instruction) /\ Len(code) \in Nat
  BY DEF TypeOK
<1> HIDE DEF i
<1>6. ASSUME Emitted(Here, symbols) # 0
      PROVE  /\ DOMAIN code' = 1..(Len(code) + 1)
             /\ \A j \in 1..Len(code) : code'[j] = code[j]
             /\ code'[Len(code) + 1] = i
  BY <1>2, <1>5, <1>6
<1>7. QED
  BY <1>1, <1>2, <1>3, <1>4, <1>5, <1>6

LEMMA CodeOfLinesStep ==
  ASSUME TypeOK, CodeOfLines, [Next]_vars PROVE CodeOfLines'
<1>1. CASE GenerateLine
  <2>1. program' = program /\ line \in DOMAIN program
    BY <1>1, GenerateLineCode
  <2>2. CASE code' = code
    BY <2>1, <2>2 DEF CodeOfLines
  <2>3. CASE code' # code
    <3>1. /\ Generates(Here) /\ Len(code) \in Nat
          /\ DOMAIN code' = 1..(Len(code) + 1)
          /\ \A j \in 1..Len(code) : code'[j] = code[j]
          /\ code'[Len(code) + 1].line = line
          /\ code'[Len(code) + 1].form = Here.what
      BY <1>1, <2>3, GenerateLineCode
    <3>2. ASSUME NEW i \in DOMAIN code'
          PROVE  /\ code'[i].line \in DOMAIN program
                 /\ Generates(program[code'[i].line])
                 /\ code'[i].form = program[code'[i].line].what
      <4>1. CASE i \in 1..Len(code)
        <5>1. i \in DOMAIN code
          BY <4>1 DEF TypeOK
        <5>2. QED
          BY <3>1, <4>1, <5>1 DEF CodeOfLines
      <4>2. CASE i = Len(code) + 1
        BY <2>1, <3>1, <4>2 DEF Here
      <4>3. QED
        BY <3>1, <4>1, <4>2
    <3>3. QED
      BY <2>1, <3>2 DEF CodeOfLines
  <2>4. QED
    BY <2>2, <2>3
<1>2. CASE ~ GenerateLine
  BY <1>2, OtherStepCode DEF CodeOfLines
<1>3. QED
  BY <1>1, <1>2

\* The words are the numbers of some width, and so is what xor makes of them.
LEMMA ExclusiveOrType == \A a, b \in Word : ExclusiveOr(a, b) \in Word
<1> SUFFICES ASSUME NEW a \in Word, NEW b \in Word PROVE ExclusiveOr(a, b) \in Word
  OBVIOUS
<1> DEFINE differ == [p \in 0..1 |-> [q \in 0..1 |-> IF p = q THEN 0 ELSE 1]]
           width  == CHOOSE w \in 0..WordSize : TwoTo[w] = WordSize
<1>1. WordSize \in Nat /\ \E w \in 0..WordSize : TwoTo[w] = WordSize
  BY SimulatorAssumption
<1>2. width \in Nat /\ TwoTo[width] = WordSize
  BY <1>1
<1>3. differ \in Tables
  BY DEF Tables
<1>4. a \in Int /\ b \in Int
  BY <1>1 DEF Word
<1>5. ExclusiveOr(a, b) = Combine(differ, a, b, width)
  BY DEF ExclusiveOr
<1> HIDE DEF differ, width
<1>6. Combine(differ, a, b, width) \in 0..(TwoTo[width] - 1)
  BY <1>2, <1>3, <1>4, CombineBits
<1>7. QED
  BY <1>2, <1>5, <1>6 DEF Word

LEMMA WordMod == \A n \in Int : n % WordSize \in Word
<1>1. WordSize \in Nat \ {0}
  BY SimulatorAssumption
<1>2. QED
  BY <1>1, DivideType DEF Word

LEMMA WordOrder ==
  ASSUME NEW a \in Int, NEW b \in Int PROVE (a < b) \in BOOLEAN /\ (a >= b) \in BOOLEAN
<1>1. CASE a < b
  BY <1>1
<1>2. CASE ~ (a < b)
  BY <1>2
<1>3. QED
  BY <1>1, <1>2

\* What the handlers read of the instruction at rip.
LEMMA OperandsType ==
  ASSUME TypeOK, CodeOfLines, RunTypeOK, Fetched # {}
  PROVE  /\ Args.dst \in Registers /\ Args.src \in Registers /\ Args.imm \in Nat
         /\ regs[Args.dst] \in Word /\ regs[Args.src] \in Word
         /\ Current.form \in Forms
<1>1. PICK i \in DOMAIN code : Current = code[i]
  BY CurrentType
<1>2. Current.line \in DOMAIN program
  BY <1>1 DEF CodeOfLines
<1>3. program[Current.line] \in SourceLine
  BY <1>2 DEF TypeOK
<1>4. Args \in Arguments
  BY <1>3 DEF SourceLine, Args
<1>5. Args \in [op : Ops, dst : Registers, src : Registers, imm : Nat]
  BY <1>4, SimulatorAssumption
<1>6. Args.dst \in Registers /\ Args.src \in Registers /\ Args.imm \in Nat
  BY <1>5
<1>7. Current.form \in Forms
  BY CurrentType DEF Instruction
<1>8. QED
  BY <1>6, <1>7 DEF RunTypeOK

LEMMA SecondOperandType ==
  ASSUME TypeOK, CodeOfLines, RunTypeOK, Fetched # {}, NEW b \in SecondOperands
  PROVE  b \in Word
<1>1. b \in 0..(ByteSize - 1) \/ b = regs[Args.src] \/ b = Args.imm % ByteSize
  BY DEF SecondOperands
<1>2. Args.imm \in Nat /\ regs[Args.src] \in Word
  BY OperandsType
<1>3. ByteSize \in Nat \ {0} /\ ByteSize <= WordSize /\ WordSize \in Nat
  BY SimulatorAssumption
<1> DEFINE imm == Args.imm
<1>4. imm \in Int
  BY <1>2
<1> HIDE DEF imm
<1>5. imm % ByteSize \in 0..(ByteSize - 1)
  BY <1>3, <1>4, DivideType
<1>6. Args.imm % ByteSize \in 0..(ByteSize - 1)
  BY <1>5 DEF imm
<1>7. QED
  BY <1>1, <1>2, <1>3, <1>6 DEF Word

LEMMA FlagsType ==
  ASSUME NEW result, NEW carry \in BOOLEAN, SetFlags(result, carry)
  PROVE  zf' \in BOOLEAN /\ sf' \in BOOLEAN /\ cf' \in BOOLEAN
BY DEF SetFlags, Negative

CpuTypes ==
  /\ regs' \in [Registers -> Word]
  /\ zf' \in BOOLEAN /\ sf' \in BOOLEAN /\ cf' \in BOOLEAN
  /\ headless' \in BOOLEAN /\ astray' \in BOOLEAN /\ run' \in RunPhases

\* What a step makes of the registers and the flags.
LEMMA CpuStep ==
  ASSUME TypeOK, CodeOfLines, RunTypeOK, RunProgram PROVE CpuTypes
<1> USE DEF mode
<1>1. /\ regs \in [Registers -> Word] /\ run \in RunPhases
      /\ headless \in BOOLEAN /\ astray \in BOOLEAN
      /\ zf \in BOOLEAN /\ sf \in BOOLEAN /\ cf \in BOOLEAN
  BY DEF RunTypeOK
<1>2. ASSUME NEW target, Finish(target) PROVE run' \in RunPhases
  BY <1>1, <1>2 DEF Finish, RunPhases
<1>3. CASE Start \/ HeadlessEnd \/ StepBeyondEnd \/ Quit \/ CutShort
  <2>1. /\ UNCHANGED <<mode, regs, flagVars>> /\ run' \in RunPhases
    BY <1>3 DEF Start, HeadlessEnd, StepBeyondEnd, Quit, CutShort, RunPhases
  <2>2. QED
    BY <1>1, <2>1 DEF CpuTypes, flagVars
<1>4. CASE Unsupported
  BY <1>1, <1>4 DEF Unsupported, cpuVars, flagVars, CpuTypes
<1>5. CASE Move
  <2>1. /\ UNCHANGED <<mode, flagVars>>
        /\ \/ run' = "faulted" /\ UNCHANGED regs
           \/ /\ \E v \in Word : regs' = [regs EXCEPT ![MoveTarget] = v]
              /\ Finish(rip)
    BY <1>5 DEF Move
  <2>2. regs' \in [Registers -> Word]
    BY <1>1, <2>1
  <2>3. run' \in RunPhases
    BY <1>2, <2>1 DEF RunPhases
  <2>4. QED
    BY <1>1, <2>1, <2>2, <2>3 DEF CpuTypes, flagVars
<1>6. CASE Add
  <2> DEFINE sum == regs[Args.dst] + regs[Args.src]
  <2>1. /\ Fetched # {} /\ Finish(rip) /\ UNCHANGED mode
        /\ regs' = [regs EXCEPT ![Args.dst] = sum % WordSize]
        /\ SetFlags(sum % WordSize, sum >= WordSize)
    BY <1>6 DEF Add, Fetches
  <2>2. sum \in Int
    BY <2>1, OperandsType, SimulatorAssumption DEF Word
  <2> HIDE DEF sum
  <2>3. regs' \in [Registers -> Word]
    BY <1>1, <2>1, <2>2, WordMod
  <2> DEFINE carry == sum >= WordSize
  <2>4. carry \in BOOLEAN
    BY <2>2, WordOrder, SimulatorAssumption
  <2>5. SetFlags(sum % WordSize, carry)
    BY <2>1
  <2> HIDE DEF carry
  <2>6. zf' \in BOOLEAN /\ sf' \in BOOLEAN /\ cf' \in BOOLEAN
    BY <2>4, <2>5, FlagsType
  <2>7. QED
    BY <1>1, <1>2, <2>1, <2>3, <2>6 DEF CpuTypes
<1>7. CASE Compare
  <2>1. PICK b \in SecondOperands :
          SetFlags((regs[Args.dst] - b) % WordSize, regs[Args.dst] < b)
    BY <1>7 DEF Compare
  <2>2. Finish(rip) /\ UNCHANGED <<mode, regs>>
    BY <1>7 DEF Compare
  <2> DEFINE first  == regs[Args.dst]
             result == (first - b) % WordSize
             carry  == first < b
  <2>3. first \in Int /\ b \in Int
    BY <1>7, OperandsType, SecondOperandType, SimulatorAssumption
       DEF Compare, Fetches, Word
  <2> HIDE DEF first
  <2>4. carry \in BOOLEAN
    BY <2>3, WordOrder
  <2>5. SetFlags(result, carry)
    BY <2>1 DEF first
  <2> HIDE DEF carry, result
  <2>6. zf' \in BOOLEAN /\ sf' \in BOOLEAN /\ cf' \in BOOLEAN
    BY <2>4, <2>5, FlagsType
  <2>7. QED
    BY <1>1, <1>2, <2>2, <2>6 DEF CpuTypes
<1>8. CASE Xor
  <2>1. Fetches({"group_reg", "xor_imm"}) /\ Finish(rip) /\ UNCHANGED mode
    BY <1>8 DEF Xor
  <2>2. PICK b \in SecondOperands :
          LET v == ExclusiveOr(regs[Args.dst], b) IN
          /\ regs' = [regs EXCEPT ![Args.dst] = v]
          /\ SetFlags(v, FALSE)
    BY <1>8 DEF Xor
  <2>3. b \in Word
    BY <2>1, <2>2, SecondOperandType DEF Fetches
  <2> DEFINE v == ExclusiveOr(regs[Args.dst], b)
  <2>4. v \in Word
    BY <2>1, <2>3, OperandsType, ExclusiveOrType DEF Fetches
  <2>5. regs' = [regs EXCEPT ![Args.dst] = v] /\ SetFlags(v, FALSE)
    BY <2>2
  <2> HIDE DEF v
  <2>6. zf' \in BOOLEAN /\ sf' \in BOOLEAN /\ cf' \in BOOLEAN
    BY <2>5, FlagsType
  <2>7. QED
    BY <1>1, <1>2, <2>1, <2>4, <2>5, <2>6 DEF CpuTypes
<1>9. CASE Jump \/ Branch \/ System
  <2>1. /\ UNCHANGED <<mode, regs, flagVars>>
        /\ \E target : Finish(target)
    BY <1>9 DEF Jump, Branch, System
  <2>2. QED
    BY <1>1, <1>2, <2>1 DEF CpuTypes, flagVars
<1>10. CASE Call
  <2>1. /\ UNCHANGED <<mode, regs, flagVars>>
        /\ Finish(Target) \/ run' \in {"faulted", "undefined"}
    BY <1>10 DEF Call
  <2>2. run' \in RunPhases
    BY <1>2, <2>1 DEF RunPhases
  <2>3. QED
    BY <1>1, <2>1, <2>2 DEF CpuTypes, flagVars
<1>11. CASE Stray
  BY <1>1, <1>11 DEF Stray, RunPhases, CpuTypes, flagVars
<1>12. QED
  BY <1>11, <1>3, <1>4, <1>5, <1>6, <1>7, <1>8, <1>9, <1>10 DEF RunProgram, Execute

\* What a step makes of the stack: the slots lie in the memory.
LEMMA StackType ==
  ASSUME RunInvariant, RunTypeOK, RunProgram
  PROVE  /\ DOMAIN stack' \subseteq 0..(StackBottom - 8)
         /\ \A a \in DOMAIN stack' : stack'[a] \in Nat
<1>1. /\ DOMAIN stack \subseteq 0..(StackBottom - 8)
      /\ \A a \in DOMAIN stack : stack[a] \in Nat
  BY DEF RunTypeOK
<1>2. CASE Call
  <2>1. run = "running" /\ Fetched # {} /\ ~ astray /\ TypeOK
    BY <1>2 DEF Call, Fetches, RunInvariant
  <2>2. 8 <= rsp /\ rsp \in Nat /\ rsp <= StackBottom /\ StackBottom \in Nat
    BY <2>1, CallFindsRoom, SimulatorAssumption, AssemblerAssumption
    DEF RunInvariant, WrapInvariant, StackFilled
  <2>3. rsp' = rsp - 8
    <3>1. rsp - 8 \in Nat /\ rsp - 8 < AddressSize /\ AddressSize \in Nat
      BY <2>2, SimulatorAssumption
    <3>2. QED
      BY <1>2, <3>1, ModSmall DEF Call
  <2>4. stack' = [a \in DOMAIN stack \cup {rsp'} |->
                    IF a = rsp' THEN NextRip ELSE stack[a]]
    BY <1>2, <2>2, <2>3 DEF Call
  <2>5. NextRip \in Nat
    BY <2>1, NextType
  <2>6. QED
    BY <1>1, <2>2, <2>3, <2>4, <2>5
<1>3. CASE ~ Call
  BY <1>1, <1>3, OtherRunStep DEF stackVars
<1>4. QED
  BY <1>2, <1>3

TypeInvariant == RunInvariant /\ CodeOfLines /\ RunTypeOK

LEMMA TypeInvariantStep ==
  ASSUME TypeInvariant, [RunNext]_allVars PROVE TypeInvariant'
<1>1. RunInvariant' /\ TypeOK /\ CodeOfLines /\ RunTypeOK
  BY RunStep DEF TypeInvariant, RunInvariant
<1>2. rsp' \in 0..(AddressSize - 1)
  <2>1. rsp \in 0..(AddressSize - 1) /\ AddressSize \in Nat \ {0}
    BY <1>1, SimulatorAssumption, AssemblerAssumption DEF RunTypeOK
  <2>2. \A a \in Int, m \in Nat \ {0} : a % m \in 0..(m - 1)
    OBVIOUS
  <2>3. rsp' = rsp \/ rsp' = (rsp - 8) % AddressSize
    <3>1. CASE RunProgram /\ ~ Call
      BY <3>1, OtherRunStep DEF TypeInvariant, stackVars
    <3>2. CASE Call
      BY <3>2 DEF Call
    <3>3. CASE Load \/ UNCHANGED allVars
      BY <3>3, LoadStep DEF allVars, cpuVars, stackVars
    <3>4. QED
      BY <3>1, <3>2, <3>3 DEF RunNext, Halted
  <2>4. QED
    BY <2>1, <2>2, <2>3
<1>3. CASE RunProgram
  <2>1. CodeOfLines'
    <3>1. UNCHANGED <<program, code>>
      BY <1>3 DEF RunProgram, Execute, Start, HeadlessEnd, StepBeyondEnd, Quit, Move,
                  Add, Compare, Xor, Jump, Branch, Call, System, Unsupported,
                  CutShort, Stray, loaded, secondVars
    <3>2. QED
      BY <1>1, <3>1 DEF CodeOfLines
  <2>2. CpuTypes
    BY <1>1, <1>3, CpuStep
  <2>3. /\ DOMAIN stack' \subseteq 0..(StackBottom - 8)
        /\ \A a \in DOMAIN stack' : stack'[a] \in Nat
    BY <1>3, StackType DEF TypeInvariant
  <2>4. RunTypeOK'
    BY <1>2, <2>2, <2>3 DEF RunTypeOK, CpuTypes
  <2>5. QED
    BY <1>1, <2>1, <2>4 DEF TypeInvariant
<1>4. CASE Load \/ UNCHANGED allVars
  <2>1. [Next]_vars /\ UNCHANGED cpuVars
    BY <1>4, LoadStep DEF allVars
  <2>2. CodeOfLines'
    BY <1>1, <2>1, CodeOfLinesStep
  <2>3. RunTypeOK'
    BY <1>1, <2>1 DEF RunTypeOK, cpuVars, mode, flagVars, stackVars
  <2>4. QED
    BY <1>1, <2>2, <2>3 DEF TypeInvariant
<1>5. QED
  BY <1>3, <1>4 DEF RunNext, Halted

LEMMA PowerOnTypes == ASSUME PowerOn PROVE TypeInvariant
<1>1. RunInvariant /\ CodeOfLines
  <2>1. code = <<>>
    BY DEF PowerOn, Init
  <2>2. DOMAIN code = {}
    BY <2>1
  <2>3. QED
    BY <2>2, PowerOnInvariant DEF CodeOfLines
<1>2. StackBottom \in 0..(AddressSize - 1) /\ 0 \in Word
  BY SimulatorAssumption, AssemblerAssumption DEF Word
<1>3. RunTypeOK
  BY <1>2 DEF PowerOn, RunTypeOK, RunPhases
<1>4. QED
  BY <1>1, <1>3 DEF TypeInvariant

\* Registers hold words, rsp an address and the stack addresses of the text or
\* of what follows it, whatever the file does: the handlers' arithmetic
\* (ir_executor_helpers.cpp) never leaves the widths the hardware has.
THEOREM RunTypeCorrect == RunSpec => []RunTypeOK
<1>1. PowerOn => TypeInvariant
  BY PowerOnTypes
<1>2. TypeInvariant /\ [RunNext]_allVars => TypeInvariant'
  BY TypeInvariantStep
<1>3. TypeInvariant => RunTypeOK
  BY DEF TypeInvariant
<1>4. QED
  BY <1>1, <1>2, <1>3, PTL DEF RunSpec

-----------------------------------------------------------------------------
(* The load of a regular file.                                             *)

\* Every instruction the second pass has left behind was emitted.
Listed ==
  phase # "first" =>
    \A k \in DOMAIN program :
      k < line /\ Generates(program[k]) => \E i \in DOMAIN code : code[i].line = k

\* The table holds what the lines so far define, and nothing else.
Bound ==
  \A s \in Names :
    symbols[s] # Unbound => \E j \in 1..(Len(placed) - 1) : Defines(program, j, s)

\* A branch leads to its symbol.
BranchesLead ==
  \A i \in DOMAIN code :
    code[i].form \in BranchForms =>
      code[i].dest = symbols[Lower[program[code[i].line].name]]

Assembled ==
  /\ Regular(program) /\ firstOk
  /\ phase # "threw" => Listed /\ Bound /\ BranchesLead

EntryKept ==
  Generated =>
    rip = IF symbols[EntryPoint] = Unbound THEN TextStart ELSE symbols[EntryPoint]

LEMMA ExecutedBytes ==
  ASSUME NEW ln, Executed(ln)
  PROVE  /\ Bytes(ln.what, TRUE) # 0
         /\ ln.what \notin TruncatedForms /\ ln.what # "jge"
<1>1. ln.what \in {"mov_imm", "mov_reg", "mov_abs", "jmp", "jne", "call", "int",
                   "alu_reg", "cmp_imm", "xor_imm", "group_reg"}
  BY DEF Executed
<1>2. QED
  BY <1>1 DEF Bytes, TruncatedForms, SizeIn, MoveBytes, AluBytes, JccBytes, JumpBytes,
              GroupBytes, ShiftBytes, ExtendBytes, StringBytes, VectorBytes, NoBytes

\* What a regular file says of one of its lines.
LEMMA RegularLine ==
  ASSUME program \in Seq(SourceLine), Regular(program), NEW k \in DOMAIN program
  PROVE  /\ program[k].kind = "section" => program[k].what \in Sections
         /\ program[k].kind = "instr" <=> Generates(program[k])
         /\ program[k].kind = "instr" => Executed(program[k])
         /\ program[k].what \in BranchForms =>
              \E j \in DOMAIN program : TextLabel(program, j, Lower[program[k].name])
         /\ WellOrdered(program)
BY DEF Regular, Written, Generates

LEMMA RegularWhole ==
  ASSUME program \in Seq(SourceLine), Regular(program)
  PROVE  Whole /\ ~ Uses(program, {"vector_truncated"}) /\ WellOrdered(program)
<1>1. \A k \in DOMAIN program : Generates(program[k]) => program[k].what \notin TruncatedForms
  BY RegularLine, ExecutedBytes DEF Generates
<1>2. WellOrdered(program)
  BY DEF Regular, Written
<1>3. QED
  BY <1>1, <1>2 DEF Whole, Uses, TruncatedForms

\* In a regular file every instruction comes out.
LEMMA GenerateEmits ==
  ASSUME TypeOK, LabelInvariant, LabelInvariant', Regular(program), firstOk,
         GenerateLine, Generates(Here)
  PROVE  Emitted(Here, symbols) # 0
<1> DEFINE n == Emitted(Here, symbols)
<1>1. /\ phase = "second" /\ phase' = "second" /\ line <= Len(program)
      /\ line' = line + 1 /\ size' = size + n
      /\ UNCHANGED <<program, firstOk, placed>>
  BY DEF GenerateLine, firstVars
<1>2. /\ line \in 1..Len(program) /\ n \in Nat /\ size \in Nat /\ TextStart \in Nat
      /\ program \in Seq(SourceLine) /\ placed \in Seq(Nat) /\ line \in DOMAIN program
  BY <1>1, BytesType, AssemblerAssumption DEF Emitted, TypeOK
<1>3. Unfailed /\ Unfailed' /\ WellOrdered(program)
  BY <1>1, <1>2, RegularWhole DEF Unfailed
<1> HIDE DEF n
<1>4. Len(placed) = Len(program) + 1
  BY <1>1, <1>3 DEF LabelInvariant, PassProgress
<1>5. TextStart + size = placed[line] /\ TextStart + size' = placed[line + 1]
  BY <1>1, <1>3 DEF LabelInvariant, CodeAtPlaces
<1>6. line \in 1..(Len(placed) - 1)
  BY <1>2, <1>4
<1>7. placed[line + 1] = placed[line] + Linked(program, line)
  BY <1>3, <1>6 DEF LabelInvariant, PlacedBySize
<1>8. Linked(program, line) = Bytes(program[line].what, TRUE)
  BY DEF Linked, Here
<1>9. Executed(program[line])
  BY <1>2, RegularLine DEF Generates, Here
<1>10. Bytes(program[line].what, TRUE) \in Nat \ {0}
  BY <1>9, ExecutedBytes, BytesType
<1>11. n = Linked(program, line)
  BY <1>1, <1>2, <1>5, <1>7, LinkedType
<1>12. QED
  BY <1>8, <1>10, <1>11 DEF n

\* In a regular file a branch is given the address of its symbol.
LEMMA GenerateLeads ==
  ASSUME TypeOK, LabelInvariant, ControlInvariant, Regular(program), firstOk,
         GenerateLine, Generates(Here), Here.what \in BranchForms
  PROVE  Destination(Here, symbols, TextEnd, genAddress) = symbols[Lower[Here.name]]
<1>1. /\ phase = "second" /\ line <= Len(program) /\ line \in DOMAIN program
      /\ program \in Seq(SourceLine)
  BY HereType DEF GenerateLine, TypeOK
<1>2. InStep /\ Unfailed
  BY <1>1, RegularWhole DEF InStep, Ordered, Unfailed
<1>3. genAddress = TextEnd /\ TextEnd \in Nat
  BY <1>2, CodeType DEF ControlInvariant, BranchesPlaced
<1>4. Here.what \in SymbolicForms /\ Here.what # "mov_abs"
  BY DEF SymbolicForms, BranchForms, JccForms, JccBytes, JumpBytes
<1>5. Lower[Here.name] \in Names
  <2>1. Here \in SourceLine
    BY <1>1 DEF Here
  <2>2. Here.name \in Names
    BY <1>4, <2>1 DEF SourceLine, Generates
  <2>3. QED
    BY <2>2, AssemblerAssumption
<1>6. symbols[Lower[Here.name]] # Unbound
  <2>1. PICK j \in DOMAIN program : TextLabel(program, j, Lower[Here.name])
    BY <1>1, RegularLine DEF Here
  <2>2. Len(placed) = Len(program) + 1 /\ Len(program) \in Nat
    BY <1>1, <1>2 DEF LabelInvariant, PassProgress
  <2>3. j \in 1..(Len(placed) - 1)
    BY <1>1, <2>2
  <2>4. Defines(program, j, Lower[Here.name])
    BY <2>1 DEF TextLabel, OnlyDefinition
  <2>5. QED
    BY <1>2, <1>5, <2>3, <2>4 DEF LabelInvariant, SymbolsRecorded
<1>7. Known(Here, symbols)
  BY <1>4, <1>6 DEF Known
<1>8. Destination(Here, symbols, TextEnd, genAddress)
        = symbols[Lower[Here.name]] + (TextEnd - genAddress)
  BY <1>4, <1>7 DEF Destination
<1>9. symbols[Lower[Here.name]] \in Int
  BY <1>5 DEF TypeOK, Unbound
<1>10. QED
  BY <1>3, <1>8, <1>9

\* One line of the first pass.
LEMMA AssembledWalk ==
  ASSUME TypeOK, TypeOK', LabelInvariant, Assembled, WalkLine
  PROVE  Assembled'
<1>1. section = SectionOf(program, line)
  BY DEF LabelInvariant, PassProgress, WalkLine, SkipOrLabel, SwitchSection,
         DefineData, DefineOther, ReserveBss, ReserveQuad, Misplaced,
         SizeText, InFirst
<1>2. TableStep /\ LineStep
  BY <1>1, WalkLineStep
<1>3. /\ phase = "first" /\ phase' = "first" /\ line \in 1..Len(program)
      /\ UNCHANGED <<program, firstOk, code>> /\ code = <<>>
      /\ Len(placed) = line /\ Len(placed') = line + 1
  BY <1>2, WalkPlaces DEF LineStep, LabelInvariant, PassProgress
<1>4. Listed'
  BY <1>3 DEF Listed
<1>5. Bound'
  <2>1. SUFFICES ASSUME NEW s \in Names, symbols'[s] # Unbound
                 PROVE  \E j \in 1..line : Defines(program, j, s)
    <3>1. Len(placed') - 1 = line
      BY <1>3
    <3>2. QED
      BY <1>3, <2>1, <3>1 DEF Bound
  <2>2. CASE Defines(program, line, s)
    BY <1>3, <2>2
  <2>3. CASE ~ Defines(program, line, s)
    <3>1. symbols[s] # Unbound
      BY <1>2, <2>1, <2>3 DEF TableStep
    <3>2. PICK j \in 1..(line - 1) : Defines(program, j, s)
      BY <1>3, <2>1, <3>1 DEF Assembled, Bound
    <3>3. QED
      BY <1>3, <3>2
  <2>4. QED
    BY <2>2, <2>3
<1>6. BranchesLead'
  <2>1. DOMAIN code' = {}
    BY <1>3
  <2>2. QED
    BY <2>1 DEF BranchesLead
<1>7. QED
  BY <1>3, <1>4, <1>5, <1>6 DEF Assembled

\* One line of the second pass.
LEMMA AssembledGenerate ==
  ASSUME TypeOK, LabelInvariant, LabelInvariant', ControlInvariant, Assembled,
         CodeOfLines, GenerateLine
  PROVE  Assembled'
<1>1. /\ phase = "second" /\ phase' = "second"
      /\ line \in DOMAIN program /\ line' = line + 1
      /\ UNCHANGED <<program, symbols, placed, firstOk>>
  BY GenerateLineCode DEF GenerateLine
<1>2. /\ \/ Emitted(Here, symbols) = 0 /\ code' = code
         \/ /\ Generates(Here) /\ Emitted(Here, symbols) # 0
            /\ Len(code) \in Nat /\ DOMAIN code' = 1..(Len(code) + 1)
            /\ \A j \in 1..Len(code) : code'[j] = code[j]
            /\ code'[Len(code) + 1].line = line
            /\ code'[Len(code) + 1].form = Here.what
            /\ code'[Len(code) + 1].dest =
                 Destination(Here, symbols, TextEnd, genAddress)
      /\ DOMAIN code = 1..Len(code)
  BY GenerateLineCode DEF TypeOK
<1>3. Regular(program) /\ firstOk /\ Listed /\ Bound /\ BranchesLead
  BY <1>1 DEF Assembled
<1>4. Listed'
  <2>1. SUFFICES ASSUME NEW k \in DOMAIN program, k < line + 1, Generates(program[k])
                 PROVE  \E i \in DOMAIN code' : code'[i].line = k
    BY <1>1 DEF Listed, Generates
  <2>2. k = line \/ k < line
    BY <1>1, <2>1 DEF TypeOK
  <2>3. CASE k < line
    <3>1. PICK i \in DOMAIN code : code[i].line = k
      BY <1>1, <1>3, <2>1, <2>3 DEF Listed
    <3>2. i \in DOMAIN code' /\ code'[i] = code[i]
      BY <1>2
    <3>3. QED
      BY <3>1, <3>2
  <2>4. CASE k = line
    <3>1. Emitted(Here, symbols) # 0
      BY <1>3, <2>1, <2>4, GenerateEmits DEF Here
    <3>2. Len(code) + 1 \in DOMAIN code' /\ code'[Len(code) + 1].line = line
      BY <1>2, <3>1
    <3>3. QED
      BY <2>4, <3>2
  <2>5. QED
    BY <2>2, <2>3, <2>4
<1>5. Bound'
  BY <1>1, <1>3 DEF Bound, Defines, SectionOf, Sectioning
<1>6. BranchesLead'
  <2>1. SUFFICES ASSUME NEW i \in DOMAIN code', code'[i].form \in BranchForms
                 PROVE  code'[i].dest = symbols[Lower[program[code'[i].line].name]]
    BY <1>1 DEF BranchesLead
  <2>2. CASE i \in DOMAIN code /\ code'[i] = code[i]
    BY <1>3, <2>1, <2>2 DEF BranchesLead
  <2>3. CASE ~ (i \in DOMAIN code /\ code'[i] = code[i])
    <3>1. /\ i = Len(code) + 1 /\ Generates(Here) /\ code'[i].form = Here.what
          /\ code'[i].line = line
          /\ code'[i].dest = Destination(Here, symbols, TextEnd, genAddress)
      BY <1>2, <2>1, <2>3
    <3>2. Destination(Here, symbols, TextEnd, genAddress) = symbols[Lower[Here.name]]
      BY <1>3, <2>1, <3>1, GenerateLeads
    <3>3. QED
      BY <3>1, <3>2 DEF Here
  <2>4. QED
    BY <2>2, <2>3
<1>7. QED
  BY <1>1, <1>3, <1>4, <1>5, <1>6 DEF Assembled

\* What leaves the tables and the code alone.
LEMMA AssembledKept ==
  ASSUME Assembled, UNCHANGED <<program, firstOk>>,
         \/ phase' = "threw"
         \/ /\ UNCHANGED <<symbols, placed, code>> /\ phase # "threw"
            /\ line' = 1 \/ (line' = line /\ phase # "first"),
         program \in Seq(SourceLine)
  PROVE  Assembled'
<1>1. CASE phase' = "threw"
  BY <1>1 DEF Assembled
<1>2. CASE phase' # "threw"
  <2>1. Listed /\ Bound /\ BranchesLead
    BY <1>2 DEF Assembled
  <2>2. Bound' /\ BranchesLead'
    BY <1>2, <2>1 DEF Bound, BranchesLead, Defines, SectionOf, Sectioning
  <2>3. Listed'
    <3>1. CASE line' = 1
      <4>1. \A k \in DOMAIN program : ~ (k < 1)
        OBVIOUS
      <4>2. QED
        BY <3>1, <4>1 DEF Listed
    <3>2. CASE line' = line /\ phase # "first"
      BY <1>2, <2>1, <3>2 DEF Listed
    <3>3. QED
      BY <1>2, <3>1, <3>2
  <2>4. QED
    BY <2>2, <2>3 DEF Assembled
<1>3. QED
  BY <1>1, <1>2

LEMMA AssembledStep ==
  ASSUME TypeOK, TypeOK', LabelInvariant, LabelInvariant', ControlInvariant,
         CodeOfLines, Assembled, [Next]_vars
  PROVE  Assembled'
<1>1. program \in Seq(SourceLine) /\ Regular(program)
  BY DEF TypeOK, Assembled
<1>2. CASE WalkLine
  BY <1>2, AssembledWalk
<1>3. CASE RejectSection
  <2>1. /\ line \in DOMAIN program /\ program[line].kind = "section"
        /\ program[line].what \notin Sections
    BY <1>1, <1>3, HereType DEF RejectSection, TypeOK, Here
  <2>2. QED
    BY <1>1, <2>1, RegularLine
<1>4. CASE DataOverflow \/ ReserveThrows \/ TextOverflow
  BY <1>1, <1>4, AssembledKept DEF DataOverflow, ReserveThrows, TextOverflow, firstVars
<1>5. CASE EndFirst
  <2>1. /\ phase = "first" /\ phase' = "second" /\ line' = 1
        /\ UNCHANGED <<program, firstOk, symbols, placed, code>>
    BY <1>5 DEF EndFirst, firstVars, secondVars
  <2>2. QED
    BY <1>1, <2>1, AssembledKept
<1>6. CASE GenerateLine
  BY <1>6, AssembledGenerate
<1>7. CASE Install \/ Decoding
  <2>1. /\ phase \in {"second", "sweep"} /\ line' = line
        /\ UNCHANGED <<program, firstOk, symbols, placed, code>>
    BY <1>7 DEF Install, Decoding, Sweep, SweepInside, EndSweep, firstVars, secondVars
  <2>2. QED
    BY <1>1, <2>1, AssembledKept
<1>8. CASE Rest \/ UNCHANGED vars
  <2>1. UNCHANGED <<program, firstOk, phase, line, symbols, placed, code>>
    BY <1>8 DEF Rest, vars, firstVars, secondVars
  <2>2. Listed' = Listed /\ BranchesLead' = BranchesLead
    BY <2>1 DEF Listed, BranchesLead
  <2>3. Bound' = Bound
    BY <2>1 DEF Bound
  <2>4. QED
    BY <2>1, <2>2, <2>3 DEF Assembled
<1>9. QED
  BY <1>2, <1>3, <1>4, <1>5, <1>6, <1>7, <1>8
  DEF Next, FirstPass, SecondPass, WalkLine

LEMMA EntryStep ==
  ASSUME EntryKept, [Next]_vars PROVE EntryKept'
<1>1. CASE Install
  BY <1>1 DEF Install, EntryKept, firstVars
<1>2. CASE Decoding
  <2>1. phase = "sweep" /\ UNCHANGED <<rip, symbols>>
    BY <1>2 DEF Decoding, Sweep, SweepInside, EndSweep, firstVars, sweepVars
  <2>2. QED
    BY <2>1 DEF EntryKept, Generated
<1>3. CASE Rest \/ UNCHANGED vars
  BY <1>3 DEF Rest, vars, firstVars, sweepVars, EntryKept, Generated
<1>4. CASE FirstPass \/ GenerateLine \/ TextOverflow
  <2>1. phase' \in {"first", "second", "threw"}
    BY <1>4 DEF FirstPass, SkipOrLabel, SwitchSection, RejectSection, DefineData,
        DataOverflow, DefineOther, ReserveBss, ReserveThrows, ReserveQuad, Misplaced, SizeText,
        EndFirst, Reserve, InFirst, GenerateLine, TextOverflow
  <2>2. QED
    BY <2>1 DEF EntryKept, Generated
<1>5. QED
  BY <1>1, <1>2, <1>3, <1>4 DEF Next, SecondPass

-----------------------------------------------------------------------------
(* Addresses and lines of a loaded regular file.                           *)

Ready ==
  /\ TypeOK /\ LabelInvariant /\ SweepInvariant /\ CodeInText
  /\ CodeOfLines /\ Assembled
  /\ phase = "ready" /\ line > Len(program)

LEMMA ReadyProgram ==
  ASSUME Ready
  PROVE  /\ program \in Seq(SourceLine) /\ Regular(program) /\ Unfailed /\ Whole
         /\ WellOrdered(program)
         /\ Len(program) \in Nat /\ DOMAIN program = 1..Len(program)
         /\ placed \in Seq(Nat) /\ Len(placed) = Len(program) + 1
         /\ DOMAIN placed = 1..(Len(program) + 1)
         /\ line = Len(program) + 1
         /\ TextEnd \in Nat /\ TextEnd = placed[Len(program) + 1]
         /\ TextEnd <= DataStart /\ DataStart \in Nat
<1>1. program \in Seq(SourceLine) /\ Regular(program) /\ firstOk
  BY DEF Ready, TypeOK, Assembled
<1>2. Unfailed /\ Whole /\ WellOrdered(program)
  BY <1>1, RegularWhole DEF Ready, Unfailed
<1>3. /\ placed \in Seq(Nat) /\ Len(placed) = Len(program) + 1
      /\ line <= Len(program) + 1 /\ line \in Nat /\ Len(program) \in Nat
  BY <1>1, <1>2 DEF Ready, LabelInvariant, PassProgress, TypeOK
<1>4. line = Len(program) + 1
  BY <1>3 DEF Ready
<1>5. TextEnd = placed[line]
  BY <1>2 DEF Ready, LabelInvariant, CodeAtPlaces, TextEnd
<1>6. TextEnd <= DataStart
  BY DEF Ready, CodeInText
<1>7. TextEnd \in Nat /\ DataStart \in Nat
  BY CodeType, AssemblerAssumption DEF Ready
<1>8. QED
  BY <1>1, <1>2, <1>3, <1>4, <1>5, <1>6, <1>7

LEMMA ReadyCode ==
  ASSUME Ready, NEW i \in DOMAIN code
  PROVE  /\ code[i].line \in DOMAIN program
         /\ program[code[i].line].kind = "instr"
         /\ Executed(program[code[i].line])
         /\ code[i].form = program[code[i].line].what
         /\ code[i].at = placed[code[i].line] /\ code[i].at \in Nat
         /\ code[i].at < TextEnd
         /\ code[i].at + DecodedLength(code[i].form) = placed[code[i].line + 1]
         /\ \A j \in DOMAIN code : code[j].at = code[i].at => j = i
<1>1. Unfailed /\ WellOrdered(program) /\ Whole /\ Regular(program)
      /\ program \in Seq(SourceLine) /\ TextEnd \in Nat
  BY ReadyProgram
<1>2. /\ code[i].line \in DOMAIN program
      /\ Generates(program[code[i].line]) /\ code[i].form = program[code[i].line].what
  BY DEF Ready, CodeOfLines
<1>3. program[code[i].line].kind = "instr" /\ Executed(program[code[i].line])
  BY <1>1, <1>2, RegularLine
<1>4. /\ code[i].at = placed[code[i].line]
      /\ code[i].at + code[i].len = placed[code[i].line + 1]
  BY <1>1 DEF Ready, LabelInvariant, CodeAtPlaces
<1>5. Tiled
  BY <1>1 DEF Ready, SweepInvariant
<1>6. code[i].len = DecodedLength(code[i].form)
  BY <1>5 DEF Tiled
<1>7. /\ \A j \in DOMAIN code : code[j].at \in Int /\ code[j].len \in Nat /\ code[j].len # 0
      /\ TextStart <= code[i].at /\ code[i].at + code[i].len <= TextEnd
      /\ TextStart \in Nat /\ DOMAIN code \subseteq Nat
  BY <1>5, CodeType DEF Ready, Tiled, TypeOK
<1>8. code[i].at \in Nat /\ code[i].at < TextEnd
  BY <1>1, <1>7
<1>9. ASSUME NEW j \in DOMAIN code, code[j].at = code[i].at PROVE j = i
  <2>1. CASE i < j
    <3>1. code[i].at + code[i].len <= code[j].at
      BY <1>5, <2>1 DEF Tiled
    <3>2. QED
      BY <1>7, <1>9, <3>1
  <2>2. CASE j < i
    <3>1. code[j].at + code[j].len <= code[i].at
      BY <1>5, <2>2 DEF Tiled
    <3>2. QED
      BY <1>7, <1>9, <3>1
  <2>3. QED
    BY <1>7, <2>1, <2>2
<1>10. QED
  BY <1>2, <1>3, <1>4, <1>6, <1>8, <1>9

\* The line of an instruction, and of what lies behind the text.
LEMMA LineOf ==
  ASSUME Ready, NEW i \in DOMAIN code PROVE LineAt(code[i].at) = code[i].line
<1> DEFINE here == {j \in DOMAIN code : code[j].at = code[i].at}
<1>1. here = {i}
  BY ReadyCode
<1>2. (CHOOSE j \in here : TRUE) = i
  BY <1>1
<1>3. QED
  BY <1>1, <1>2 DEF LineAt

LEMMA LineBeyond ==
  ASSUME Ready, NEW a \in Nat, a >= TextEnd PROVE LineAt(a) = Len(program) + 1
<1>1. TextEnd \in Nat
  BY ReadyProgram
<1>2. \A i \in DOMAIN code : code[i].at # a
  BY <1>1, ReadyCode
<1>3. {i \in DOMAIN code : code[i].at = a} = {}
  BY <1>2
<1>4. QED
  BY <1>3 DEF LineAt

\* Lines that are no instructions take no room.
LEMMA PlacesFlat ==
  ASSUME Ready, NEW k \in 1..(Len(program) + 1), NEW m \in k..(Len(program) + 1),
         \A j \in k..(m - 1) : program[j].kind # "instr"
  PROVE  placed[m] = placed[k]
<1> DEFINE n == m - k
           S == {d \in Nat : d <= n => placed[k + d] = placed[k]}
<1>1. /\ Len(program) \in Nat /\ DOMAIN program = 1..Len(program)
      /\ Unfailed /\ WellOrdered(program) /\ placed \in Seq(Nat)
      /\ DOMAIN placed = 1..(Len(program) + 1) /\ Len(placed) = Len(program) + 1
  BY ReadyProgram
<1>2. k \in Nat /\ n \in Nat /\ k + 0 = k
  BY <1>1
<1>3. 0 \in S
  BY <1>2
<1>4. ASSUME NEW d \in Nat, d \in S PROVE d + 1 \in S
  <2>1. SUFFICES ASSUME d + 1 <= n PROVE placed[k + (d + 1)] = placed[k]
    OBVIOUS
  <2>2. /\ k + d \in k..(m - 1) /\ k + d \in DOMAIN program
        /\ k + d \in 1..(Len(placed) - 1) /\ (k + d) + 1 = k + (d + 1)
    BY <1>1, <1>2, <2>1
  <2>3. Linked(program, k + d) = 0
    BY <2>2 DEF Linked, Generates
  <2>4. placed[(k + d) + 1] = placed[k + d] + Linked(program, k + d)
    BY <1>1, <2>2 DEF Ready, LabelInvariant, PlacedBySize
  <2>5. placed[k + d] = placed[k]
    BY <1>2, <1>4, <2>1
  <2>6. k + d \in DOMAIN placed
    BY <1>1, <1>2, <2>2
  <2>7. placed[k + d] \in Nat
    BY <1>1, <2>6
  <2>8. QED
    BY <2>2, <2>3, <2>4, <2>5, <2>7
<1> HIDE DEF S
<1>5. Nat \subseteq S
  BY <1>3, <1>4, SetInduction
<1>6. n \in S /\ k + n = m /\ n <= n
  BY <1>1, <1>2, <1>5
<1> HIDE DEF n
<1>7. placed[k + n] = placed[k]
  BY <1>6 DEF S
<1>8. QED
  BY <1>6, <1>7

\* The first instruction at or after a line.
LEMMA FromFirst ==
  ASSUME NEW p, DOMAIN p \subseteq Nat, NEW k \in Nat,
         NEW m \in Onwards(p, k), \A j \in Onwards(p, k) : m <= j
  PROVE  Source!From(p, k) = m
<1> DEFINE S == Onwards(p, k)
<1>1. S = {i \in DOMAIN p : p[i].kind = "instr" /\ i >= k} /\ S # {} /\ S \subseteq Nat
  BY DEF Onwards
<1>2. Source!From(p, k) = CHOOSE x \in S : \A y \in S : x <= y
  BY <1>1 DEF Source!From, Source!Min
<1> HIDE DEF S
<1>3. ASSUME NEW x \in S, \A y \in S : x <= y PROVE x = m
  BY <1>1, <1>3 DEF S
<1>4. QED
  BY <1>2, <1>3 DEF S

LEMMA FromNone ==
  ASSUME NEW p, NEW k, Onwards(p, k) = {} PROVE Source!From(p, k) = Len(p) + 1
BY DEF Source!From, Onwards

\* The address of a line is that of the first instruction at or after it.
LEMMA PlaceLine ==
  ASSUME Ready, NEW k \in 1..(Len(program) + 1)
  PROVE  LineAt(placed[k]) = Source!From(program, k)
<1> DEFINE S == Onwards(program, k)
<1>1. /\ Len(program) \in Nat /\ DOMAIN program = 1..Len(program)
      /\ TextEnd = placed[Len(program) + 1] /\ TextEnd \in Nat
      /\ program \in Seq(SourceLine) /\ Regular(program)
  BY ReadyProgram
<1>2. S \subseteq Nat /\ S \subseteq 1..Len(program) /\ k \in Nat
  BY <1>1 DEF Onwards
<1>3. CASE S = {}
  <2>1. \A j \in k..((Len(program) + 1) - 1) : program[j].kind # "instr"
    BY <1>1, <1>2, <1>3 DEF Onwards
  <2>2. Len(program) + 1 \in k..(Len(program) + 1)
    BY <1>1
  <2>3. placed[Len(program) + 1] = placed[k]
    BY <2>1, <2>2, PlacesFlat
  <2>4. LineAt(placed[k]) = Len(program) + 1
    BY <1>1, <2>3, LineBeyond
  <2>5. QED
    BY <1>3, <2>4, FromNone
<1>4. CASE S # {}
  <2> HIDE DEF S
  <2>1. \E n \in S : \A m \in S : n <= m
    BY <1>2, <1>4, LeastElement
  <2>2. PICK m \in S : \A j \in S : m <= j
    BY <2>1
  <2>3. m \in k..Len(program) /\ program[m].kind = "instr"
    BY <1>2, <2>2 DEF S, Onwards
  <2>4. \A j \in k..(m - 1) : program[j].kind # "instr"
    <3>1. SUFFICES ASSUME NEW j \in k..(m - 1), program[j].kind = "instr" PROVE FALSE
      OBVIOUS
    <3>2. j \in S /\ j < m
      BY <1>1, <1>2, <2>3, <3>1 DEF S, Onwards
    <3>3. QED
      BY <1>2, <2>2, <3>2
  <2>5. placed[m] = placed[k]
    <3>1. m \in k..(Len(program) + 1)
      BY <1>1, <2>3
    <3>2. QED
      BY <2>4, <3>1, PlacesFlat
  <2>6. PICK i \in DOMAIN code : code[i].line = m
    <3>1. m \in DOMAIN program /\ m < line
      BY <1>1, <1>2, <2>3, ReadyProgram
    <3>2. Generates(program[m])
      BY <1>1, <2>3, <3>1, RegularLine
    <3>3. Listed /\ phase # "first"
      BY DEF Ready, Assembled
    <3>4. QED
      BY <3>1, <3>2, <3>3 DEF Listed
  <2>7. LineAt(placed[k]) = m
    BY <2>5, <2>6, LineOf, ReadyCode
  <2>8. Source!From(program, k) = m
    BY <1>1, <1>2, <2>2, FromFirst DEF S
  <2>9. QED
    BY <2>7, <2>8
<1>5. QED
  BY <1>3, <1>4

-----------------------------------------------------------------------------
(* The run of a regular file as one of the source machine.                 *)

PcNow    == IF run = "loading" THEN EntryLine(program) ELSE LineAt(rip)
FlagsNow == [zero |-> zf, sign |-> sf, carry |-> cf]
CallsNow == [k \in 1..((StackBottom - rsp) \div 8) |->
               LineAt(stack[StackBottom - 8 * k])]

LEMMA SourceWords ==
  /\ Source!Word = Word
  /\ \A v : Source!Negative(v) = Negative(v)
  /\ \A a, b : Source!ExclusiveOr(a, b) = ExclusiveOr(a, b)
<1>1. Source!Word = Word /\ \A v : Source!Negative(v) = Negative(v)
  BY DEF Source!Word, Word, Source!Negative, Negative
<1>2. Source!TwoTo = TwoTo
  BY DEF Source!TwoTo, TwoTo
<1>3. \A a, b : Source!ExclusiveOr(a, b) = ExclusiveOr(a, b)
  BY <1>2 DEF Source!ExclusiveOr, ExclusiveOr, Source!Combine, Combine, Source!Bit, Bit
<1>4. QED
  BY <1>1, <1>3

\* The source machine's instructions, in the simulator's terms.
SourceAt(k, forms) ==
  /\ PcNow = k /\ astray = FALSE /\ k \in DOMAIN program
  /\ program[k].what \in forms /\ DOMAIN program = 1..Len(program)
  /\ astray' = FALSE /\ program' = program

LEMMA SourceReads ==
  ASSUME NEW k, NEW forms, SourceAt(k, forms)
  PROVE  /\ Source!Runs(forms) /\ Source!Line = program[k]
         /\ Source!Args = program[k].args
         /\ Source!Following = Source!From(program, k + 1)
         /\ Source!Target = Source!At(program, Lower[program[k].name])
         /\ UNCHANGED <<program, astray>>
<1>1. Source!Runs(forms)
  BY DEF SourceAt, Source!Runs, Source!Line, PcNow
<1>2. Source!Line = program[k]
  BY DEF SourceAt, Source!Line, PcNow
<1>3. Source!Args = program[k].args
  BY <1>2 DEF Source!Args
<1>4. Source!Following = Source!From(program, k + 1)
  BY DEF SourceAt, Source!Following, PcNow
<1>5. Source!Target = Source!At(program, Lower[program[k].name])
  BY <1>2 DEF SourceAt, Source!Target
<1>6. UNCHANGED <<program, astray>>
  BY DEF SourceAt
<1>7. QED
  BY <1>1, <1>2, <1>3, <1>4, <1>5, <1>6

LEMMA SourceSecond ==
  ASSUME NEW k, NEW forms, SourceAt(k, forms)
  PROVE  Source!Second = IF program[k].what \in {"cmp_imm", "xor_imm"}
                         THEN program[k].args.imm % WordSize
                         ELSE regs[program[k].args.src]
BY SourceReads DEF Source!Second

LEMMA SourceFlags ==
  ASSUME NEW result, NEW carry, SetFlags(result, carry)
  PROVE  FlagsNow' = Source!Flags(result, carry)
BY SourceWords DEF FlagsNow, SetFlags, Source!Flags

LEMMA SourceMove ==
  ASSUME NEW k, SourceAt(k, {"mov_imm", "mov_reg", "mov_abs"}), NEW v \in Word,
         program[k].what = "mov_imm" => v = program[k].args.imm % WordSize,
         program[k].what = "mov_reg" => v = regs[program[k].args.src],
         regs' = [regs EXCEPT ![program[k].args.dst] = v],
         PcNow' = Source!From(program, k + 1),
         UNCHANGED <<FlagsNow, CallsNow>>
  PROVE  Source!Next
<1>1. \E u \in Source!Word :
         /\ Source!Line.what = "mov_imm" => u = Source!Args.imm % WordSize
         /\ Source!Line.what = "mov_reg" => u = regs[Source!Args.src]
         /\ regs' = [regs EXCEPT ![Source!Args.dst] = u]
  BY SourceReads, SourceWords
<1>2. Source!Move
  BY <1>1, SourceReads DEF Source!Move, PcNow, FlagsNow, CallsNow
<1>3. QED
  BY <1>2 DEF Source!Next

LEMMA SourceAdd ==
  ASSUME NEW k, SourceAt(k, {"alu_reg"}), program[k].args.op = "add", NEW sum,
         sum = regs[program[k].args.dst] + regs[program[k].args.src],
         regs' = [regs EXCEPT ![program[k].args.dst] = sum % WordSize],
         SetFlags(sum % WordSize, sum >= WordSize),
         PcNow' = Source!From(program, k + 1), UNCHANGED CallsNow
  PROVE  Source!Next
<1>1. Source!Second = regs[program[k].args.src]
  BY SourceSecond DEF SourceAt
<1>2. sum = regs[Source!Args.dst] + Source!Second
  BY <1>1, SourceReads
<1>3. FlagsNow' = Source!Flags(sum % WordSize, sum >= WordSize)
  BY SourceFlags
<1>4. Source!Runs({"alu_reg"}) /\ Source!Args.op = "add"
  BY SourceReads
<1>5. regs' = [regs EXCEPT ![Source!Args.dst] = sum % WordSize]
  BY SourceReads
<1>6. PcNow' = Source!Following /\ UNCHANGED <<program, CallsNow, astray>>
  BY SourceReads
<1>7. Source!Add
  BY <1>2, <1>3, <1>4, <1>5, <1>6 DEF Source!Add, PcNow, FlagsNow, CallsNow
<1>8. QED
  BY <1>7 DEF Source!Next

LEMMA SourceCompare ==
  ASSUME NEW k, SourceAt(k, {"alu_reg", "cmp_imm"}), program[k].args.op = "cmp",
         NEW b, b = Source!Second,
         NEW difference, difference = regs[program[k].args.dst] - b,
         SetFlags(difference % WordSize, difference < 0),
         PcNow' = Source!From(program, k + 1), UNCHANGED <<regs, CallsNow>>
  PROVE  Source!Next
<1>1. difference = regs[Source!Args.dst] - Source!Second
  BY SourceReads
<1>2. FlagsNow' = Source!Flags(difference % WordSize, difference < 0)
  BY SourceFlags
<1>3. Source!Runs({"alu_reg", "cmp_imm"}) /\ Source!Args.op = "cmp"
  BY SourceReads
<1>4. PcNow' = Source!Following /\ UNCHANGED <<program, CallsNow, astray>>
  BY SourceReads
<1>5. Source!Compare
  BY <1>1, <1>2, <1>3, <1>4 DEF Source!Compare, PcNow, FlagsNow, CallsNow
<1>6. QED
  BY <1>5 DEF Source!Next

LEMMA SourceXor ==
  ASSUME NEW k, SourceAt(k, {"group_reg", "xor_imm"}), program[k].args.op = "xor",
         NEW b, b = Source!Second,
         NEW v, v = ExclusiveOr(regs[program[k].args.dst], b),
         regs' = [regs EXCEPT ![program[k].args.dst] = v],
         SetFlags(v, FALSE),
         PcNow' = Source!From(program, k + 1), UNCHANGED CallsNow
  PROVE  Source!Next
<1>1. v = Source!ExclusiveOr(regs[Source!Args.dst], Source!Second)
  BY SourceReads, SourceWords
<1>2. FlagsNow' = Source!Flags(v, FALSE)
  BY SourceFlags
<1>3. /\ Source!Runs({"group_reg", "xor_imm"}) /\ Source!Args.op = "xor"
      /\ regs' = [regs EXCEPT ![Source!Args.dst] = v]
  BY SourceReads
<1>4. PcNow' = Source!Following /\ UNCHANGED <<program, CallsNow, astray>>
  BY SourceReads
<1>5. Source!Xor
  BY <1>1, <1>2, <1>3, <1>4 DEF Source!Xor, PcNow, FlagsNow, CallsNow
<1>6. QED
  BY <1>5 DEF Source!Next

LEMMA SourceJump ==
  ASSUME NEW k, SourceAt(k, {"jmp"}),
         PcNow' = Source!At(program, Lower[program[k].name]),
         UNCHANGED <<regs, FlagsNow, CallsNow>>
  PROVE  Source!Next
<1>1. Source!Jump
  BY SourceReads DEF Source!Jump, PcNow, FlagsNow, CallsNow
<1>2. QED
  BY <1>1 DEF Source!Next

LEMMA SourceJumpIfNotEqual ==
  ASSUME NEW k, SourceAt(k, {"jne"}),
         PcNow' = IF zf THEN Source!From(program, k + 1)
                  ELSE Source!At(program, Lower[program[k].name]),
         UNCHANGED <<regs, FlagsNow, CallsNow>>
  PROVE  Source!Next
<1>1. FlagsNow.zero = zf
  BY DEF FlagsNow
<1>2. PcNow' = IF FlagsNow.zero THEN Source!Following ELSE Source!Target
  BY <1>1, SourceReads
<1>3. Source!JumpIfNotEqual
  BY <1>2, SourceReads DEF Source!JumpIfNotEqual, PcNow, FlagsNow, CallsNow
<1>4. QED
  BY <1>3 DEF Source!Next

LEMMA SourceCall ==
  ASSUME NEW k, SourceAt(k, {"call"}),
         CallsNow' = Append(CallsNow, Source!From(program, k + 1)),
         PcNow' = Source!At(program, Lower[program[k].name]),
         UNCHANGED <<regs, FlagsNow>>
  PROVE  Source!Next
<1>1. CallsNow' = Append(CallsNow, Source!Following) /\ PcNow' = Source!Target
  BY SourceReads
<1>2. Source!Runs({"call"}) /\ UNCHANGED <<program, astray>>
  BY SourceReads
<1>3. Source!Call
  BY <1>1, <1>2 DEF Source!Call, PcNow, FlagsNow, CallsNow
<1>4. QED
  BY <1>3 DEF Source!Next

LEMMA SourceSystem ==
  ASSUME NEW k, SourceAt(k, {"int"}),
         PcNow' = IF regs["eax"] = 1 THEN Len(program) + 1
                  ELSE Source!From(program, k + 1),
         UNCHANGED <<regs, FlagsNow, CallsNow>>
  PROVE  Source!Next
<1>1. Source!System
  BY SourceReads DEF Source!System, PcNow, FlagsNow, CallsNow
<1>2. QED
  BY <1>1 DEF Source!Next

LEMMA SourceOverrun ==
  ASSUME astray = FALSE, astray' = TRUE,
         Len(CallsNow) > (StackBottom - DataStart) \div 8,
         UNCHANGED <<program, PcNow, regs, FlagsNow, CallsNow>>
  PROVE  Source!Next
<1>1. Source!Overrun
  BY DEF Source!Overrun, PcNow, FlagsNow, CallsNow
<1>2. QED
  BY <1>1 DEF Source!Next

LEMMA SourceStutters ==
  ASSUME UNCHANGED astray,
         UNCHANGED <<program, PcNow, regs, FlagsNow, CallsNow>>
  PROVE  UNCHANGED Source!vars
BY DEF Source!vars, PcNow, FlagsNow, CallsNow

\* The inductive invariant of the run of a regular file.
SourceInvariant ==
  /\ TypeInvariant /\ CourseInvariant /\ Assembled
  /\ run = "loading" => rsp = StackBottom /\ EntryKept
  /\ run # "loading" => line > Len(program)

LEMMA SourceReady ==
  ASSUME SourceInvariant, phase = "ready" PROVE Ready
<1>1. /\ TypeOK /\ LabelInvariant /\ SweepInvariant /\ CodeInText
      /\ CodeOfLines /\ Assembled
  BY DEF SourceInvariant, TypeInvariant, RunInvariant, WrapInvariant, CourseInvariant
<1>2. CASE run = "loading"
  <2>1. Generated => line > Len(program)
    BY <1>2 DEF SourceInvariant, CourseInvariant, ControlInvariant, EntryPlaced
  <2>2. QED
    BY <1>1, <2>1 DEF Ready, Generated
<1>3. CASE run # "loading"
  BY <1>1, <1>3 DEF SourceInvariant, Ready
<1>4. QED
  BY <1>2, <1>3

\* The place of a label, and what the source machine makes of it.
LEMMA LabelPlace ==
  ASSUME Ready, NEW s \in Names, NEW j \in DOMAIN program, TextLabel(program, j, s)
  PROVE  /\ symbols[s] = placed[j] /\ placed[j] \in Nat /\ placed[j] <= TextEnd
         /\ Source!Labels(program, s) = {j}
         /\ Source!At(program, s) = Source!From(program, j)
         /\ LineAt(symbols[s]) = Source!From(program, j)
<1>1. /\ program[j].label # NoName /\ Lower[program[j].label] = s
      /\ SectionOf(program, j) = "text" /\ OnlyDefinition(program, j, s)
  BY DEF TextLabel
<1>2. /\ Unfailed /\ Len(placed) = Len(program) + 1 /\ placed \in Seq(Nat)
      /\ Len(program) \in Nat /\ DOMAIN program = 1..Len(program)
      /\ DOMAIN placed = 1..(Len(program) + 1) /\ TextEnd = placed[Len(program) + 1]
  BY ReadyProgram
<1>3. j \in 1..(Len(placed) - 1) /\ j \in DOMAIN placed /\ Len(program) + 1 \in DOMAIN placed
      /\ j <= Len(program) + 1 /\ j \in 1..(Len(program) + 1)
  BY <1>2
<1>4. symbols[s] = placed[j]
  BY <1>1, <1>2, <1>3 DEF Ready, LabelInvariant, SymbolsRecorded
<1>5. placed[j] \in Nat /\ placed[j] <= TextEnd
  BY <1>2, <1>3 DEF Ready, LabelInvariant, PlacedInOrder
<1>6. Source!Labels(program, s) = {j}
  <2>1. \A i \in Source!Labels(program, s) : i \in DOMAIN program /\ Defines(program, i, s)
    BY DEF Source!Labels, Defines
  <2>2. j \in Source!Labels(program, s)
    BY <1>1 DEF Source!Labels
  <2>3. QED
    BY <1>1, <2>1, <2>2 DEF OnlyDefinition
<1>7. Source!At(program, s) = Source!From(program, j)
  <2>1. (CHOOSE i \in Source!Labels(program, s) : TRUE) = j
    BY <1>6
  <2>2. QED
    BY <2>1 DEF Source!At
<1>8. LineAt(symbols[s]) = Source!From(program, j)
  BY <1>3, <1>4, PlaceLine
<1>9. QED
  BY <1>4, <1>5, <1>6, <1>7, <1>8

\* Where the instruction at rip is in the file, and where it leads.
LEMMA FetchedLine ==
  ASSUME SourceInvariant, run = "running", Fetched # {}, NEW k, k = Current.line
  PROVE  /\ Ready /\ k \in DOMAIN program /\ PcNow = k
         /\ Current.form = program[k].what /\ Executed(program[k])
         /\ Args = program[k].args
         /\ NextRip \in Nat /\ LineAt(NextRip) = Source!From(program, k + 1)
         /\ rip \in Nat /\ rip < TextEnd
         /\ program[k].what \in BranchForms =>
              /\ Target # rip
              /\ LineAt(Target) = Source!At(program, Lower[program[k].name])
<1>1. phase = "ready" /\ TypeOK
  BY DEF SourceInvariant, TypeInvariant, RunInvariant, CourseInvariant
<1>2. Ready
  BY <1>1, SourceReady
<1>3. PICK i \in DOMAIN code : Current = code[i] /\ Current.at = rip
  BY <1>1, CurrentType
<1>4. /\ k = code[i].line /\ k \in DOMAIN program /\ rip = code[i].at
      /\ Executed(program[k]) /\ Current.form = program[k].what
      /\ rip \in Nat /\ rip < TextEnd
      /\ NextRip = placed[k + 1]
  BY <1>2, <1>3, ReadyCode DEF NextRip
<1>5. LineAt(rip) = k /\ PcNow = k
  BY <1>2, <1>4, LineOf DEF PcNow
<1>6. Args = program[k].args
  BY DEF Args
<1>7. /\ Len(program) \in Nat /\ DOMAIN program = 1..Len(program)
      /\ program \in Seq(SourceLine) /\ Regular(program)
      /\ TextEnd \in Nat /\ TextEnd <= DataStart /\ DataStart \in Nat
  BY <1>2, ReadyProgram
<1>8. NextRip \in Nat /\ LineAt(NextRip) = Source!From(program, k + 1)
  <2>1. k + 1 \in 1..(Len(program) + 1)
    BY <1>4, <1>7
  <2>2. QED
    BY <1>1, <1>2, <1>4, <2>1, PlaceLine, NextType
<1>9. ASSUME program[k].what \in BranchForms
      PROVE  /\ Target # rip
             /\ LineAt(Target) = Source!At(program, Lower[program[k].name])
  <2> DEFINE s == Lower[program[k].name]
  <2>1. PICK j \in DOMAIN program : TextLabel(program, j, s)
    BY <1>4, <1>7, <1>9, RegularLine
  <2>2. s \in Names
    <3>1. program[k] \in SourceLine /\ program[k].kind = "instr"
      BY <1>2, <1>4, <1>7, ReadyCode
    <3>2. program[k].name \in Names
      BY <1>9, <3>1 DEF SourceLine, SymbolicForms
    <3>3. QED
      BY <3>2, AssemblerAssumption
  <2> HIDE DEF s
  <2>3. /\ symbols[s] = placed[j] /\ placed[j] \in Nat /\ placed[j] <= TextEnd
        /\ Source!At(program, s) = Source!From(program, j)
        /\ LineAt(symbols[s]) = Source!From(program, j)
    BY <1>2, <2>1, <2>2, LabelPlace
  <2>4. Current.dest = symbols[s]
    <3>1. BranchesLead
      BY <1>2 DEF Ready, Assembled
    <3>2. code[i].form \in BranchForms
      BY <1>3, <1>4, <1>9
    <3>3. QED
      BY <1>3, <1>4, <3>1, <3>2 DEF BranchesLead, s
  <2>5. Target = placed[j]
    <3>1. placed[j] < AddressSize /\ AddressSize \in Nat
      BY <1>7, <2>3, SimulatorAssumption, AssemblerAssumption
    <3>2. QED
      BY <2>3, <2>4, <3>1, ModSmall DEF Target
  <2>6. LineAt(Target) = Source!At(program, s)
    BY <2>3, <2>5
  <2>7. Target # rip
    <3>1. SUFFICES ASSUME Target = rip PROVE FALSE
      OBVIOUS
    <3>2. Source!From(program, j) = k
      BY <1>5, <2>3, <2>6, <3>1
    <3>3. Onwards(program, j) # {}
      <4>1. k # Len(program) + 1
        BY <1>4, <1>7
      <4>2. QED
        BY <3>2, <4>1, FromNone
    <3>4. Source!From(program, j) = Min(Onwards(program, j))
      BY <3>3 DEF Source!From, Source!Min, Min, Onwards
    <3>5. program[j].label # NoName /\ Lower[program[j].label] = Lower[program[k].name]
      BY <2>1 DEF TextLabel, s
    <3>6. Onwards(program, j) = {} \/ Min(Onwards(program, j)) # k
      BY <1>4, <1>7, <1>9, <2>1, <3>5 DEF Regular, LeavesItself
    <3>7. QED
      BY <3>2, <3>3, <3>4, <3>6
  <2>8. QED
    BY <2>6, <2>7 DEF s
<1>10. QED
  BY <1>2, <1>4, <1>5, <1>6, <1>8, <1>9

-----------------------------------------------------------------------------
(* The steps.                                                              *)

\* LineAt and CallsNow as functions of the state.
LineIn(c, p, a) ==
  LET here == {i \in DOMAIN c : c[i].at = a} IN
  IF here = {} THEN Len(p) + 1 ELSE c[CHOOSE i \in here : TRUE].line

CallsIn(c, p, top, slots) ==
  [k \in 1..((StackBottom - top) \div 8) |-> LineIn(c, p, slots[StackBottom - 8 * k])]

LEMMA PcMoves ==
  ASSUME run' # "loading", UNCHANGED <<program, code>>, NEW a, rip' = a
  PROVE  PcNow' = LineAt(a)
<1>1. PcNow' = LineIn(code', program', rip')
  BY DEF PcNow, LineAt, LineIn
<1>2. LineAt(a) = LineIn(code, program, a)
  BY DEF LineAt, LineIn
<1>3. QED
  BY <1>1, <1>2

LEMMA CallsKept ==
  ASSUME UNCHANGED <<program, code, rsp, stack>> PROVE UNCHANGED CallsNow
<1>1. CallsNow' = CallsIn(code', program', rsp', stack')
  BY DEF CallsNow, CallsIn, LineAt, LineIn
<1>2. CallsNow = CallsIn(code, program, rsp, stack)
  BY DEF CallsNow, CallsIn, LineAt, LineIn
<1>3. QED
  BY <1>1, <1>2

LEMMA NoCalls == \A c, p, slots : CallsIn(c, p, StackBottom, slots) = << >>
<1>1. (StackBottom - StackBottom) \div 8 = 0
  BY SimulatorAssumption, AssemblerAssumption
<1>2. 1..0 = {}
  OBVIOUS
<1>3. QED
  BY <1>1, <1>2 DEF CallsIn

LEMMA LineType == ASSUME TypeOK PROVE \A a : LineAt(a) \in Nat
<1>1. TAKE a
<1> DEFINE here == {i \in DOMAIN code : code[i].at = a}
<1>2. CASE here = {}
  BY <1>2 DEF LineAt, TypeOK
<1>3. CASE here # {}
  <2>1. PICK i \in here : i = CHOOSE j \in here : TRUE
    BY <1>3
  <2>2. code[i] \in Instruction
    BY <2>1, InstructionAt
  <2>3. code[i].line \in Nat
    BY <2>2 DEF Instruction
  <2>4. LineAt(a) = code[i].line
    BY <1>3, <2>1 DEF LineAt
  <2>5. QED
    BY <2>3, <2>4
<1>4. QED
  BY <1>2, <1>3

LEMMA Appended ==
  ASSUME NEW n \in Nat, NEW s \in [1..n -> Nat], NEW e \in Nat,
         NEW t \in [1..(n + 1) -> Nat], \A k \in 1..n : t[k] = s[k], t[n + 1] = e
  PROVE  t = Append(s, e)
<1>1. s \in Seq(Nat) /\ Len(s) = n
  OBVIOUS
<1>2. /\ Append(s, e) \in Seq(Nat) /\ Len(Append(s, e)) = n + 1
      /\ \A k \in 1..n : Append(s, e)[k] = s[k]
      /\ Append(s, e)[n + 1] = e
  <2> DEFINE S == Nat
  <2>1. s \in Seq(S) /\ e \in S
    BY <1>1
  <2> HIDE DEF S
  <2>2. /\ Append(s, e) \in Seq(S) /\ Len(Append(s, e)) = Len(s) + 1
        /\ \A k \in 1..Len(s) : Append(s, e)[k] = s[k]
        /\ Append(s, e)[Len(s) + 1] = e
    BY <2>1
  <2>3. QED
    BY <1>1, <2>2 DEF S
<1>3. \A k \in 1..(n + 1) : k \in 1..n \/ k = n + 1
  OBVIOUS
<1>4. \A k \in 1..(n + 1) : t[k] = Append(s, e)[k]
  BY <1>2, <1>3
<1>5. Append(s, e) \in [1..(n + 1) -> Nat]
  <2> DEFINE u == Append(s, e)
             m == n + 1
  <2>1. u \in Seq(Nat) /\ Len(u) = m
    BY <1>2
  <2> HIDE DEF u, m
  <2>2. u \in [1..m -> Nat]
    BY <2>1
  <2>3. QED
    BY <2>2 DEF u, m
<1>6. QED
  BY <1>4, <1>5

\* A call remembers one more line.
LEMMA CallsGrow ==
  ASSUME RunInvariant, Call
  PROVE  /\ CallsNow' = Append(CallsNow, LineAt(NextRip)) /\ Finish(Target)
         /\ UNCHANGED <<loaded, mode, regs, flagVars>>
<1>1. run = "running" /\ Fetched # {} /\ ~ astray /\ TypeOK
  BY DEF Call, Fetches, RunInvariant
<1>2. 8 <= rsp /\ rsp \in Nat /\ rsp % 8 = 0 /\ rsp <= StackBottom
      /\ StackBottom \in Nat /\ StackBottom % 8 = 0
  BY <1>1, CallFindsRoom, SimulatorAssumption, AssemblerAssumption
  DEF RunInvariant, WrapInvariant, StackFilled
<1>3. rsp' = rsp - 8
  <2>1. rsp - 8 \in Nat /\ rsp - 8 < AddressSize /\ AddressSize \in Nat
    BY <1>2, SimulatorAssumption
  <2>2. QED
    BY <2>1, ModSmall DEF Call
<1>4. /\ stack' = [a \in DOMAIN stack \cup {rsp'} |->
                     IF a = rsp' THEN NextRip ELSE stack[a]]
      /\ Finish(Target) /\ UNCHANGED <<loaded, mode, regs, flagVars>>
  BY <1>2, <1>3 DEF Call
<1>5. UNCHANGED <<program, code>>
  BY <1>4 DEF loaded, secondVars
<1> DEFINE n == (StackBottom - rsp) \div 8
<1>6. n \in Nat /\ StackBottom - rsp = 8 * n /\ (StackBottom - rsp') \div 8 = n + 1
  BY <1>2, <1>3
<1>7. CallsNow = [k \in 1..n |-> LineIn(code, program, stack[StackBottom - 8 * k])]
  BY DEF CallsNow, LineAt, LineIn
<1>8. CallsNow' = [k \in 1..(n + 1) |-> LineIn(code, program, stack'[StackBottom - 8 * k])]
  <2>1. CallsNow' = CallsIn(code', program', rsp', stack')
    BY DEF CallsNow, CallsIn, LineAt, LineIn
  <2>2. QED
    BY <1>5, <1>6, <2>1 DEF CallsIn
<1>9. \A a : LineIn(code, program, a) \in Nat /\ LineAt(a) = LineIn(code, program, a)
  BY <1>1, LineType DEF LineIn, LineAt
<1> HIDE DEF n
<1>10. ASSUME NEW k \in 1..n
       PROVE  stack'[StackBottom - 8 * k] = stack[StackBottom - 8 * k]
  <2> DEFINE a == StackBottom - 8 * k
  <2>1. a \in rsp..(StackBottom - 1) /\ a % 8 = 0 /\ a # rsp'
    BY <1>2, <1>3, <1>6
  <2>2. a \in DOMAIN stack
    BY <1>1, <2>1 DEF RunInvariant, WrapInvariant, StackFilled
  <2>3. QED
    BY <1>4, <2>1, <2>2
<1>11. stack'[StackBottom - 8 * (n + 1)] = NextRip
  <2>1. StackBottom - 8 * (n + 1) = rsp'
    BY <1>2, <1>3, <1>6
  <2>2. QED
    BY <1>4, <2>1
<1>12. CallsNow \in [1..n -> Nat] /\ CallsNow' \in [1..(n + 1) -> Nat]
  BY <1>7, <1>8, <1>9
<1>13. \A k \in 1..n : CallsNow'[k] = CallsNow[k]
  <2>1. SUFFICES ASSUME NEW k \in 1..n PROVE CallsNow'[k] = CallsNow[k]
    OBVIOUS
  <2>2. k \in 1..(n + 1)
    BY <1>6
  <2>3. QED
    BY <1>7, <1>8, <1>10, <2>2
<1>14. CallsNow'[n + 1] = LineAt(NextRip)
  <2>1. n + 1 \in 1..(n + 1)
    BY <1>6
  <2>2. QED
    BY <1>8, <1>9, <1>11, <2>1
<1>15. CallsNow' = Append(CallsNow, LineAt(NextRip))
  BY <1>6, <1>9, <1>12, <1>13, <1>14, Appended
<1>16. QED
  BY <1>4, <1>15

\* An instruction that leaves rip alone goes on to the next line.
LEMMA NextLine ==
  ASSUME SourceInvariant, run = "running", Fetched # {}, Finish(rip), UNCHANGED loaded
  PROVE  /\ PcNow' = Source!From(program, Current.line + 1)
         /\ run' # "loading"
<1>1. rip' = NextRip /\ run' \in {"ended", "running"}
  BY DEF Finish
<1>2. UNCHANGED <<program, code>>
  BY DEF loaded, secondVars
<1>3. LineAt(NextRip) = Source!From(program, Current.line + 1)
  BY FetchedLine
<1>4. QED
  BY <1>1, <1>2, <1>3, PcMoves

\* One that sets it goes where it says, and no branch is sent to itself.
LEMMA TargetLine ==
  ASSUME run = "running", Fetched # {}, UNCHANGED loaded, NEW a, a # rip, Finish(a)
  PROVE  PcNow' = LineAt(a) /\ run' # "loading"
<1>1. rip' = a /\ run' \in {"ended", "running"}
  BY DEF Finish
<1>2. UNCHANGED <<program, code>>
  BY DEF loaded, secondVars
<1>3. QED
  BY <1>1, <1>2, PcMoves

LEMMA SourceHere ==
  ASSUME SourceInvariant, run = "running", Fetched # {}, UNCHANGED loaded,
         ~ astray, UNCHANGED mode, NEW forms, Current.form \in forms
  PROVE  SourceAt(Current.line, forms)
<1>1. /\ Current.line \in DOMAIN program /\ PcNow = Current.line
      /\ Current.form = program[Current.line].what /\ Ready
  BY FetchedLine
<1>2. DOMAIN program = 1..Len(program)
  BY <1>1, ReadyProgram
<1>3. astray = FALSE /\ astray' = FALSE
  BY DEF SourceInvariant, CourseInvariant, mode
<1>4. QED
  BY <1>1, <1>2, <1>3 DEF SourceAt, loaded

LEMMA MoveRefines ==
  ASSUME SourceInvariant, Move PROVE Source!Next \/ UNCHANGED Source!vars
<1> DEFINE k == Current.line
<1>1. /\ run = "running" /\ Fetched # {} /\ UNCHANGED <<loaded, flagVars, stackVars>>
      /\ ~ astray /\ UNCHANGED mode
      /\ Current.form \in {"mov_imm", "mov_reg", "mov_abs"}
  BY DEF Move, Fetches
<1>2. UNCHANGED <<program, code, rsp, stack>> /\ UNCHANGED FlagsNow
  BY <1>1 DEF loaded, secondVars, stackVars, flagVars, FlagsNow
<1>3. UNCHANGED CallsNow
  BY <1>2, CallsKept
<1>4. CASE run' = "faulted" /\ UNCHANGED <<rip, regs>>
  <2>1. PcNow' = LineAt(rip) /\ PcNow = LineAt(rip)
    BY <1>1, <1>2, <1>4, PcMoves DEF PcNow
  <2>2. QED
    BY <1>1, <1>2, <1>3, <1>4, <2>1, SourceStutters DEF mode
<1>5. CASE ~ (run' = "faulted" /\ UNCHANGED <<rip, regs>>)
  <2>1. Finish(rip)
    BY <1>5 DEF Move
  <2>2. PICK v \in Word :
          /\ Current.form = "mov_imm" => v = Args.imm % WordSize
          /\ Current.form = "mov_reg" => v = Read(Args.src)
          /\ regs' = [regs EXCEPT ![MoveTarget] = v]
    BY <1>5 DEF Move
  <2>3. PcNow' = Source!From(program, k + 1)
    BY <1>1, <2>1, NextLine
  <2>4. SourceAt(k, {"mov_imm", "mov_reg", "mov_abs"})
    BY <1>1, <2>3, SourceHere
  <2>5. /\ Current.form = program[k].what /\ Executed(program[k])
        /\ Args = program[k].args
    BY <1>1, FetchedLine
  <2>6. MoveTarget = Args.dst
    BY <1>1, <2>5 DEF MoveTarget, Executed
  <2>7. Current.form = "mov_reg" => Read(Args.src) = regs[Args.src]
    BY <2>5 DEF Read, Executed
  <2>8. QED
    BY <1>2, <1>3, <2>2, <2>3, <2>4, <2>5, <2>6, <2>7, SourceMove
<1>6. QED
  BY <1>4, <1>5

LEMMA AddRefines ==
  ASSUME SourceInvariant, Add PROVE Source!Next
<1> DEFINE k == Current.line
           sum == regs[Args.dst] + regs[Args.src]
<1>1. /\ run = "running" /\ Fetched # {} /\ UNCHANGED <<loaded, stackVars>>
      /\ ~ astray /\ UNCHANGED mode
      /\ Current.form \in {"alu_reg"} /\ Args.op = "add" /\ Finish(rip)
      /\ regs' = [regs EXCEPT ![Args.dst] = sum % WordSize]
      /\ SetFlags(sum % WordSize, sum >= WordSize)
  BY DEF Add, Fetches
<1>2. UNCHANGED CallsNow
  BY <1>1, CallsKept DEF loaded, secondVars, stackVars
<1>3. PcNow' = Source!From(program, k + 1)
  BY <1>1, NextLine
<1>4. SourceAt(k, {"alu_reg"})
  BY <1>1, <1>3, SourceHere
<1>5. Args = program[k].args
  BY <1>1, FetchedLine
<1>6. sum = regs[program[k].args.dst] + regs[program[k].args.src]
  BY <1>5
<1>7. program[k].args.op = "add" /\ regs' = [regs EXCEPT ![program[k].args.dst] = sum % WordSize]
  BY <1>1, <1>5
<1> HIDE DEF sum, k
<1>8. QED
  BY <1>1, <1>2, <1>3, <1>4, <1>6, <1>7, SourceAdd

\* What a comparison or an xor of a regular file takes as its second operand.
LEMMA SecondIs ==
  ASSUME SourceInvariant, run = "running", Fetched # {},
         NEW forms, SourceAt(Current.line, forms), NEW b \in SecondOperands,
         Current.form \in {"alu_reg", "group_reg", "cmp_imm", "cmp_truncated", "xor_imm"}
  PROVE  b = Source!Second
<1> DEFINE k == Current.line
<1>1. /\ Current.form = program[k].what /\ Executed(program[k])
      /\ Args = program[k].args
  BY FetchedLine
<1>2. Source!Second = IF Current.form \in {"cmp_imm", "xor_imm"}
                      THEN Args.imm % WordSize ELSE regs[Args.src]
  BY <1>1, SourceSecond
<1>3. Current.form # "cmp_truncated"
  BY <1>1 DEF Executed
<1>4. CASE Current.form \in {"cmp_imm", "xor_imm"}
  <2>1. b = Args.imm % ByteSize
    BY <1>3, <1>4 DEF SecondOperands
  <2>2. Args.imm < ByteSize
    BY <1>1, <1>4 DEF Executed
  <2>3. Args.imm \in Nat
    BY OperandsType DEF SourceInvariant, TypeInvariant, RunInvariant
  <2>4. ByteSize \in Nat /\ ByteSize <= WordSize /\ WordSize \in Nat
    BY SimulatorAssumption
  <2> DEFINE imm == Args.imm
  <2>5. imm \in Nat /\ imm < ByteSize
    BY <2>2, <2>3
  <2> HIDE DEF imm
  <2>6. imm % ByteSize = imm /\ imm % WordSize = imm
    BY <2>4, <2>5, ModSmall
  <2>7. QED
    BY <1>2, <1>4, <2>1, <2>6 DEF imm
<1>5. CASE Current.form \notin {"cmp_imm", "xor_imm"}
  BY <1>2, <1>3, <1>5 DEF SecondOperands
<1>6. QED
  BY <1>4, <1>5

LEMMA CompareRefines ==
  ASSUME SourceInvariant, Compare PROVE Source!Next
<1> DEFINE k == Current.line
           a == regs[Args.dst]
<1>1. /\ run = "running" /\ Fetched # {} /\ UNCHANGED <<loaded, regs, stackVars>>
      /\ ~ astray /\ UNCHANGED mode
      /\ Current.form \in {"alu_reg", "cmp_imm", "cmp_truncated"} /\ Args.op = "cmp"
      /\ Finish(rip)
  BY DEF Compare, Fetches
<1>2. PICK b \in SecondOperands : SetFlags((a - b) % WordSize, a < b)
  BY DEF Compare
<1>3. UNCHANGED CallsNow
  BY <1>1, CallsKept DEF loaded, secondVars, stackVars
<1>4. PcNow' = Source!From(program, k + 1)
  BY <1>1, NextLine
<1>5. Args = program[k].args /\ Executed(program[k]) /\ Current.form = program[k].what
  BY <1>1, FetchedLine
<1>6. Current.form \in {"alu_reg", "cmp_imm"}
  BY <1>1, <1>5 DEF Executed
<1>7. SourceAt(k, {"alu_reg", "cmp_imm"})
  BY <1>1, <1>4, <1>6, SourceHere
<1>8. b = Source!Second
  BY <1>1, <1>7, SecondIs
<1>9. a \in Int /\ b \in Int
  <2>1. a \in Word /\ b \in Word
    BY <1>1, OperandsType, SecondOperandType
    DEF SourceInvariant, TypeInvariant, RunInvariant
  <2>2. QED
    BY <2>1, SimulatorAssumption DEF Word
<1> DEFINE difference == a - b
<1>10. (a < b) = (difference < 0)
  <2> HIDE DEF a
  <2>1. QED
    BY <1>9
<1>11. SetFlags(difference % WordSize, difference < 0)
  BY <1>2, <1>10
<1>12. difference = regs[program[k].args.dst] - b /\ program[k].args.op = "cmp"
  BY <1>1, <1>5
<1> HIDE DEF difference, a, k
<1>13. QED
  BY <1>1, <1>3, <1>4, <1>7, <1>8, <1>11, <1>12, SourceCompare

LEMMA XorRefines ==
  ASSUME SourceInvariant, Xor PROVE Source!Next
<1> DEFINE k == Current.line
<1>1. /\ run = "running" /\ Fetched # {} /\ UNCHANGED <<loaded, stackVars>>
      /\ ~ astray /\ UNCHANGED mode
      /\ Current.form \in {"group_reg", "xor_imm"} /\ Args.op = "xor"
      /\ Finish(rip)
  BY DEF Xor, Fetches
<1>2. PICK b \in SecondOperands :
        LET v == ExclusiveOr(regs[Args.dst], b) IN
        /\ regs' = [regs EXCEPT ![Args.dst] = v]
        /\ SetFlags(v, FALSE)
  BY DEF Xor
<1>3. UNCHANGED CallsNow
  BY <1>1, CallsKept DEF loaded, secondVars, stackVars
<1>4. PcNow' = Source!From(program, k + 1)
  BY <1>1, NextLine
<1>5. Args = program[k].args
  BY <1>1, FetchedLine
<1>6. SourceAt(k, {"group_reg", "xor_imm"})
  BY <1>1, <1>4, SourceHere
<1>7. b = Source!Second
  BY <1>1, <1>6, SecondIs
<1> DEFINE v == ExclusiveOr(regs[Args.dst], b)
<1>8. regs' = [regs EXCEPT ![program[k].args.dst] = v] /\ SetFlags(v, FALSE)
  BY <1>2, <1>5
<1>9. v = ExclusiveOr(regs[program[k].args.dst], b) /\ program[k].args.op = "xor"
  BY <1>1, <1>5
<1> HIDE DEF v, k
<1>10. QED
  BY <1>3, <1>4, <1>6, <1>7, <1>8, <1>9, SourceXor

LEMMA JumpRefines ==
  ASSUME SourceInvariant, Jump \/ Branch PROVE Source!Next
<1> DEFINE k == Current.line
<1>1. /\ run = "running" /\ Fetched # {} /\ UNCHANGED <<loaded, regs, flagVars, stackVars>>
      /\ ~ astray /\ UNCHANGED mode
      /\ \/ Current.form = "jmp" /\ Finish(Target)
         \/ /\ Current.form \in {"jne", "jge"}
            /\ Finish(IF Current.form = "jne" /\ ~ zf THEN Target ELSE rip)
  BY DEF Jump, Branch, Fetches
<1>2. UNCHANGED CallsNow /\ UNCHANGED FlagsNow
  BY <1>1, CallsKept DEF loaded, secondVars, stackVars, flagVars, FlagsNow
<1>3. Executed(program[k]) /\ Current.form = program[k].what
  BY <1>1, FetchedLine
<1>4. Current.form # "jge"
  BY <1>3, ExecutedBytes
<1>5. Current.form \in BranchForms
  BY <1>1 DEF BranchForms, JccForms, JccBytes, JumpBytes
<1>6. Target # rip /\ LineAt(Target) = Source!At(program, Lower[program[k].name])
  BY <1>1, <1>3, <1>5, FetchedLine
<1>7. ASSUME Finish(Target)
      PROVE  PcNow' = Source!At(program, Lower[program[k].name])
  BY <1>1, <1>6, <1>7, TargetLine
<1>8. ASSUME Finish(rip)
      PROVE  PcNow' = Source!From(program, k + 1)
  BY <1>1, <1>8, NextLine
<1>9. CASE Current.form = "jmp"
  <2>1. SourceAt(k, {"jmp"})
    BY <1>1, <1>7, <1>9, SourceHere
  <2>2. QED
    BY <1>1, <1>2, <1>7, <1>9, <2>1, SourceJump
<1>10. CASE Current.form = "jne"
  <2>1. /\ zf => Finish(rip)
        /\ ~ zf => Finish(Target)
    BY <1>1, <1>10
  <2>2. SourceAt(k, {"jne"})
    BY <1>1, <1>7, <1>8, <1>10, <2>1, SourceHere
  <2>3. PcNow' = IF zf THEN Source!From(program, k + 1)
                 ELSE Source!At(program, Lower[program[k].name])
    BY <1>7, <1>8, <2>1
  <2>4. QED
    BY <1>1, <1>2, <2>2, <2>3, SourceJumpIfNotEqual
<1>11. QED
  BY <1>1, <1>4, <1>9, <1>10

LEMMA CallRefines ==
  ASSUME SourceInvariant, Call PROVE Source!Next
<1> DEFINE k == Current.line
<1>1. run = "running" /\ ~ astray /\ Fetched # {} /\ Current.form = "call"
  BY DEF Call, Fetches
<1>2. /\ CallsNow' = Append(CallsNow, LineAt(NextRip)) /\ Finish(Target)
      /\ UNCHANGED <<loaded, mode, regs, flagVars>>
  BY CallsGrow DEF SourceInvariant, TypeInvariant
<1>3. /\ Current.form = program[k].what
      /\ LineAt(NextRip) = Source!From(program, k + 1)
      /\ program[k].what \in BranchForms =>
           /\ Target # rip
           /\ LineAt(Target) = Source!At(program, Lower[program[k].name])
  BY <1>1, FetchedLine
<1>4. Current.form \in BranchForms
  BY <1>1 DEF BranchForms, JccForms, JccBytes, JumpBytes
<1>5. PcNow' = Source!At(program, Lower[program[k].name])
  BY <1>1, <1>2, <1>3, <1>4, TargetLine
<1>6. SourceAt(k, {"call"})
  BY <1>1, <1>2, <1>5, SourceHere
<1>7. UNCHANGED <<regs, FlagsNow>>
  BY <1>2 DEF flagVars, FlagsNow
<1>8. CallsNow' = Append(CallsNow, Source!From(program, k + 1))
  BY <1>2, <1>3
<1>9. QED
  BY <1>5, <1>6, <1>7, <1>8, SourceCall

LEMMA SystemRefines ==
  ASSUME SourceInvariant, System PROVE Source!Next
<1> DEFINE k == Current.line
<1>1. /\ run = "running" /\ Fetched # {} /\ UNCHANGED <<loaded, regs, flagVars, stackVars>>
      /\ ~ astray /\ UNCHANGED mode
      /\ Current.form = "int"
      /\ Finish(IF regs["eax"] = 1 THEN StackBottom ELSE rip)
  BY DEF System, Fetches
<1>2. UNCHANGED CallsNow /\ UNCHANGED FlagsNow
  BY <1>1, CallsKept DEF loaded, secondVars, stackVars, flagVars, FlagsNow
<1>3. Ready /\ rip \in Nat /\ rip < TextEnd
  BY <1>1, FetchedLine
<1>4. TextEnd < StackBottom /\ StackBottom \in Nat /\ TextEnd \in Nat
  <2>1. TextEnd \in Nat /\ TextEnd <= DataStart
    BY <1>3, ReadyProgram
  <2>2. QED
    BY <2>1, SimulatorAssumption, AssemblerAssumption
<1>5. StackBottom # rip /\ LineAt(StackBottom) = Len(program) + 1
  BY <1>3, <1>4, LineBeyond
<1>6. PcNow' = IF regs["eax"] = 1 THEN Len(program) + 1
               ELSE Source!From(program, k + 1)
  BY <1>1, <1>5, NextLine, TargetLine
<1>8. SourceAt(k, {"int"})
  BY <1>1, SourceHere
<1>9. QED
  BY <1>1, <1>2, <1>6, <1>8, SourceSystem

\* A run leaves the emitted instructions only when the source machine's calls
\* have overrun the memory.
LEMMA StrayRefines ==
  ASSUME SourceInvariant, Stray, ~ astray PROVE Source!Next
<1>1. /\ run = "running" /\ run' # "loading" /\ astray = FALSE /\ astray' = TRUE
      /\ UNCHANGED <<loaded, rip, regs, flagVars, stackVars>>
  BY DEF Stray, SourceInvariant, CourseInvariant
<1>2. Ready /\ RunInvariant /\ CourseInvariant
  <2>1. phase = "ready"
    BY <1>1 DEF SourceInvariant, CourseInvariant
  <2>2. QED
    BY <2>1, SourceReady DEF SourceInvariant, TypeInvariant
<1>3. /\ program \in Seq(SourceLine) /\ Regular(program) /\ Unfailed /\ Whole
      /\ WellOrdered(program) /\ DOMAIN program = 1..Len(program)
      /\ TextEnd \in Nat /\ TextEnd <= DataStart /\ DataStart \in Nat
  BY <1>2, ReadyProgram
<1>4. BranchesAddressed
  <2>1. SUFFICES ASSUME NEW i \in DOMAIN code, code[i].form \in BranchForms
                 PROVE  code[i].dest < AddressSize
    BY DEF BranchesAddressed
  <2>2. /\ code[i].line \in DOMAIN program
        /\ program[code[i].line].what \in BranchForms
        /\ program[code[i].line].kind = "instr"
    BY <1>2, <2>1, ReadyCode
  <2> DEFINE s == Lower[program[code[i].line].name]
  <2>3. PICK j \in DOMAIN program : TextLabel(program, j, s)
    BY <1>3, <2>2, RegularLine
  <2>4. s \in Names
    <3>1. program[code[i].line] \in SourceLine
      BY <1>3, <2>2
    <3>2. program[code[i].line].name \in Names
      BY <2>2, <3>1 DEF SourceLine, SymbolicForms
    <3>3. QED
      BY <3>2, AssemblerAssumption
  <2>5. code[i].dest = symbols[s]
    <3>1. BranchesLead
      BY <1>2 DEF Ready, Assembled
    <3>2. QED
      BY <2>1, <3>1 DEF BranchesLead
  <2> HIDE DEF s
  <2>6. symbols[s] \in Nat /\ symbols[s] <= TextEnd
    BY <1>2, <2>3, <2>4, LabelPlace
  <2>7. QED
    BY <1>3, <2>5, <2>6, SimulatorAssumption, AssemblerAssumption
<1>5. OnTrack
  BY <1>3, <1>4 DEF OnTrack, Unfailed, Whole
<1>6. rsp < TextEnd
  BY <1>2, <1>5, StraysOverwritten
<1>7. rsp \in Nat /\ rsp % 8 = 0 /\ StackBottom \in Nat /\ StackBottom % 8 = 0
      /\ DataStart < StackBottom
  BY <1>1, <1>2, SimulatorAssumption, AssemblerAssumption
  DEF RunInvariant, WrapInvariant, StackFilled
<1>8. (StackBottom - rsp) \div 8 > (StackBottom - DataStart) \div 8
  BY <1>3, <1>6, <1>7
<1>9. Len(CallsNow) = (StackBottom - rsp) \div 8
  <2> DEFINE n == (StackBottom - rsp) \div 8
  <2>1. n \in Nat
    BY <1>3, <1>6, <1>7
  <2>2. CallsNow \in [1..n -> Nat]
    <3>1. \A a : LineAt(a) \in Nat
      BY <1>2, LineType DEF Ready
    <3>2. QED
      BY <3>1 DEF CallsNow
  <2> HIDE DEF n
  <2>3. Len(CallsNow) = n
    BY <2>1, <2>2
  <2>4. QED
    BY <2>3 DEF n
<1>10. UNCHANGED <<program, FlagsNow, CallsNow>>
  BY <1>1, CallsKept DEF loaded, secondVars, stackVars, flagVars, FlagsNow
<1>11. UNCHANGED PcNow
  <2>1. PcNow' = LineAt(rip) /\ PcNow = LineAt(rip)
    BY <1>1, PcMoves DEF PcNow, loaded, secondVars
  <2>2. QED
    BY <2>1
<1>12. QED
  BY <1>1, <1>8, <1>9, <1>10, <1>11, SourceOverrun

\* A run starts at the line the source machine starts at.
LEMMA FromIs ==
  \A p, k : Source!From(p, k) =
              IF Onwards(p, k) = {} THEN Len(p) + 1 ELSE Min(Onwards(p, k))
BY DEF Source!From, Source!Min, Min, Onwards

LEMMA EntryIs == \A p : EntryLine(p) = Source!Entry(p)
<1> TAKE p
<1> DEFINE entries == Source!Labels(p, EntryPoint)
           first   == IF entries = {} THEN 1 ELSE CHOOSE k \in entries : TRUE
<1>1. entries = {k \in DOMAIN p : p[k].label # NoName /\ Lower[p[k].label] = EntryPoint}
  BY DEF Source!Labels
<1>2. EntryLine(p) =
        IF Onwards(p, first) = {} THEN Len(p) + 1 ELSE Min(Onwards(p, first))
  BY <1>1 DEF EntryLine
<1>3. Source!Entry(p) = IF entries = {} THEN Source!From(p, 1)
                        ELSE Source!From(p, CHOOSE k \in entries : TRUE)
  BY DEF Source!Entry, Source!At
<1> HIDE DEF entries
<1>4. Source!Entry(p) = Source!From(p, first)
  BY <1>3
<1> HIDE DEF first
<1>5. Source!From(p, first) =
        IF Onwards(p, first) = {} THEN Len(p) + 1 ELSE Min(Onwards(p, first))
  BY FromIs
<1>6. QED
  BY <1>2, <1>4, <1>5

LEMMA StartLine ==
  ASSUME SourceInvariant, run = "loading", phase = "ready"
  PROVE  LineAt(rip) = EntryLine(program)
<1>1. Ready /\ Regular(program) /\ Bound /\ EntryPoint \in Names
  BY SourceReady, AssemblerAssumption DEF Ready, Assembled
<1>2. rip = IF symbols[EntryPoint] = Unbound THEN TextStart ELSE symbols[EntryPoint]
  BY DEF SourceInvariant, EntryKept, Generated
<1>3. Len(placed) = Len(program) + 1 /\ Len(program) \in Nat
      /\ DOMAIN program = 1..Len(program)
  BY <1>1, ReadyProgram
<1>4. \A j \in DOMAIN program :
        Defines(program, j, EntryPoint) => TextLabel(program, j, EntryPoint)
  BY <1>1 DEF Regular, Written
<1>5. CASE Source!Labels(program, EntryPoint) = {}
  <2>1. symbols[EntryPoint] = Unbound
    <3>1. SUFFICES ASSUME symbols[EntryPoint] # Unbound PROVE FALSE
      OBVIOUS
    <3>2. PICK j \in 1..(Len(placed) - 1) : Defines(program, j, EntryPoint)
      BY <1>1, <3>1 DEF Bound
    <3>3. j \in DOMAIN program
      BY <1>3
    <3>4. TextLabel(program, j, EntryPoint)
      BY <1>4, <3>2, <3>3
    <3>5. j \in Source!Labels(program, EntryPoint)
      BY <3>3, <3>4 DEF Source!Labels, TextLabel
    <3>6. QED
      BY <1>5, <3>5
  <2>2. placed[1] = TextStart /\ 1 \in 1..(Len(program) + 1)
    BY <1>1, <1>3 DEF Ready, LabelInvariant, PlacedInOrder
  <2>3. LineAt(rip) = Source!From(program, 1)
    BY <1>1, <1>2, <2>1, <2>2, PlaceLine
  <2>4. QED
    BY <1>5, <2>3, EntryIs DEF Source!Entry
<1>6. CASE Source!Labels(program, EntryPoint) # {}
  <2>1. PICK k : k \in Source!Labels(program, EntryPoint)
    BY <1>6
  <2>2. k \in DOMAIN program /\ Defines(program, k, EntryPoint)
    BY <2>1 DEF Source!Labels, Defines
  <2>3. TextLabel(program, k, EntryPoint)
    BY <1>4, <2>2
  <2>4. /\ symbols[EntryPoint] \in Nat
        /\ LineAt(symbols[EntryPoint]) = Source!At(program, EntryPoint)
    BY <1>1, <2>2, <2>3, LabelPlace
  <2>5. rip = symbols[EntryPoint]
    BY <1>2, <2>4 DEF Unbound
  <2>6. QED
    BY <1>6, <2>4, <2>5, EntryIs DEF Source!Entry
<1>7. QED
  BY <1>5, <1>6

LEMMA LoadLoading ==
  ASSUME CourseInvariant, Load PROVE run = "loading" /\ run' = "loading"
<1>1. phase \notin {"ready", "spinning", "threw"}
  BY DEF Load, FirstPass, SkipOrLabel, SwitchSection, RejectSection, DefineData,
         DataOverflow, DefineOther, ReserveBss, ReserveThrows, ReserveQuad, Misplaced, SizeText,
         EndFirst, InFirst, SecondPass, GenerateLine, TextOverflow, Install,
         Decoding, Sweep, SweepInside, EndSweep
<1>2. run' = run
  BY DEF Load, cpuVars
<1>3. QED
  BY <1>1, <1>2 DEF CourseInvariant

LEMMA ProgramKept == ASSUME [Next]_vars PROVE program' = program
BY DEF Next, FirstPass, SkipOrLabel, SwitchSection, RejectSection, DefineData,
       DataOverflow, DefineOther, ReserveBss, ReserveThrows, ReserveQuad, Misplaced, SizeText,
       Reserve, EndFirst, SecondPass, GenerateLine, TextOverflow, Install,
       Decoding, Sweep, SweepInside, EndSweep, Rest, vars

LEMMA LoadStutters ==
  ASSUME SourceInvariant, Load PROVE UNCHANGED Source!vars
<1>1. run = "loading" /\ run' = "loading" /\ UNCHANGED cpuVars
  BY LoadLoading DEF SourceInvariant, Load
<1>2. program' = program
  BY LoadStep, ProgramKept
<1>3. UNCHANGED PcNow
  BY <1>1, <1>2 DEF PcNow, EntryLine, Onwards
<1>4. UNCHANGED <<regs, astray, FlagsNow>> /\ rsp' = StackBottom /\ rsp = StackBottom
  BY <1>1 DEF cpuVars, mode, flagVars, stackVars, FlagsNow, SourceInvariant
<1>5. UNCHANGED CallsNow
  <2>1. CallsNow = CallsIn(code, program, rsp, stack)
        /\ CallsNow' = CallsIn(code', program', rsp', stack')
    BY DEF CallsNow, CallsIn, LineAt, LineIn
  <2>2. QED
    BY <1>4, <2>1, NoCalls
<1>6. QED
  BY <1>1, <1>2, <1>3, <1>4, <1>5, SourceStutters

LEMMA StartStutters ==
  ASSUME SourceInvariant, Start PROVE UNCHANGED Source!vars
<1>1. /\ run = "loading" /\ phase = "ready" /\ run' = "running"
      /\ UNCHANGED <<loaded, rip, astray, regs, flagVars, stackVars>>
  BY DEF Start, mode
<1>2. UNCHANGED <<program, code>>
  BY <1>1 DEF loaded, secondVars
<1>3. PcNow' = LineAt(rip)
  BY <1>1, <1>2, PcMoves
<1>4. PcNow = EntryLine(program)
  BY <1>1 DEF PcNow
<1>5. UNCHANGED <<regs, FlagsNow, CallsNow>>
  BY <1>1, <1>2, CallsKept DEF flagVars, stackVars, FlagsNow
<1>6. QED
  BY <1>1, <1>2, <1>3, <1>4, <1>5, StartLine, SourceStutters

LEMMA EndStutters ==
  ASSUME \/ HeadlessEnd \/ StepBeyondEnd \/ Quit \/ CutShort \/ Unsupported
         \/ SourceInvariant /\ Stray /\ astray
  PROVE  UNCHANGED Source!vars
<1>1. /\ run = "running" /\ run' # "loading"
      /\ UNCHANGED <<loaded, rip, astray, regs, flagVars, stackVars>>
  BY DEF HeadlessEnd, StepBeyondEnd, Quit, CutShort, Unsupported, Fetches, cpuVars,
         mode, Stray, SourceInvariant, CourseInvariant
<1>2. UNCHANGED <<program, code>>
  BY <1>1 DEF loaded, secondVars
<1>3. PcNow' = LineAt(rip) /\ PcNow = LineAt(rip)
  BY <1>1, <1>2, PcMoves DEF PcNow
<1>4. UNCHANGED <<regs, FlagsNow, CallsNow>>
  BY <1>1, <1>2, CallsKept DEF flagVars, stackVars, FlagsNow
<1>5. QED
  BY <1>1, <1>2, <1>3, <1>4, SourceStutters

LEMMA HaltStutters ==
  ASSUME UNCHANGED allVars PROVE UNCHANGED Source!vars
<1>1. UNCHANGED <<run, astray, rip, program, code, regs, zf, sf, cf, rsp, stack>>
  BY DEF allVars, vars, secondVars, sweepVars, cpuVars, mode, flagVars, stackVars
<1>2. UNCHANGED CallsNow
  BY <1>1, CallsKept
<1>3. UNCHANGED PcNow
  <2>1. CASE run = "loading"
    BY <1>1, <2>1 DEF PcNow, EntryLine, Onwards
  <2>2. CASE run # "loading"
    <3>1. PcNow' = LineAt(rip)
      BY <1>1, <2>2, PcMoves
    <3>2. QED
      BY <2>2, <3>1 DEF PcNow
  <2>3. QED
    BY <2>1, <2>2
<1>4. UNCHANGED FlagsNow
  BY <1>1 DEF FlagsNow
<1>5. QED
  BY <1>1, <1>2, <1>3, <1>4 DEF Source!vars, PcNow, FlagsNow, CallsNow

LEMMA RunRefines ==
  ASSUME SourceInvariant, [RunNext]_allVars PROVE [Source!Next]_Source!vars
<1>1. CASE Load
  BY <1>1, LoadStutters
<1>2. CASE Start \/ HeadlessEnd \/ StepBeyondEnd \/ Quit \/ CutShort \/ Unsupported
  BY <1>2, StartStutters, EndStutters
<1>3. CASE Move \/ Add \/ Compare \/ Xor
  BY <1>3, MoveRefines, AddRefines, CompareRefines, XorRefines
<1>4. CASE Jump \/ Branch \/ Call \/ System \/ Stray
  BY <1>4, JumpRefines, CallRefines, SystemRefines, StrayRefines, EndStutters
<1>5. CASE UNCHANGED allVars
  BY <1>5, HaltStutters
<1>6. QED
  BY <1>1, <1>2, <1>3, <1>4, <1>5 DEF RunNext, RunProgram, Execute, Halted

LEMMA SourceStep ==
  ASSUME SourceInvariant, [RunNext]_allVars PROVE SourceInvariant'
<1>1. TypeInvariant' /\ TypeInvariant /\ CourseInvariant /\ Assembled
  BY TypeInvariantStep DEF SourceInvariant
<1>2. CourseInvariant'
  BY <1>1, CourseStep DEF TypeInvariant
<1>3. CASE Load
  <2>1. run = "loading" /\ run' = "loading" /\ [Next]_vars /\ UNCHANGED cpuVars
    BY <1>1, <1>3, LoadLoading, LoadStep
  <2>2. /\ TypeOK /\ TypeOK' /\ LabelInvariant /\ LabelInvariant' /\ ControlInvariant
        /\ CodeOfLines
    BY <1>1, <1>2, <2>1 DEF TypeInvariant, RunInvariant, CourseInvariant
  <2>3. Assembled'
    BY <1>1, <2>1, <2>2, AssembledStep
  <2>4. rsp' = StackBottom /\ EntryKept'
    BY <2>1, EntryStep DEF SourceInvariant, cpuVars, stackVars
  <2>5. QED
    BY <1>1, <1>2, <2>1, <2>3, <2>4 DEF SourceInvariant
<1>4. CASE RunProgram
  <2>1. UNCHANGED loaded /\ run' # "loading"
    BY <1>1, <1>4, RipMoves DEF TypeInvariant, Start
  <2>2. UNCHANGED <<program, phase, line, firstOk, symbols, placed, code>>
    BY <2>1 DEF loaded, firstVars, secondVars
  <2>3. Assembled'
    <3>1. Listed' = Listed /\ BranchesLead' = BranchesLead
      BY <2>2 DEF Listed, BranchesLead
    <3>2. Bound' = Bound
      BY <2>2 DEF Bound
    <3>3. QED
      BY <1>1, <2>2, <3>1, <3>2 DEF Assembled
  <2>4. phase = "ready"
    BY <1>1, <1>4, RipMoves DEF TypeInvariant, Start, CourseInvariant
  <2>5. line > Len(program)
    BY <2>4, SourceReady DEF Ready
  <2>6. QED
    BY <1>1, <1>2, <2>1, <2>2, <2>3, <2>5 DEF SourceInvariant
<1>5. CASE UNCHANGED allVars
  <2>1. UNCHANGED <<program, phase, line, firstOk, symbols, placed, code, run, rip, rsp>>
    BY <1>5 DEF allVars, vars, firstVars, secondVars, sweepVars, cpuVars, stackVars
  <2>2. Assembled'
    <3>1. Listed' = Listed /\ BranchesLead' = BranchesLead
      BY <2>1 DEF Listed, BranchesLead
    <3>2. Bound' = Bound
      BY <2>1 DEF Bound
    <3>3. QED
      BY <1>1, <2>1, <3>1, <3>2 DEF Assembled
  <2>3. EntryKept' = EntryKept
    BY <2>1 DEF EntryKept, Generated
  <2>4. QED
    BY <1>1, <1>2, <2>1, <2>2, <2>3 DEF SourceInvariant
<1>6. QED
  BY <1>3, <1>4, <1>5 DEF RunNext, Halted

LEMMA ProgramStays == ASSUME [RunNext]_allVars PROVE program' = program
<1>1. CASE Load
  BY <1>1, LoadStep, ProgramKept
<1>2. CASE RunProgram
  BY <1>2
  DEF RunProgram, Execute, Start, HeadlessEnd, StepBeyondEnd, Quit, Move, Add,
      Compare, Xor, Jump, Branch, Call, System, Unsupported, CutShort, Stray, loaded
<1>3. CASE UNCHANGED allVars
  BY <1>3 DEF allVars, vars
<1>4. QED
  BY <1>1, <1>2, <1>3 DEF RunNext, Halted

LEMMA PowerOnSource ==
  ASSUME PowerOn, Regular(program) PROVE SourceInvariant /\ Source!Init
<1>1. /\ Init /\ run = "loading" /\ rsp = StackBottom /\ DOMAIN stack = {}
      /\ astray = FALSE
      /\ zf = FALSE /\ sf = FALSE /\ cf = FALSE /\ regs = [r \in Registers |-> 0]
  BY DEF PowerOn
<1>2. TypeInvariant /\ LabelInvariant /\ SweepInvariant /\ ControlInvariant
  BY <1>1, PowerOnTypes, InitPlaces, InitSwept, InitControl
<1>3. CourseInvariant
  BY <1>1, <1>2 DEF CourseInvariant, ControlStays
<1>4. Assembled /\ EntryKept
  <2>1. /\ phase = "first" /\ firstOk = TRUE /\ code = <<>>
        /\ symbols = [n \in Names |-> Unbound]
    BY <1>1 DEF Init
  <2>2. DOMAIN code = {}
    BY <2>1
  <2>3. Listed /\ Bound /\ BranchesLead
    BY <2>1, <2>2 DEF Listed, Bound, BranchesLead
  <2>4. QED
    BY <2>1, <2>3 DEF Assembled, EntryKept, Generated
<1>5. SourceInvariant
  BY <1>1, <1>2, <1>3, <1>4 DEF SourceInvariant
<1>6. CallsNow = << >>
  <2>1. CallsNow = CallsIn(code, program, rsp, stack)
    BY DEF CallsNow, CallsIn, LineAt, LineIn
  <2>2. QED
    BY <1>1, <2>1, NoCalls
<1>7. PcNow = Source!Entry(program)
  BY <1>1, EntryIs DEF PcNow
<1>8. FlagsNow = [zero |-> FALSE, sign |-> FALSE, carry |-> FALSE]
  BY <1>1 DEF FlagsNow
<1>9. program \in Programs /\ astray = FALSE
  BY <1>1 DEF Init
<1>10. Source!Init
  BY <1>1, <1>6, <1>7, <1>8, <1>9 DEF Source!Init, PcNow, FlagsNow, CallsNow
<1>11. QED
  BY <1>5, <1>10

\* Assembled, loaded and run, a regular file does what its lines say: the two
\* passes, the decoder and the handlers together implement the source machine,
\* for every regular file, layout, word size and set of registers.
THEOREM FilesRunAsWritten == RunSpec => RunsAsWritten
<1> DEFINE Faithful == Regular(program) => SourceInvariant
<1>1. PowerOn => Faithful /\ (Regular(program) => Source!Init)
  BY PowerOnSource
<1>2. Faithful /\ [RunNext]_allVars
      => Faithful' /\ [Regular(program) => Source!Next]_Source!vars
  <2>1. SUFFICES ASSUME Faithful, [RunNext]_allVars
                 PROVE  Faithful' /\ [Regular(program) => Source!Next]_Source!vars
    OBVIOUS
  <2>2. Regular(program)' = Regular(program)
    BY <2>1, ProgramStays
  <2>3. CASE Regular(program)
    <3>1. SourceInvariant
      BY <2>1, <2>3
    <3>2. SourceInvariant' /\ [Source!Next]_Source!vars
      BY <2>1, <3>1, SourceStep, RunRefines
    <3>3. QED
      BY <3>2
  <2>4. CASE ~ Regular(program)
    BY <2>2, <2>4
  <2>5. QED
    BY <2>3, <2>4
<1>3. QED
  BY <1>1, <1>2, PTL DEF RunSpec, RunsAsWritten

=============================================================================
