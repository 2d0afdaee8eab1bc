--------------------------- MODULE SimulatorProofs ---------------------------
(***************************************************************************)
(* For every source file, memory layout and word size: no call that the    *)
(* generator emitted writes outside the memory, and control stays with the *)
(* instructions until calls have filled the memory down to the code.       *)
(***************************************************************************)
EXTENDS SimulatorProperties, AssemblerProofs, NumberProofs

\* The inductive invariant.
RunInvariant == TypeOK /\ WrapInvariant

LEMMA InstructionAt ==
  ASSUME TypeOK, NEW i \in DOMAIN code
  PROVE  /\ code[i] \in Instruction
         /\ code[i].at \in Int /\ code[i].len \in Nat /\ code[i].dest \in Int
<1>1. code[i] \in Instruction
  BY DEF TypeOK
<1>2. QED
  BY <1>1 DEF Instruction

-----------------------------------------------------------------------------
(* The load.                                                               *)

LEMMA LoadStep == ASSUME Load PROVE [Next]_vars /\ UNCHANGED cpuVars
BY DEF Load, Next

\* A load keeps the code within the text segment.
LEMMA LoadKeepsCode ==
  ASSUME RunInvariant, Load PROVE CodeInText'
<1>1. UNCHANGED run
  BY DEF Load, cpuVars
<1>2. code \in Seq(Instruction) /\ size \in Nat
  BY DEF RunInvariant, TypeOK
<1>3. ASSUME UNCHANGED <<code, size>>,
             phase' \in {"sweep", "ready", "spinning"} => TextEnd <= DataStart,
             phase = "ready" => phase' = "ready"
      PROVE  CodeInText'
  <2>1. TextEnd' = TextEnd /\ code' = code
    BY <1>3 DEF TextEnd
  <2>2. QED
    BY <2>1, <1>1, <1>3 DEF RunInvariant, WrapInvariant, CodeInText
<1>4. CASE FirstPass
  BY <1>4, <1>3
  DEF FirstPass, SkipOrLabel, SwitchSection, RejectSection, DefineData,
      DataOverflow, DefineOther, ReserveBss, ReserveThrows, ReserveQuad, Misplaced, SizeText,
      EndFirst, Reserve, InFirst, secondVars
<1>5. CASE GenerateLine
  <2> DEFINE n == Emitted(Here, symbols)
             i == [line |-> line, form |-> Here.what, at |-> TextStart + size,
                   len |-> n,
                   dest |-> Destination(Here, symbols, TextStart + size, genAddress),
                   name |-> Here.name]
  <2>1. n \in Nat
    BY BytesType DEF Emitted
  <2>2. /\ code' = IF n = 0 THEN code ELSE Append(code, i)
        /\ size' = size + n
        /\ phase' = phase /\ phase = "second"
    BY <1>5 DEF GenerateLine
  <2>3. i.at = TextStart + size /\ i.len = n
    OBVIOUS
  <2> HIDE DEF n, i
  <2>4. ASSUME NEW j \in DOMAIN code'
        PROVE  /\ TextStart <= code'[j].at /\ 0 < code'[j].len
               /\ code'[j].at + code'[j].len <= TextEnd'
    <3>1. CASE j \in DOMAIN code
      <4>1. code'[j] = code[j]
        BY <2>2, <3>1, <1>2
      <4>2. /\ code[j].at \in Int /\ code[j].len \in Nat
        BY <3>1, InstructionAt DEF RunInvariant
      <4>3. /\ TextStart <= code[j].at /\ 0 < code[j].len
            /\ code[j].at + code[j].len <= TextStart + size
        BY <3>1 DEF RunInvariant, WrapInvariant, CodeInText, TextEnd
      <4>4. QED
        BY <4>1, <4>2, <4>3, <2>1, <2>2, <1>2, AssemblerAssumption DEF TextEnd
    <3>2. CASE j \notin DOMAIN code
      <4>1. code'[j] = i /\ n # 0
        BY <2>2, <3>2, <1>2
      <4>2. QED
        BY <4>1, <2>1, <2>2, <2>3, <1>2, AssemblerAssumption DEF TextEnd
    <3>3. QED
      BY <3>1, <3>2
  <2>5. QED
    BY <2>2, <2>4, <1>1 DEF CodeInText, RunInvariant, WrapInvariant
<1>6. CASE TextOverflow \/ Install
  BY <1>6, <1>3 DEF TextOverflow, Install, TextEnd, secondVars
<1>7. CASE Decoding
  <2>1. ASSUME NEW n, Decode(n), phase = "sweep"
        PROVE  phase' \in {"sweep", "spinning", "threw"}
    BY <2>1 DEF Decode
  <2>2. phase = "sweep" /\ TextEnd <= DataStart
    BY <1>7 DEF Decoding, Sweep, SweepInside, EndSweep, RunInvariant,
                WrapInvariant, CodeInText
  <2>3. UNCHANGED <<code, size>>
    BY <1>7 DEF Decoding, Sweep, SweepInside, EndSweep, secondVars
  <2>4. QED
    BY <2>2, <2>3, <1>3
<1>8. QED
  BY <1>4, <1>5, <1>6, <1>7 DEF Load, SecondPass

-----------------------------------------------------------------------------
(* The run.                                                                *)

\* The instruction at rip is one of those the second pass emitted.
LEMMA CurrentType ==
  ASSUME TypeOK, Fetched # {}
  PROVE  /\ Current \in Instruction /\ Current.at = rip
         /\ \E i \in DOMAIN code : Current = code[i] /\ ~ Overwritten(code[i])
<1>1. PICK i \in Fetched : i = CHOOSE k \in Fetched : TRUE
  OBVIOUS
<1>2. i \in DOMAIN code /\ Current = code[i]
  BY <1>1 DEF Fetched, Current
<1>3. Current.at = rip /\ ~ Overwritten(code[i])
  BY <1>1, <1>2 DEF Fetched
<1>4. QED
  BY <1>2, <1>3, InstructionAt

\* A result of %, for every modulus a word or an address can have.
LEMMA ModType == \A a \in Int, m \in Nat \ {0} : a % m \in Nat
OBVIOUS

LEMMA NextType ==
  ASSUME TypeOK, Fetched # {} PROVE NextRip \in Nat /\ Target \in Nat
<1>1. Current.dest \in Int
  BY CurrentType DEF Instruction
<1>2. Target \in Nat
  BY <1>1, ModType, SimulatorAssumption, AssemblerAssumption DEF Target
<1>3. QED
  BY <1>2, DecodedType DEF NextRip, TypeOK

LEMMA FinishType ==
  ASSUME TypeOK, Fetched # {}, NEW target \in Nat, Finish(target)
  PROVE  rip' \in Nat /\ run' \in {"ended", run}
BY NextType DEF Finish

\* A call that is fetched finds room: were the stack full, it would lie over
\* the call itself.
LEMMA CallFindsRoom ==
  ASSUME RunInvariant, Fetched # {}, run = "running", ~ astray PROVE 8 <= rsp
<1>1. PICK i \in DOMAIN code : Current = code[i] /\ ~ Overwritten(code[i])
  BY CurrentType DEF RunInvariant
<1> DEFINE at == code[i].at
           slot == at - (at % 8)
<1>2. at \in Int /\ code[i].len \in Nat
  BY InstructionAt DEF RunInvariant
<1>3. /\ 0 <= at /\ 0 < code[i].len
      /\ at + code[i].len <= TextEnd /\ TextEnd <= DataStart
  BY <1>2, AssemblerAssumption DEF RunInvariant, WrapInvariant, CodeInText
<1>4. TextEnd \in Nat /\ DataStart < StackBottom /\ StackBottom \in Nat
  BY AssemblerAssumption, SimulatorAssumption DEF RunInvariant, TypeOK, TextEnd
<1>5. at < StackBottom
  BY <1>2, <1>3, <1>4, AssemblerAssumption
<1>6. rsp \in Nat /\ rsp % 8 = 0
  BY <1>4 DEF RunInvariant, WrapInvariant, StackFilled
<1> HIDE DEF at
<1>7. slot \in Nat /\ slot % 8 = 0 /\ slot <= at /\ at < slot + 8
  BY <1>2, <1>3
<1> HIDE DEF slot
<1>8. rsp = 0 => slot \in DOMAIN stack
  <2>1. slot <= StackBottom - 1
    BY <1>2, <1>4, <1>5, <1>7
  <2>2. QED
    BY <1>4, <1>7, <2>1 DEF RunInvariant, WrapInvariant, StackFilled
<1>9. slot \notin DOMAIN stack
  <2>1. slot < at + code[i].len
    BY <1>2, <1>3, <1>7
  <2>2. QED
    BY <1>1, <1>7, <2>1 DEF Overwritten, at
<1>10. QED
  BY <1>6, <1>8, <1>9

\* A call writes the slot below rsp, and nothing else happens to the stack.
LEMMA CallFillsStack ==
  ASSUME RunInvariant, Call
  PROVE  /\ StackFilled' /\ NeverWraps'
         /\ rip' \in Nat /\ run' \in {"ended", run}
<1>1. run = "running" /\ Fetched # {} /\ ~ astray /\ TypeOK
  BY DEF Call, Fetches, RunInvariant
<1>2. 8 <= rsp
  BY <1>1, CallFindsRoom
<1>3. rsp \in Nat /\ rsp <= StackBottom /\ StackBottom \in Nat /\ rsp % 8 = 0
  BY <1>1, SimulatorAssumption, AssemblerAssumption DEF RunInvariant, WrapInvariant, StackFilled
<1>4. rsp' = rsp - 8
  <2>1. rsp - 8 \in Nat /\ rsp - 8 < AddressSize /\ AddressSize \in Nat
    BY <1>2, <1>3, SimulatorAssumption
  <2>2. QED
    BY <2>1, ModSmall DEF Call
<1>5. DOMAIN stack' = DOMAIN stack \cup {rsp'} /\ Finish(Target)
  BY <1>3, <1>4 DEF Call
<1>6. StackFilled'
  <2>1. rsp' \in 0..StackBottom /\ rsp' % 8 = 0
    BY <1>2, <1>3, <1>4
  <2>2. ASSUME NEW a \in rsp'..(StackBottom - 1), a % 8 = 0
        PROVE  a \in DOMAIN stack'
    <3>1. a = rsp' \/ a \in rsp..(StackBottom - 1)
      BY <2>2, <1>2, <1>3, <1>4
    <3>2. QED
      BY <3>1, <2>2, <1>1, <1>5 DEF RunInvariant, WrapInvariant, StackFilled
  <2>3. QED
    BY <2>1, <2>2 DEF StackFilled
<1>7. rip' \in Nat /\ run' \in {"ended", run}
  BY <1>1, <1>5, NextType, FinishType
<1>8. QED
  BY <1>1, <1>6, <1>7 DEF NeverWraps

\* The other steps of a run leave the stack and the loaded program alone.
LEMMA OtherRunStep ==
  ASSUME RunInvariant, RunProgram, ~ Call
  PROVE  /\ UNCHANGED <<loaded, stackVars>>
         /\ rip' \in Nat
         /\ run' = "running" => run = "running" \/ phase = "ready"
         /\ NeverWraps'
<1> USE DEF NeverWraps
<1>1. TypeOK /\ rip \in Nat /\ StackBottom \in Nat
  BY SimulatorAssumption, AssemblerAssumption DEF RunInvariant, TypeOK
<1>2. CASE Start \/ HeadlessEnd \/ StepBeyondEnd \/ Quit
  BY <1>1, <1>2 DEF Start, HeadlessEnd, StepBeyondEnd, Quit, stackVars
<1>3. CASE Unsupported \/ CutShort \/ Stray
  BY <1>1, <1>3 DEF Unsupported, CutShort, Stray, Fetches, cpuVars, stackVars
<1>4. ASSUME run = "running", Fetched # {}, NEW target \in Nat, Finish(target)
      PROVE  rip' \in Nat /\ run' \in {"ended", "running"}
  BY <1>1, <1>4, FinishType
<1>5. CASE Move
  <2>1. run = "running" /\ Fetched # {} /\ UNCHANGED <<loaded, stackVars>>
    BY <1>5 DEF Move, Fetches
  <2>2. (run' = "faulted" /\ rip' = rip) \/ Finish(rip)
    BY <1>5 DEF Move
  <2>3. QED
    BY <1>1, <1>4, <2>1, <2>2
<1>6. CASE Add \/ Compare \/ Xor
  <2>1. /\ run = "running" /\ Fetched # {} /\ UNCHANGED <<loaded, stackVars>>
        /\ Finish(rip)
    BY <1>6 DEF Add, Compare, Xor, Fetches
  <2>2. QED
    BY <1>1, <1>4, <2>1
<1>7. CASE Jump \/ Branch
  <2>1. /\ run = "running" /\ Fetched # {} /\ UNCHANGED <<loaded, stackVars>>
        /\ Finish(Target) \/ Finish(rip)
    BY <1>7 DEF Jump, Branch, Fetches
  <2>2. Target \in Nat
    BY <1>1, <2>1, NextType
  <2>3. QED
    BY <1>1, <1>4, <2>1, <2>2
<1>8. CASE System
  <2>1. /\ run = "running" /\ Fetched # {} /\ UNCHANGED <<loaded, stackVars>>
        /\ Finish(StackBottom) \/ Finish(rip)
    BY <1>8 DEF System, Fetches
  <2>2. QED
    BY <1>1, <1>4, <2>1
<1>9. QED
  BY <1>2, <1>3, <1>5, <1>6, <1>7, <1>8 DEF RunProgram, Execute

\* What a step of the run leaves alone keeps its type.
LEMMA LoadedKeepsType ==
  ASSUME TypeOK, UNCHANGED loaded, rip' \in Nat PROVE TypeOK'
BY DEF TypeOK, loaded, firstVars, secondVars

LEMMA LoadedKeepsCode ==
  ASSUME RunInvariant, UNCHANGED loaded,
         run' = "running" => run = "running" \/ phase = "ready"
  PROVE  CodeInText'
<1>1. code' = code /\ TextEnd' = TextEnd /\ phase' = phase
  BY DEF loaded, secondVars, TextEnd
<1>2. QED
  BY <1>1 DEF RunInvariant, WrapInvariant, CodeInText

\* A run that has gone astray stays so.
LEMMA AstrayStays == ASSUME RunProgram PROVE astray => astray'
<1>1. SUFFICES ASSUME astray PROVE astray'
  OBVIOUS
<1>2. Start \/ Quit \/ Stray
  BY <1>1 DEF RunProgram, Execute, HeadlessEnd, StepBeyondEnd, Unsupported, CutShort,
         Move, Add, Compare, Xor, Jump, Branch, Call, System, Fetches
<1>3. QED
  BY <1>1, <1>2 DEF Start, Quit, Stray, mode

LEMMA StackKept ==
  ASSUME RunInvariant, UNCHANGED stackVars, astray => astray' PROVE StackFilled'
BY DEF RunInvariant, WrapInvariant, StackFilled, stackVars

-----------------------------------------------------------------------------
LEMMA PowerOnInvariant == ASSUME PowerOn PROVE RunInvariant
<1>1. Init /\ run = "loading" /\ rsp = StackBottom
  BY DEF PowerOn
<1>2. TypeOK
  BY <1>1, TypeInit
<1>3. CodeInText
  BY <1>1 DEF Init, CodeInText
<1>4. StackFilled
  BY <1>1, SimulatorAssumption, AssemblerAssumption DEF StackFilled
<1>5. QED
  BY <1>1, <1>2, <1>3, <1>4 DEF RunInvariant, WrapInvariant, NeverWraps

LEMMA RunStep ==
  ASSUME RunInvariant, [RunNext]_allVars PROVE RunInvariant'
<1>1. CASE Load
  <2>1. TypeOK'
    BY <1>1, LoadStep, TypeStep DEF RunInvariant
  <2>2. CodeInText'
    BY <1>1, LoadKeepsCode
  <2>3. UNCHANGED <<stackVars, run, astray>>
    BY <1>1, LoadStep DEF cpuVars, mode
  <2>4. StackFilled' /\ NeverWraps'
    BY <2>3, StackKept DEF RunInvariant, WrapInvariant, NeverWraps
  <2>5. QED
    BY <2>1, <2>2, <2>4 DEF RunInvariant, WrapInvariant
<1>2. CASE Call
  <2>1. UNCHANGED loaded /\ run = "running"
    BY <1>2 DEF Call, Fetches
  <2>2. StackFilled' /\ NeverWraps' /\ rip' \in Nat
    BY <1>2, CallFillsStack
  <2>3. TypeOK' /\ CodeInText'
    BY <2>1, <2>2, LoadedKeepsType, LoadedKeepsCode DEF RunInvariant
  <2>4. QED
    BY <2>2, <2>3 DEF RunInvariant, WrapInvariant
<1>3. CASE RunProgram /\ ~ Call
  <2>1. /\ UNCHANGED <<loaded, stackVars>> /\ rip' \in Nat
        /\ run' = "running" => run = "running" \/ phase = "ready"
        /\ NeverWraps'
    BY <1>3, OtherRunStep
  <2>2. TypeOK' /\ CodeInText' /\ StackFilled'
    BY <1>3, <2>1, AstrayStays, LoadedKeepsType, LoadedKeepsCode, StackKept
    DEF RunInvariant
  <2>3. QED
    BY <2>1, <2>2 DEF RunInvariant, WrapInvariant
<1>4. CASE UNCHANGED allVars
  <2>1. UNCHANGED <<loaded, rip, stackVars, run, astray>>
    BY <1>4 DEF allVars, vars, sweepVars, cpuVars, mode, loaded
  <2>2. rip' \in Nat /\ NeverWraps'
    BY <2>1 DEF RunInvariant, TypeOK, WrapInvariant, NeverWraps
  <2>3. TypeOK' /\ CodeInText' /\ StackFilled'
    BY <2>1, <2>2, LoadedKeepsType, LoadedKeepsCode, StackKept DEF RunInvariant
  <2>4. QED
    BY <2>2, <2>3 DEF RunInvariant, WrapInvariant
<1>5. QED
  BY <1>1, <1>2, <1>3, <1>4 DEF RunNext, Halted

\* The inductive invariant: what a load leaves behind lies in the text
\* segment, and calls have filled every slot from rsp to the end of memory.
THEOREM StackFillsDown == RunSpec => []WrapInvariant
<1>1. PowerOn => RunInvariant
  BY PowerOnInvariant
<1>2. RunInvariant /\ [RunNext]_allVars => RunInvariant'
  BY RunStep
<1>3. RunInvariant => WrapInvariant
  BY DEF RunInvariant
<1>4. QED
  BY <1>1, <1>2, <1>3, PTL DEF RunSpec

\* An emitted call (handle_ir_call) never has its return address written below
\* zero, where Memory::check_bounds would let it pass: the slots above lie over
\* the call by then, and what is executed there is another instruction.
THEOREM CallsStayInMemory == RunSpec => []NeverWraps
<1>1. WrapInvariant => NeverWraps
  BY DEF WrapInvariant
<1>2. QED
  BY <1>1, StackFillsDown, PTL

\* The load's variables keep their types while the program runs.
THEOREM RunKeepsTypes == RunSpec => []TypeOK
<1>1. PowerOn => RunInvariant
  BY PowerOnInvariant
<1>2. RunInvariant /\ [RunNext]_allVars => RunInvariant'
  BY RunStep
<1>3. RunInvariant => TypeOK
  BY DEF RunInvariant
<1>4. QED
  BY <1>1, <1>2, <1>3, PTL DEF RunSpec

-----------------------------------------------------------------------------
(* The course of a run: from an instruction control only goes to another   *)
(* one or to the end, and only calls write over what lies there.           *)

\* The files and layouts ControlStays is about.
OnTrack ==
  /\ firstOk /\ WellOrdered(program)
  /\ ~ Uses(program, TruncatedForms) /\ BranchesAddressed

\* Where control may be: at an instruction, or behind the text.
InPlace(a) == a < DataStart => a \in Starts \cup {TextEnd}

CourseInvariant ==
  /\ LabelInvariant /\ SweepInvariant
  /\ astray \in BOOLEAN
  /\ run = "loading" => ControlInvariant /\ ~ astray
  /\ run # "loading" =>
       /\ phase = "ready"
       /\ OnTrack =>
            /\ InPlace(rip)
            /\ \A i \in DOMAIN code :
                 code[i].form \in BranchForms => InPlace(code[i].dest)
  /\ \A a \in DOMAIN stack : a \in Nat /\ rsp <= a
  /\ ControlStays

\* What a step of the run leaves alone keeps the load's invariants.
LEMMA LoadedKeepsPlaces ==
  ASSUME TypeOK, LabelInvariant, SweepInvariant, UNCHANGED loaded
  PROVE  /\ LabelInvariant' /\ SweepInvariant'
         /\ Starts' = Starts /\ TextEnd' = TextEnd /\ OnTrack' = OnTrack
         /\ code' = code /\ phase' = phase
<1>1. UNCHANGED <<program, phase, line, firstOk, section, lc, symbols, placed,
                  code, size, genAddress, sweepAt, decoded>>
  BY DEF loaded, firstVars, secondVars
<1>2. LabelInvariant'
  BY <1>1, OtherStepPlaces
<1>3. Starts' = Starts /\ TextEnd' = TextEnd
  BY <1>1 DEF Starts, TextEnd
<1>4. SweepInvariant'
  BY <1>1, <1>3 DEF SweepInvariant, Whole, Tiled, Swept
<1>5. OnTrack' = OnTrack
  BY <1>1 DEF OnTrack, BranchesAddressed
<1>6. QED
  BY <1>1, <1>2, <1>3, <1>4, <1>5

\* The places a step can lead to.
LEMMA StepLands ==
  ASSUME RunInvariant, CourseInvariant, OnTrack, run = "running", Fetched # {}
  PROVE  /\ InPlace(NextRip) /\ InPlace(rip) /\ InPlace(StackBottom)
         /\ Current.form \in BranchForms => InPlace(Target)
<1>1. PICK i \in DOMAIN code : Current = code[i] /\ Current.at = rip
  BY CurrentType DEF RunInvariant
<1>2. /\ code[i].at \in Int /\ code[i].len \in Nat /\ code[i].dest \in Int
  BY InstructionAt DEF RunInvariant
<1>3. Tiled
  BY DEF CourseInvariant, SweepInvariant, OnTrack, Whole
<1>4. NextRip \in Starts \cup {TextEnd}
  BY <1>1, <1>3 DEF Tiled, NextRip
<1>5. InPlace(rip)
  BY DEF CourseInvariant
<1>6. InPlace(StackBottom)
  <2>1. ~ (StackBottom < DataStart)
    BY SimulatorAssumption, AssemblerAssumption
  <2>2. QED
    BY <2>1 DEF InPlace
<1>7. ASSUME Current.form \in BranchForms PROVE InPlace(Target)
  <2> DEFINE d == code[i].dest
  <2>1. InPlace(d) /\ d < AddressSize /\ Target = d % AddressSize
    BY <1>1, <1>7 DEF CourseInvariant, OnTrack, BranchesAddressed, Target
  <2>2. \A a \in Starts \cup {TextEnd} : a \in Int /\ 0 <= a
    <3>1. \A j \in DOMAIN code : code[j].at \in Int /\ TextStart <= code[j].at
      BY <1>3, InstructionAt DEF RunInvariant, Tiled
    <3>2. TextStart \in Nat /\ TextEnd \in Nat
      BY AssemblerAssumption DEF RunInvariant, TypeOK, TextEnd
    <3>3. QED
      BY <3>1, <3>2 DEF Starts
  <2>3. d \in Nat
    <3>1. CASE d < DataStart
      BY <2>1, <2>2, <3>1, <1>2 DEF InPlace
    <3>2. CASE ~ (d < DataStart)
      BY <3>2, <1>2, AssemblerAssumption
    <3>3. QED
      BY <3>1, <3>2
  <2>4. Target = d
    BY <2>1, <2>3, ModSmall, SimulatorAssumption
  <2>5. QED
    BY <2>1, <2>4
<1>8. QED
  BY <1>4, <1>5, <1>6, <1>7 DEF InPlace

\* The stack only grows, and never above the slots it has.
LEMMA StackAboveTop ==
  ASSUME RunInvariant, CourseInvariant, RunProgram
  PROVE  \A a \in DOMAIN stack' : a \in Nat /\ rsp' <= a
<1>1. CASE Call
  <2>1. run = "running" /\ Fetched # {} /\ ~ astray
    BY <1>1 DEF Call, Fetches
  <2>2. 8 <= rsp /\ rsp \in Nat /\ rsp <= StackBottom /\ StackBottom \in Nat
    BY <2>1, CallFindsRoom, SimulatorAssumption, AssemblerAssumption
    DEF RunInvariant, WrapInvariant, StackFilled
  <2>3. rsp' = rsp - 8
    <3>1. rsp - 8 \in Nat /\ rsp - 8 < AddressSize /\ AddressSize \in Nat
      BY <2>2, SimulatorAssumption
    <3>2. QED
      BY <1>1, <3>1, ModSmall DEF Call
  <2>4. DOMAIN stack' \subseteq DOMAIN stack \cup {rsp'}
    BY <1>1, <2>2, <2>3 DEF Call
  <2>5. QED
    BY <2>2, <2>3, <2>4 DEF CourseInvariant
<1>2. CASE ~ Call
  BY <1>2, OtherRunStep DEF CourseInvariant, stackVars
<1>3. QED
  BY <1>1, <1>2

\* Where rip goes, whatever the step.
LEMMA RipMoves ==
  ASSUME RunInvariant, RunProgram, ~ Start
  PROVE  /\ run = "running" /\ run' # "loading" /\ UNCHANGED loaded
         /\ \/ rip' = rip
            \/ /\ Fetched # {}
               /\ \/ rip' \in {NextRip, StackBottom}
                  \/ rip' = Target /\ Current.form \in BranchForms
<1>1. ASSUME run = "running", NEW target, Finish(target)
      PROVE  rip' \in {target, NextRip} /\ run' # "loading"
  BY <1>1 DEF Finish
<1>2. CASE HeadlessEnd \/ StepBeyondEnd \/ Quit
  BY <1>2 DEF HeadlessEnd, StepBeyondEnd, Quit
<1>3. CASE Unsupported \/ CutShort \/ Stray
  BY <1>3 DEF Unsupported, CutShort, Stray, cpuVars, Fetches
<1>4. CASE Move
  <2>1. run = "running" /\ Fetched # {} /\ UNCHANGED loaded
    BY <1>4 DEF Move, Fetches
  <2>2. (run' = "faulted" /\ rip' = rip) \/ Finish(rip)
    BY <1>4 DEF Move
  <2>3. QED
    BY <1>1, <2>1, <2>2
<1>5. CASE Add \/ Compare \/ Xor
  <2>1. run = "running" /\ Fetched # {} /\ UNCHANGED loaded /\ Finish(rip)
    BY <1>5 DEF Add, Compare, Xor, Fetches
  <2>2. QED
    BY <1>1, <2>1
<1>6. CASE Jump \/ Branch
  <2>1. /\ run = "running" /\ Fetched # {} /\ UNCHANGED loaded
        /\ Current.form \in {"jmp", "jne", "jge"}
        /\ Finish(Target) \/ Finish(rip)
    BY <1>6 DEF Jump, Branch, Fetches
  <2>2. {"jmp", "jne", "jge"} \subseteq BranchForms
    BY DEF BranchForms, JccForms, JccBytes, JumpBytes
  <2>3. QED
    BY <1>1, <2>1, <2>2
<1>7. CASE Call
  <2>1. /\ run = "running" /\ Fetched # {} /\ UNCHANGED loaded
        /\ Current.form = "call"
        /\ Finish(Target) \/ (rip' = rip /\ run' \in {"faulted", "undefined"})
    BY <1>7 DEF Call, Fetches
  <2>2. "call" \in BranchForms
    BY DEF BranchForms, JccForms, JccBytes, JumpBytes
  <2>3. QED
    BY <1>1, <2>1, <2>2
<1>8. CASE System
  <2>1. /\ run = "running" /\ Fetched # {} /\ UNCHANGED loaded
        /\ Finish(StackBottom) \/ Finish(rip)
    BY <1>8 DEF System, Fetches
  <2>2. QED
    BY <1>1, <2>1
<1>9. QED
  BY <1>2, <1>3, <1>4, <1>5, <1>6, <1>7, <1>8 DEF RunProgram, Execute

\* Only Stray takes a run off its course.
LEMMA OnlyStray ==
  ASSUME RunProgram, astray' # astray PROVE Stray
<1>1. ~ (Start \/ HeadlessEnd \/ StepBeyondEnd \/ Quit)
  BY DEF Start, HeadlessEnd, StepBeyondEnd, Quit, mode
<1>2. ~ (Unsupported \/ CutShort)
  BY DEF Unsupported, CutShort, cpuVars, mode
<1>3. ~ (Move \/ Add \/ Compare \/ Xor \/ Jump \/ Branch \/ Call \/ System)
  BY DEF Move, Add, Compare, Xor, Jump, Branch, Call, System, mode
<1>4. QED
  BY <1>1, <1>2, <1>3 DEF RunProgram, Execute

\* From then on the model keeps rip and the stack as they were.
LEMMA AstrayKeeps ==
  ASSUME RunProgram, astray, astray \in BOOLEAN
  PROVE  UNCHANGED <<rip, rsp, stack, astray>>
<1>1. Start \/ Quit \/ Stray
  BY DEF RunProgram, Execute, HeadlessEnd, StepBeyondEnd, Unsupported, CutShort,
         Move, Add, Compare, Xor, Jump, Branch, Call, System, Fetches
<1>2. QED
  BY <1>1 DEF Start, Quit, Stray, mode, stackVars

\* A run goes astray at an instruction that calls have written over.
LEMMA StraysOverwritten ==
  ASSUME RunInvariant, CourseInvariant, Stray, ~ astray, OnTrack
  PROVE  rip \in Starts /\ rsp < TextEnd
<1>1. /\ run = "running" /\ rip < TextEnd /\ Fetched = {} /\ phase = "ready"
      /\ rip \in Nat /\ rsp \in Nat /\ TextEnd \in Nat /\ TextEnd <= DataStart
  BY AssemblerAssumption
  DEF Stray, RunInvariant, WrapInvariant, CodeInText, StackFilled, TypeOK, TextEnd
<1>2. rip < DataStart
  BY <1>1, AssemblerAssumption
<1>3. rip \in Starts
  BY <1>1, <1>2 DEF CourseInvariant, InPlace
<1>4. PICK i \in DOMAIN code : code[i].at = rip
  BY <1>3 DEF Starts
<1>5. Overwritten(code[i])
  BY <1>1, <1>4 DEF Fetched
<1>6. PICK a \in DOMAIN stack : a < code[i].at + code[i].len
  BY <1>5 DEF Overwritten
<1>7. a \in Nat /\ rsp <= a
  BY <1>6 DEF CourseInvariant
<1>8. code[i].at \in Int /\ code[i].len \in Nat /\ code[i].at + code[i].len <= TextEnd
  BY InstructionAt DEF RunInvariant, WrapInvariant, CodeInText
<1>9. QED
  BY <1>1, <1>3, <1>6, <1>7, <1>8

LEMMA CourseStep ==
  ASSUME RunInvariant, RunInvariant', CourseInvariant, [RunNext]_allVars
  PROVE  CourseInvariant'
<1>1. TypeOK /\ TypeOK' /\ LabelInvariant /\ SweepInvariant
  BY DEF RunInvariant, CourseInvariant
<1>2. CASE Load
  <2>1. [Next]_vars /\ UNCHANGED <<run, rsp, stack, astray>>
    BY <1>2, LoadStep DEF cpuVars, stackVars, mode
  <2>2. phase \notin {"ready", "spinning", "threw"}
    BY <1>2
    DEF Load, FirstPass, SkipOrLabel, SwitchSection, RejectSection, DefineData,
        DataOverflow, DefineOther, ReserveBss, ReserveThrows, ReserveQuad, Misplaced, SizeText,
        EndFirst, InFirst, SecondPass, GenerateLine, TextOverflow, Install,
        Decoding, Sweep, SweepInside, EndSweep
  <2>3. run = "loading" /\ run' = "loading"
    BY <2>1, <2>2 DEF CourseInvariant
  <2>4. LabelInvariant' /\ SweepInvariant' /\ ControlInvariant'
    BY <1>1, <2>1, <2>3, StepPlaces, SweepStep, ControlStep DEF CourseInvariant
  <2>5. QED
    BY <2>1, <2>3, <2>4 DEF CourseInvariant, ControlStays
<1>3. CASE Start
  <2>1. /\ run = "loading" /\ phase = "ready" /\ run' = "running"
        /\ UNCHANGED <<loaded, rip, rsp, stack, astray>>
    BY <1>3 DEF Start, stackVars, mode
  <2>2. /\ LabelInvariant' /\ SweepInvariant'
        /\ Starts' = Starts /\ TextEnd' = TextEnd /\ OnTrack' = OnTrack
        /\ code' = code /\ phase' = phase
    BY <1>1, <2>1, LoadedKeepsPlaces
  <2>3. ControlMeetsInstructions
    BY <1>1, <2>1, ControlFollows DEF CourseInvariant
  <2>4. OnTrack => ~ Uses(program, {"vector_truncated"})
    BY DEF OnTrack, Uses, TruncatedForms
  <2>5. OnTrack => /\ InPlace(rip)
                   /\ \A i \in DOMAIN code :
                        code[i].form \in BranchForms => InPlace(code[i].dest)
    BY <2>1, <2>3, <2>4 DEF ControlMeetsInstructions, OnTrack, Generated, InPlace
  <2>6. QED
    BY <2>1, <2>2, <2>5 DEF CourseInvariant, ControlStays, InPlace
<1>4. CASE RunProgram /\ ~ Start
  <2>1. /\ run = "running" /\ run' # "loading" /\ UNCHANGED loaded
        /\ \/ rip' = rip
           \/ /\ Fetched # {}
              /\ \/ rip' \in {NextRip, StackBottom}
                 \/ rip' = Target /\ Current.form \in BranchForms
    BY <1>4, RipMoves
  <2>2. /\ LabelInvariant' /\ SweepInvariant'
        /\ Starts' = Starts /\ TextEnd' = TextEnd /\ OnTrack' = OnTrack
        /\ code' = code /\ phase' = phase
    BY <1>1, <2>1, LoadedKeepsPlaces
  <2>3. OnTrack => InPlace(rip')
    BY <2>1, StepLands DEF CourseInvariant
  <2>4. \A a \in DOMAIN stack' : a \in Nat /\ rsp' <= a
    BY <1>4, StackAboveTop
  <2>5. ControlStays'
    <3>1. SUFFICES ASSUME astray', OnTrack
                   PROVE  rip' \in Starts /\ rsp' < TextEnd
      BY <2>2 DEF ControlStays, OnTrack
    <3>2. CASE astray
      <4>1. UNCHANGED <<rip, rsp>>
        BY <1>4, <3>2, AstrayKeeps DEF CourseInvariant
      <4>2. QED
        BY <3>1, <3>2, <4>1 DEF CourseInvariant, ControlStays, OnTrack
    <3>3. CASE ~ astray
      <4>1. Stray
        BY <1>4, <3>1, <3>3, OnlyStray
      <4>2. UNCHANGED <<rip, rsp>>
        BY <4>1 DEF Stray, stackVars
      <4>3. QED
        BY <3>1, <3>3, <4>1, <4>2, StraysOverwritten
    <3>4. QED
      BY <3>2, <3>3
  <2>9. astray' \in BOOLEAN
    BY <1>4, OnlyStray DEF CourseInvariant, Stray
  <2>6. (\A i \in DOMAIN code :
           code[i].form \in BranchForms => InPlace(code[i].dest))'
        = (\A i \in DOMAIN code :
             code[i].form \in BranchForms => InPlace(code[i].dest))
    BY <2>2 DEF InPlace
  <2>7. InPlace(rip)' = InPlace(rip')
    BY <2>2 DEF InPlace
  <2>8. QED
    BY <2>1, <2>2, <2>3, <2>4, <2>5, <2>6, <2>7, <2>9 DEF CourseInvariant
<1>5. CASE UNCHANGED allVars
  <2>1. UNCHANGED <<loaded, rip, run, rsp, stack, astray>> /\ UNCHANGED vars
    BY <1>5 DEF allVars, vars, sweepVars, cpuVars, stackVars, mode, loaded
  <2>2. /\ LabelInvariant' /\ SweepInvariant'
        /\ Starts' = Starts /\ TextEnd' = TextEnd /\ OnTrack' = OnTrack
        /\ code' = code /\ phase' = phase
    BY <1>1, <2>1, LoadedKeepsPlaces
  <2>3. run = "loading" => ControlInvariant'
    BY <1>1, <2>1, <2>2, ControlStep DEF CourseInvariant
  <2>4. ControlStays' = ControlStays
    BY <2>1, <2>2 DEF ControlStays, OnTrack
  <2>5. QED
    BY <2>1, <2>2, <2>3, <2>4 DEF CourseInvariant, InPlace
<1>6. QED
  BY <1>2, <1>3, <1>4, <1>5 DEF RunNext, Halted

\* A run of a well ordered file, none of whose instructions was truncated, only
\* reaches bytes that are no instruction once its calls have filled the memory
\* down to the code, for every file, layout and word size.
THEOREM ControlStaysInCode == RunSpec => []ControlStays
<1>1. PowerOn => RunInvariant /\ CourseInvariant
  <2> SUFFICES ASSUME PowerOn PROVE RunInvariant /\ CourseInvariant
    OBVIOUS
  <2>1. Init /\ run = "loading" /\ astray = FALSE /\ DOMAIN stack = {}
    BY DEF PowerOn
  <2>2. RunInvariant /\ LabelInvariant
    BY <2>1, PowerOnInvariant, InitPlaces
  <2>3. SweepInvariant /\ ControlInvariant
    BY <2>1, InitSwept, InitControl
  <2>4. QED
    BY <2>1, <2>2, <2>3 DEF CourseInvariant, ControlStays
<1>2. RunInvariant /\ CourseInvariant /\ [RunNext]_allVars
        => RunInvariant' /\ CourseInvariant'
  BY RunStep, CourseStep
<1>3. CourseInvariant => ControlStays
  BY DEF CourseInvariant
<1>4. QED
  BY <1>1, <1>2, <1>3, PTL DEF RunSpec
=============================================================================
