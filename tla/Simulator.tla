------------------------------ MODULE Simulator ------------------------------
(***************************************************************************)
(* A loaded program running: X86Simulator::runProgram, which fetches and   *)
(* decodes one instruction at a time, translates it (translate_to_ir) and  *)
(* executes it (the handle_ir_... functions), from the machine code that   *)
(* Assembler leaves in memory.                                             *)
(*                                                                         *)
(* Control is modelled exactly: rip, the branch conditions, the return     *)
(* addresses on the stack, the ends of a run. Of memory, only the slots    *)
(* that calls write are kept, because nothing separates the stack from the *)
(* segments below it; what a load reads from memory is any word. Where rip *)
(* no longer is at an instruction the generator emitted, or calls have     *)
(* written over that instruction, the run is "astray": the code goes on    *)
(* executing whatever the bytes say, the model only keeps how it may end.  *)
(***************************************************************************)
EXTENDS Assembler, Words

CONSTANTS
  Registers,    \* the 32-bit registers instructions name
  ByteSize,     \* 2^8: what an 8-bit immediate keeps
  AddressSize   \* 2^64

Ops == {"mov", "add", "cmp", "xor", "other"}

ASSUME SimulatorAssumption ==
  /\ {"eax", "ebx", "ecx", "edx"} \subseteq Registers
  /\ Arguments \subseteq [op : Ops, dst : Registers, src : Registers, imm : Nat]
  /\ WordSize \in Nat /\ \E w \in 1..WordSize : WordSize = TwoTo[w]
  /\ ByteSize \in 1..WordSize
  /\ StackBottom % 8 = 0
  /\ AddressSize \in Nat /\ StackBottom < AddressSize

VARIABLES
  run,          \* where runProgram is
  headless,
  astray,       \* bytes that are no emitted instruction are executed
  regs,
  zf, sf, cf,   \* rflags_; no instruction an assembled program can hold
                \* sets another flag
  rsp,
  stack         \* the return addresses in memory, by address

mode      == <<headless, astray>>
flagVars  == <<zf, sf, cf>>
stackVars == <<rsp, stack>>
cpuVars   == <<run, mode, regs, flagVars, stackVars>>
allVars   == <<vars, cpuVars>>

\* What is left alone while the program runs: all of the load but rip.
loaded ==
  <<program, phase, line, firstVars, secondVars, sweepAt, decoded>>

RunPhases ==
  {"loading", "running", "ended", "quit", "faulted", "undefined"}

RunTypeOK ==
  /\ run \in RunPhases
  /\ headless \in BOOLEAN /\ astray \in BOOLEAN
  /\ regs \in [Registers -> Word]
  /\ zf \in BOOLEAN /\ sf \in BOOLEAN /\ cf \in BOOLEAN
  /\ rsp \in 0..(AddressSize - 1)
  /\ DOMAIN stack \subseteq 0..(StackBottom - 8)
  /\ \A a \in DOMAIN stack : stack[a] \in Nat

-----------------------------------------------------------------------------
(* Fetching and decoding.                                                  *)

\* Bytes of the instruction have been overwritten by a return address.
Overwritten(i) == \E a \in DOMAIN stack : a < i.at + i.len /\ i.at < a + 8

Fetched == {i \in DOMAIN code : code[i].at = rip /\ ~ Overwritten(code[i])}

Current == code[CHOOSE i \in Fetched : TRUE]
Args    == program[Current.line].args
NextRip == rip + DecodedLength(Current.form)

\* The instruction at rip is whole and has one of these forms.
Fetches(forms) ==
  /\ run = "running" /\ ~ astray /\ Fetched # {}
  /\ Current.form \in forms
  /\ NextRip <= TextEnd

\* Mutant: nothing moves rip after a handler that leaves it alone.
FinishWithoutNext(target) ==
  /\ rip' = target
  /\ run' = IF ~ headless /\ target >= TextEnd THEN "ended" ELSE run

\* The end of runSingleInstruction, once the handler has left "target" in rip:
\* if that is the instruction itself, rip is moved to the next one. With the
\* user interface, runProgram tests for the end after the step.
Finish(target) ==
  LET next == IF target = rip THEN NextRip ELSE target IN
  /\ rip' = next
  /\ run' = IF ~ headless /\ next >= TextEnd THEN "ended" ELSE run

-----------------------------------------------------------------------------
(* The handlers.                                                           *)

\* esp is the low half of rsp; of the instructions here only a move reads it.
Read(r) == IF r = "esp" THEN rsp % WordSize ELSE regs[r]

\* mov r32, imm32 is encoded for three registers; any other becomes eax.
MoveTarget ==
  IF Current.form = "mov_imm" /\ Args.dst \notin {"ecx", "ebx"}
  THEN "eax" ELSE Args.dst

\* The second operand. 83 /r holds the low byte of the immediate, or, when
\* the generator stopped before it, the byte that follows.
SecondOperands ==
  IF Current.form = "cmp_truncated" THEN 0..(ByteSize - 1)
  ELSE IF Current.form \in {"cmp_imm", "xor_imm"} THEN {Args.imm % ByteSize}
  ELSE {regs[Args.src]}

SetFlags(result, carry) ==
  /\ zf' = (result = 0)
  /\ sf' = Negative(result)
  /\ cf' = carry

\* An absolute operand beyond the memory makes check_bounds throw.
Move ==
  /\ Fetches({"mov_imm", "mov_reg", "mov_abs"})
  /\ IF Current.form = "mov_abs" /\ Current.dest + 4 > StackBottom
     THEN /\ run' = "faulted"
          /\ UNCHANGED <<rip, regs>>
     ELSE /\ \E v \in Word :
               /\ Current.form = "mov_imm" => v = Args.imm % WordSize
               /\ Current.form = "mov_reg" => v = Read(Args.src)
               /\ regs' = [regs EXCEPT ![MoveTarget] = v]
          /\ Finish(rip)
  /\ UNCHANGED <<loaded, mode, flagVars, stackVars>>

Add ==
  /\ Fetches({"alu_reg"}) /\ Args.op = "add"
  /\ LET sum == regs[Args.dst] + regs[Args.src] IN
     /\ regs' = [regs EXCEPT ![Args.dst] = sum % WordSize]
     /\ SetFlags(sum % WordSize, sum >= WordSize)
  /\ Finish(rip)
  /\ UNCHANGED <<loaded, mode, stackVars>>

Compare ==
  /\ Fetches({"alu_reg", "cmp_imm", "cmp_truncated"}) /\ Args.op = "cmp"
  /\ \E b \in SecondOperands :
       SetFlags((regs[Args.dst] - b) % WordSize, regs[Args.dst] < b)
  /\ Finish(rip)
  /\ UNCHANGED <<loaded, mode, regs, stackVars>>

Xor ==
  /\ Fetches({"group_reg", "xor_imm"}) /\ Args.op = "xor"
  /\ \E b \in SecondOperands :
       LET v == ExclusiveOr(regs[Args.dst], b) IN
       /\ regs' = [regs EXCEPT ![Args.dst] = v]
       /\ SetFlags(v, FALSE)
  /\ Finish(rip)
  /\ UNCHANGED <<loaded, mode, stackVars>>

Target == Current.dest % AddressSize

Jump ==
  /\ Fetches({"jmp"})
  /\ Finish(Target)
  /\ UNCHANGED <<loaded, mode, regs, flagVars, stackVars>>

\* handle_ir_branch knows two conditions, and translate_to_ir produces one of
\* them: jg and jge are executed and never jump.
Branch ==
  /\ Fetches({"jne", "jge"})
  /\ Finish(IF Current.form = "jne" /\ ~ zf THEN Target ELSE rip)
  /\ UNCHANGED <<loaded, mode, regs, flagVars, stackVars>>

\* Mutant: the return address is that of the call itself.
CallReturningHere ==
  /\ Fetches({"call"})
  /\ rsp' = (rsp - 8) % AddressSize
  /\ stack' = [a \in DOMAIN stack \cup {rsp'} |->
                 IF a = rsp' THEN rip ELSE stack[a]]
  /\ Finish(Target)
  /\ UNCHANGED <<loaded, mode, regs, flagVars>>

\* Mutant: the address is written first, then rsp is decremented.
CallPushingFirst ==
  /\ Fetches({"call"})
  /\ rsp' = (rsp - 8) % AddressSize
  /\ stack' = [a \in DOMAIN stack \cup {rsp} |->
                 IF a = rsp THEN NextRip ELSE stack[a]]
  /\ Finish(Target)
  /\ UNCHANGED <<loaded, mode, regs, flagVars>>

\* rsp is decremented before the write that may throw. check_bounds computes
\* address + 8 in 64 bits, so that an address just below 2^64 passes, and the
\* write is outside the memory.
Call ==
  /\ Fetches({"call"})
  /\ rsp' = (rsp - 8) % AddressSize
  /\ IF rsp' + 8 <= StackBottom
     THEN /\ stack' = [a \in DOMAIN stack \cup {rsp'} |->
                         IF a = rsp' THEN NextRip ELSE stack[a]]
          /\ Finish(Target)
     ELSE /\ run' = IF (rsp' + 8) % AddressSize > StackBottom THEN "faulted"
                    ELSE "undefined"
          /\ UNCHANGED <<rip, stack>>
  /\ UNCHANGED <<loaded, mode, regs, flagVars>>

\* int imm8 is always encoded as int 0x80. Call 1, exit, puts rip where the
\* memory ends; the others only log.
System ==
  /\ Fetches({"int"})
  /\ Finish(IF regs["eax"] = 1 THEN StackBottom ELSE rip)
  /\ UNCHANGED <<loaded, mode, regs, flagVars, stackVars>>

Translated ==
  \/ Current.form \in {"mov_imm", "mov_reg", "mov_abs", "jmp", "jne", "jge",
                       "call", "int", "cmp_imm", "cmp_truncated", "xor_imm"}
  \/ Current.form = "alu_reg" /\ Args.op \in {"add", "cmp"}
  \/ Current.form = "group_reg" /\ Args.op = "xor"

\* translate_to_ir returns nullptr: the failure is logged and rip stays.
Unsupported ==
  /\ Fetches(Forms) /\ ~ Translated
  /\ UNCHANGED <<loaded, rip, cpuVars>>

\* The decoder reads past the end of the text and read_text throws.
CutShort ==
  /\ run = "running" /\ ~ astray /\ Fetched # {} /\ NextRip > TextEnd
  /\ run' = "faulted"
  /\ UNCHANGED <<loaded, rip, mode, regs, flagVars, stackVars>>

\* Bytes that are no emitted instruction are decoded and executed as well, in
\* this step and from then on. The model does not know them: the run may go on
\* or end in any way, also by a write outside the memory. The other variables
\* keep the values they had when the run went astray.
Stray ==
  /\ run = "running"
  /\ astray \/ (rip < TextEnd /\ Fetched = {})
  /\ astray' = TRUE
  /\ run' \in {"running", "ended", "faulted", "undefined"}
  /\ UNCHANGED <<loaded, rip, headless, regs, flagVars, stackVars>>

-----------------------------------------------------------------------------
(* runProgram.                                                             *)

Start ==
  /\ run = "loading" /\ phase = "ready"
  /\ run' = "running"
  /\ UNCHANGED <<loaded, rip, mode, regs, flagVars, stackVars>>

\* Headless, the loop tests for the end before each step.
HeadlessEnd ==
  /\ run = "running" /\ ~ astray /\ headless /\ rip >= TextEnd
  /\ run' = "ended"
  /\ UNCHANGED <<loaded, rip, mode, regs, flagVars, stackVars>>

\* With the user interface a first step is taken even if there is nothing to
\* run: below .data read_text throws, from there on the decoder declines.
StepBeyondEnd ==
  /\ run = "running" /\ ~ astray /\ ~ headless /\ rip >= TextEnd
  /\ run' = IF rip < DataStart THEN "faulted" ELSE "ended"
  /\ UNCHANGED <<loaded, rip, mode, regs, flagVars, stackVars>>

\* The user presses q.
Quit ==
  /\ run = "running" /\ ~ headless
  /\ run' = "quit"
  /\ UNCHANGED <<loaded, rip, mode, regs, flagVars, stackVars>>

\* A finished run, a load that threw and one that spins.
Halted ==
  /\ \/ run \notin {"loading", "running"}
     \/ run = "loading" /\ phase \in {"spinning", "threw"}
  /\ UNCHANGED allVars

\* Mutant: the constructor leaves rsp as the register map has it.
PowerOnWithoutStack ==
  /\ Init
  /\ run = "loading" /\ headless \in BOOLEAN /\ astray = FALSE
  /\ regs = [r \in Registers |-> 0]
  /\ zf = FALSE /\ sf = FALSE /\ cf = FALSE
  /\ rsp = 0 /\ stack = [a \in {} |-> 0]

PowerOn ==
  /\ Init
  /\ run = "loading" /\ headless \in BOOLEAN /\ astray = FALSE
  /\ regs = [r \in Registers |-> 0]
  /\ zf = FALSE /\ sf = FALSE /\ cf = FALSE
  /\ rsp = StackBottom /\ stack = [a \in {} |-> 0]

Load == (FirstPass \/ SecondPass \/ Decoding) /\ UNCHANGED cpuVars

Execute ==
  \/ Move \/ Add \/ Compare \/ Xor
  \/ Jump \/ Branch \/ Call \/ System
  \/ Unsupported \/ CutShort \/ Stray

RunProgram == Start \/ HeadlessEnd \/ StepBeyondEnd \/ Quit \/ Execute

RunNext == Load \/ RunProgram \/ Halted

\* One thread: without the user interface, a step it can take is taken. With
\* it, nothing obliges the user to press a key; and nothing is said of how long
\* unknown bytes keep a run going.
RunSpec     == PowerOn /\ [][RunNext]_allVars
FairRunSpec ==
  RunSpec /\ WF_allVars(Load) /\ WF_allVars(headless /\ ~ astray /\ RunProgram)
=============================================================================
