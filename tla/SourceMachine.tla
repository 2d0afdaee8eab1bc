---------------------------- MODULE SourceMachine ----------------------------
(***************************************************************************)
(* What a source file means, with no addresses, bytes or symbol table: its *)
(* instructions run in the order they are written, a label stands for the  *)
(* first instruction at or after its line, and a call remembers the        *)
(* instruction that follows it. This is what the assembler, the decoder    *)
(* and the processor together have to implement.                           *)
(***************************************************************************)
EXTENDS Words, Sequences, FiniteSetsExt

CONSTANTS
  Programs, NoName, Lower, EntryPoint,
  Registers,
  StackSlots    \* calls that are sure to find room

VARIABLES
  source,       \* the file
  pc,           \* the line of the next instruction, or the one after the last
  regs,
  flags,        \* zero, sign and carry
  calls,        \* the lines calls would return to
  overrun       \* the calls have used up the memory and overwritten the program

vars == <<source, pc, regs, flags, calls, overrun>>

\* The first instruction at or after line k.
From(p, k) ==
  LET later == {i \in DOMAIN p : p[i].kind = "instr" /\ i >= k} IN
  IF later = {} THEN Len(p) + 1 ELSE Min(later)

Labels(p, s) == {k \in DOMAIN p : p[k].label # NoName /\ Lower[p[k].label] = s}

\* Where a jump to the symbol s goes.
At(p, s) == From(p, CHOOSE k \in Labels(p, s) : TRUE)

Entry(p) == IF Labels(p, EntryPoint) = {} THEN From(p, 1) ELSE At(p, EntryPoint)

Init ==
  /\ source \in Programs
  /\ pc = Entry(source)
  /\ regs = [r \in Registers |-> 0]
  /\ flags = [zero |-> FALSE, sign |-> FALSE, carry |-> FALSE]
  /\ calls = <<>>
  /\ overrun = FALSE

Line == source[pc]
Args == Line.args
Following == From(source, pc + 1)
Target == At(source, Lower[Line.name])

\* The instruction at pc has one of these forms.
Runs(forms) == ~ overrun /\ pc <= Len(source) /\ Line.what \in forms

Flags(result, carry) ==
  [zero  |-> result = 0,
   sign  |-> Negative(result),
   carry |-> carry]

Second == IF Line.what \in {"cmp_imm", "xor_imm"} THEN Args.imm % WordSize
          ELSE regs[Args.src]

Move ==
  /\ Runs({"mov_imm", "mov_reg", "mov_abs"})
  /\ \E v \in Word :
       /\ Line.what = "mov_imm" => v = Args.imm % WordSize
       /\ Line.what = "mov_reg" => v = regs[Args.src]
       /\ regs' = [regs EXCEPT ![Args.dst] = v]
  /\ pc' = Following
  /\ UNCHANGED <<source, flags, calls, overrun>>

Add ==
  /\ Runs({"alu_reg"}) /\ Args.op = "add"
  /\ LET sum == regs[Args.dst] + Second IN
     /\ regs' = [regs EXCEPT ![Args.dst] = sum % WordSize]
     /\ flags' = Flags(sum % WordSize, sum >= WordSize)
  /\ pc' = Following
  /\ UNCHANGED <<source, calls, overrun>>

Compare ==
  /\ Runs({"alu_reg", "cmp_imm"}) /\ Args.op = "cmp"
  /\ LET difference == regs[Args.dst] - Second IN
     flags' = Flags(difference % WordSize, difference < 0)
  /\ pc' = Following
  /\ UNCHANGED <<source, regs, calls, overrun>>

Xor ==
  /\ Runs({"group_reg", "xor_imm"}) /\ Args.op = "xor"
  /\ LET v == ExclusiveOr(regs[Args.dst], Second) IN
     /\ regs' = [regs EXCEPT ![Args.dst] = v]
     /\ flags' = Flags(v, FALSE)
  /\ pc' = Following
  /\ UNCHANGED <<source, calls, overrun>>

Jump ==
  /\ Runs({"jmp"})
  /\ pc' = Target
  /\ UNCHANGED <<source, regs, flags, calls, overrun>>

JumpIfNotEqual ==
  /\ Runs({"jne"})
  /\ pc' = IF flags.zero THEN Following ELSE Target
  /\ UNCHANGED <<source, regs, flags, calls, overrun>>

Call ==
  /\ Runs({"call"})
  /\ calls' = Append(calls, Following)
  /\ pc' = Target
  /\ UNCHANGED <<source, regs, flags, overrun>>

\* int 0x80: call number 1 ends the program, the others do nothing.
System ==
  /\ Runs({"int"})
  /\ pc' = IF regs["eax"] = 1 THEN Len(source) + 1 ELSE Following
  /\ UNCHANGED <<source, regs, flags, calls, overrun>>

Overrun ==
  /\ ~ overrun /\ Len(calls) > StackSlots
  /\ overrun' = TRUE
  /\ UNCHANGED <<source, pc, regs, flags, calls>>

Next ==
  \/ Move \/ Add \/ Compare \/ Xor \/ Jump \/ JumpIfNotEqual
  \/ Call \/ System \/ Overrun

Spec == Init /\ [][Next]_vars
=============================================================================
