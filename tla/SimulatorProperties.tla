------------------------- MODULE SimulatorProperties -------------------------
(***************************************************************************)
(* What running a program promises, and the source files it promises it    *)
(* for. SourceMachine says what such a file means.                         *)
(***************************************************************************)
EXTENDS Simulator, AssemblerProperties

-----------------------------------------------------------------------------
(* Regular source files: those written within what the generator encodes   *)
(* and the executor executes.                                              *)

\* The instruction is one the processor executes as it is written.
Executed(ln) ==
  \/ ln.what = "mov_imm" /\ ln.args.dst \in {"eax", "ecx", "ebx"}
  \/ ln.what = "mov_reg" /\ ln.args.src # "esp"
  \/ ln.what \in {"jmp", "jne", "call", "int"}
  \/ ln.what = "mov_abs" /\ ln.args.dst = "eax"
  \/ ln.what = "alu_reg" /\ ln.args.op \in {"add", "cmp"}
  \/ ln.what = "cmp_imm" /\ ln.args.op = "cmp" /\ ln.args.imm < ByteSize
  \/ ln.what = "xor_imm" /\ ln.args.op = "xor" /\ ln.args.imm < ByteSize
  \/ ln.what = "group_reg" /\ ln.args.op = "xor"

\* Line k alone defines s, as a label in .text.
TextLabel(p, k, s) ==
  /\ p[k].label # NoName /\ Lower[p[k].label] = s
  /\ SectionOf(p, k) = "text"
  /\ OnlyDefinition(p, k, s)

\* The instructions at or after line k.
Onwards(p, k) == {i \in DOMAIN p : p[i].kind = "instr" /\ i >= k}

\* No branch of p, and no call, leads to itself.
LeavesItself(p) ==
  \A i, k \in DOMAIN p :
    p[i].what \in BranchForms /\ p[k].label # NoName
    /\ Lower[p[k].label] = Lower[p[i].name]
    => Onwards(p, k) = {} \/ Min(Onwards(p, k)) # i

\* Everything but "no branch leads to itself".
Written(p) ==
  /\ WellOrdered(p)
  /\ \A i \in DOMAIN p :
       /\ p[i].kind = "section" => p[i].what \in Sections
       /\ p[i].kind = "instr" => Executed(p[i]) /\ p[i].label = NoName
       /\ p[i].what \in BranchForms =>
            \E k \in DOMAIN p : TextLabel(p, k, Lower[p[i].name])
  /\ \A j \in DOMAIN p :
       Defines(p, j, EntryPoint) => TextLabel(p, j, EntryPoint)

Regular(p) == Written(p) /\ LeavesItself(p)

\* Branches and calls only lead to later lines.
Forward(p) ==
  \A i, k \in DOMAIN p :
    p[i].what \in BranchForms /\ p[k].label # NoName
    /\ Lower[p[k].label] = Lower[p[i].name] => i < k

-----------------------------------------------------------------------------
(* The run as one of the source machine: addresses become lines.           *)

LineAt(a) ==
  LET here == {i \in DOMAIN code : code[i].at = a} IN
  IF here = {} THEN Len(program) + 1 ELSE code[CHOOSE i \in here : TRUE].line

Instructions(p) == Onwards(p, 1)

\* The line a load of file p starts at.
EntryLine(p) ==
  LET entries == {k \in DOMAIN p : p[k].label # NoName
                                     /\ Lower[p[k].label] = EntryPoint}
      first   == IF entries = {} THEN 1 ELSE CHOOSE k \in entries : TRUE
  IN  IF Onwards(p, first) = {} THEN Len(p) + 1 ELSE Min(Onwards(p, first))

Source == INSTANCE SourceMachine WITH
  source  <- program,
  pc      <- IF run = "loading" THEN EntryLine(program) ELSE LineAt(rip),
  flags   <- [zero |-> zf, sign |-> sf, carry |-> cf],
  calls   <- [k \in 1..((StackBottom - rsp) \div 8) |->
                LineAt(stack[StackBottom - 8 * k])],
  overrun <- astray,
  StackSlots <- (StackBottom - DataStart) \div 8

\* Assembled, loaded and run, a regular file does what its lines say: the run
\* implements Source!Spec.
RunsAsWritten ==
  /\ Regular(program) => Source!Init
  /\ [][Regular(program) => Source!Next]_Source!vars

-----------------------------------------------------------------------------
\* Every branch leads to an address: storage does not run past 2^64.
BranchesAddressed ==
  \A i \in DOMAIN code : code[i].form \in BranchForms => code[i].dest < AddressSize

\* A run reaches bytes that are not an emitted instruction only when its calls
\* have filled the memory down to the code: the assembler's addresses, the
\* decoder's lengths and the handlers' targets agree. Nothing tests for it.
ControlStays ==
  /\ astray /\ firstOk /\ WellOrdered(program)
  /\ ~ Uses(program, TruncatedForms) /\ BranchesAddressed
  => rip \in Starts /\ rsp < TextEnd

\* No call the generator emitted writes outside the memory, although the 64-bit
\* sum of check_bounds would let it: before its return address could lie below
\* zero, other ones have written over the call. Only what a run executes once
\* it has gone astray can do that.
NeverWraps == run = "undefined" => astray

(* Why NeverWraps holds: an invariant that every step preserves.           *)

\* The code lies within the text segment, from the second pass on, and no
\* program runs before it is loaded.
CodeInText ==
  /\ \A i \in DOMAIN code :
       /\ TextStart <= code[i].at /\ 0 < code[i].len
       /\ code[i].at + code[i].len <= TextEnd
  /\ phase \in {"sweep", "ready", "spinning"} => TextEnd <= DataStart
  /\ run = "running" => phase = "ready"

\* As long as the run has not gone astray, rsp points to a slot of the memory
\* or to its end, and calls have written every slot from there to the end.
StackFilled ==
  ~ astray =>
    /\ rsp \in 0..StackBottom /\ rsp % 8 = 0
    /\ \A a \in rsp..(StackBottom - 1) : a % 8 = 0 => a \in DOMAIN stack

WrapInvariant == CodeInText /\ StackFilled /\ NeverWraps

\* Without the user interface, a regular file whose branches and calls only
\* lead forward comes to an end, if its calls do not fill the memory: no
\* instruction of it holds rip in place.
HeadlessEnds ==
  headless /\ Regular(program) /\ Forward(program)
  ~> run \in {"ended", "faulted"} \/ astray \/ phase = "threw"

-----------------------------------------------------------------------------
(* Claims of the source that the code does not meet.                       *)

\* The step executes the instruction code[i].
Executes(i) ==
  run = "running" /\ ~ astray /\ rip = code[i].at /\ rip' # rip

\* handle_ir_jump's "Directly set the instruction pointer."
\* (ir_executor_helpers.cpp): a jump to itself, the exit loop of the test
\* programs, stays where it is.
JumpSetsRip ==
  [][\A i \in DOMAIN code :
       code[i].form = "jmp" /\ Executes(i) => rip' = code[i].dest]_allVars

\* "If ebx >= eax, number is prime. Jump to print." (prime_numbers.asm): behind
\* a comparison of two numbers, neither negative, the first not the smaller, a
\* jge to another instruction jumps.
GreaterOrEqualJumps ==
  [][\A i \in DOMAIN code \ {1} :
       LET compared == program[code[i - 1].line].args
           left     == regs[compared.dst]
           right    == regs[compared.src]
       IN  /\ code[i - 1].form = "alu_reg" /\ compared.op = "cmp"
           /\ ~ Negative(left) /\ ~ Negative(right) /\ left >= right /\ ~ sf
           /\ code[i].form = "jge" /\ code[i].dest # code[i].at
           /\ Executes(i)
           => rip' = code[i].dest]_allVars
=============================================================================
