----------------------------- MODULE MCSimulator -----------------------------
(***************************************************************************)
(* Programs for the model checker to load and run, and a memory so small   *)
(* that a handful of calls fills it down to the code.                      *)
(***************************************************************************)
EXTENDS SimulatorProperties

CONSTANTS MaxLines, start, loop, x

MCNames     == {start, loop, x}
MCLower     == [n \in MCNames |-> n]
MCRegisters == {"eax", "ebx", "ecx", "edx", "ebp", "esp"}

Arg(op, dst, src, imm) == [op |-> op, dst |-> dst, src |-> src, imm |-> imm]
NoArgs == Arg("other", "eax", "eax", 0)

Line(label, kind, what, name, count, args) ==
  [label |-> label, kind |-> kind, what |-> what, name |-> name,
   ok |-> count, toks |-> count, args |-> args]

LabelLine(n)        == Line(n, "none", "nothing", NoName, 0, NoArgs)
SectionLine(s)      == Line(NoName, "section", s, NoName, 0, NoArgs)
Instr(f, args)      == Line(NoName, "instr", f, NoName, 0, args)
Reserving(n, k)     == Line(NoName, "reserve", "resb", n, k, NoArgs)
Refer(f, n)         == Line(NoName, "instr", f, n, 0, NoArgs)

MoveImm(r, v)   == Instr("mov_imm", Arg("mov", r, "eax", v))
MoveReg(r, s)   == Instr("mov_reg", Arg("mov", r, s, 0))
AddReg(r, s)    == Instr("alu_reg", Arg("add", r, s, 0))
CmpReg(r, s)    == Instr("alu_reg", Arg("cmp", r, s, 0))
CmpImm(r, v)    == Instr("cmp_imm", Arg("cmp", r, "eax", v))
XorReg(r)       == Instr("group_reg", Arg("xor", r, r, 0))
XorImm(r, v)    == Instr("xor_imm", Arg("xor", r, "eax", v))

MCArguments == [op : Ops, dst : MCRegisters, src : MCRegisters, imm : 0..3]

Files(most, lines) == UNION {[1..n -> lines] : n \in 0..most}

\* Loops, calls, a conditional exit and arithmetic, as written for the
\* generator.
RegularFiles == {p \in
  Files(MaxLines,
    {LabelLine(start), LabelLine(loop), Refer("jne", loop), Refer("call", loop),
     Instr("int", NoArgs), MoveImm("eax", 1)})
  \cup
  Files(MaxLines - 1,
    {LabelLine(start), LabelLine(loop), SectionLine("data"), SectionLine("text"),
     Refer("jmp", loop), Refer("call", loop), AddReg("eax", "ebx")})
  \cup
  Files(MaxLines - 1,
    {LabelLine(loop), Refer("jne", loop), CmpImm("ecx", 1), CmpReg("ebx", "eax"),
     XorReg("eax"), XorImm("ebx", 1), MoveReg("ebx", "eax"), MoveImm("ebx", 3),
     AddReg("eax", "ebx")})
  : Regular(p)}

\* More storage than there is memory, and a load from behind it.
LargeFile ==
  <<SectionLine("bss"), Reserving(loop, 30), Reserving(x, 30),
    SectionLine("text"), Refer("mov_abs", x)>>

\* What a programmer may write that is not regular: forms that are not
\* executed, truncated ones, immediates and registers that are not encoded,
\* data in .text and code out of it.
OtherFiles ==
  Files(MaxLines - 2,
    {LabelLine(start), LabelLine(loop), SectionLine("bss"), SectionLine("text"),
     Reserving(x, 30), Refer("mov_abs", x),
     Refer("jmp", loop), Refer("call", loop), Refer("jge", loop),
     Instr("nop", NoArgs), Instr("cmp_truncated", Arg("cmp", "ecx", "eax", 0)),
     MoveImm("edx", 1), MoveReg("eax", "ebx"), MoveReg("ebp", "esp"),
     CmpImm("edx", 3), Instr("int", NoArgs)})
  \cup {LargeFile}

AllFiles == RegularFiles \cup OtherFiles

\* Loops that a comparison leaves, or should.
ComparingFiles ==
  Files(MaxLines,
    {LabelLine(loop), CmpReg("ebx", "eax"), Refer("jge", loop), MoveImm("ebx", 1)})
=============================================================================
