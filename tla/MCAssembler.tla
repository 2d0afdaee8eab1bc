----------------------------- MODULE MCAssembler -----------------------------
(***************************************************************************)
(* Source files for the model checker: every sequence of a few lines drawn *)
(* from a small set.                                                       *)
(***************************************************************************)
EXTENDS AssemblerProperties

CONSTANTS MaxLines, start, loop, x, X   \* symbols; x is X in lower case

MCNames == {start, loop, x, X}
MCLower == [n \in MCNames |-> IF n = X THEN x ELSE n]

Line(label, kind, what, name, ok, toks) ==
  [label |-> label, kind |-> kind, what |-> what, name |-> name,
   ok |-> ok, toks |-> toks, args |-> "none"]

LabelLine(n)    == Line(n, "none", "nothing", NoName, 0, 0)
SectionLine(s)  == Line(NoName, "section", s, NoName, 0, 0)
Plain(f)        == Line(NoName, "instr", f, NoName, 0, 0)
Refer(f, n)     == Line(NoName, "instr", f, n, 0, 0)
SameLine(l, f)  == Line(l, "instr", f, NoName, 0, 0)
Storing(n, d, k) ==
  Line(NoName, IF d \in DOMAIN DataWidth THEN "define" ELSE "reserve", d, n, k, k)

Files(most, lines) == UNION {[1..n -> lines] : n \in 0..most}

\* Code, its labels and one datum, in any order of sections.
CodeFiles == Files(MaxLines,
  {SectionLine("data"), SectionLine("text"), Storing(x, "db", 1),
   Refer("mov_abs", X), LabelLine(loop), LabelLine(start),
   Refer("jmp", loop)})

\* Every form the generator tells apart, with and without a known label, in
\* pairs; and a few of every kind among three.
Formed(f) == IF f \in SymbolicForms THEN Refer(f, loop) ELSE Plain(f)

FewForms == {"mov_abs", "jcc", "jmp", "xor_imm", "movsw", "vector_mem"}
              \cup TruncatedForms

FormFiles ==
  Files(2, {LabelLine(loop)} \cup {Formed(f) : f \in Forms})
    \cup Files(3, {LabelLine(loop)} \cup {Formed(f) : f \in FewForms})

\* Storage directives of every way to size them, an unknown section, and
\* misplaced lines.
StorageFiles == Files(MaxLines - 1,
  {SectionLine(s) : s \in Sections \cup {"unknown"}} \cup
  {Storing(x, "db", 1), Storing(X, "dd", 1), Storing(start, "dq", 1),
   Line(NoName, "define", "dq", NoName, 2, 3),
   Storing(x, "resb", 2), Storing(X, "resw", 1), Storing(loop, "resd", 1),
   Storing(start, "resq", 1), Line(x, "reserve", "resb", NoName, 0, 1), Plain("mov_imm")})

\* Labels on lines of their own and in front of an instruction.
LabelFiles == Files(MaxLines,
  {LabelLine(start), SameLine(loop, "mov_imm"), SameLine(start, "nop"),
   Refer("jmp", loop), Plain("mov_imm"), Plain("group_reg")})

AllFiles == CodeFiles \cup StorageFiles \cup FormFiles
=============================================================================
