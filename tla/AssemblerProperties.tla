------------------------- MODULE AssemblerProperties -------------------------
(***************************************************************************)
(* What the two passes and the decoding sweep promise each other, and the  *)
(* conditions on a source file under which they keep the promise.          *)
(***************************************************************************)
EXTENDS Assembler, FiniteSetsExt

Sectioning(p, i) ==
  {j \in 1..(i - 1) : p[j].kind = "section" /\ p[j].what \in Sections}

\* The section line i of file p is in: that of the last directive before it.
SectionOf(p, i) ==
  IF Sectioning(p, i) = {} THEN "text"
  ELSE p[Max(Sectioning(p, i))].what

\* A line that puts the symbol it reserves room for in the table, when it is
\* in the section "where".
Records(ln, where) ==
  \/ ln.kind = "define" /\ ln.what \in {"db", "dd"} /\ where = "data"
  \/ ln.kind = "reserve" /\ ln.what # "resq" /\ where = "bss"

\* Line j of file p puts the symbol s in the table.
Defines(p, j, s) ==
  \/ p[j].label # NoName /\ Lower[p[j].label] = s
  \/ Records(p[j], SectionOf(p, j)) /\ p[j].name = s

\* Every instruction is in .text, and a memory operand names a symbol that an
\* earlier line defines (in practice: .data comes before .text).
WellOrdered(p) ==
  \A i \in DOMAIN p : Generates(p[i]) =>
    /\ SectionOf(p, i) = "text"
    /\ p[i].what = "mov_abs" =>
         \E j \in 1..(i - 1) : Defines(p, j, Lower[p[i].name])

Uses(p, forms) == \E i \in DOMAIN p : Generates(p[i]) /\ p[i].what \in forms

OnlyDefinition(p, k, s) ==
  Defines(p, k, s) /\ \A j \in DOMAIN p : Defines(p, j, s) => j = k

Generated == phase \in {"sweep", "ready", "spinning"}

-----------------------------------------------------------------------------
\* The address the first pass gave a text label separates the machine code of
\* the lines before it from that of the lines after it: the sizes the first
\* pass added up are the sizes the second pass produced.
LabelsDivideCode ==
  \A k \in DOMAIN program :
    ( /\ program[k].label # NoName /\ SectionOf(program, k) = "text"
      /\ OnlyDefinition(program, k, Lower[program[k].label]) )
    => \A i \in DOMAIN code :
         LET s == symbols[Lower[program[k].label]] IN
         /\ code[i].line < k  => code[i].at + code[i].len <= s
         /\ code[i].line >= k => s <= code[i].at

\* For a well ordered file, text labels divide the code as they divide the
\* source.
LabelsMeetCode ==
  Generated /\ firstOk /\ WellOrdered(program) => LabelsDivideCode

\* Control can only be sent to the first byte of an emitted instruction or to
\* the end of the program, by the entry point or by any jump, call or
\* conditional jump. Displacements are computed from the generator's own
\* address, so no instruction may have left that address behind.
ControlMeetsInstructions ==
  /\ Generated /\ firstOk /\ WellOrdered(program)
  /\ ~ Uses(program, {"vector_truncated"})
  => /\ rip < DataStart => rip \in Starts \cup {TextEnd}
     /\ \A i \in DOMAIN code :
          code[i].form \in BranchForms /\ code[i].dest < DataStart
          => code[i].dest \in Starts \cup {TextEnd}

\* The decoder, sweeping the bytes from the start, finds exactly the
\* instructions the generator emitted, provided none of them was truncated.
SweepFindsInstructions ==
  ~ Uses(program, TruncatedForms) =>
    /\ decoded \subseteq Starts
    /\ phase \in {"sweep", "ready"} =>
         \A a \in Starts : a < sweepAt => a \in decoded
    /\ phase = "ready" => decoded = Starts

\* The bytes a storage directive asks for.
Storage(p, j) ==
  IF p[j].kind = "define" THEN DataWidth[p[j].what] * p[j].ok
  ELSE BssWidth[p[j].what] * p[j].ok

\* The only line that defines the symbol it reserves room for.
Stores(p, j, directives) ==
  /\ Records(p[j], SectionOf(p, j)) /\ p[j].what \in directives
  /\ p[j].name # NoName /\ OnlyDefinition(p, j, p[j].name)

\* Two symbols recorded by storage directives of one section do not share
\* bytes: the later one starts where the earlier one ends, or after it.
DisjointStorage(directives) ==
  phase = "first" =>
    \A j, k \in 1..(line - 1) :
      ( /\ j < k /\ SectionOf(program, j) = SectionOf(program, k)
        /\ Stores(program, j, directives) /\ Stores(program, k, directives) )
      => symbols[program[j].name] + Storage(program, j) <= symbols[program[k].name]

\* db, dd and resb keep their symbols apart.
StorageIsDisjoint == DisjointStorage({"db", "dd", "resb"})

\* A load ends: the simulator is ready to run or the load has thrown. The
\* sweep cannot hang on a zero-length instruction unless one was truncated.
LoadEnds ==
  ~ Uses(program, TruncatedForms) => <>(phase \in {"ready", "threw"})

-----------------------------------------------------------------------------
(* Why LabelsMeetCode holds: an invariant that every step preserves. The   *)
(* history variable "placed" says where the first pass put each line.      *)

\* The bytes of line i of file p once the symbols it refers to are known.
Linked(p, i) == IF Generates(p[i]) THEN Bytes(p[i].what, TRUE) ELSE 0

\* No section was rejected and nothing was thrown.
Unfailed == firstOk /\ phase # "threw"

\* Where the two passes are.
PassProgress ==
  /\ phase = "first" =>
       /\ firstOk /\ line <= Len(program) + 1
       /\ Len(placed) = line /\ lc["text"] = placed[line]
       /\ section = SectionOf(program, line)
       /\ code = <<>> /\ size = 0
  /\ Unfailed /\ phase # "first" =>
       /\ Len(placed) = Len(program) + 1
       /\ line <= Len(program) + 1

\* Lines are placed in order, from the start of .text.
PlacedInOrder ==
  /\ Len(placed) > 0 /\ placed[1] = TextStart
  /\ \A a, b \in DOMAIN placed : a <= b => placed[a] <= placed[b]

\* The lines the first pass has left behind have their symbols in the table,
\* and a text label with no other definition has the place of its line.
SymbolsRecorded ==
  Unfailed =>
    \A k \in 1..(Len(placed) - 1) :
      /\ \A s \in Names : Defines(program, k, s) => symbols[s] # Unbound
      /\ ( /\ program[k].label # NoName /\ SectionOf(program, k) = "text"
           /\ OnlyDefinition(program, k, Lower[program[k].label]) )
         => symbols[Lower[program[k].label]] = placed[k]

\* In a well ordered file the first pass already sees every line at the size
\* it has with all symbols known.
PlacedBySize ==
  Unfailed /\ WellOrdered(program) =>
    \A k \in 1..(Len(placed) - 1) :
      placed[k + 1] = placed[k] + Linked(program, k)

\* The second pass puts each instruction where the first pass placed its line.
CodeAtPlaces ==
  Unfailed /\ phase # "first" /\ WellOrdered(program) =>
    /\ TextStart + size = placed[line]
    /\ \A i \in DOMAIN code :
         LET k == code[i].line IN
         /\ k \in 1..Len(program)
         /\ code[i].at = placed[k]
         /\ code[i].at + code[i].len = placed[k + 1]

LabelInvariant ==
  /\ PassProgress
  /\ PlacedInOrder
  /\ SymbolsRecorded
  /\ PlacedBySize
  /\ CodeAtPlaces

-----------------------------------------------------------------------------
(* Claims of the source's comments and tests that the code does not meet.  *)

\* The generator of the first pass "will now have data labels"
\* (x86_simulator_input.cpp): whatever the order of its sections, text labels
\* divide the code of a file whose instructions are all in .text.
LabelsAlwaysMeetCode ==
  /\ Generated /\ firstOk
  /\ \A i \in DOMAIN program :
       Generates(program[i]) => SectionOf(program, i) = "text"
  => LabelsDivideCode

\* A label "on the same line as an instruction" is removed and the rest of the
\* line reprocessed (x86_simulator_input.cpp): the instruction is generated.
LabelledLinesGenerate ==
  Generated =>
    \A k \in DOMAIN program :
      program[k].kind = "instr" /\ program[k].what \in {"mov_imm", "jmp", "nop"}
      => \E i \in DOMAIN code : code[i].line = k

\* calculate_bss_size "calculates the size of a BSS directive" (parser_utils.h),
\* resw and resd among them: the symbols of .bss do not share bytes.
AllStorageIsDisjoint == DisjointStorage({"db", "dd", "resb", "resw", "resd"})
=============================================================================
