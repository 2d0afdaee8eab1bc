------------------------------ MODULE Assembler ------------------------------
(***************************************************************************)
(* How a source file becomes a loaded program: X86Simulator::firstPass,    *)
(* X86Simulator::secondPass, CodeGenerator and ProgramDecoder::decode, run *)
(* in that order by SystemBus::create_and_configure_simulator, which       *)
(* ignores the value firstPass returns.                                    *)
(*                                                                         *)
(* The first pass walks the lines with one location counter per section    *)
(* and fills the symbol table; for a line in .text it runs the generator   *)
(* on that line alone and adds the number of bytes that come out. The      *)
(* second pass runs the generator over every line, whatever its section,   *)
(* with the complete table. Nothing in the code makes the two agree: a     *)
(* label is right only if every line before it came out at the same size   *)
(* both times.                                                             *)
(*                                                                         *)
(* A line is a record: its label ("name:" as first token, or NoName), the  *)
(* kind of the rest, "what" it is (section, form or directive), the        *)
(* symbol it defines or refers to, how many of its operands are well       *)
(* formed, how many operand tokens it has, commas counted, and "args", the *)
(* registers and numbers of an instruction, which no size depends on.      *)
(***************************************************************************)
EXTENDS Integers, Sequences, InstructionSet

CONSTANTS
  Names,        \* symbols, as spelled in the source
  NoName,       \* the absence of one
  Lower,        \* the lower-case spelling of each
  EntryPoint,   \* "_start"
  Arguments,    \* the registers and numbers of instructions
  Programs,     \* the source files considered
  TextStart, DataStart, BssStart,
  StackBottom   \* the size of the memory, where the stack starts

Sections   == {"text", "data", "bss"}
DataWidth  == [db |-> 1, dw |-> 2, dd |-> 4, dq |-> 8]
BssWidth   == [resb |-> 1, resw |-> 2, resd |-> 4, resq |-> 8]
Kinds      == {"none", "section", "instr", "define", "reserve"}
Whats      == Sections \cup Forms \cup DOMAIN DataWidth
                \cup DOMAIN BssWidth \cup {"nothing", "unknown"}
Unbound    == -1

SourceLine ==
  {ln \in [label : Names \cup {NoName}, kind : Kinds, what : Whats,
           name : Names \cup {NoName}, ok : Nat, toks : Nat, args : Arguments] :
     /\ ln.kind = "define"  => ln.what \in DOMAIN DataWidth
     /\ ln.kind = "reserve" => ln.what \in DOMAIN BssWidth
     /\ ln.kind = "instr"   => /\ ln.what \in Forms
                               /\ ln.what \in SymbolicForms => ln.name \in Names}

ASSUME AssemblerAssumption ==
  /\ NoName \notin Names
  /\ EntryPoint \in Names
  /\ Lower \in [Names -> Names]
  /\ \A n \in Names : Lower[Lower[n]] = Lower[n]
  /\ Lower[EntryPoint] = EntryPoint
  /\ Programs \subseteq Seq(SourceLine)
  /\ TextStart \in Nat /\ DataStart \in Nat /\ BssStart \in Nat
  /\ TextStart < DataStart /\ DataStart < BssStart
  /\ StackBottom \in Nat /\ BssStart < StackBottom

VARIABLES
  program,      \* programLines_
  phase,        \* which loop of the load is running, or how it ended
  line,         \* the line that loop is at
  firstOk,      \* what firstPass returned
  section,      \* which counter current_lc points to
  lc,           \* text_lc, data_lc and bss_lc
  symbols,      \* symbolTable_
  code,         \* machine_code_, as the instructions its bytes belong to
  size,         \* machine_code_.size()
  genAddress,   \* CodeGenerator::current_address_ of the second pass
  rip,
  sweepAt,      \* addr of ProgramDecoder::decode
  decoded,      \* the keys of address_to_index_map_
  placed        \* history: text_lc when the first pass reached each line

firstVars  == <<firstOk, section, lc, symbols, placed>>
secondVars == <<code, size, genAddress>>
sweepVars  == <<rip, sweepAt, decoded>>
vars == <<program, phase, line, firstVars, secondVars, sweepVars>>

Phases == {"first", "second", "sweep", "ready", "spinning", "threw"}

Instruction ==
  [line : Nat, form : Forms, at : Int, len : Nat, dest : Int,
   name : Names \cup {NoName}]

TypeOK ==
  /\ program \in Seq(SourceLine)
  /\ phase \in Phases
  /\ line \in Nat \ {0}
  /\ firstOk \in BOOLEAN
  /\ section \in Sections
  /\ lc \in [Sections -> Nat]
  /\ symbols \in [Names -> Nat \cup {Unbound}]
  /\ code \in Seq(Instruction)
  /\ size \in Nat
  /\ genAddress \in Nat
  /\ rip \in Nat
  /\ sweepAt \in Nat
  /\ decoded \subseteq Nat
  /\ placed \in Seq(Nat)

-----------------------------------------------------------------------------
(* The generator on one line, with the symbol table it is given.           *)

\* Mutant: the operand is looked up as it is spelled.
KnownAsSpelled(ln, table) ==
  ln.what \in SymbolicForms /\ table[ln.name] # Unbound

\* Operands are lower-cased before they are looked up.
Known(ln, table) ==
  ln.what \in SymbolicForms /\ table[Lower[ln.name]] # Unbound

\* A line whose first token is a label is skipped whole, so an instruction
\* after a label emits nothing; so does a line that is no instruction.
Generates(ln) == ln.kind = "instr" /\ ln.label = NoName

Emitted(ln, table) ==
  IF Generates(ln) THEN Bytes(ln.what, Known(ln, table)) ELSE 0

Advanced(ln, table) ==
  IF Generates(ln) THEN Advance(ln.what, Known(ln, table)) ELSE 0

\* Mutant: displacements count from the start of the instruction.
DestinationFromStart(ln, table, at, from) ==
  IF ~ Generates(ln) \/ ln.what \notin SymbolicForms THEN 0
  ELSE IF ~ Known(ln, table) THEN at + Bytes(ln.what, FALSE)
  ELSE table[Lower[ln.name]]
         + (IF ln.what = "mov_abs" THEN 0 ELSE at - from + Bytes(ln.what, TRUE))

\* The address the operand will denote when the instruction at "at" runs. An
\* absolute operand holds the symbol's value; a displacement is relative to
\* the generator's own address, "from", and is applied to the real one. An
\* unknown label leaves a zero displacement: the next instruction.
Destination(ln, table, at, from) ==
  IF ~ Generates(ln) \/ ln.what \notin SymbolicForms THEN 0
  ELSE IF ~ Known(ln, table) THEN at + Bytes(ln.what, FALSE)
  ELSE table[Lower[ln.name]] + (IF ln.what = "mov_abs" THEN 0 ELSE at - from)

-----------------------------------------------------------------------------
(* X86Simulator::firstPass, one line per step.                             *)

Here == program[line]

\* The table once the line's own label has been recorded, in lower case.
Labelled ==
  IF Here.label = NoName THEN symbols
  ELSE [symbols EXCEPT ![Lower[Here.label]] = lc[section]]

\* The table once a data or bss symbol is recorded too, spelled as it is.
Named ==
  IF Here.name = NoName THEN Labelled
  ELSE [Labelled EXCEPT ![Here.name] = lc[section]]

InFirst(where) ==
  /\ phase = "first" /\ line <= Len(program)
  /\ section = where

\* The rest of an iteration that adds n to the current counter.
Reserve(n, table) ==
  /\ lc' = [lc EXCEPT ![section] = @ + n]
  /\ symbols' = table
  /\ placed' = Append(placed, lc'["text"])
  /\ line' = line + 1
  /\ UNCHANGED <<program, phase, firstOk, section, secondVars, sweepVars>>

\* A blank line, a comment, or a label with nothing after it.
SkipOrLabel ==
  /\ phase = "first" /\ line <= Len(program)
  /\ Here.kind = "none"
  /\ Reserve(0, Labelled)

SwitchSection ==
  /\ phase = "first" /\ line <= Len(program)
  /\ Here.kind = "section" /\ Here.what \in Sections
  /\ section' = Here.what
  /\ symbols' = Labelled
  /\ placed' = Append(placed, lc["text"])
  /\ line' = line + 1
  /\ UNCHANGED <<program, phase, firstOk, lc, secondVars, sweepVars>>

\* An unknown section ends the pass at once: firstPass returns false, and the
\* caller runs the second pass all the same.
RejectSection ==
  /\ phase = "first" /\ line <= Len(program)
  /\ Here.kind = "section" /\ Here.what \notin Sections
  /\ firstOk' = FALSE
  /\ symbols' = Labelled
  /\ phase' = "second" /\ line' = 1
  /\ UNCHANGED <<program, section, lc, placed, secondVars, sweepVars>>

\* Mutant: a byte per operand, whatever the directive.
DataBytesUnscaled == Here.ok

\* db and dd write their values as they go; write_data throws at the first
\* byte past the data segment, and nothing catches it. Operands that do not
\* parse are skipped and take no room, and a counter that other directives
\* have carried past the memory writes nothing at all.
DataBytes == DataWidth[Here.what] * Here.ok

DefineData ==
  /\ InFirst("data")
  /\ Here.kind = "define" /\ Here.what \in {"db", "dd"}
  /\ \/ Here.ok = 0
     \/ lc["data"] + DataBytes <= BssStart
     \/ lc["data"] >= StackBottom
  /\ Reserve(DataBytes, Named)

DataOverflow ==
  /\ InFirst("data")
  /\ Here.kind = "define" /\ Here.what \in {"db", "dd"}
  /\ Here.ok # 0
  /\ lc["data"] + DataBytes > BssStart /\ lc["data"] < StackBottom
  /\ symbols' = Named
  /\ phase' = "threw"
  /\ UNCHANGED <<program, line, firstOk, section, lc, placed,
                 secondVars, sweepVars>>

\* Other directives are only sized, by their first token: behind a symbol the
\* directive is not recognised, and neither is the symbol recorded. Every
\* token counts as an operand, commas included.
DefineOther ==
  /\ InFirst("data")
  /\ Here.kind = "define" /\ Here.what \notin {"db", "dd"}
  /\ Reserve(IF Here.name = NoName THEN DataWidth[Here.what] * Here.toks ELSE 0,
             Labelled)

\* resb, resw and resd record a symbol, but only resb is sized with one: the
\* others are handed to calculate_bss_size with the symbol in first place.
\* A resb needs a number, or no operand at all.
Throws == Here.what = "resb" /\ Here.ok = 0 /\ Here.toks # 0

ReserveBss ==
  /\ InFirst("bss")
  /\ Here.kind = "reserve" /\ Here.what # "resq" /\ ~ Throws
  /\ Reserve(IF Here.what = "resb" \/ Here.name = NoName
             THEN BssWidth[Here.what] * Here.ok ELSE 0,
             Named)

\* std::stoul throws on an operand of resb that is no number: the symbol is
\* recorded by then, and nothing catches it.
ReserveThrows ==
  /\ InFirst("bss")
  /\ Here.kind = "reserve" /\ Throws
  /\ symbols' = Named
  /\ phase' = "threw"
  /\ UNCHANGED <<program, line, firstOk, section, lc, placed,
                 secondVars, sweepVars>>

ReserveQuad ==
  /\ InFirst("bss")
  /\ Here.kind = "reserve" /\ Here.what = "resq"
  /\ Reserve(IF Here.name = NoName THEN BssWidth[Here.what] * Here.ok ELSE 0,
             Labelled)

\* A line that does not belong to its section: calculate_data_size and
\* calculate_bss_size return 0 for a first token they do not know.
Misplaced ==
  /\ \/ InFirst("data") /\ Here.kind \in {"instr", "reserve"}
     \/ InFirst("bss")  /\ Here.kind \in {"instr", "define"}
  /\ Reserve(0, Labelled)

\* Mutant: the line is sized without the table the pass has so far.
SizeTextUnlinked ==
  /\ InFirst("text")
  /\ Here.kind \in {"instr", "define", "reserve"}
  /\ Reserve(Emitted(Here, [n \in Names |-> Unbound]), Labelled)

\* In .text the line is generated on its own and thrown away but for its size.
SizeText ==
  /\ InFirst("text")
  /\ Here.kind \in {"instr", "define", "reserve"}
  /\ Reserve(Emitted(Here, Labelled), Labelled)

\* Mutant: the second pass counts lines from zero.
EndFirstAtZero ==
  /\ phase = "first" /\ line > Len(program)
  /\ phase' = "second" /\ line' = 0
  /\ UNCHANGED <<program, firstVars, secondVars, sweepVars>>

EndFirst ==
  /\ phase = "first" /\ line > Len(program)
  /\ phase' = "second" /\ line' = 1
  /\ UNCHANGED <<program, firstVars, secondVars, sweepVars>>

-----------------------------------------------------------------------------
(* X86Simulator::secondPass and ProgramDecoder::decode.                    *)

GenerateLine ==
  /\ phase = "second" /\ line <= Len(program)
  /\ LET n  == Emitted(Here, symbols)
         at == TextStart + size
         i  == [line |-> line, form |-> Here.what, at |-> at, len |-> n,
                dest |-> Destination(Here, symbols, at, genAddress),
                name |-> Here.name]
     IN  /\ code' = IF n = 0 THEN code ELSE Append(code, i)
         /\ size' = size + n
         /\ genAddress' = genAddress + Advanced(Here, symbols)
  /\ line' = line + 1
  /\ UNCHANGED <<program, phase, firstVars, sweepVars>>

\* write_text is bounded by the text segment, which ends where .data starts.
TextOverflow ==
  /\ phase = "second" /\ line > Len(program)
  /\ TextStart + size > DataStart
  /\ phase' = "threw"
  /\ UNCHANGED <<program, line, firstVars, secondVars, sweepVars>>

Install ==
  /\ phase = "second" /\ line > Len(program)
  /\ TextStart + size <= DataStart
  /\ rip' = IF symbols[EntryPoint] = Unbound THEN TextStart
            ELSE symbols[EntryPoint]
  /\ sweepAt' = TextStart
  /\ phase' = "sweep"
  /\ UNCHANGED <<program, line, firstVars, secondVars, decoded>>

TextEnd == TextStart + size
Starts  == {code[i].at : i \in DOMAIN code}

\* One decodeInstruction of length n. The text segment now ends with the
\* program: a byte read past it throws.
Decode(n) ==
  IF sweepAt + n > TextEnd
  THEN /\ phase' = "threw"
       /\ UNCHANGED <<sweepAt, decoded>>
  ELSE /\ decoded' = decoded \cup {sweepAt}
       /\ sweepAt' = sweepAt + n
       /\ phase' = IF n = 0 THEN "spinning" ELSE phase

Sweep ==
  /\ phase = "sweep" /\ sweepAt < TextEnd
  /\ \E i \in DOMAIN code :
       /\ code[i].at = sweepAt
       /\ Decode(DecodedLength(code[i].form))
  /\ UNCHANGED <<program, line, firstVars, secondVars, rip>>

\* Starting inside an instruction the decoder reads operand bytes, so that any
\* length is possible; 0 (an unknown byte after 0F or 66) never advances.
SweepInside ==
  /\ phase = "sweep" /\ sweepAt < TextEnd
  /\ sweepAt \notin Starts
  /\ \E n \in 0..LongestInstruction : Decode(n)
  /\ UNCHANGED <<program, line, firstVars, secondVars, rip>>

EndSweep ==
  /\ phase = "sweep" /\ sweepAt >= TextEnd
  /\ phase' = "ready"
  /\ UNCHANGED <<program, line, firstVars, secondVars, sweepVars>>

\* The loop around a zero-length instruction, and the end of the load.
Rest ==
  /\ phase \in {"spinning", "ready", "threw"}
  /\ UNCHANGED vars

-----------------------------------------------------------------------------
Init ==
  /\ program \in Programs
  /\ phase = "first" /\ line = 1 /\ firstOk = TRUE
  /\ section = "text"
  /\ lc = [text |-> TextStart, data |-> DataStart, bss |-> BssStart]
  /\ symbols = [n \in Names |-> Unbound]
  /\ placed = <<TextStart>>
  /\ code = <<>> /\ size = 0 /\ genAddress = TextStart
  /\ rip = 0 /\ sweepAt = TextStart /\ decoded = {}

FirstPass ==
  \/ SkipOrLabel \/ SwitchSection \/ RejectSection
  \/ DefineData \/ DataOverflow \/ DefineOther
  \/ ReserveBss \/ ReserveThrows \/ ReserveQuad \/ Misplaced
  \/ SizeText \/ EndFirst

SecondPass == GenerateLine \/ TextOverflow \/ Install

Decoding == Sweep \/ SweepInside \/ EndSweep

Next == FirstPass \/ SecondPass \/ Decoding \/ Rest

\* The load is straight-line code of one thread: a step it can take is taken.
Spec     == Init /\ [][Next]_vars
FairSpec == Spec /\ WF_vars(Next)
=============================================================================
