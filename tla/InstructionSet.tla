---------------------------- MODULE InstructionSet ----------------------------
(***************************************************************************)
(* The instruction encodings the simulator knows, as two independent       *)
(* tables: how many bytes CodeGenerator::process_line emits for a source   *)
(* instruction, and how many bytes Decoder::decodeInstruction consumes     *)
(* when it starts on the first of those bytes.                             *)
(*                                                                         *)
(* A FORM is a mnemonic with the operand shape the generator tells apart;  *)
(* mnemonics with one encoding length and no difference in what the        *)
(* properties see share a form ("shift" is shl, shr, sar, rol and ror).    *)
(* The byte values are abstracted to the form; the ones in the middle of   *)
(* an instruction are data and are not represented.                        *)
(***************************************************************************)
EXTENDS Naturals

-----------------------------------------------------------------------------
(* The bytes process_line appends to machine_code_, by branch of its       *)
(* if-chain.                                                               *)

MoveBytes   == [mov_imm |-> 5, mov_reg |-> 2, mov_abs |-> 5]
AluBytes    == [alu_reg |-> 2, cmp_imm |-> 3, cmp_truncated |-> 2]

\* A conditional jump is sized the same whether or not its label is known.
JccBytes    == [jne |-> 6, jge |-> 6, jcc |-> 6]
JumpBytes   == [jmp |-> 5, call |-> 5]
GroupBytes  == [int |-> 2, group_reg |-> 2, xor_imm |-> 3]

\* The first "push || pop" branch, between the shifts, has an empty body and
\* hides a second one that would emit a byte.
ShiftBytes  == [shift |-> 3, push_pop |-> 0]
ExtendBytes == [lea_xchg |-> 2, movx |-> 3]
StringBytes == [nop |-> 1, string |-> 1, movsw |-> 2, port |-> 2,
                port_truncated |-> 1]
VectorBytes == [vpxor |-> 4, vmovups |-> 8, vector_mem |-> 8,
                vector_reg |-> 4, vector_truncated |-> 3]

\* A mnemonic process_line does not know (ret, sub, syscall, ...), or a known
\* one with operands it does not encode (add eax, 5).
NoBytes     == [unencodable |-> 0]

JccForms    == DOMAIN JccBytes
BranchForms == JccForms \cup DOMAIN JumpBytes

Forms == DOMAIN MoveBytes \cup DOMAIN AluBytes \cup BranchForms
           \cup DOMAIN GroupBytes \cup DOMAIN ShiftBytes
           \cup DOMAIN ExtendBytes \cup DOMAIN StringBytes
           \cup DOMAIN VectorBytes \cup DOMAIN NoBytes

\* Forms whose operand names a symbol.
SymbolicForms == BranchForms \cup {"mov_abs", "vmovups", "vector_mem"}

\* Forms that leave an instruction short of its last byte: the immediate, or
\* the register of a vector source, is parsed after the opcode was emitted,
\* and the exception that parsing throws is swallowed.
TruncatedForms == {"cmp_truncated", "port_truncated", "vector_truncated"}

SizeIn(table, form) == IF form \in DOMAIN table THEN table[form] ELSE 0

\* The families are disjoint, so the sum is the size of the branch taken. Only
\* an absolute load depends on "known", whether the operand's symbol is in the
\* symbol table: without it, nothing is emitted.
Bytes(form, known) ==
  IF form = "mov_abs" /\ ~ known THEN 0
  ELSE SizeIn(MoveBytes, form) + SizeIn(AluBytes, form)
         + SizeIn(JccBytes, form) + SizeIn(JumpBytes, form)
         + SizeIn(GroupBytes, form) + SizeIn(ShiftBytes, form)
         + SizeIn(ExtendBytes, form) + SizeIn(StringBytes, form)
         + SizeIn(VectorBytes, form) + SizeIn(NoBytes, form)

\* What process_line adds to current_address_, the address the displacements
\* of later instructions are computed from. A vector instruction whose source
\* register does not parse leaves the address where it was.
Advance(form, known) ==
  IF form = "vector_truncated" THEN 0 ELSE Bytes(form, known)

-----------------------------------------------------------------------------
(* length_in_bytes as decodeInstruction computes it from the opcode.       *)

VexLength     == [vpxor |-> 4, vector_reg |-> 4, vector_truncated |-> 4,
                  vmovups |-> 8, vector_mem |-> 8]
\* Mutant: the operand-size prefix of movsw is not recognised.
TwoByteLengthNoPrefix == [jne |-> 6, jge |-> 6, jcc |-> 6, movx |-> 3]

TwoByteLength == [jne |-> 6, jge |-> 6, jcc |-> 6, movx |-> 3, movsw |-> 2]
OneByteLength == [mov_imm |-> 5, mov_abs |-> 5, mov_reg |-> 2, alu_reg |-> 2,
                  group_reg |-> 2, lea_xchg |-> 2, cmp_imm |-> 3,
                  cmp_truncated |-> 3, xor_imm |-> 3, shift |-> 3,
                  nop |-> 1, string |-> 1]
\* Mutant: jumps decoded as if their displacement had one byte.
TailLengthShort == [jmp |-> 2, call |-> 2, int |-> 2, port |-> 2,
                    port_truncated |-> 2]

TailLength    == [jmp |-> 5, call |-> 5, int |-> 2, port |-> 2,
                  port_truncated |-> 2]

DecodedLength(form) ==
  SizeIn(VexLength, form) + SizeIn(TwoByteLength, form)
    + SizeIn(OneByteLength, form) + SizeIn(TailLength, form)

\* The longest instruction the decoder recognises: a three-byte VEX prefix,
\* opcode, ModR/M and a displacement.
LongestInstruction == 9
=============================================================================
