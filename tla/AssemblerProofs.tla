--------------------------- MODULE AssemblerProofs ---------------------------
(***************************************************************************)
(* For every source file, symbol set and layout: the passes keep their     *)
(* types, the addresses the first one gives to text labels divide the code *)
(* the second one emits, storage does not overlap, the decoder finds the   *)
(* instructions that were emitted, and control only goes to instructions.  *)
(***************************************************************************)
EXTENDS AssemblerProperties, SequenceTheorems, TLAPS

\* The encoding tables give a natural number of bytes.
LEMMA BytesType ==
  \A form, known : Bytes(form, known) \in Nat /\ Advance(form, known) \in Nat
<1>1. \A form : SizeIn(MoveBytes, form) \in Nat
  BY DEF SizeIn, MoveBytes
<1>2. \A form : SizeIn(AluBytes, form) \in Nat
  BY DEF SizeIn, AluBytes
<1>3. \A form : SizeIn(JccBytes, form) \in Nat
  BY DEF SizeIn, JccBytes
<1>4. \A form : SizeIn(JumpBytes, form) \in Nat
  BY DEF SizeIn, JumpBytes
<1>5. \A form : SizeIn(GroupBytes, form) \in Nat
  BY DEF SizeIn, GroupBytes
<1>6. \A form : SizeIn(ShiftBytes, form) \in Nat
  BY DEF SizeIn, ShiftBytes
<1>7. \A form : SizeIn(ExtendBytes, form) \in Nat
  BY DEF SizeIn, ExtendBytes
<1>8. \A form : SizeIn(StringBytes, form) \in Nat
  BY DEF SizeIn, StringBytes
<1>9. \A form : SizeIn(VectorBytes, form) \in Nat
  BY DEF SizeIn, VectorBytes
<1>10. \A form : SizeIn(NoBytes, form) \in Nat
  BY DEF SizeIn, NoBytes
<1>11. TAKE form, known
<1>12. Bytes(form, known) \in Nat
  BY <1>1, <1>2, <1>3, <1>4, <1>5, <1>6, <1>7, <1>8, <1>9, <1>10 DEF Bytes
<1>13. QED
  BY <1>12 DEF Advance

LEMMA DecodedType == \A form : DecodedLength(form) \in Nat
BY DEF DecodedLength, SizeIn, VexLength, TwoByteLength, OneByteLength, TailLength

\* Only the absolute load is sized by what the symbol table holds.
LEMMA BytesStable ==
  \A form, known : form # "mov_abs" => Bytes(form, known) = Bytes(form, TRUE)
BY DEF Bytes

-----------------------------------------------------------------------------
\* The fields of the line a pass is at.
LEMMA HereType ==
  ASSUME program \in Seq(SourceLine), line \in Nat \ {0}, line <= Len(program)
  PROVE  /\ line \in DOMAIN program
         /\ Here.label \in Names \cup {NoName}
         /\ Here.name \in Names \cup {NoName}
         /\ Here.ok \in Nat /\ Here.toks \in Nat
         /\ Here.kind \in Kinds
         /\ Here.kind = "instr" => Here.what \in Forms
         /\ Here.kind = "instr" /\ Here.what \in SymbolicForms => Here.name \in Names
         /\ Here.kind = "define" => Here.what \in DOMAIN DataWidth
         /\ Here.kind = "reserve" => Here.what \in DOMAIN BssWidth
<1>1. Here \in SourceLine
  BY DEF Here
<1>2. QED
  BY <1>1 DEF SourceLine, Kinds

LEMMA TablesType ==
  ASSUME symbols \in [Names -> Nat \cup {Unbound}],
         lc \in [Sections -> Nat], section \in Sections,
         Here.label \in Names \cup {NoName}, Here.name \in Names \cup {NoName}
  PROVE  /\ Labelled \in [Names -> Nat \cup {Unbound}]
         /\ Named \in [Names -> Nat \cup {Unbound}]
BY AssemblerAssumption DEF Labelled, Named

LEMMA WidthsType ==
  /\ \A d \in DOMAIN DataWidth : DataWidth[d] \in Nat
  /\ \A d \in DOMAIN BssWidth : BssWidth[d] \in Nat
BY DEF DataWidth, BssWidth

LEMMA ProductType == \A m, n \in Nat : m * n \in Nat
OBVIOUS

\* An iteration of the first pass that reserves n bytes keeps the types.
LEMMA ReserveType ==
  ASSUME TypeOK, NEW n \in Nat,
         NEW table \in [Names -> Nat \cup {Unbound}], Reserve(n, table)
  PROVE  TypeOK'
<1>1. lc' \in [Sections -> Nat] /\ lc'["text"] \in Nat
  BY DEF TypeOK, Reserve, Sections
<1>2. QED
  BY <1>1 DEF TypeOK, Reserve, firstVars, secondVars, sweepVars

-----------------------------------------------------------------------------
\* The first state of a load has the types, and every step keeps them.
LEMMA TypeInit == ASSUME Init PROVE TypeOK
<1>1. program \in Seq(SourceLine)
  BY AssemblerAssumption DEF Init
<1>2. lc \in [Sections -> Nat]
  BY AssemblerAssumption DEF Init, Sections
<1>3. QED
  BY <1>1, <1>2, AssemblerAssumption DEF Init, TypeOK, Phases, Sections

LEMMA TypeStep == ASSUME TypeOK, [Next]_vars PROVE TypeOK'
<1>a. ASSUME line <= Len(program)
      PROVE  /\ Labelled \in [Names -> Nat \cup {Unbound}]
             /\ Named \in [Names -> Nat \cup {Unbound}]
  BY <1>a, HereType, TablesType DEF TypeOK
<1>1. CASE SkipOrLabel
  BY <1>1, <1>a, ReserveType DEF SkipOrLabel
<1>2. CASE SwitchSection
  <2>1. lc["text"] \in Nat
    BY DEF TypeOK, Sections
  <2>2. QED
    BY <1>2, <1>a, <2>1
    DEF SwitchSection, TypeOK, secondVars, sweepVars
<1>3. CASE RejectSection
  <2>1. symbols' \in [Names -> Nat \cup {Unbound}]
    BY <1>3, <1>a DEF RejectSection
  <2>2. phase' \in Phases /\ line' \in Nat \ {0}
    <3>1. phase' = "second" /\ line' = 1
      BY <1>3 DEF RejectSection
    <3>2. QED
      BY <3>1 DEF Phases
  <2>3. UNCHANGED <<program, section, lc, placed, secondVars, sweepVars>>
    BY <1>3 DEF RejectSection
  <2>4. firstOk' \in BOOLEAN
    BY <1>3 DEF RejectSection
  <2>5. QED
    BY <2>1, <2>2, <2>3, <2>4 DEF TypeOK, secondVars, sweepVars
<1>4. CASE DefineData
  <2>1. DataBytes \in Nat
    BY <1>4, HereType, WidthsType, ProductType
    DEF DefineData, InFirst, TypeOK, DataBytes
  <2>2. QED
    BY <1>4, <1>a, <2>1, ReserveType DEF DefineData, InFirst
<1>5. CASE DataOverflow \/ ReserveThrows
  BY <1>5, <1>a DEF DataOverflow, ReserveThrows, InFirst, TypeOK, Phases, secondVars, sweepVars
<1>6. CASE DefineOther
  <2>1. DataWidth[Here.what] * Here.toks \in Nat
    BY <1>6, HereType, WidthsType, ProductType DEF DefineOther, InFirst, TypeOK
  <2>2. QED
    BY <1>6, <1>a, <2>1, ReserveType DEF DefineOther, InFirst
<1>7. CASE ReserveBss
  <2>1. BssWidth[Here.what] * Here.ok \in Nat
    BY <1>7, HereType, WidthsType, ProductType DEF ReserveBss, InFirst, TypeOK
  <2>2. QED
    BY <1>7, <1>a, <2>1, ReserveType DEF ReserveBss, InFirst
<1>8. CASE ReserveQuad
  <2>1. BssWidth[Here.what] * Here.ok \in Nat
    BY <1>8, HereType, WidthsType, ProductType DEF ReserveQuad, InFirst, TypeOK
  <2>2. QED
    BY <1>8, <1>a, <2>1, ReserveType DEF ReserveQuad, InFirst
<1>9. CASE Misplaced
  BY <1>9, <1>a, ReserveType DEF Misplaced, InFirst
<1>10. CASE SizeText
  <2>1. Emitted(Here, Labelled) \in Nat
    BY BytesType DEF Emitted
  <2>2. QED
    BY <1>10, <1>a, <2>1, ReserveType DEF SizeText, InFirst
<1>11. CASE EndFirst
  BY <1>11 DEF EndFirst, TypeOK, Phases, firstVars, secondVars, sweepVars
<1>12. CASE GenerateLine
  <2> DEFINE n  == Emitted(Here, symbols)
             at == TextStart + size
             d  == Destination(Here, symbols, at, genAddress)
             i  == [line |-> line, form |-> Here.what, at |-> at,
                    len |-> n, dest |-> d, name |-> Here.name]
  <2>1. n \in Nat /\ Advanced(Here, symbols) \in Nat
    BY BytesType DEF Emitted, Advanced
  <2>2. at \in Int
    BY AssemblerAssumption DEF TypeOK
  <2>3. Here.name \in Names \cup {NoName}
    BY <1>12, HereType DEF GenerateLine, TypeOK
  <2>4. d \in Int
    <3>1. CASE ~ Generates(Here) \/ Here.what \notin SymbolicForms
      <4>1. d = 0
        BY <3>1 DEF Destination
      <4> HIDE DEF d
      <4>2. QED
        BY <4>1
    <3>2. CASE Generates(Here) /\ Here.what \in SymbolicForms
      <4>1. symbols[Lower[Here.name]] \in Int
        BY <3>2, <1>12, HereType, AssemblerAssumption
        DEF GenerateLine, TypeOK, Generates, Unbound
      <4> DEFINE unlinked == Bytes(Here.what, FALSE)
      <4>2. unlinked \in Nat
        BY BytesType
      <4>3. genAddress \in Int
        BY DEF TypeOK
      <4>4. CASE Known(Here, symbols)
        <5>1. d = symbols[Lower[Here.name]]
                    + (IF Here.what = "mov_abs" THEN 0 ELSE at - genAddress)
          BY <3>2, <4>4 DEF Destination
        <5> HIDE DEF at, d
        <5>2. QED
          BY <5>1, <4>1, <4>3, <2>2
      <4>5. CASE ~ Known(Here, symbols)
        <5>1. d = at + unlinked
          BY <3>2, <4>5 DEF Destination
        <5> HIDE DEF at, d, unlinked
        <5>2. QED
          BY <5>1, <4>2, <2>2
      <4>6. QED
        BY <4>4, <4>5
    <3>3. QED
      BY <3>1, <3>2
  <2>5. n # 0 => i \in Instruction
    <3>1. n # 0 => Here.what \in Forms
      BY <1>12, HereType DEF GenerateLine, TypeOK, Emitted, Generates
    <3>2. QED
      BY <3>1, <2>1, <2>2, <2>3, <2>4 DEF Instruction, TypeOK
  <2>6. code' \in Seq(Instruction)
    BY <1>12, <2>5 DEF GenerateLine, TypeOK
  <2>7. QED
    BY <1>12, <2>1, <2>6 DEF GenerateLine, TypeOK, firstVars, sweepVars
<1>13. CASE TextOverflow
  BY <1>13 DEF TextOverflow, TypeOK, Phases, firstVars, secondVars, sweepVars
<1>14. CASE Install
  <2>1. rip' \in Nat
    BY <1>14, AssemblerAssumption DEF Install, TypeOK, Unbound
  <2>2. QED
    BY <1>14, <2>1, AssemblerAssumption
    DEF Install, TypeOK, Phases, firstVars, secondVars
<1>15. CASE Decoding
  <2>1. ASSUME NEW n \in Nat, Decode(n),
               UNCHANGED <<program, line, firstVars, secondVars, rip>>
        PROVE  TypeOK'
    <3>1. /\ sweepAt' \in Nat
          /\ decoded' \subseteq Nat
          /\ phase' \in Phases
      <4>1. sweepAt \in Nat /\ decoded \subseteq Nat /\ phase \in Phases
        BY DEF TypeOK
      <4>2. CASE sweepAt + n > TextEnd
        BY <2>1, <4>1, <4>2 DEF Decode, Phases
      <4>3. CASE ~ (sweepAt + n > TextEnd)
        <5>1. /\ decoded' = decoded \cup {sweepAt}
              /\ sweepAt' = sweepAt + n
              /\ phase' = IF n = 0 THEN "spinning" ELSE phase
          BY <2>1, <4>3 DEF Decode
        <5>2. QED
          BY <5>1, <4>1 DEF Phases
      <4>4. QED
        BY <4>2, <4>3
    <3>2. QED
      BY <2>1, <3>1 DEF TypeOK, firstVars, secondVars
  <2>2. CASE Sweep
    BY <2>2, <2>1, DecodedType DEF Sweep
  <2>3. CASE SweepInside
    BY <2>3, <2>1 DEF SweepInside, LongestInstruction
  <2>4. CASE EndSweep
    BY <2>4 DEF EndSweep, TypeOK, Phases, firstVars, secondVars, sweepVars
  <2>5. QED
    BY <1>15, <2>2, <2>3, <2>4 DEF Decoding
<1>16. CASE Rest \/ UNCHANGED vars
  BY <1>16 DEF Rest, vars, TypeOK, firstVars, secondVars, sweepVars
<1>17. QED
  BY <1>1, <1>2, <1>3, <1>4, <1>5, <1>6, <1>7, <1>8, <1>9, <1>10, <1>11,
     <1>12, <1>13, <1>14, <1>15, <1>16
  DEF Next, FirstPass, SecondPass

\* Type correctness: every variable of the load keeps its type.
THEOREM TypeCorrect == Spec => []TypeOK
<1>1. Init => TypeOK
  BY TypeInit
<1>2. TypeOK /\ [Next]_vars => TypeOK'
  BY TypeStep
<1>3. QED
  BY <1>1, <1>2, PTL DEF Spec

-----------------------------------------------------------------------------
(* Labels, by the inductive invariant LabelInvariant.                      *)

\* The section of the first line is .text, and a line changes the section of
\* the next one exactly when it is a section directive that is understood.
LEMMA SectionStart == \A p : SectionOf(p, 1) = "text"
BY DEF SectionOf, Sectioning

LEMMA SectionStep ==
  ASSUME NEW p, NEW i \in Nat \ {0}
  PROVE  SectionOf(p, i + 1) =
           IF p[i].kind = "section" /\ p[i].what \in Sections
           THEN p[i].what ELSE SectionOf(p, i)
<1>1. CASE p[i].kind = "section" /\ p[i].what \in Sections
  <2> DEFINE S == Sectioning(p, i + 1)
  <2>1. i \in S /\ \A j \in S : j \in Nat /\ j <= i
    BY <1>1 DEF Sectioning
  <2>2. Max(S) \in S /\ \A j \in S : Max(S) >= j
    BY <2>1 DEF Max
  <2>3. Max(S) = i
    BY <2>1, <2>2
  <2>4. S # {} /\ SectionOf(p, i + 1) = p[Max(S)].what
    BY <2>1 DEF SectionOf
  <2>5. QED
    BY <2>3, <2>4, <1>1
<1>2. CASE ~ (p[i].kind = "section" /\ p[i].what \in Sections)
  <2>1. Sectioning(p, i + 1) = Sectioning(p, i)
    BY <1>2 DEF Sectioning
  <2>2. QED
    BY <1>2, <2>1 DEF SectionOf
<1>3. QED
  BY <1>1, <1>2

-----------------------------------------------------------------------------
\* A line of a well ordered file has its final size as soon as the lines
\* before it have their symbols in the table.
LEMMA SizeIsFinal ==
  ASSUME AssemblerAssumption, program \in Seq(SourceLine), WellOrdered(program),
         NEW table \in [Names -> Nat \cup {Unbound}],
         NEW k \in 1..Len(program),
         \A j \in 1..(k - 1) : \A s \in Names :
           Defines(program, j, s) => table[s] # Unbound
  PROVE  Emitted(program[k], table) = Linked(program, k)
<1>1. CASE ~ Generates(program[k])
  BY <1>1 DEF Emitted, Linked
<1>2. CASE Generates(program[k]) /\ program[k].what # "mov_abs"
  BY <1>2, BytesStable DEF Emitted, Linked
<1>3. CASE Generates(program[k]) /\ program[k].what = "mov_abs"
  <2>1. "mov_abs" \in SymbolicForms
    BY DEF SymbolicForms
  <2>2. program[k].name \in Names
    BY <1>3, <2>1 DEF SourceLine, Generates
  <2>3. Lower[program[k].name] \in Names
    BY <2>2
  <2>4. PICK j \in 1..(k - 1) : Defines(program, j, Lower[program[k].name])
    BY <1>3 DEF WellOrdered
  <2>5. table[Lower[program[k].name]] # Unbound
    BY <2>3, <2>4
  <2>6. Known(program[k], table)
    BY <1>3, <2>1, <2>5 DEF Known
  <2>7. QED
    BY <1>3, <2>6 DEF Emitted, Linked
<1>4. QED
  BY <1>1, <1>2, <1>3

LEMMA LinkedType == \A p, i : Linked(p, i) \in Nat
BY BytesType DEF Linked

-----------------------------------------------------------------------------
(* One line of the first pass.                                             *)

\* What an iteration that goes on to the next line does to the table: exactly
\* the symbols the line defines are bound, a text label to text_lc.
TableStep ==
  /\ \A s \in Names :
       /\ Defines(program, line, s) => symbols'[s] # Unbound
       /\ ~ Defines(program, line, s) => symbols'[s] = symbols[s]
  /\ Here.label # NoName /\ section = "text" =>
       symbols'[Lower[Here.label]] = lc["text"]

\* What it does to the rest.
LineStep ==
  /\ phase = "first" /\ line <= Len(program)
  /\ placed' = Append(placed, lc'["text"]) /\ line' = line + 1
  /\ lc'["text"] = lc["text"]
                     + (IF section = "text" THEN Emitted(Here, Labelled) ELSE 0)
  /\ section' = IF Here.kind = "section" /\ Here.what \in Sections
                THEN Here.what ELSE section
  /\ UNCHANGED <<program, phase, firstOk, code, size>>

WalkLine ==
  \/ SkipOrLabel \/ SwitchSection \/ DefineData \/ DefineOther
  \/ ReserveBss \/ ReserveQuad \/ Misplaced \/ SizeText

LEMMA LabelledTable ==
  ASSUME TypeOK, line <= Len(program), section = SectionOf(program, line),
         ~ Records(Here, section), symbols' = Labelled
  PROVE  TableStep
<1>1. \A s \in Names :
        Defines(program, line, s) <=> Here.label # NoName /\ Lower[Here.label] = s
  BY DEF Defines, Records, Here
<1>2. Here.label \in Names \cup {NoName}
  BY HereType DEF TypeOK
<1>3. lc[section] \in Nat
  BY DEF TypeOK
<1>4. CASE Here.label = NoName
  BY <1>1, <1>4 DEF TableStep, Labelled
<1>5. CASE Here.label # NoName
  <2>1. Lower[Here.label] \in Names
    BY <1>2, <1>5, AssemblerAssumption
  <2>2. symbols' = [symbols EXCEPT ![Lower[Here.label]] = lc[section]]
    BY <1>5 DEF Labelled
  <2>3. \A s \in Names :
          symbols'[s] = IF s = Lower[Here.label] THEN lc[section] ELSE symbols[s]
    BY <2>1, <2>2 DEF TypeOK
  <2>4. ASSUME NEW s \in Names
        PROVE  /\ Defines(program, line, s) => symbols'[s] # Unbound
               /\ ~ Defines(program, line, s) => symbols'[s] = symbols[s]
    BY <1>1, <1>3, <1>5, <2>3 DEF Unbound
  <2>5. section = "text" => symbols'[Lower[Here.label]] = lc["text"]
    BY <2>1, <2>3
  <2>6. QED
    BY <2>4, <2>5 DEF TableStep
<1>6. QED
  BY <1>4, <1>5

LEMMA NamedTable ==
  ASSUME TypeOK, line <= Len(program), section = SectionOf(program, line),
         Records(Here, section), symbols' = Named
  PROVE  TableStep
<1>1. \A s \in Names :
        Defines(program, line, s) <=>
          \/ Here.label # NoName /\ Lower[Here.label] = s
          \/ Here.name = s
  BY DEF Defines, Records, Here
<1>2. Here.label \in Names \cup {NoName} /\ Here.name \in Names \cup {NoName}
  BY HereType DEF TypeOK
<1>3. lc[section] \in Nat
  BY DEF TypeOK
<1>4. Labelled \in [Names -> Nat \cup {Unbound}]
  BY TablesType, <1>2 DEF TypeOK
<1>5. \A s \in Names :
        Labelled[s] = IF Here.label # NoName /\ s = Lower[Here.label]
                      THEN lc[section] ELSE symbols[s]
  BY <1>2, AssemblerAssumption DEF TypeOK, Labelled
<1>6. \A s \in Names :
        symbols'[s] = IF s = Here.name THEN lc[section] ELSE Labelled[s]
  BY <1>2, <1>4, AssemblerAssumption DEF Named
<1>7. section # "text"
  BY DEF Records
<1>8. QED
  BY <1>1, <1>3, <1>5, <1>6, <1>7 DEF TableStep, Unbound

LEMMA WalkLineStep ==
  ASSUME TypeOK, section = SectionOf(program, line), WalkLine
  PROVE  TableStep /\ LineStep
<1>1. line <= Len(program)
  BY DEF WalkLine, SkipOrLabel, SwitchSection, DefineData, DefineOther,
         ReserveBss, ReserveQuad, Misplaced, SizeText, InFirst
<1>2. /\ Here.kind = "define" => Here.what \in DOMAIN DataWidth
      /\ Here.kind = "reserve" => Here.what \in DOMAIN BssWidth
  BY <1>1, HereType DEF TypeOK
<1>3. lc["text"] \in Nat /\ lc \in [Sections -> Nat] /\ section \in Sections
  BY DEF TypeOK, Sections
<1>4. ASSUME NEW n \in Nat, NEW table, Reserve(n, table), phase = "first",
             ~ (Here.kind = "section" /\ Here.what \in Sections),
             section = "text" => n = Emitted(Here, Labelled)
      PROVE  LineStep
  <2>1. lc'["text"] = lc["text"] + (IF section = "text" THEN n ELSE 0)
    BY <1>3, <1>4 DEF Reserve, Sections
  <2>2. QED
    BY <1>1, <1>4, <2>1 DEF Reserve, LineStep, secondVars
<1>5. Here.kind # "instr" => Emitted(Here, Labelled) = 0
  BY DEF Emitted, Generates
<1>6. CASE SkipOrLabel
  BY <1>1, <1>4, <1>5, <1>6, LabelledTable DEF SkipOrLabel, Reserve, Records
<1>7. CASE SwitchSection
  <2>1. TableStep
    BY <1>1, <1>7, LabelledTable DEF SwitchSection, Records
  <2>2. LineStep
    BY <1>1, <1>3, <1>5, <1>7 DEF SwitchSection, LineStep, secondVars
  <2>3. QED
    BY <2>1, <2>2
<1>8. CASE DefineData
  <2>1. DataBytes \in Nat
    BY <1>8, <1>1, HereType, WidthsType, ProductType
    DEF DefineData, InFirst, TypeOK, DataBytes
  <2>2. QED
    BY <1>1, <1>4, <1>8, <2>1, NamedTable DEF DefineData, InFirst, Reserve, Records
<1>9. CASE DefineOther
  <2>1. DataWidth[Here.what] * Here.toks \in Nat
    BY <1>9, <1>1, HereType, WidthsType, ProductType DEF DefineOther, InFirst, TypeOK
  <2>2. QED
    BY <1>1, <1>4, <1>9, <2>1, LabelledTable
    DEF DefineOther, InFirst, Reserve, Records
<1>10. CASE ReserveBss
  <2>1. BssWidth[Here.what] * Here.ok \in Nat
    BY <1>10, <1>1, HereType, WidthsType, ProductType DEF ReserveBss, InFirst, TypeOK
  <2>2. QED
    BY <1>1, <1>4, <1>10, <2>1, NamedTable DEF ReserveBss, InFirst, Reserve, Records
<1>11. CASE ReserveQuad
  <2>1. BssWidth[Here.what] * Here.ok \in Nat
    BY <1>11, <1>1, HereType, WidthsType, ProductType DEF ReserveQuad, InFirst, TypeOK
  <2>2. QED
    BY <1>1, <1>4, <1>11, <2>1, LabelledTable
    DEF ReserveQuad, InFirst, Reserve, Records
<1>12. CASE Misplaced
  BY <1>1, <1>4, <1>12, LabelledTable DEF Misplaced, InFirst, Reserve, Records
<1>13. CASE SizeText
  <2>1. Emitted(Here, Labelled) \in Nat
    BY BytesType DEF Emitted
  <2>2. QED
    BY <1>1, <1>4, <1>13, <2>1, LabelledTable
    DEF SizeText, InFirst, Reserve, Records
<1>14. QED
  BY <1>6, <1>7, <1>8, <1>9, <1>10, <1>11, <1>12, <1>13 DEF WalkLine

-----------------------------------------------------------------------------
(* Each part of the invariant over one line of the first pass.             *)

LEMMA WalkPlaces ==
  ASSUME TypeOK, TypeOK', PassProgress, PlacedInOrder, LineStep
  PROVE  /\ line \in 1..Len(program) /\ Len(placed) = line
         /\ Len(placed') = line + 1
         /\ \A k \in 1..line : placed'[k] = placed[k]
         /\ placed'[line + 1] = lc'["text"]
         /\ placed[line] = lc["text"]
         /\ PassProgress' /\ PlacedInOrder'
<1>1. /\ line \in Nat \ {0} /\ line <= Len(program) /\ Len(placed) = line
      /\ phase = "first" /\ firstOk /\ placed[line] = lc["text"]
      /\ section = SectionOf(program, line)
      /\ code = <<>> /\ size = 0
  BY DEF TypeOK, PassProgress, LineStep
<1>2. placed \in Seq(Nat) /\ placed' \in Seq(Nat) /\ Len(program) \in Nat
  BY DEF TypeOK
<1>3. lc["text"] \in Nat /\ lc'["text"] \in Nat
  BY DEF TypeOK, Sections
<1>4. placed' = Append(placed, lc'["text"])
  BY DEF LineStep
<1>5. /\ Len(placed') = line + 1
      /\ \A k \in 1..line : placed'[k] = placed[k]
      /\ placed'[line + 1] = lc'["text"]
  BY <1>1, <1>2, <1>3, <1>4
<1>6. lc'["text"] >= lc["text"]
  <2>1. Emitted(Here, Labelled) \in Nat
    BY BytesType DEF Emitted
  <2>2. QED
    BY <2>1, <1>3 DEF LineStep
<1>7. PassProgress'
  <2>1. section' = SectionOf(program, line + 1)
    BY <1>1, SectionStep DEF LineStep, Here
  <2>2. /\ phase' = "first" /\ line' = line + 1 /\ firstOk' = firstOk
        /\ program' = program /\ code' = code /\ size' = size
    BY <1>1 DEF LineStep
  <2>3. /\ line' <= Len(program') + 1 /\ Len(placed') = line'
        /\ lc'["text"] = placed'[line']
    BY <1>1, <1>2, <1>5, <2>2
  <2>4. QED
    BY <1>1, <2>1, <2>2, <2>3 DEF PassProgress
<1>8. PlacedInOrder'
  <2>1. DOMAIN placed = 1..line /\ DOMAIN placed' = 1..(line + 1)
    BY <1>1, <1>2, <1>5
  <2>2. placed'[1] = TextStart
    BY <1>1, <1>5 DEF PlacedInOrder
  <2>3. \A a \in 1..line : placed[a] <= placed[line]
    BY <1>1, <2>1 DEF PlacedInOrder
  <2>4. ASSUME NEW a \in 1..(line + 1), NEW b \in 1..(line + 1), a <= b
        PROVE  placed'[a] <= placed'[b]
    <3>1. CASE b \in 1..line
      <4>1. a \in 1..line
        BY <1>1, <2>4, <3>1
      <4>2. QED
        BY <1>5, <2>1, <2>4, <3>1, <4>1 DEF PlacedInOrder
    <3>2. CASE a = line + 1
      <4>1. b = line + 1
        BY <1>1, <2>4, <3>2
      <4>2. QED
        BY <1>3, <1>5, <3>2, <4>1
    <3>3. CASE a \in 1..line /\ b = line + 1
      <4>1. placed'[a] <= lc["text"]
        BY <1>1, <1>5, <2>3, <3>3
      <4>2. placed'[a] \in Nat
        BY <1>2, <1>5, <2>1, <3>3
      <4>3. QED
        BY <1>3, <1>5, <1>6, <3>3, <4>1, <4>2
    <3>4. QED
      BY <1>1, <2>4, <3>1, <3>2, <3>3
  <2>5. Len(placed') > 0
    BY <1>1, <1>5
  <2>6. QED
    BY <2>1, <2>2, <2>4, <2>5 DEF PlacedInOrder
<1>9. QED
  BY <1>1, <1>2, <1>5, <1>7, <1>8

LEMMA WalkRecords ==
  ASSUME TypeOK, TypeOK', PassProgress, PlacedInOrder, SymbolsRecorded,
         LineStep, TableStep
  PROVE  SymbolsRecorded'
<1>1. /\ line \in 1..Len(program) /\ Len(placed) = line
      /\ Len(placed') = line + 1
      /\ \A k \in 1..line : placed'[k] = placed[k]
      /\ placed[line] = lc["text"]
  BY WalkPlaces
<1>2. /\ program' = program /\ Unfailed
      /\ section = SectionOf(program, line)
  BY DEF LineStep, PassProgress, Unfailed
<1>3. line \in Nat /\ Len(program) \in Nat
  BY <1>1 DEF TypeOK
<1>4. SUFFICES ASSUME NEW k \in 1..line
               PROVE  /\ \A s \in Names :
                            Defines(program, k, s) => symbols'[s] # Unbound
                      /\ ( /\ program[k].label # NoName
                           /\ SectionOf(program, k) = "text"
                           /\ OnlyDefinition(program, k, Lower[program[k].label]) )
                         => symbols'[Lower[program[k].label]] = placed[k]
  BY <1>1, <1>2, <1>3 DEF SymbolsRecorded
<1>5. k \in 1..Len(program)
  BY <1>1, <1>3
<1>6. CASE k = line
  BY <1>1, <1>2, <1>6 DEF TableStep, Here
<1>7. CASE k \in 1..(line - 1)
  <2>1. ASSUME NEW s \in Names, Defines(program, k, s)
        PROVE  symbols'[s] # Unbound
    <3>1. symbols[s] # Unbound
      BY <1>1, <1>2, <1>7, <2>1 DEF SymbolsRecorded
    <3>2. QED
      BY <3>1 DEF TableStep
  <2>2. ASSUME program[k].label # NoName, SectionOf(program, k) = "text",
               OnlyDefinition(program, k, Lower[program[k].label])
        PROVE  symbols'[Lower[program[k].label]] = placed[k]
    <3>1. symbols[Lower[program[k].label]] = placed[k]
      BY <1>1, <1>2, <1>7, <2>2 DEF SymbolsRecorded
    <3>2. ~ Defines(program, line, Lower[program[k].label])
      <4>1. program \in Seq(SourceLine)
        BY DEF TypeOK
      <4>2. line \in DOMAIN program /\ line # k
        BY <1>1, <1>3, <1>7, <4>1
      <4>3. QED
        BY <2>2, <4>2 DEF OnlyDefinition
    <3>3. Lower[program[k].label] \in Names
      <4>1. program[k] \in SourceLine
        BY <1>5 DEF TypeOK
      <4>2. program[k].label \in Names
        BY <2>2, <4>1 DEF SourceLine
      <4>3. QED
        BY <4>2, AssemblerAssumption
    <3>4. QED
      BY <3>1, <3>2, <3>3 DEF TableStep
  <2>3. QED
    BY <2>1, <2>2
<1>8. QED
  BY <1>3, <1>6, <1>7

LEMMA WalkSizes ==
  ASSUME TypeOK, TypeOK', PassProgress, PlacedInOrder, SymbolsRecorded,
         PlacedBySize, LineStep
  PROVE  PlacedBySize'
<1>1. /\ line \in 1..Len(program) /\ Len(placed) = line
      /\ Len(placed') = line + 1
      /\ \A k \in 1..line : placed'[k] = placed[k]
      /\ placed'[line + 1] = lc'["text"]
      /\ placed[line] = lc["text"]
  BY WalkPlaces
<1>2. /\ program' = program /\ Unfailed
      /\ section = SectionOf(program, line)
  BY DEF LineStep, PassProgress, Unfailed
<1>3. SUFFICES ASSUME WellOrdered(program), NEW k \in 1..line
               PROVE  placed'[k + 1] = placed'[k] + Linked(program, k)
  BY <1>1, <1>2 DEF PlacedBySize
<1>4. CASE k \in 1..(line - 1)
  <2>1. placed[k + 1] = placed[k] + Linked(program, k)
    BY <1>1, <1>2, <1>3, <1>4 DEF PlacedBySize
  <2>2. k \in 1..line /\ k + 1 \in 1..line
    BY <1>1, <1>4
  <2>3. QED
    BY <1>1, <2>1, <2>2
<1>5. CASE k = line
  <2>1. CASE ~ Generates(Here)
    <3>1. Emitted(Here, Labelled) = 0 /\ Linked(program, line) = 0
      BY <2>1 DEF Emitted, Linked, Here
    <3>2. lc'["text"] = lc["text"]
      BY <3>1 DEF LineStep, TypeOK, Sections
    <3>3. QED
      BY <1>1, <1>5, <3>1, <3>2 DEF TypeOK, Sections
  <2>2. CASE Generates(Here)
    <3>1. section = "text" /\ Here.label = NoName
      BY <1>1, <1>2, <1>3, <2>2 DEF WellOrdered, Generates, Here, TypeOK
    <3>2. Labelled = symbols
      BY <3>1 DEF Labelled
    <3>3. \A j \in 1..(line - 1) : \A s \in Names :
            Defines(program, j, s) => symbols[s] # Unbound
      BY <1>1, <1>2 DEF SymbolsRecorded
    <3>4. Emitted(Here, symbols) = Linked(program, line)
      BY <1>1, <1>3, <3>3, SizeIsFinal, AssemblerAssumption DEF TypeOK, Here
    <3>5. lc'["text"] = lc["text"] + Linked(program, line)
      BY <3>1, <3>2, <3>4 DEF LineStep
    <3>6. QED
      BY <1>1, <1>5, <3>5
  <2>3. QED
    BY <2>1, <2>2
<1>6. QED
  BY <1>1, <1>3, <1>4, <1>5

-----------------------------------------------------------------------------
(* The second pass.                                                        *)

LEMMA GenerateLinePlaces ==
  ASSUME TypeOK, TypeOK', LabelInvariant, GenerateLine
  PROVE  LabelInvariant'
<1> DEFINE n  == Emitted(Here, symbols)
           at == TextStart + size
           i  == [line |-> line, form |-> Here.what, at |-> at, len |-> n,
                  dest |-> Destination(Here, symbols, at, genAddress),
                  name |-> Here.name]
<1>1. /\ phase = "second" /\ phase' = "second" /\ line <= Len(program)
      /\ line' = line + 1
      /\ code' = IF n = 0 THEN code ELSE Append(code, i)
      /\ size' = size + n
      /\ UNCHANGED <<program, firstOk, section, lc, symbols, placed>>
  BY DEF GenerateLine, firstVars
<1>2. /\ program \in Seq(SourceLine) /\ line \in Nat \ {0}
      /\ code \in Seq(Instruction) /\ size \in Nat /\ placed \in Seq(Nat)
      /\ Len(program) \in Nat /\ TextStart \in Nat
  BY AssemblerAssumption DEF TypeOK
<1>3. Unfailed' = Unfailed
  BY <1>1 DEF Unfailed
<1>4. PassProgress'
  BY <1>1, <1>2, <1>3 DEF LabelInvariant, PassProgress
<1>5. PlacedInOrder' /\ SymbolsRecorded' /\ PlacedBySize'
  BY <1>1, <1>3
  DEF LabelInvariant, PlacedInOrder, SymbolsRecorded, PlacedBySize
<1>6. CodeAtPlaces'
  <2>1. SUFFICES ASSUME Unfailed, WellOrdered(program)
                 PROVE  /\ TextStart + size' = placed[line + 1]
                        /\ \A j \in DOMAIN code' :
                             LET k == code'[j].line IN
                             /\ k \in 1..Len(program)
                             /\ code'[j].at = placed[k]
                             /\ code'[j].at + code'[j].len = placed[k + 1]
    BY <1>1, <1>3 DEF CodeAtPlaces
  <2>2. Len(placed) = Len(program) + 1
    BY <1>1, <2>1 DEF LabelInvariant, PassProgress
  <2>3. line \in 1..Len(program) /\ line \in 1..(Len(placed) - 1)
    BY <1>1, <1>2, <2>2
  <2>4. TextStart + size = placed[line]
    BY <1>1, <2>1 DEF LabelInvariant, CodeAtPlaces
  <2>5. n = Linked(program, line)
    <3>1. \A j \in 1..(line - 1) : \A s \in Names :
            Defines(program, j, s) => symbols[s] # Unbound
      <4>1. \A j \in 1..(line - 1) : j \in 1..(Len(placed) - 1)
        BY <1>2, <2>2, <2>3
      <4>2. QED
        BY <2>1, <4>1 DEF LabelInvariant, SymbolsRecorded
    <3>2. symbols \in [Names -> Nat \cup {Unbound}]
      BY DEF TypeOK
    <3>3. QED
      BY <1>2, <2>1, <2>3, <3>1, <3>2, SizeIsFinal, AssemblerAssumption DEF Here
  <2>6. placed[line + 1] = placed[line] + n
    BY <2>1, <2>3, <2>5 DEF LabelInvariant, PlacedBySize
  <2>7. n \in Nat
    BY <2>5, LinkedType
  <2>8. TextStart + size' = placed[line + 1]
    <3> HIDE DEF n
    <3>1. QED
      BY <1>1, <1>2, <2>4, <2>6, <2>7
  <2>9. \A j \in DOMAIN code :
          LET k == code[j].line IN
          /\ k \in 1..Len(program)
          /\ code[j].at = placed[k]
          /\ code[j].at + code[j].len = placed[k + 1]
    BY <1>1, <2>1 DEF LabelInvariant, CodeAtPlaces
  <2>10. CASE n = 0
    BY <1>1, <2>8, <2>9, <2>10
  <2>11. CASE n # 0
    <3>1. i.line = line /\ i.at = placed[line] /\ i.at + i.len = placed[line + 1]
      <4>1. i.line = line /\ i.at = at /\ i.len = n
        OBVIOUS
      <4>2. QED
        BY <4>1, <2>4, <2>6
    <3> HIDE DEF i, n
    <3>2. code' = Append(code, i)
      BY <1>1, <2>11
    <3>3. /\ DOMAIN code' = 1..(Len(code) + 1) /\ DOMAIN code = 1..Len(code)
          /\ \A j \in 1..Len(code) : code'[j] = code[j]
          /\ code'[Len(code) + 1] = i
      BY <1>2, <3>2
    <3>4. ASSUME NEW j \in DOMAIN code'
          PROVE  LET k == code'[j].line IN
                 /\ k \in 1..Len(program)
                 /\ code'[j].at = placed[k]
                 /\ code'[j].at + code'[j].len = placed[k + 1]
      <4>1. CASE j \in DOMAIN code
        BY <2>9, <3>3, <4>1
      <4>2. CASE j = Len(code) + 1
        BY <2>3, <3>1, <3>3, <4>2
      <4>3. QED
        BY <1>2, <3>3, <4>1, <4>2
    <3>5. QED
      BY <2>8, <3>4
  <2>12. QED
    BY <2>10, <2>11
<1>7. QED
  BY <1>4, <1>5, <1>6 DEF LabelInvariant

-----------------------------------------------------------------------------
(* The invariant is inductive, and implies the property.                   *)

LEMMA InitPlaces == Init => LabelInvariant
<1> SUFFICES ASSUME Init PROVE LabelInvariant
  OBVIOUS
<1>1. /\ program \in Seq(SourceLine) /\ TextStart \in Nat
      /\ phase = "first" /\ line = 1 /\ firstOk = TRUE /\ section = "text"
      /\ lc["text"] = TextStart /\ placed = <<TextStart>>
      /\ code = <<>> /\ size = 0
  BY AssemblerAssumption DEF Init
<1>2. Len(placed) = 1 /\ placed[1] = TextStart /\ DOMAIN placed = {1}
  BY <1>1
<1>3. Len(program) \in Nat
  BY <1>1
<1>4. PassProgress
  <2>1. line <= Len(program) + 1
    BY <1>1, <1>3
  <2>2. section = SectionOf(program, line)
    BY <1>1, SectionStart
  <2>3. firstOk
    BY <1>1
  <2>4. Len(placed) = line /\ lc["text"] = placed[line]
    BY <1>1, <1>2
  <2>5. QED
    BY <1>1, <2>1, <2>2, <2>3, <2>4 DEF PassProgress
<1>5. PlacedInOrder
  BY <1>1, <1>2 DEF PlacedInOrder
<1>6. 1..(Len(placed) - 1) = {}
  BY <1>2
<1>7. SymbolsRecorded /\ PlacedBySize
  BY <1>6 DEF SymbolsRecorded, PlacedBySize
<1>8. CodeAtPlaces
  BY <1>1 DEF CodeAtPlaces
<1>9. QED
  BY <1>4, <1>5, <1>7, <1>8 DEF LabelInvariant

\* The end of the first pass, at the last line or at an unknown section.
LEMMA EndFirstPlaces ==
  ASSUME TypeOK, LabelInvariant, EndFirst
  PROVE  LabelInvariant'
<1>1. /\ phase = "first" /\ phase' = "second" /\ line > Len(program) /\ line' = 1
      /\ UNCHANGED <<program, firstOk, section, lc, symbols, placed, code, size>>
  BY DEF EndFirst, firstVars, secondVars
<1>2. /\ line \in Nat /\ Len(program) \in Nat /\ size \in Nat
  BY DEF TypeOK
<1>3. /\ firstOk /\ line = Len(program) + 1 /\ Len(placed) = line
      /\ code = <<>> /\ size = 0
  BY <1>1, <1>2 DEF LabelInvariant, PassProgress
<1>4. Unfailed /\ Unfailed'
  BY <1>1, <1>3 DEF Unfailed
<1>5. PassProgress'
  BY <1>1, <1>2, <1>3 DEF PassProgress
<1>6. PlacedInOrder' /\ SymbolsRecorded' /\ PlacedBySize'
  BY <1>1, <1>4
  DEF LabelInvariant, PlacedInOrder, SymbolsRecorded, PlacedBySize
<1>7. CodeAtPlaces'
  <2>1. TextStart + size' = placed'[line']
    BY <1>1, <1>3, AssemblerAssumption DEF LabelInvariant, PlacedInOrder
  <2>2. code' = <<>>
    BY <1>1, <1>3
  <2>3. QED
    BY <2>1, <2>2 DEF CodeAtPlaces
<1>8. QED
  BY <1>5, <1>6, <1>7 DEF LabelInvariant

\* A step that fails, or that leaves the passes as they are.
LEMMA OtherStepPlaces ==
  ASSUME TypeOK, LabelInvariant,
         UNCHANGED <<program, section, lc, symbols, placed, code, size>>,
         \/ phase' # "first" /\ ~ Unfailed'
         \/ /\ UNCHANGED <<line, firstOk>>
            /\ phase = phase' \/ (phase \in {"second", "sweep"} /\ phase' # "first")
  PROVE  LabelInvariant'
<1>1. PlacedInOrder'
  BY DEF LabelInvariant, PlacedInOrder
<1>2. CASE phase' # "first" /\ ~ Unfailed'
  BY <1>1, <1>2
  DEF LabelInvariant, PassProgress, SymbolsRecorded, PlacedBySize, CodeAtPlaces
<1>3. CASE ~ (phase' # "first" /\ ~ Unfailed')
  <2>1. /\ UNCHANGED <<line, firstOk>>
        /\ phase' = "first" <=> phase = "first"
    BY <1>3
  <2>2. Unfailed' => Unfailed
    <3>1. phase' # "threw" => phase # "threw"
      BY <1>3
    <3>2. QED
      BY <2>1, <3>1 DEF Unfailed
  <2>3. PassProgress' /\ SymbolsRecorded' /\ PlacedBySize' /\ CodeAtPlaces'
    BY <2>1, <2>2
    DEF LabelInvariant, PassProgress, SymbolsRecorded, PlacedBySize, CodeAtPlaces
  <2>4. QED
    BY <1>1, <2>3 DEF LabelInvariant
<1>4. QED
  BY <1>2, <1>3

LEMMA StepPlaces ==
  ASSUME TypeOK, TypeOK', LabelInvariant, [Next]_vars
  PROVE  LabelInvariant'
<1>1. CASE WalkLine
  <2>1. section = SectionOf(program, line)
    BY <1>1 DEF LabelInvariant, PassProgress, WalkLine, SkipOrLabel, SwitchSection,
                DefineData, DefineOther, ReserveBss, ReserveQuad, Misplaced,
                SizeText, InFirst
  <2>2. TableStep /\ LineStep
    BY <1>1, <2>1, WalkLineStep
  <2>3. PassProgress' /\ PlacedInOrder' /\ phase' = "first"
    BY <2>2, WalkPlaces DEF LabelInvariant, LineStep
  <2>4. SymbolsRecorded' /\ PlacedBySize'
    BY <2>2, WalkRecords, WalkSizes DEF LabelInvariant
  <2>5. CodeAtPlaces'
    BY <2>3 DEF CodeAtPlaces
  <2>6. QED
    BY <2>3, <2>4, <2>5 DEF LabelInvariant
<1>2. CASE RejectSection
  <2>1. phase' = "second" /\ ~ firstOk'
    BY <1>2 DEF RejectSection
  <2>2. ~ Unfailed'
    BY <2>1 DEF Unfailed
  <2>3. PlacedInOrder'
    BY <1>2 DEF RejectSection, LabelInvariant, PlacedInOrder
  <2>4. QED
    BY <2>1, <2>2, <2>3
    DEF LabelInvariant, PassProgress, SymbolsRecorded, PlacedBySize, CodeAtPlaces
<1>3. CASE DataOverflow \/ ReserveThrows
  <2>1. phase' = "threw" /\ UNCHANGED <<program, placed>>
    BY <1>3 DEF DataOverflow, ReserveThrows
  <2>2. ~ Unfailed'
    BY <2>1 DEF Unfailed
  <2>3. PlacedInOrder'
    BY <2>1 DEF LabelInvariant, PlacedInOrder
  <2>4. QED
    BY <2>1, <2>2, <2>3
    DEF LabelInvariant, PassProgress, SymbolsRecorded, PlacedBySize, CodeAtPlaces
<1>4. CASE EndFirst
  BY <1>4, EndFirstPlaces
<1>5. CASE GenerateLine
  BY <1>5, GenerateLinePlaces
<1>6. CASE TextOverflow
  BY <1>6, OtherStepPlaces DEF TextOverflow, firstVars, secondVars
<1>7. CASE Install
  BY <1>7, OtherStepPlaces DEF Install, firstVars, secondVars
<1>8. CASE Decoding
  <2>1. /\ phase = "sweep" /\ phase' # "first"
        /\ UNCHANGED <<program, line, firstVars, secondVars>>
    BY <1>8 DEF Decoding, Sweep, SweepInside, EndSweep, Decode
  <2>2. QED
    BY <2>1, OtherStepPlaces DEF firstVars, secondVars
<1>9. CASE Rest \/ UNCHANGED vars
  BY <1>9, OtherStepPlaces DEF Rest, vars, firstVars, secondVars
<1>10. QED
  BY <1>1, <1>2, <1>3, <1>4, <1>5, <1>6, <1>7, <1>8, <1>9
  DEF Next, FirstPass, SecondPass, WalkLine

\* Where the passes are, what the symbol table holds and where the code lies
\* agree, at every step of every load.
THEOREM PlacesAgree == Spec => []LabelInvariant
<1>1. Init => LabelInvariant
  BY InitPlaces
<1>2. TypeOK /\ TypeOK' /\ LabelInvariant /\ [Next]_vars => LabelInvariant'
  BY StepPlaces
<1>3. QED
  BY <1>1, <1>2, TypeCorrect, PTL DEF Spec

\* In a file whose instructions are all in .text and refer to data defined
\* before them, every text label divides the emitted code as it divides the
\* source, whatever the file, its symbols and the memory layout.
THEOREM LabelsCorrect == Spec => []LabelsMeetCode
<1>1. TypeOK /\ LabelInvariant => LabelsMeetCode
  <2> SUFFICES ASSUME TypeOK, LabelInvariant, Generated, firstOk,
                      WellOrdered(program)
               PROVE  LabelsDivideCode
    BY DEF LabelsMeetCode
  <2>1. Unfailed /\ phase # "first"
    BY DEF Generated, Unfailed
  <2>2. Len(placed) = Len(program) + 1
    BY <2>1 DEF LabelInvariant, PassProgress
  <2>3. /\ program \in Seq(SourceLine) /\ placed \in Seq(Nat)
        /\ Len(program) \in Nat
    BY DEF TypeOK
  <2>4. DOMAIN program = 1..Len(program) /\ DOMAIN placed = 1..(Len(program) + 1)
    BY <2>2, <2>3
  <2>5. SUFFICES ASSUME NEW k \in DOMAIN program,
                        program[k].label # NoName,
                        SectionOf(program, k) = "text",
                        OnlyDefinition(program, k, Lower[program[k].label]),
                        NEW i \in DOMAIN code
                 PROVE  LET s == symbols[Lower[program[k].label]] IN
                        /\ code[i].line < k => code[i].at + code[i].len <= s
                        /\ code[i].line >= k => s <= code[i].at
    BY DEF LabelsDivideCode
  <2>6. symbols[Lower[program[k].label]] = placed[k]
    <3>1. k \in 1..(Len(placed) - 1)
      BY <2>2, <2>3, <2>4
    <3>2. QED
      BY <2>1, <2>5, <3>1 DEF LabelInvariant, SymbolsRecorded
  <2> DEFINE m == code[i].line
  <2>7. /\ m \in 1..Len(program) /\ code[i].at = placed[m]
        /\ code[i].at + code[i].len = placed[m + 1]
    BY <2>1 DEF LabelInvariant, CodeAtPlaces
  <2>8. \A a, b \in DOMAIN placed : a <= b => placed[a] <= placed[b]
    BY DEF LabelInvariant, PlacedInOrder
  <2> HIDE DEF m
  <2>9. k \in DOMAIN placed /\ m \in DOMAIN placed /\ m + 1 \in DOMAIN placed
    BY <2>3, <2>4, <2>7
  <2>10. m < k => m + 1 <= k
    BY <2>3, <2>4, <2>7
  <2>11. QED
    BY <2>6, <2>7, <2>8, <2>9, <2>10 DEF m
<1>2. QED
  BY <1>1, TypeCorrect, PlacesAgree, PTL

-----------------------------------------------------------------------------
(* Storage. The symbols of the lines behind the pass end below the counter *)
(* of their section.                                                       *)

Exact == {"db", "dd", "resb"}

StorageInvariant ==
  phase = "first" =>
    /\ \A j \in 1..(line - 1) :
         Stores(program, j, Exact) =>
           symbols[program[j].name] + Storage(program, j) <= lc[SectionOf(program, j)]
    /\ StorageIsDisjoint

LEMMA RecordsSection ==
  ASSUME NEW ln, NEW where, Records(ln, where) PROVE where \in Sections
BY DEF Records, Sections

LEMMA StorageType ==
  ASSUME program \in Seq(SourceLine), NEW j \in 1..Len(program),
         Records(program[j], SectionOf(program, j))
  PROVE  Storage(program, j) \in Nat
<1>1. program[j] \in SourceLine
  OBVIOUS
<1>2. /\ program[j].ok \in Nat
      /\ program[j].kind = "define" => program[j].what \in DOMAIN DataWidth
      /\ program[j].kind = "reserve" => program[j].what \in DOMAIN BssWidth
  BY <1>1 DEF SourceLine
<1>3. program[j].kind = "define" \/ program[j].kind = "reserve"
  BY DEF Records
<1>4. CASE program[j].kind = "define"
  <2>1. DataWidth[program[j].what] \in Nat
    BY <1>2, <1>4, WidthsType
  <2>2. QED
    BY <1>2, <1>4, <2>1, ProductType DEF Storage
<1>5. CASE program[j].kind = "reserve"
  <2>1. BssWidth[program[j].what] \in Nat
    BY <1>2, <1>5, WidthsType
  <2>2. QED
    BY <1>2, <1>5, <2>1, ProductType DEF Storage
<1>6. QED
  BY <1>3, <1>4, <1>5

\* A line of the first pass moves no counter back, records the symbol of its
\* storage where the counter is, and moves that past it.
LEMMA WalkStores ==
  ASSUME TypeOK, section = SectionOf(program, line), WalkLine
  PROVE  /\ \A where \in Sections : lc'[where] >= lc[where]
         /\ Records(Here, section) /\ Here.what \in Exact /\ Here.name # NoName =>
              /\ symbols'[Here.name] = lc[section]
              /\ lc'[section] = lc[section] + Storage(program, line)
<1>1. line <= Len(program)
  BY DEF WalkLine, SkipOrLabel, SwitchSection, DefineData, DefineOther,
         ReserveBss, ReserveQuad, Misplaced, SizeText, InFirst
<1>2. /\ Here.label \in Names \cup {NoName} /\ Here.name \in Names \cup {NoName}
      /\ Here.ok \in Nat /\ Here.toks \in Nat
      /\ Here.kind = "define" => Here.what \in DOMAIN DataWidth
      /\ Here.kind = "reserve" => Here.what \in DOMAIN BssWidth
  BY <1>1, HereType DEF TypeOK
<1>3. lc \in [Sections -> Nat] /\ section \in Sections
  BY DEF TypeOK
<1>4. Labelled \in [Names -> Nat \cup {Unbound}]
  BY <1>2, TablesType DEF TypeOK
<1>5. Here.name # NoName => Named[Here.name] = lc[section]
  BY <1>2, <1>4 DEF Named
<1>6. ASSUME NEW n \in Nat, NEW table, Reserve(n, table)
      PROVE  /\ \A where \in Sections : lc'[where] >= lc[where]
             /\ lc'[section] = lc[section] + n /\ symbols' = table
  BY <1>3, <1>6 DEF Reserve
<1>7. CASE SkipOrLabel
  BY <1>6, <1>7 DEF SkipOrLabel, Records
<1>8. CASE SwitchSection
  BY <1>3, <1>8 DEF SwitchSection, Records
<1>9. CASE DefineData
  <2>1. DataBytes \in Nat
    BY <1>2, <1>9, WidthsType, ProductType DEF DefineData, InFirst, DataBytes
  <2>2. DataBytes = Storage(program, line)
    BY <1>9 DEF DefineData, DataBytes, Storage, Here
  <2>3. QED
    BY <1>5, <1>6, <1>9, <2>1, <2>2 DEF DefineData
<1>10. CASE DefineOther
  <2>1. DataWidth[Here.what] * Here.toks \in Nat
    BY <1>2, <1>10, WidthsType, ProductType DEF DefineOther, InFirst
  <2>2. QED
    BY <1>6, <1>10, <2>1 DEF DefineOther, Records
<1>11. CASE ReserveBss
  <2>1. BssWidth[Here.what] * Here.ok \in Nat
    BY <1>2, <1>11, WidthsType, ProductType DEF ReserveBss, InFirst
  <2>2. Here.what = "resb" =>
          BssWidth[Here.what] * Here.ok = Storage(program, line)
    BY <1>11 DEF ReserveBss, Storage, Here
  <2>3. Records(Here, section) /\ Here.what \in Exact => Here.what = "resb"
    BY <1>2, <1>11 DEF ReserveBss, Records, Exact, BssWidth
  <2>4. QED
    BY <1>5, <1>6, <1>11, <2>1, <2>2, <2>3 DEF ReserveBss
<1>12. CASE ReserveQuad
  <2>1. BssWidth[Here.what] * Here.ok \in Nat
    BY <1>2, <1>12, WidthsType, ProductType DEF ReserveQuad, InFirst
  <2>2. QED
    BY <1>6, <1>12, <2>1 DEF ReserveQuad, Records
<1>13. CASE Misplaced
  BY <1>6, <1>13 DEF Misplaced, InFirst, Records
<1>14. CASE SizeText
  <2>1. Emitted(Here, Labelled) \in Nat
    BY BytesType DEF Emitted
  <2>2. QED
    BY <1>6, <1>14, <2>1 DEF SizeText, InFirst, Records
<1>15. QED
  BY <1>7, <1>8, <1>9, <1>10, <1>11, <1>12, <1>13, <1>14 DEF WalkLine

LEMMA StorageWalk ==
  ASSUME TypeOK, TypeOK', StorageInvariant, section = SectionOf(program, line), WalkLine
  PROVE  StorageInvariant'
<1>1. /\ phase = "first" /\ line \in 1..Len(program) /\ line \in Nat
      /\ line' = line + 1 /\ program' = program
      /\ program \in Seq(SourceLine)
  BY WalkLineStep DEF LineStep, TypeOK
<1>2. ASSUME NEW j \in 1..(line - 1), Stores(program, j, Exact)
      PROVE  /\ symbols'[program[j].name] = symbols[program[j].name]
             /\ symbols[program[j].name] + Storage(program, j)
                  <= lc[SectionOf(program, j)]
             /\ symbols'[program[j].name] + Storage(program, j)
                  <= lc'[SectionOf(program, j)]
  <2>1. j \in 1..Len(program) /\ j # line /\ line \in DOMAIN program
    BY <1>1
  <2>2. program[j].name \in Names
    <3>1. program[j] \in SourceLine
      BY <1>1, <2>1
    <3>2. QED
      BY <1>2, <3>1 DEF Stores, SourceLine
  <2>3. ~ Defines(program, line, program[j].name)
    BY <1>2, <2>1 DEF Stores, OnlyDefinition
  <2>4. symbols'[program[j].name] = symbols[program[j].name]
    BY <2>2, <2>3, WalkLineStep DEF TableStep
  <2>5. symbols[program[j].name] + Storage(program, j) <= lc[SectionOf(program, j)]
    BY <1>1, <1>2 DEF StorageInvariant
  <2>6. SectionOf(program, j) \in Sections
    BY <1>2, RecordsSection DEF Stores
  <2>7. lc'[SectionOf(program, j)] >= lc[SectionOf(program, j)]
    BY <2>6, WalkStores
  <2>8. /\ symbols[program[j].name] \in Int /\ Storage(program, j) \in Nat
        /\ lc[SectionOf(program, j)] \in Nat /\ lc'[SectionOf(program, j)] \in Nat
    <3>1. symbols[program[j].name] \in Int
      BY <2>2 DEF TypeOK, Unbound
    <3>2. lc[SectionOf(program, j)] \in Nat /\ lc'[SectionOf(program, j)] \in Nat
      BY <2>6 DEF TypeOK
    <3>3. Records(program[j], SectionOf(program, j))
      BY <1>2 DEF Stores
    <3>4. Storage(program, j) \in Nat
      BY <1>1, <2>1, <3>3, StorageType
    <3>5. QED
      BY <3>1, <3>2, <3>4
  <2>9. QED
    BY <2>4, <2>5, <2>7, <2>8
<1>3. Stores(program, line, Exact) =>
        /\ symbols'[program[line].name] = lc[section]
        /\ lc'[section] = symbols'[program[line].name] + Storage(program, line)
  BY WalkStores DEF Stores, Here
<1>4. ASSUME NEW j \in 1..line, Stores(program, j, Exact)
      PROVE  symbols'[program[j].name] + Storage(program, j)
               <= lc'[SectionOf(program, j)]
  <2>1. CASE j = line
    <3>1. lc'[section] \in Nat
      BY <1>4, <2>1, RecordsSection DEF Stores, TypeOK
    <3>2. QED
      BY <1>3, <1>4, <2>1, <3>1
  <2>2. CASE j # line
    <3>1. j \in 1..(line - 1)
      BY <1>1, <2>2
    <3>2. QED
      BY <1>2, <1>4, <3>1
  <2>3. QED
    BY <2>1, <2>2
<1>5. ASSUME NEW j \in 1..line, NEW k \in 1..line, j < k,
             SectionOf(program, j) = SectionOf(program, k),
             Stores(program, j, Exact), Stores(program, k, Exact)
      PROVE  symbols'[program[j].name] + Storage(program, j)
               <= symbols'[program[k].name]
  <2>1. j \in 1..(line - 1)
    BY <1>1, <1>5
  <2>2. CASE k = line
    BY <1>2, <1>3, <1>5, <2>1, <2>2
  <2>3. CASE k # line
    <3>1. k \in 1..(line - 1)
      BY <1>1, <2>3
    <3>2. symbols[program[j].name] + Storage(program, j) <= symbols[program[k].name]
      BY <1>1, <1>5, <2>1, <3>1
      DEF StorageInvariant, StorageIsDisjoint, DisjointStorage, Exact
    <3>3. QED
      BY <1>2, <1>5, <2>1, <3>1, <3>2
  <2>4. QED
    BY <2>2, <2>3
<1>6. line' - 1 = line
  BY <1>1
<1>7. QED
  BY <1>1, <1>4, <1>5, <1>6
  DEF StorageInvariant, StorageIsDisjoint, DisjointStorage, Exact, Storage, Stores,
      OnlyDefinition

LEMMA StorageStep ==
  ASSUME TypeOK, TypeOK', LabelInvariant, StorageInvariant, [Next]_vars
  PROVE  StorageInvariant'
<1>1. CASE WalkLine
  <2>1. section = SectionOf(program, line)
    BY <1>1 DEF LabelInvariant, PassProgress, WalkLine, SkipOrLabel, SwitchSection,
                DefineData, DefineOther, ReserveBss, ReserveQuad, Misplaced,
                SizeText, InFirst
  <2>2. QED
    BY <1>1, <2>1, StorageWalk
<1>2. CASE UNCHANGED vars
  BY <1>2 DEF vars, firstVars, StorageInvariant, StorageIsDisjoint, DisjointStorage,
              Storage, Stores, OnlyDefinition
<1>3. CASE Next /\ ~ WalkLine
  <2>1. phase' # "first"
    BY <1>3 DEF Next, FirstPass, WalkLine, RejectSection, DataOverflow, ReserveThrows, EndFirst,
                SecondPass, GenerateLine, TextOverflow, Install, Decoding, Sweep,
                SweepInside, EndSweep, Decode, Rest, vars
  <2>2. QED
    BY <2>1 DEF StorageInvariant
<1>4. QED
  BY <1>1, <1>2, <1>3

(* Symbols that db, dd and resb record in one section do not share bytes,  *)
(* whatever the file.                                                      *)
THEOREM StorageCorrect == Spec => []StorageIsDisjoint
<1>1. Init => StorageInvariant
  <2>1. ASSUME Init PROVE 1..(line - 1) = {}
    BY <2>1 DEF Init
  <2>2. QED
    BY <2>1 DEF StorageInvariant, StorageIsDisjoint, DisjointStorage
<1>2. TypeOK /\ TypeOK' /\ LabelInvariant /\ StorageInvariant /\ [Next]_vars
        => StorageInvariant'
  BY StorageStep
<1>3. StorageInvariant => StorageIsDisjoint
  BY DEF StorageInvariant, StorageIsDisjoint, DisjointStorage
<1>4. QED
  BY <1>1, <1>2, <1>3, TypeCorrect, PlacesAgree, PTL DEF Spec

-----------------------------------------------------------------------------
(* The sweep. The instructions tile the text segment, and the decoder goes *)
(* from one start to the next.                                             *)

\* As long as no instruction is truncated, each decodes to its own length.
LEMMA LengthsAgree ==
  \A form \in Forms \ TruncatedForms, known \in BOOLEAN :
    Bytes(form, known) # 0 => DecodedLength(form) = Bytes(form, known)
<1>1. \A form : form \in DOMAIN MoveBytes => DecodedLength(form) = Bytes(form, TRUE)
  BY DEF DecodedLength, Bytes, SizeIn, MoveBytes, AluBytes, JccBytes, JumpBytes,
         GroupBytes, ShiftBytes, ExtendBytes, StringBytes, VectorBytes, NoBytes,
         VexLength, TwoByteLength, OneByteLength, TailLength
<1>2. \A form : form \in DOMAIN AluBytes \ TruncatedForms =>
        DecodedLength(form) = Bytes(form, TRUE)
  BY DEF DecodedLength, Bytes, SizeIn, MoveBytes, AluBytes, JccBytes, JumpBytes,
         GroupBytes, ShiftBytes, ExtendBytes, StringBytes, VectorBytes, NoBytes,
         VexLength, TwoByteLength, OneByteLength, TailLength, TruncatedForms
<1>3. \A form : form \in BranchForms => DecodedLength(form) = Bytes(form, TRUE)
  BY DEF DecodedLength, Bytes, SizeIn, MoveBytes, AluBytes, JccBytes, JumpBytes,
         GroupBytes, ShiftBytes, ExtendBytes, StringBytes, VectorBytes, NoBytes,
         VexLength, TwoByteLength, OneByteLength, TailLength, BranchForms, JccForms
<1>4. \A form : form \in DOMAIN GroupBytes => DecodedLength(form) = Bytes(form, TRUE)
  BY DEF DecodedLength, Bytes, SizeIn, MoveBytes, AluBytes, JccBytes, JumpBytes,
         GroupBytes, ShiftBytes, ExtendBytes, StringBytes, VectorBytes, NoBytes,
         VexLength, TwoByteLength, OneByteLength, TailLength
<1>5. \A form : form \in DOMAIN ShiftBytes /\ Bytes(form, TRUE) # 0 =>
        DecodedLength(form) = Bytes(form, TRUE)
  BY DEF DecodedLength, Bytes, SizeIn, MoveBytes, AluBytes, JccBytes, JumpBytes,
         GroupBytes, ShiftBytes, ExtendBytes, StringBytes, VectorBytes, NoBytes,
         VexLength, TwoByteLength, OneByteLength, TailLength
<1>6. \A form : form \in DOMAIN ExtendBytes => DecodedLength(form) = Bytes(form, TRUE)
  BY DEF DecodedLength, Bytes, SizeIn, MoveBytes, AluBytes, JccBytes, JumpBytes,
         GroupBytes, ShiftBytes, ExtendBytes, StringBytes, VectorBytes, NoBytes,
         VexLength, TwoByteLength, OneByteLength, TailLength
<1>7. \A form : form \in DOMAIN StringBytes \ TruncatedForms =>
        DecodedLength(form) = Bytes(form, TRUE)
  BY DEF DecodedLength, Bytes, SizeIn, MoveBytes, AluBytes, JccBytes, JumpBytes,
         GroupBytes, ShiftBytes, ExtendBytes, StringBytes, VectorBytes, NoBytes,
         VexLength, TwoByteLength, OneByteLength, TailLength, TruncatedForms
<1>8. \A form : form \in DOMAIN VectorBytes \ TruncatedForms =>
        DecodedLength(form) = Bytes(form, TRUE)
  BY DEF DecodedLength, Bytes, SizeIn, MoveBytes, AluBytes, JccBytes, JumpBytes,
         GroupBytes, ShiftBytes, ExtendBytes, StringBytes, VectorBytes, NoBytes,
         VexLength, TwoByteLength, OneByteLength, TailLength, TruncatedForms
<1>9. \A form : form \in DOMAIN NoBytes => Bytes(form, TRUE) = 0
  BY DEF DecodedLength, Bytes, SizeIn, MoveBytes, AluBytes, JccBytes, JumpBytes,
         GroupBytes, ShiftBytes, ExtendBytes, StringBytes, VectorBytes, NoBytes
<1>10. \A form, known : Bytes(form, known) # 0 => Bytes(form, known) = Bytes(form, TRUE)
  BY DEF Bytes
<1>11. QED
  BY <1>1, <1>2, <1>3, <1>4, <1>5, <1>6, <1>7, <1>8, <1>9, <1>10 DEF Forms

Whole == ~ Uses(program, TruncatedForms)

\* The instructions follow each other without a gap, up to the end.
Tiled ==
  /\ \A i \in DOMAIN code :
       /\ code[i].len # 0 /\ code[i].len = DecodedLength(code[i].form)
       /\ TextStart <= code[i].at /\ code[i].at + code[i].len <= TextEnd
       /\ code[i].at + code[i].len \in Starts \cup {TextEnd}
  /\ \A i, j \in DOMAIN code : i < j => code[i].at + code[i].len <= code[j].at
  /\ TextStart \in Starts \cup {TextEnd}

Swept ==
  /\ sweepAt \in Starts \cup {TextEnd}
  /\ decoded = {a \in Starts : a < sweepAt}
  /\ phase \in {"first", "second"} => sweepAt = TextStart
  /\ phase = "ready" => sweepAt = TextEnd

SweepInvariant == Whole => Tiled /\ Swept

LEMMA CodeType ==
  ASSUME TypeOK
  PROVE  /\ \A i \in DOMAIN code : code[i].at \in Int /\ code[i].len \in Nat
         /\ TextEnd \in Nat /\ TextStart \in Nat /\ sweepAt \in Nat /\ decoded \subseteq Nat
<1>1. \A i \in DOMAIN code : code[i] \in Instruction
  BY DEF TypeOK
<1>2. \A i \in DOMAIN code : code[i].at \in Int /\ code[i].len \in Nat
  BY <1>1 DEF Instruction
<1>3. QED
  BY <1>2, AssemblerAssumption DEF TypeOK, TextEnd

LEMMA TiledGenerate ==
  ASSUME TypeOK, TypeOK', Whole, Tiled, GenerateLine PROVE Tiled'
<1> DEFINE n  == Emitted(Here, symbols)
           at == TextStart + size
           i  == [line |-> line, form |-> Here.what, at |-> at, len |-> n,
                  dest |-> Destination(Here, symbols, at, genAddress),
                  name |-> Here.name]
<1>1. /\ code' = IF n = 0 THEN code ELSE Append(code, i)
      /\ size' = size + n /\ line <= Len(program)
  BY DEF GenerateLine
<1>2. n \in Nat /\ code \in Seq(Instruction) /\ TextEnd \in Nat /\ at = TextEnd
  BY CodeType, BytesType DEF Emitted, TypeOK, TextEnd
<1>3. TextEnd' = TextEnd + n
  <2> HIDE DEF n
  <2>1. QED
    BY <1>1, <1>2, AssemblerAssumption DEF TextEnd, TypeOK
<1>4. CASE n = 0
  <2> HIDE DEF n
  <2>1. code' = code /\ TextEnd' = TextEnd
    BY <1>1, <1>2, <1>3, <1>4
  <2>2. QED
    BY <2>1 DEF Tiled, Starts
<1>5. CASE n # 0
  <2>1. i.at = TextEnd /\ i.len = n /\ i.form = Here.what
    BY <1>2
  <2>2. n = DecodedLength(Here.what)
    <3>1. Generates(Here) /\ n = Bytes(Here.what, Known(Here, symbols))
      BY <1>5 DEF Emitted
    <3>2. line \in DOMAIN program /\ Here.what \in Forms
      BY <1>1, <3>1, HereType DEF TypeOK, Generates
    <3>3. Here.what \notin TruncatedForms
      BY <3>1, <3>2 DEF Whole, Uses, Here
    <3>4. Known(Here, symbols) \in BOOLEAN
      BY DEF Known
    <3> HIDE DEF n
    <3>5. QED
      BY <1>5, <3>1, <3>2, <3>3, <3>4, LengthsAgree
  <2> HIDE DEF i, n, at
  <2>3. /\ DOMAIN code' = 1..(Len(code) + 1) /\ DOMAIN code = 1..Len(code)
        /\ Len(code) \in Nat
        /\ \A j \in 1..Len(code) : code'[j] = code[j]
        /\ code'[Len(code) + 1] = i
    BY <1>1, <1>2, <1>5
  <2>4. Starts' = Starts \cup {TextEnd}
    <3>1. \A j \in DOMAIN code' : code'[j].at \in Starts \cup {TextEnd}
      BY <2>1, <2>3 DEF Starts
    <3>2. \A j \in DOMAIN code : code[j].at = code'[j].at /\ j \in DOMAIN code'
      BY <2>3
    <3>3. TextEnd = code'[Len(code) + 1].at /\ Len(code) + 1 \in DOMAIN code'
      BY <2>1, <2>3
    <3>4. QED
      BY <3>1, <3>2, <3>3 DEF Starts
  <2>5. ASSUME NEW j \in DOMAIN code'
        PROVE  /\ code'[j].len # 0 /\ code'[j].len = DecodedLength(code'[j].form)
               /\ TextStart <= code'[j].at /\ code'[j].at + code'[j].len <= TextEnd'
               /\ code'[j].at + code'[j].len \in Starts' \cup {TextEnd'}
    <3>1. CASE j \in DOMAIN code
      <4>1. code'[j] = code[j] /\ code[j].at \in Int /\ code[j].len \in Nat
        BY <2>3, <3>1, CodeType
      <4>2. QED
        BY <1>2, <1>3, <2>4, <3>1, <4>1 DEF Tiled
    <3>2. CASE j = Len(code) + 1
      <4>1. code'[j].at = TextEnd /\ code'[j].len = n /\ code'[j].form = Here.what
        BY <2>1, <2>3, <3>2
      <4>2. TextStart <= TextEnd
        BY AssemblerAssumption DEF TextEnd, TypeOK
      <4>3. QED
        BY <1>2, <1>3, <1>5, <2>2, <4>1, <4>2
    <3>3. QED
      BY <2>3, <3>1, <3>2
  <2>6. ASSUME NEW j \in DOMAIN code', NEW k \in DOMAIN code', j < k
        PROVE  code'[j].at + code'[j].len <= code'[k].at
    <3>1. j \in DOMAIN code /\ code'[j] = code[j]
      BY <2>3, <2>6
    <3>2. CASE k \in DOMAIN code
      BY <2>3, <2>6, <3>1, <3>2 DEF Tiled
    <3>3. CASE k = Len(code) + 1
      <4>1. code'[k].at = TextEnd
        BY <2>1, <2>3, <3>3
      <4>2. QED
        BY <3>1, <4>1 DEF Tiled
    <3>4. QED
      BY <2>3, <3>2, <3>3
  <2>7. TextStart \in Starts' \cup {TextEnd'}
    BY <2>4 DEF Tiled
  <2>8. QED
    BY <2>5, <2>6, <2>7 DEF Tiled
<1>6. QED
  BY <1>4, <1>5

\* Before the sweep there is nothing below its start.
LEMMA SweptFromStart ==
  ASSUME TypeOK, Tiled, sweepAt = TextStart, decoded = {}
  PROVE  sweepAt \in Starts \cup {TextEnd} /\ decoded = {a \in Starts : a < sweepAt}
<1>1. \A a \in Starts : a \in Int /\ TextStart <= a
  BY CodeType DEF Starts, Tiled
<1>2. QED
  BY <1>1, CodeType DEF Tiled

LEMMA SweepAdvances ==
  ASSUME TypeOK, Tiled, Swept, Sweep, TypeOK' PROVE Swept' /\ phase' = "sweep"
<1>1. PICK i \in DOMAIN code : code[i].at = sweepAt /\ Decode(DecodedLength(code[i].form))
  BY DEF Sweep
<1> DEFINE n == code[i].len
<1>2. /\ n = DecodedLength(code[i].form) /\ n # 0 /\ n \in Nat
      /\ sweepAt \in Nat /\ TextEnd \in Nat /\ sweepAt + n <= TextEnd
      /\ sweepAt + n \in Starts \cup {TextEnd}
  BY <1>1, CodeType DEF Tiled
<1> HIDE DEF n
<1>3. /\ decoded' = decoded \cup {sweepAt} /\ sweepAt' = sweepAt + n
      /\ phase' = "sweep"
  BY <1>1, <1>2 DEF Decode, Sweep
<1>4. UNCHANGED <<code, size>> /\ Starts' = Starts /\ TextEnd' = TextEnd
  BY DEF Sweep, secondVars, Starts, TextEnd
<1>5. ASSUME NEW a \in Starts PROVE a < sweepAt + n <=> a < sweepAt \/ a = sweepAt
  <2>1. PICK j \in DOMAIN code : a = code[j].at
    BY DEF Starts
  <2>2. /\ a \in Int /\ code[j].len \in Nat
        /\ DOMAIN code \subseteq Nat
    <3>1. DOMAIN code = 1..Len(code)
      BY DEF TypeOK
    <3>2. QED
      BY <2>1, <3>1, CodeType
  <2>3. CASE j = i
    BY <1>1, <1>2, <2>1, <2>2, <2>3
  <2>4. CASE i < j
    <3>1. sweepAt + n <= a
      BY <1>1, <2>1, <2>4 DEF Tiled, n
    <3>2. QED
      BY <1>2, <2>2, <3>1
  <2>5. CASE j < i
    <3>1. a + code[j].len <= sweepAt
      BY <1>1, <2>1, <2>5 DEF Tiled
    <3>2. QED
      BY <1>2, <2>2, <3>1
  <2>6. QED
    BY <2>2, <2>3, <2>4, <2>5
<1>6. sweepAt \in Starts
  BY <1>1 DEF Starts
<1>7. decoded' = {a \in Starts : a < sweepAt'}
  BY <1>3, <1>5, <1>6 DEF Swept
<1>8. QED
  BY <1>2, <1>3, <1>4, <1>7 DEF Swept

LEMMA SweepStep ==
  ASSUME TypeOK, TypeOK', SweepInvariant, [Next]_vars
  PROVE  SweepInvariant'
<1>1. program' = program
  BY DEF Next, FirstPass, SkipOrLabel, SwitchSection, RejectSection, DefineData,
         DataOverflow, DefineOther, ReserveBss, ReserveThrows, ReserveQuad, Misplaced, SizeText,
         Reserve, EndFirst, SecondPass, GenerateLine, TextOverflow, Install,
         Decoding, Sweep, SweepInside, EndSweep, Rest, vars
<1>2. SUFFICES ASSUME Whole PROVE Tiled' /\ Swept'
  BY <1>1 DEF SweepInvariant, Whole, Uses
<1>3. Tiled /\ Swept
  BY <1>2 DEF SweepInvariant
<1>4. ASSUME UNCHANGED <<code, size, sweepAt, decoded>>,
             phase' \in {"first", "second"} => phase \in {"first", "second"},
             phase' = "ready" => sweepAt = TextEnd
      PROVE  Tiled' /\ Swept'
  BY <1>3, <1>4 DEF Tiled, Swept, Starts, TextEnd
<1>5. CASE FirstPass
  <2>1. /\ UNCHANGED <<code, size, sweepAt, decoded>>
        /\ phase = "first" /\ phase' \in {"first", "second", "threw"}
    BY <1>5 DEF FirstPass, SkipOrLabel, SwitchSection, RejectSection, DefineData,
         DataOverflow, DefineOther, ReserveBss, ReserveThrows, ReserveQuad, Misplaced, SizeText,
         Reserve, EndFirst, InFirst, secondVars, sweepVars
  <2>2. QED
    BY <1>4, <2>1
<1>6. CASE GenerateLine
  <2>1. Tiled'
    BY <1>2, <1>3, <1>6, TiledGenerate
  <2>2. /\ phase' = "second" /\ phase = "second"
        /\ UNCHANGED <<sweepAt, decoded>> /\ sweepAt = TextStart
    BY <1>3, <1>6 DEF GenerateLine, sweepVars, Swept
  <2>3. decoded = {}
    <3>1. \A a \in Starts : a \in Int /\ TextStart <= a
      BY <1>3, CodeType DEF Starts, Tiled
    <3>2. QED
      BY <1>3, <2>2, <3>1, CodeType DEF Swept
  <2>4. sweepAt' = TextStart /\ decoded' = {}
    BY <2>2, <2>3
  <2>5. /\ sweepAt' \in Starts' \cup {TextEnd'}
        /\ decoded' = {a \in Starts' : a < sweepAt'}
    <3>1. \A a \in Starts' : a \in Int /\ TextStart <= a
      <4>1. \A j \in DOMAIN code' : code'[j] \in Instruction
        BY DEF TypeOK
      <4>2. \A j \in DOMAIN code' : code'[j].at \in Int
        BY <4>1 DEF Instruction
      <4>3. QED
        BY <2>1, <4>2 DEF Starts, Tiled
    <3>2. TextStart \in Nat
      BY AssemblerAssumption
    <3>3. {a \in Starts' : a < TextStart} = {}
      BY <3>1, <3>2
    <3>4. QED
      BY <2>1, <2>4, <3>3 DEF Tiled
  <2>6. QED
    BY <2>1, <2>2, <2>4, <2>5 DEF Swept
<1>7. CASE TextOverflow \/ Install
  <2>1. /\ UNCHANGED <<code, size, decoded>> /\ phase = "second"
        /\ phase' \in {"threw", "sweep"} /\ sweepAt' \in {sweepAt, TextStart}
    BY <1>7 DEF TextOverflow, Install, secondVars, sweepVars
  <2>2. sweepAt' = sweepAt
    BY <1>3, <2>1 DEF Swept
  <2>3. QED
    BY <1>4, <2>1, <2>2
<1>8. CASE Sweep
  <2>1. Swept' /\ UNCHANGED <<code, size>>
    BY <1>3, <1>8, SweepAdvances DEF Sweep, secondVars
  <2>2. QED
    BY <1>3, <2>1 DEF Tiled, Starts, TextEnd
<1>9. CASE SweepInside
  <2>1. sweepAt \notin Starts /\ sweepAt < TextEnd
    BY <1>9 DEF SweepInside
  <2>2. QED
    BY <1>3, <2>1, CodeType DEF Swept
<1>10. CASE EndSweep
  <2>1. /\ UNCHANGED <<code, size, sweepAt, decoded>>
        /\ sweepAt >= TextEnd /\ phase' = "ready"
    BY <1>10 DEF EndSweep, secondVars, sweepVars
  <2>2. \A a \in Starts : a \in Int /\ a <= TextEnd
    BY <1>3, CodeType DEF Starts, Tiled
  <2>3. sweepAt = TextEnd
    BY <1>3, <2>1, <2>2, CodeType DEF Swept
  <2>4. QED
    BY <1>4, <2>1, <2>3
<1>11. CASE Rest \/ UNCHANGED vars
  <2>1. /\ UNCHANGED <<code, size, sweepAt, decoded, phase>>
    BY <1>11 DEF Rest, vars, secondVars, sweepVars
  <2>2. QED
    BY <1>3, <1>4, <2>1 DEF Swept
<1>12. QED
  BY <1>5, <1>6, <1>7, <1>8, <1>9, <1>10, <1>11 DEF Next, SecondPass, Decoding

LEMMA InitSwept == Init => SweepInvariant
<1> SUFFICES ASSUME Init PROVE Tiled /\ Swept
  BY DEF SweepInvariant
<1>1. /\ code = <<>> /\ size = 0 /\ sweepAt = TextStart /\ decoded = {}
      /\ phase = "first" /\ TextStart \in Nat
  BY AssemblerAssumption DEF Init
<1>2. Starts = {} /\ TextEnd = TextStart /\ DOMAIN code = {}
  BY <1>1 DEF Starts, TextEnd
<1>3. QED
  BY <1>1, <1>2 DEF Tiled, Swept

(* The decoder finds exactly the emitted instructions, whatever the file,  *)
(* unless one of them was truncated.                                       *)
THEOREM SweepCorrect == Spec => []SweepFindsInstructions
<1>1. Init => SweepInvariant
  BY InitSwept
<1>2. TypeOK /\ TypeOK' /\ SweepInvariant /\ [Next]_vars => SweepInvariant'
  BY SweepStep
<1>3. TypeOK /\ SweepInvariant => SweepFindsInstructions
  <2> SUFFICES ASSUME TypeOK, Whole, Tiled, Swept PROVE SweepFindsInstructions
    BY DEF SweepInvariant, SweepFindsInstructions, Whole
  <2>1. decoded \subseteq Starts /\ \A a \in Starts : a < sweepAt => a \in decoded
    BY DEF Swept
  <2>2. phase = "ready" => decoded = Starts
    <3>1. \A i \in DOMAIN code : code[i].at < TextEnd
      BY CodeType DEF Tiled
    <3>2. QED
      BY <2>1, <3>1 DEF Swept, Starts
  <2>3. QED
    BY <2>1, <2>2 DEF SweepFindsInstructions
<1>4. QED
  BY <1>1, <1>2, <1>3, TypeCorrect, PTL DEF Spec

-----------------------------------------------------------------------------
(* Control. Every address in the table of a well ordered file is where the *)
(* first pass placed some line, or outside .text; and where a line behind  *)
(* the second pass was placed, an instruction starts or the code ends.     *)

Whereabouts(a, places) == a >= DataStart \/ \E k \in DOMAIN places : a = places[k]

CountersInRange == lc["data"] >= DataStart /\ lc["bss"] >= DataStart

SymbolsPlaced ==
  Unfailed => \A s \in Names : symbols[s] = Unbound \/ Whereabouts(symbols[s], placed)

Ordered == Unfailed /\ phase # "first" /\ WellOrdered(program)

PlacesMeetStarts ==
  Ordered => \A k \in 1..line : placed[k] \in Starts \cup {TextEnd}

\* No instruction leaves the generator's address behind.
InStep == Ordered /\ ~ Uses(program, {"vector_truncated"})

BranchesPlaced ==
  /\ InStep => genAddress = TextEnd
  /\ InStep => \A i \in DOMAIN code :
                code[i].form \in BranchForms => Whereabouts(code[i].dest, placed)

EntryPlaced ==
  /\ Unfailed /\ Generated => Whereabouts(rip, placed)
  /\ Generated => line > Len(program)

ControlInvariant ==
  /\ CountersInRange
  /\ SymbolsPlaced
  /\ PlacesMeetStarts
  /\ BranchesPlaced
  /\ EntryPlaced
  /\ phase = "first" => code = <<>> /\ genAddress = TextStart

\* A line of the first pass records what it defines at a place.
LEMMA ControlWalk ==
  ASSUME TypeOK, TypeOK', LabelInvariant, ControlInvariant, WalkLine
  PROVE  ControlInvariant'
<1>1. section = SectionOf(program, line)
  BY DEF LabelInvariant, PassProgress, WalkLine, SkipOrLabel, SwitchSection,
         DefineData, DefineOther, ReserveBss, ReserveQuad, Misplaced,
         SizeText, InFirst
<1>2. /\ TableStep /\ LineStep
      /\ \A where \in Sections : lc'[where] >= lc[where]
  BY <1>1, WalkLineStep, WalkStores
<1>3. /\ phase = "first" /\ phase' = "first" /\ program' = program
      /\ code' = code /\ Unfailed /\ line \in 1..Len(program)
      /\ placed' = Append(placed, lc'["text"]) /\ placed[line] = lc["text"]
      /\ Len(placed) = line
  BY <1>2, WalkPlaces DEF LineStep, LabelInvariant, PassProgress, Unfailed
<1>4. /\ placed \in Seq(Nat) /\ lc'["text"] \in Nat
      /\ lc["data"] \in Nat /\ lc["bss"] \in Nat
      /\ lc'["data"] \in Nat /\ lc'["bss"] \in Nat /\ DataStart \in Nat
  BY AssemblerAssumption DEF TypeOK, Sections
<1>5. CountersInRange'
  <2>1. lc'["data"] >= lc["data"] /\ lc'["bss"] >= lc["bss"]
    BY <1>2 DEF Sections
  <2>2. QED
    BY <1>4, <2>1 DEF ControlInvariant, CountersInRange
<1>6. ASSUME NEW a, Whereabouts(a, placed) PROVE Whereabouts(a, placed')
  <2>1. \A k \in DOMAIN placed : k \in DOMAIN placed' /\ placed'[k] = placed[k]
    BY <1>3, <1>4
  <2>2. QED
    BY <1>6, <2>1 DEF Whereabouts
<1>7. Whereabouts(lc[section], placed)
  <2>1. section = "text" => lc[section] = placed[line] /\ line \in DOMAIN placed
    BY <1>3, <1>4
  <2>2. section # "text" => lc[section] >= DataStart
    BY DEF ControlInvariant, CountersInRange, TypeOK, Sections
  <2>3. QED
    BY <2>1, <2>2 DEF Whereabouts
<1>8. ASSUME NEW s \in Names
      PROVE  symbols'[s] \in {symbols[s], lc[section]}
  <2>1. Here.label \in Names \cup {NoName} /\ Here.name \in Names \cup {NoName}
    BY <1>3, HereType DEF TypeOK
  <2>2. Labelled \in [Names -> Nat \cup {Unbound}]
    BY <2>1, TablesType DEF TypeOK
  <2>3. Labelled[s] \in {symbols[s], lc[section]}
    BY DEF Labelled, TypeOK
  <2>4. Named[s] \in {symbols[s], lc[section]}
    BY <2>2, <2>3 DEF Named
  <2>5. symbols' \in {Labelled, Named}
    BY DEF WalkLine, SkipOrLabel, SwitchSection, DefineData, DefineOther,
           ReserveBss, ReserveQuad, Misplaced, SizeText, Reserve
  <2>6. QED
    BY <2>3, <2>4, <2>5
<1>9. SymbolsPlaced'
  <2>1. ASSUME NEW s \in Names
        PROVE  symbols'[s] = Unbound \/ Whereabouts(symbols'[s], placed')
    <3>1. CASE symbols'[s] = lc[section]
      <4>1. Whereabouts(lc[section], placed')
        BY <1>6, <1>7
      <4>2. QED
        BY <3>1, <4>1
    <3>2. CASE symbols'[s] = symbols[s]
      BY <1>3, <1>6, <3>2 DEF ControlInvariant, SymbolsPlaced
    <3>3. QED
      BY <1>8, <3>1, <3>2
  <2>2. QED
    BY <2>1 DEF SymbolsPlaced
<1>10. genAddress' = genAddress
  BY DEF WalkLine, SkipOrLabel, SwitchSection, DefineData, DefineOther,
         ReserveBss, ReserveQuad, Misplaced, SizeText, Reserve, secondVars
<1>11. QED
  BY <1>3, <1>5, <1>9, <1>10
  DEF ControlInvariant, PlacesMeetStarts, BranchesPlaced, EntryPlaced, Ordered,
      InStep, Generated

\* The second pass: what a line emits starts at the place of the line, and the
\* displacement of a branch leads to a symbol or to the next line.
LEMMA ControlGenerate ==
  ASSUME TypeOK, TypeOK', LabelInvariant, LabelInvariant', ControlInvariant, GenerateLine
  PROVE  ControlInvariant'
<1> DEFINE n  == Emitted(Here, symbols)
           at == TextStart + size
           i  == [line |-> line, form |-> Here.what, at |-> at, len |-> n,
                  dest |-> Destination(Here, symbols, at, genAddress),
                  name |-> Here.name]
<1>1. /\ phase = "second" /\ phase' = "second" /\ line <= Len(program)
      /\ line' = line + 1
      /\ code' = IF n = 0 THEN code ELSE Append(code, i)
      /\ size' = size + n
      /\ genAddress' = genAddress + Advanced(Here, symbols)
      /\ UNCHANGED <<program, firstOk, lc, symbols, placed>>
  BY DEF GenerateLine, firstVars
<1>2. /\ line \in Nat \ {0} /\ code \in Seq(Instruction) /\ placed \in Seq(Nat)
      /\ Len(program) \in Nat /\ TextEnd \in Nat /\ at = TextEnd /\ n \in Nat
      /\ line \in DOMAIN program
  BY <1>1, CodeType, BytesType, HereType DEF TypeOK, TextEnd, Emitted
<1>3. Ordered' = Ordered
  BY <1>1 DEF Ordered, Unfailed
<1>4. InStep' = InStep
  BY <1>1, <1>3 DEF InStep
<1>5. TextEnd' = TextEnd + n
  <2> HIDE DEF n
  <2>1. QED
    BY <1>1, <1>2, AssemblerAssumption DEF TextEnd, TypeOK
<1>6. ASSUME Ordered
      PROVE  /\ TextEnd' = placed[line + 1]
             /\ line + 1 \in DOMAIN placed
  <2>1. Unfailed' /\ WellOrdered(program')
    BY <1>1, <1>6 DEF Ordered, Unfailed
  <2>2. TextEnd' = placed'[line']
    BY <1>1, <2>1 DEF LabelInvariant, CodeAtPlaces, TextEnd
  <2>3. Len(placed) = Len(program) + 1
    BY <1>6 DEF LabelInvariant, PassProgress, Ordered
  <2>4. QED
    BY <1>1, <1>2, <2>2, <2>3
<1>7. Starts' = IF n = 0 THEN Starts ELSE Starts \cup {TextEnd}
  <2>1. CASE n = 0
    BY <1>1, <2>1 DEF Starts
  <2>2. CASE n # 0
    <3>1. i.at = TextEnd
      BY <1>2
    <3> HIDE DEF i, n, at
    <3>2. /\ DOMAIN code' = 1..(Len(code) + 1) /\ DOMAIN code = 1..Len(code)
          /\ Len(code) \in Nat
          /\ \A j \in 1..Len(code) : code'[j] = code[j]
          /\ code'[Len(code) + 1] = i
      BY <1>1, <1>2, <2>2
    <3>3. \A j \in DOMAIN code' : code'[j].at \in Starts \cup {TextEnd}
      BY <3>1, <3>2 DEF Starts
    <3>4. \A a \in Starts \cup {TextEnd} : \E j \in DOMAIN code' : code'[j].at = a
      BY <3>1, <3>2 DEF Starts
    <3>5. QED
      BY <2>2, <3>3, <3>4 DEF Starts
  <2>3. QED
    BY <2>1, <2>2
<1>8. PlacesMeetStarts'
  <2>1. SUFFICES ASSUME Ordered, NEW k \in 1..(line + 1)
                 PROVE  placed[k] \in Starts' \cup {TextEnd'}
    BY <1>1, <1>3 DEF PlacesMeetStarts
  <2>2. CASE k = line + 1
    BY <1>6, <2>1, <2>2
  <2>3. CASE k # line + 1
    <3>1. k \in 1..line
      BY <1>2, <2>1, <2>3
    <3>2. placed[k] \in Starts \cup {TextEnd}
      BY <2>1, <3>1 DEF ControlInvariant, PlacesMeetStarts
    <3> HIDE DEF n
    <3>3. QED
      BY <1>2, <1>5, <1>7, <3>2
  <2>4. QED
    BY <2>2, <2>3
<1>9. InStep => genAddress' = TextEnd'
  <2>1. SUFFICES ASSUME InStep PROVE genAddress' = TextEnd'
    OBVIOUS
  <2>2. ~ (Generates(Here) /\ Here.what = "vector_truncated")
    BY <1>2, <2>1 DEF InStep, Uses, Here
  <2>3. Advanced(Here, symbols) = n
    BY <2>2 DEF Advanced, Emitted, Advance
  <2>4. genAddress = TextEnd
    BY <2>1 DEF ControlInvariant, BranchesPlaced
  <2>5. QED
    BY <1>1, <1>5, <2>3, <2>4
<1>10. ASSUME InStep, n # 0, Here.what \in BranchForms
       PROVE  Whereabouts(Destination(Here, symbols, at, genAddress), placed)
  <2>1. Generates(Here) /\ Here.what \in SymbolicForms /\ Here.what # "mov_abs"
    <3>1. Generates(Here)
      BY <1>10 DEF Emitted
    <3>2. \A form \in BranchForms : form # "mov_abs"
      BY DEF BranchForms, JccForms, JccBytes, JumpBytes
    <3>3. QED
      BY <1>10, <3>1, <3>2 DEF SymbolicForms
  <2>2. genAddress = at /\ at \in Nat /\ Ordered
    BY <1>2, <1>10 DEF ControlInvariant, BranchesPlaced, InStep
  <2>3. CASE ~ Known(Here, symbols)
    <3>1. n = Bytes(Here.what, FALSE)
      BY <2>1, <2>3, BytesStable DEF Emitted
    <3>2. Destination(Here, symbols, at, genAddress) = at + n
      BY <2>1, <2>3, <3>1 DEF Destination
    <3> HIDE DEF n, at
    <3>3. at + n = placed[line + 1] /\ line + 1 \in DOMAIN placed
      BY <1>2, <1>5, <1>6, <2>2
    <3>4. QED
      BY <3>2, <3>3 DEF Whereabouts
  <2>4. CASE Known(Here, symbols)
    <3> DEFINE s == Lower[Here.name]
    <3>1. s \in Names /\ symbols[s] # Unbound
      <4>1. Here \in SourceLine
        <5>1. program \in Seq(SourceLine) /\ line \in DOMAIN program
          BY <1>2 DEF TypeOK
        <5>2. QED
          BY <5>1 DEF Here
      <4>2. Here.name \in Names
        BY <2>1, <4>1 DEF SourceLine, Generates
      <4>3. QED
        BY <2>4, <4>2, AssemblerAssumption DEF Known
    <3>2. symbols[s] \in Nat /\ Whereabouts(symbols[s], placed)
      BY <1>10, <3>1 DEF TypeOK, ControlInvariant, SymbolsPlaced, InStep, Ordered
    <3>3. Destination(Here, symbols, at, genAddress) = symbols[s] + (at - genAddress)
      BY <2>1, <2>4 DEF Destination
    <3> HIDE DEF at, s
    <3>4. symbols[s] + (at - genAddress) = symbols[s]
      BY <2>2, <3>2
    <3>5. QED
      BY <3>2, <3>3, <3>4
  <2>5. QED
    BY <2>3, <2>4
<1>11. BranchesPlaced'
  <2>1. SUFFICES ASSUME InStep, NEW j \in DOMAIN code', code'[j].form \in BranchForms
                 PROVE  Whereabouts(code'[j].dest, placed)
    BY <1>1, <1>4, <1>9 DEF BranchesPlaced
  <2>2. CASE j \in DOMAIN code /\ code'[j] = code[j]
    BY <2>1, <2>2 DEF ControlInvariant, BranchesPlaced
  <2>3. CASE n # 0 /\ code'[j] = i
    BY <1>10, <2>1, <2>3
  <2>4. \/ j \in DOMAIN code /\ code'[j] = code[j]
        \/ n # 0 /\ code'[j] = i
    <3> HIDE DEF i, n, at
    <3>1. QED
      BY <1>1, <1>2
  <2>5. QED
    BY <2>2, <2>3, <2>4
<1>12. QED
  BY <1>1, <1>8, <1>11
  DEF ControlInvariant, CountersInRange, SymbolsPlaced, EntryPlaced, Generated, Unfailed

LEMMA ControlStep ==
  ASSUME TypeOK, TypeOK', LabelInvariant, LabelInvariant', ControlInvariant, [Next]_vars
  PROVE  ControlInvariant'
<1>1. CASE WalkLine
  BY <1>1, ControlWalk
<1>2. CASE RejectSection \/ DataOverflow \/ ReserveThrows
  <2>1. /\ ~ Unfailed' /\ ~ Generated' /\ phase' # "first"
        /\ lc' = lc
    BY <1>2 DEF RejectSection, DataOverflow, ReserveThrows, Unfailed, Generated
  <2>2. QED
    BY <2>1 DEF ControlInvariant, CountersInRange, SymbolsPlaced, PlacesMeetStarts,
                BranchesPlaced, EntryPlaced, Ordered, InStep
<1>3. CASE EndFirst
  <2>1. /\ phase = "first" /\ phase' = "second" /\ line' = 1 /\ program' = program
        /\ UNCHANGED <<firstOk, lc, symbols, placed, code, size, genAddress>>
    BY <1>3 DEF EndFirst, firstVars, secondVars
  <2>2. /\ code = <<>> /\ size = 0 /\ genAddress = TextStart /\ placed[1] = TextStart
    BY <2>1 DEF LabelInvariant, PassProgress, PlacedInOrder, ControlInvariant
  <2>3. /\ TextEnd' = TextStart /\ code' = <<>> /\ DOMAIN code' = {}
        /\ placed'[1] = TextStart /\ genAddress' = TextStart
    BY <2>1, <2>2, AssemblerAssumption DEF TextEnd
  <2>4. \A k \in 1..line' : k = 1
    BY <2>1
  <2>5. PlacesMeetStarts'
    BY <2>3, <2>4 DEF PlacesMeetStarts
  <2>6. QED
    BY <2>1, <2>3, <2>5
    DEF ControlInvariant, CountersInRange, SymbolsPlaced, BranchesPlaced, EntryPlaced,
        Generated, Unfailed
<1>4. CASE GenerateLine
  BY <1>4, ControlGenerate
<1>5. ASSUME UNCHANGED <<program, line, firstVars, secondVars>>,
             phase # "first" /\ phase' # "first",
             phase' = "threw" \/ phase # "threw",
             Unfailed' /\ Generated' => Whereabouts(rip', placed),
             Generated' => line > Len(program)
      PROVE  ControlInvariant'
  <2>1. /\ Unfailed' => Unfailed
        /\ UNCHANGED <<code, size, genAddress, placed, symbols, lc>>
    BY <1>5 DEF Unfailed, firstVars, secondVars
  <2>2. /\ Starts' = Starts /\ TextEnd' = TextEnd
        /\ Ordered' => Ordered
        /\ InStep' => InStep
    BY <1>5, <2>1 DEF Starts, TextEnd, Ordered, InStep
  <2>3. CountersInRange' /\ SymbolsPlaced' /\ PlacesMeetStarts' /\ BranchesPlaced'
    BY <1>5, <2>1, <2>2
    DEF ControlInvariant, CountersInRange, SymbolsPlaced, PlacesMeetStarts, BranchesPlaced
  <2>4. EntryPlaced'
    BY <1>5, <2>1 DEF EntryPlaced
  <2>5. QED
    BY <1>5, <2>3, <2>4 DEF ControlInvariant
<1>6. CASE TextOverflow
  BY <1>5, <1>6 DEF TextOverflow, Generated
<1>7. CASE Install
  <2>1. /\ phase = "second" /\ phase' = "sweep" /\ line > Len(program)
        /\ rip' = IF symbols[EntryPoint] = Unbound THEN TextStart
                  ELSE symbols[EntryPoint]
        /\ UNCHANGED <<program, line, firstVars, secondVars>>
    BY <1>7 DEF Install
  <2>2. Whereabouts(TextStart, placed)
    <3>1. 1 \in DOMAIN placed /\ placed[1] = TextStart
      BY DEF LabelInvariant, PlacedInOrder, TypeOK
    <3>2. QED
      BY <3>1 DEF Whereabouts
  <2>3. Unfailed' => symbols[EntryPoint] = Unbound \/ Whereabouts(symbols[EntryPoint], placed)
    BY <2>1, AssemblerAssumption
    DEF ControlInvariant, SymbolsPlaced, Unfailed, firstVars
  <2>4. QED
    BY <1>5, <2>1, <2>2, <2>3
<1>8. CASE Decoding
  <2>1. /\ phase = "sweep" /\ phase' # "first"
        /\ UNCHANGED <<program, line, firstVars, secondVars, rip>>
    BY <1>8 DEF Decoding, Sweep, SweepInside, EndSweep, Decode, sweepVars
  <2>2. Unfailed' => Unfailed
    BY <2>1 DEF Unfailed, firstVars
  <2>3. QED
    BY <1>5, <2>1, <2>2 DEF ControlInvariant, EntryPlaced, Generated
<1>9. CASE Rest \/ UNCHANGED vars
  <2>1. UNCHANGED <<program, line, phase, firstVars, secondVars, rip>>
    BY <1>9 DEF Rest, vars, sweepVars
  <2>2. UNCHANGED <<firstOk, lc, symbols, placed, code, size, genAddress>>
    BY <2>1 DEF firstVars, secondVars
  <2>3. QED
    BY <2>1, <2>2
    DEF ControlInvariant, CountersInRange, SymbolsPlaced, PlacesMeetStarts,
        BranchesPlaced, EntryPlaced, Ordered, InStep, Starts, TextEnd, Generated,
        Unfailed
<1>10. QED
  BY <1>1, <1>2, <1>3, <1>4, <1>6, <1>7, <1>8, <1>9
  DEF Next, FirstPass, SecondPass, WalkLine

\* Once the load is done, that is where control can go.
LEMMA ControlFollows ==
  TypeOK /\ LabelInvariant /\ ControlInvariant => ControlMeetsInstructions
<1> SUFFICES ASSUME TypeOK, LabelInvariant, ControlInvariant, Generated, firstOk,
                    WellOrdered(program), ~ Uses(program, {"vector_truncated"})
             PROVE  /\ rip < DataStart => rip \in Starts \cup {TextEnd}
                    /\ \A i \in DOMAIN code :
                         code[i].form \in BranchForms /\ code[i].dest < DataStart
                         => code[i].dest \in Starts \cup {TextEnd}
  BY DEF ControlMeetsInstructions
<1>1. Ordered /\ InStep /\ Unfailed
  BY DEF Ordered, InStep, Unfailed, Generated
<1>2. /\ Len(placed) = Len(program) + 1 /\ line > Len(program)
      /\ line <= Len(program) + 1
  BY <1>1 DEF LabelInvariant, PassProgress, Ordered, ControlInvariant, EntryPlaced
<1>3. DOMAIN placed = 1..line
  BY <1>2 DEF TypeOK
<1>4. ASSUME NEW a \in Int, Whereabouts(a, placed), a < DataStart
      PROVE  a \in Starts \cup {TextEnd}
  <2>1. ~ (a >= DataStart)
    BY <1>4, AssemblerAssumption
  <2>2. PICK k \in 1..line : a = placed[k]
    BY <1>3, <1>4, <2>1 DEF Whereabouts
  <2>3. QED
    BY <1>1, <2>2 DEF ControlInvariant, PlacesMeetStarts
<1>5. rip \in Int /\ Whereabouts(rip, placed)
  BY <1>1 DEF TypeOK, ControlInvariant, EntryPlaced
<1>6. \A i \in DOMAIN code : code[i].form \in BranchForms =>
        code[i].dest \in Int /\ Whereabouts(code[i].dest, placed)
  <2>1. \A i \in DOMAIN code : code[i] \in Instruction
    BY DEF TypeOK
  <2>2. \A i \in DOMAIN code : code[i].dest \in Int
    BY <2>1 DEF Instruction
  <2>3. QED
    BY <1>1, <2>2 DEF ControlInvariant, BranchesPlaced
<1>7. QED
  BY <1>4, <1>5, <1>6

LEMMA InitControl == Init => ControlInvariant
<1> SUFFICES ASSUME Init PROVE ControlInvariant
  OBVIOUS
<1>1. /\ phase = "first" /\ code = <<>> /\ genAddress = TextStart
      /\ lc["data"] = DataStart /\ lc["bss"] = BssStart
      /\ symbols = [n \in Names |-> Unbound]
  BY DEF Init
<1>2. QED
  BY <1>1, AssemblerAssumption
  DEF ControlInvariant, CountersInRange, SymbolsPlaced, PlacesMeetStarts,
      BranchesPlaced, EntryPlaced, Ordered, InStep, Generated

\* In a well ordered file with no truncated vector instruction, the entry point
\* and every branch lead to the first byte of an emitted instruction or to the
\* end of the program, whatever the file, its symbols and the layout.
THEOREM ControlCorrect == Spec => []ControlMeetsInstructions
<1>1. Init => ControlInvariant
  BY InitControl
<1>2. /\ TypeOK /\ TypeOK' /\ LabelInvariant /\ LabelInvariant' /\ ControlInvariant
      /\ [Next]_vars
      => ControlInvariant'
  BY ControlStep
<1>3. TypeOK /\ LabelInvariant /\ ControlInvariant => ControlMeetsInstructions
  BY ControlFollows
<1>4. QED
  BY <1>1, <1>2, <1>3, TypeCorrect, PlacesAgree, PTL DEF Spec

==============================================================================
