---------------------------- MODULE UserInterface -----------------------------
(***************************************************************************)
(* UIManager and the loop of X86Simulator::runProgram that drives it: the  *)
(* settings the keys change, what the windows were last drawn with, and    *)
(* the end of the program.                                                 *)
(*                                                                         *)
(* An instruction is its index in the decoded program. A window is what    *)
(* its text depends on; the registers other than rip are one value. What   *)
(* an instruction does is left to the processor's modules: a step moves    *)
(* rip anywhere. Other keys, and a getch without input, change nothing.    *)
(***************************************************************************)
EXTENDS Integers, FiniteSets

CONSTANTS
  Programs,    \* decoded programs: [size, labelled, atZero]
  Visible,     \* rows between the frame and title of the text window
  Registers,   \* the number of ymm registers
  Peek,        \* how many of them the small window shows
  YmmModes,    \* the number of ymm view modes
  Values       \* contents of the registers other than rip

\* size: how many instructions were decoded; labelled: those at a label;
\* atZero: the first one is at address 0.
ASSUME InterfaceAssumption ==
  /\ \A p \in Programs :
       /\ p.size \in Nat /\ p.labelled \subseteq 0..(p.size - 1)
       /\ p.atZero \in BOOLEAN /\ (p.atZero => p.size > 0)
  /\ Visible \in Nat \ {0}
  /\ Registers \in Nat /\ Registers >= 3
  /\ Peek \in Nat
  /\ YmmModes \in Nat \ {0}

VARIABLES
  program,     \* program_decoder_ and address_to_label_
  rip, values, \* the registers
  phase,       \* where runProgram and the destructors are
  offset,      \* text_scroll_offset_
  ymmOffset,   \* ymm_scroll_offset_
  view,        \* current_view_
  flagsText, labelNames,   \* show_flags_as_text_, show_labels_in_text_segment_
  ymmMode, base,           \* ymm_view_mode_, display_base_
  text, ymm, main, description,   \* what the windows were last drawn with
  fresh        \* refreshAll has been called since

settings == <<ymmOffset, view, flagsText, labelNames, ymmMode, base>>
machine  == <<program, rip, values>>
vars == <<machine, phase, offset, settings, text, ymm, main, description, fresh>>

Indices == 0..(program.size - 1)
Stray   == -1             \* an address no instruction was decoded at
End     == program.size   \* any address behind the text segment

\* Address 0, with which the scroll keys redraw the text.
AddressZero == IF program.atZero THEN 0 ELSE Stray

-----------------------------------------------------------------------------
(* Drawing.                                                                *)

Smaller(a, b) == IF a < b THEN a ELSE b

\* Mutant: the last page is not held back.
CentredUnclamped(at, o) ==
  IF at \notin Indices THEN o
  ELSE IF at > Visible \div 2 THEN at - Visible \div 2 ELSE 0

\* text_scroll_offset_ after centerViewOnRip(at), when it was o.
Centred(at, o) ==
  IF at \notin Indices THEN o
  ELSE IF program.size <= Visible THEN 0
  ELSE Smaller(IF at > Visible \div 2 THEN at - Visible \div 2 ELSE 0,
               program.size - Visible)

\* The row of instruction i, in a window whose first instruction is o: a
\* label takes a row of its own.
Row(i, o) == (i - o) + Cardinality(program.labelled \cap (o..i))

\* Mutant: labels are not counted.
ShownUnlabelled(o) == {i \in Indices : i >= o /\ i < o + Visible - 1}

\* The instructions drawTextSegment draws before it runs out of rows.
Shown(o) == {i \in Indices : i >= o /\ Row(i, o) < Visible}

TextView(at, o, names) == [at |-> at, first |-> o, shown |-> Shown(o), names |-> names]

DrawTextWindow(at) ==
  /\ offset' = Centred(at, offset)
  /\ text' = TextView(at, offset', labelNames')

YmmView ==
  [registers |-> IF view = "normal" THEN ymmOffset..(Smaller(Registers, ymmOffset + Peek) - 1)
                 ELSE 0..(Registers - 1),
   mode |-> ymmMode, base |-> base, values |-> values]

MainView == [rip |-> rip, values |-> values, flagsText |-> flagsText]

\* describe, or "No instruction data for this address".
Description == IF rip \in Indices THEN [of |-> rip, values |-> values]
               ELSE [of |-> Stray, values |-> values]

\* The drawing calls of runProgram, for the registers as a step leaves them.
DrawAll ==
  /\ main' = MainView' /\ ymm' = YmmView'
  /\ DrawTextWindow(rip')
  /\ description' = Description'

-----------------------------------------------------------------------------
(* waitForInput: one action per key.                                       *)

Key == phase = "waiting" /\ UNCHANGED machine

PressQuit ==
  /\ Key /\ phase' = "ended"
  /\ UNCHANGED <<offset, settings, text, ymm, main, description, fresh>>

PressNext ==
  /\ Key /\ phase' = "stepping"
  /\ UNCHANGED <<offset, settings, text, ymm, main, description, fresh>>

\* A key that changes a setting redraws what shows it and refreshes.
Handled == Key /\ fresh' = TRUE /\ UNCHANGED phase

PressFlags ==
  /\ Handled /\ flagsText' = ~ flagsText
  /\ main' = MainView'
  /\ UNCHANGED <<offset, ymmOffset, view, labelNames, ymmMode, base,
                 text, ymm, description>>

\* Mutant: the ymm window keeps the size it was drawn with.
PressViewNotRedrawn ==
  /\ Handled /\ view' = IF view = "normal" THEN "expanded" ELSE "normal"
  /\ UNCHANGED <<ymmOffset, flagsText, labelNames, ymmMode, base, ymm>>
  /\ main' = MainView' /\ DrawTextWindow(rip) /\ description' = Description'

PressView ==
  /\ Handled /\ view' = IF view = "normal" THEN "expanded" ELSE "normal"
  /\ UNCHANGED <<ymmOffset, flagsText, labelNames, ymmMode, base>>
  /\ DrawAll

\* The keys below redraw the ymm window only.
DrawYmmOnly ==
  /\ UNCHANGED <<offset, view, flagsText, labelNames, text, main, description>>
  /\ ymm' = YmmView'

\* Mutant: the offset runs up to the last register.
PressPlusToLast ==
  /\ Handled /\ UNCHANGED <<ymmMode, base>>
  /\ ymmOffset' = IF ymmOffset < Registers THEN ymmOffset + 1 ELSE ymmOffset
  /\ DrawYmmOnly

PressPlus ==
  /\ Handled /\ UNCHANGED <<ymmMode, base>>
  /\ ymmOffset' = IF ymmOffset < Registers - 3 THEN ymmOffset + 1 ELSE ymmOffset
  /\ DrawYmmOnly

PressMinus ==
  /\ Handled /\ UNCHANGED <<ymmMode, base>>
  /\ ymmOffset' = IF ymmOffset > 0 THEN ymmOffset - 1 ELSE ymmOffset
  /\ DrawYmmOnly

PressMode ==
  /\ Handled /\ ymmMode' = (ymmMode + 1) % YmmModes
  /\ UNCHANGED <<ymmOffset, base>>
  /\ DrawYmmOnly

PressBase ==
  /\ Handled /\ base' \in {"DEC", "HEX", "OCT"}
  /\ UNCHANGED <<ymmOffset, ymmMode>>
  /\ DrawYmmOnly

PressLabels ==
  /\ Handled /\ labelNames' = ~ labelNames
  /\ DrawTextWindow(rip)
  /\ UNCHANGED <<ymmOffset, view, flagsText, ymmMode, base, ymm, main, description>>

\* The arrow keys move the offset by one, then redraw the text with rip 0,
\* which centres the window again.
Scroll(moved) ==
  /\ Handled
  /\ offset' = Centred(AddressZero, moved)
  /\ text' = TextView(AddressZero, offset', labelNames)
  /\ UNCHANGED <<settings, ymm, main, description>>

PressUp   == Scroll(IF offset > 0 THEN offset - 1 ELSE offset)
PressDown == Scroll(IF offset < program.size - 1 THEN offset + 1 ELSE offset)

-----------------------------------------------------------------------------
(* runProgram and the destructors.                                         *)

\* refreshAll at the head of the loop. The first time round, nothing has
\* asked whether rip is in the program at all.
Refresh ==
  /\ phase \in {"started", "drawn"}
  /\ phase' = "waiting" /\ fresh' = TRUE
  /\ UNCHANGED <<machine, offset, settings, text, ymm, main, description>>

\* Mutant: the last instruction's end is not the end of the program.
StepPastEnd ==
  /\ phase = "stepping"
  /\ rip' \in Indices \cup {Stray, End} /\ values' \in Values
  /\ phase' = "drawn" /\ fresh' = FALSE
  /\ UNCHANGED <<program, settings>>
  /\ DrawAll

\* An instruction, the test for the end of the program, and the redraw,
\* which also follows the last instruction.
Step ==
  /\ phase = "stepping"
  /\ rip' \in Indices \cup {Stray, End} /\ values' \in Values
  /\ phase' = IF rip' = End THEN "ended" ELSE "drawn"
  /\ fresh' = FALSE
  /\ UNCHANGED <<program, settings>>
  /\ DrawAll

\* An exception of the step is caught nowhere: the process ends with the
\* windows open.
StepThrows ==
  /\ phase = "stepping"
  /\ phase' = "terminated" /\ values' \in Values
  /\ UNCHANGED <<program, rip, offset, settings, text, ymm, main, description, fresh>>

\* ~X86Simulator calls tearDown, and ~UIManager calls it again.
TearDown ==
  /\ phase \in {"ended", "torn down"}
  /\ phase' = IF phase = "ended" THEN "torn down" ELSE "torn down twice"
  /\ UNCHANGED <<machine, offset, settings, text, ymm, main, description, fresh>>

\* The constructor, the entry point of secondPass, and the initial draw.
Init ==
  /\ program \in Programs
  /\ rip \in Indices \cup {Stray, End} /\ values \in Values
  /\ phase = "started" /\ fresh = FALSE
  /\ ymmOffset = 0 /\ view = "normal"
  /\ flagsText = TRUE /\ labelNames = FALSE /\ ymmMode = 0
  /\ base = "HEX"
  /\ offset = Centred(rip, 0)
  /\ text = TextView(rip, offset, labelNames)
  /\ main = MainView /\ ymm = YmmView /\ description = Description

Keys == \/ PressQuit \/ PressNext \/ PressFlags \/ PressView
        \/ PressPlus \/ PressMinus \/ PressMode \/ PressBase
        \/ PressLabels \/ PressUp \/ PressDown

Next == Keys \/ Refresh \/ Step \/ StepThrows \/ TearDown

Spec == Init /\ [][Next]_vars

\* The program's own steps happen; keys are the user's business.
FairSpec == Spec /\ WF_vars(Refresh) /\ WF_vars(Step \/ StepThrows) /\ WF_vars(TearDown)
=============================================================================
