-------------------------- MODULE UserInterfaceProofs --------------------------
(***************************************************************************)
(* For every program, window size and number of registers: the interface   *)
(* stays well typed, nothing scrolls out of its window, and the terminal   *)
(* shows the state while a key is awaited.                                 *)
(***************************************************************************)
EXTENDS UserInterfaceProperties, FiniteSetTheorems, TLAPS

\* Once the first windows are drawn, what is on them follows from the state
\* whenever a key is awaited or about to be.
Drawn ==
  phase \in {"started", "drawn", "waiting"} =>
    /\ phase = "waiting" => fresh
    /\ ymm = YmmView /\ main = MainView /\ description = Description
    /\ text = TextView(text.at, offset, labelNames)
    /\ text.at \in {rip, AddressZero}

\* The text window was drawn around the instruction it is for.
TextCentred ==
  text.at \in Indices =>
    /\ text.first \in Nat /\ text.first <= text.at
    /\ text.at - text.first < Visible
    /\ text.shown = Shown(text.first)

UIInvariant == UITypeOK /\ NothingScrollsOut

-----------------------------------------------------------------------------
(* Centring.                                                               *)

LEMMA Sizes ==
  ASSUME UITypeOK
  PROVE  /\ program.size \in Nat /\ program.atZero \in BOOLEAN
         /\ program.atZero => program.size > 0
         /\ program.labelled \subseteq 0..(program.size - 1)
         /\ Indices = 0..(program.size - 1)
         /\ Visible \in Nat \ {0}
         /\ AddressZero \in Indices \cup {Stray}
BY InterfaceAssumption DEF UITypeOK, Indices, AddressZero

LEMMA CentredType ==
  ASSUME UITypeOK, NEW at \in Indices \cup {Stray, End}, NEW o \in 0..program.size
  PROVE  Centred(at, o) \in 0..program.size
<1>1. Visible \div 2 \in Nat
  BY Sizes
<1>2. QED
  BY <1>1, Sizes DEF Centred, Smaller, Stray, End

\* Around an instruction the window is centred whatever the offset was, it
\* holds the instruction, and it ends with the program at the latest.
LEMMA CentredAround ==
  ASSUME UITypeOK, NEW at \in Indices, NEW o
  PROVE  /\ Centred(at, o) \in Nat /\ Centred(at, o) <= at
         /\ at - Centred(at, o) < Visible
         /\ Centred(at, o) > 0 => Centred(at, o) + Visible <= program.size
<1> DEFINE n == program.size
           h == Visible \div 2
<1>1. n \in Nat /\ Visible \in Nat \ {0} /\ at \in 0..(n - 1)
  BY Sizes
<1>2. h \in Nat /\ h < Visible
  BY <1>1
<1>3. Centred(at, o) = IF n <= Visible THEN 0
                       ELSE Smaller(IF at > h THEN at - h ELSE 0, n - Visible)
  BY DEF Centred
<1> HIDE DEF n, h
<1>4. CASE n <= Visible
  BY <1>1, <1>3, <1>4 DEF n
<1>5. CASE n > Visible /\ at > h
  BY <1>1, <1>2, <1>3, <1>5 DEF Smaller, n
<1>6. CASE n > Visible /\ at <= h
  BY <1>1, <1>2, <1>3, <1>6 DEF Smaller, n
<1>7. QED
  BY <1>1, <1>2, <1>4, <1>5, <1>6 DEF n

\* Centring keeps the bounds of the offset, for any address, except that of
\* an unchanged offset for an address without instruction.
LEMMA CentringKeepsBounds ==
  ASSUME UIInvariant, NEW at \in Indices \cup {Stray, End},
         NEW o \in 0..program.size, o = offset \/ at = AddressZero
  PROVE  /\ Centred(at, o) \in 0..program.size
         /\ program.atZero /\ Centred(at, o) > 0 =>
              Centred(at, o) + Visible <= program.size
<1>1. UITypeOK
  BY DEF UIInvariant
<1>2. Centred(at, o) \in 0..program.size
  BY <1>1, CentredType
<1>3. CASE at \in Indices
  BY <1>1, <1>2, <1>3, CentredAround
<1>4. CASE at \notin Indices /\ o = offset
  BY <1>2, <1>4 DEF Centred, UIInvariant, NothingScrollsOut
<1>5. CASE at \notin Indices /\ at = AddressZero
  <2>1. ~ program.atZero
    BY <1>1, <1>5, Sizes DEF AddressZero
  <2>2. QED
    BY <1>2, <2>1
<1>6. QED
  BY <1>3, <1>4, <1>5

-----------------------------------------------------------------------------
(* Types and bounds.                                                       *)

\* What every drawing of the text does to the bounded part of the state.
LEMMA DrawingKeepsBounds ==
  ASSUME UIInvariant, NEW at \in Indices \cup {Stray, End},
         NEW o \in 0..program.size, o = offset \/ at = AddressZero,
         program' = program, offset' = Centred(at, o),
         ymmOffset' = ymmOffset
  PROVE  offset' \in 0..program'.size /\ NothingScrollsOut'
<1>1. /\ offset' \in 0..program.size
      /\ program.atZero /\ offset' > 0 => offset' + Visible <= program.size
  BY CentringKeepsBounds
<1>2. QED
  BY <1>1 DEF NothingScrollsOut, UIInvariant

LEMMA YmmKeysKeepBounds ==
  ASSUME UIInvariant, PressPlus \/ PressMinus
  PROVE  UIInvariant'
<1>1. ymmOffset \in Nat /\ ymmOffset <= Registers - 3 /\ Registers \in Nat
  BY InterfaceAssumption DEF UIInvariant, UITypeOK, NothingScrollsOut
<1>2. ymmOffset' \in 0..(Registers - 1) /\ ymmOffset' <= Registers - 3
  BY <1>1, InterfaceAssumption DEF PressPlus, PressMinus
<1>3. UITypeOK'
  BY <1>2 DEF UIInvariant, UITypeOK, PressPlus, PressMinus, Handled, Key, machine,
              DrawYmmOnly, Indices, Phases, End, Stray
<1>4. NothingScrollsOut'
  BY <1>2 DEF UIInvariant, NothingScrollsOut, PressPlus, PressMinus, Handled, Key,
              machine, DrawYmmOnly
<1>5. QED
  BY <1>3, <1>4 DEF UIInvariant

LEMMA DrawKeysKeepBounds ==
  ASSUME UIInvariant, PressView \/ PressLabels \/ PressUp \/ PressDown
  PROVE  UIInvariant'
<1>1. /\ program' = program /\ ymmOffset' = ymmOffset
      /\ UNCHANGED <<rip, values, ymmMode, base, phase>> /\ fresh' = TRUE
      /\ view' \in {"normal", "expanded"} /\ flagsText' = flagsText
      /\ labelNames' \in BOOLEAN
  BY DEF UIInvariant, UITypeOK, PressView, PressLabels, PressUp, PressDown, Scroll,
         Handled, Key, machine, settings
<1>2. PICK at \in Indices \cup {Stray, End}, o \in 0..program.size :
        (o = offset \/ at = AddressZero) /\ offset' = Centred(at, o)
  <2>1. UITypeOK /\ offset \in 0..program.size /\ rip \in Indices \cup {Stray, End}
    BY DEF UIInvariant, UITypeOK
  <2>2. CASE PressView \/ PressLabels
    <3>1. offset' = Centred(rip, offset)
      BY <1>1, <2>2 DEF PressView, PressLabels, DrawAll, DrawTextWindow
    <3>2. QED
      BY <2>1, <3>1
  <2>3. CASE PressUp \/ PressDown
    <3>1. PICK moved \in 0..program.size : Scroll(moved)
      <4>1. program.size \in Nat
        BY <2>1, Sizes
      <4>2. QED
        BY <2>1, <2>3, <4>1 DEF PressUp, PressDown
    <3>2. offset' = Centred(AddressZero, moved)
      BY <3>1 DEF Scroll
    <3>3. QED
      BY <2>1, <3>2, Sizes
  <2>4. QED
    BY <2>2, <2>3
<1>3. offset' \in 0..program'.size /\ NothingScrollsOut'
  BY <1>1, <1>2, DrawingKeepsBounds
<1>4. QED
  BY <1>1, <1>3 DEF UIInvariant, UITypeOK, Indices, End, Stray, Phases

LEMMA StepKeepsBounds == ASSUME UIInvariant, Step PROVE UIInvariant'
<1>1. /\ program' = program /\ ymmOffset' = ymmOffset
      /\ offset' = Centred(rip', offset)
      /\ rip' \in Indices \cup {Stray, End}
      /\ offset \in 0..program.size
  BY DEF Step, DrawAll, DrawTextWindow, settings, UIInvariant, UITypeOK
<1>2. offset' \in 0..program'.size /\ NothingScrollsOut'
  BY <1>1, DrawingKeepsBounds
<1>3. QED
  BY <1>1, <1>2 DEF Step, settings, UIInvariant, UITypeOK, Indices, End, Stray, Phases

LEMMA OthersKeepBounds ==
  ASSUME UIInvariant,
         \/ PressQuit \/ PressNext \/ PressFlags \/ PressMode \/ PressBase
         \/ Refresh \/ StepThrows \/ TearDown \/ UNCHANGED vars
  PROVE  UIInvariant'
<1>1. UNCHANGED <<program, rip, offset, ymmOffset, view, labelNames>>
  BY DEF PressQuit, PressNext, PressFlags, PressMode, PressBase, Refresh, StepThrows,
         TearDown, Handled, Key, machine, settings, DrawYmmOnly, vars
<1>2. ymmMode' \in 0..(YmmModes - 1)
  <2>1. YmmModes \in Nat \ {0} /\ ymmMode \in 0..(YmmModes - 1)
    BY InterfaceAssumption DEF UIInvariant, UITypeOK
  <2>2. (ymmMode + 1) % YmmModes \in 0..(YmmModes - 1)
    BY <2>1
  <2>3. ymmMode' \in {ymmMode, (ymmMode + 1) % YmmModes}
    BY DEF PressQuit, PressNext, PressFlags, PressMode, PressBase, Refresh,
           StepThrows, TearDown, settings, vars
  <2>4. QED
    BY <2>1, <2>2, <2>3
<1>3. /\ values' \in Values /\ phase' \in Phases /\ flagsText' \in BOOLEAN
      /\ base' \in {"DEC", "HEX", "OCT"} /\ fresh' \in BOOLEAN
  BY DEF UIInvariant, UITypeOK, PressQuit, PressNext, PressFlags, PressMode, PressBase,
         Refresh, StepThrows, TearDown, Handled, Key, machine, settings, DrawYmmOnly,
         vars, Phases
<1>4. QED
  BY <1>1, <1>2, <1>3
  DEF UIInvariant, UITypeOK, NothingScrollsOut, Indices, End, Stray

LEMMA BoundsInit == Init => UIInvariant
<1> SUFFICES ASSUME Init PROVE UIInvariant
  OBVIOUS
<1>1. program.size \in Nat /\ program.atZero \in BOOLEAN
  BY InterfaceAssumption DEF Init
<1>2. /\ YmmModes \in Nat \ {0} /\ Registers \in Nat /\ Registers >= 3
      /\ Visible \in Nat \ {0}
  BY InterfaceAssumption
<1>3. /\ Centred(rip, 0) \in 0..program.size
      /\ Centred(rip, 0) > 0 => Centred(rip, 0) + Visible <= program.size
  <2> DEFINE h == Visible \div 2
  <2>1. h \in Nat
    BY <1>2
  <2>2. Centred(rip, 0) = IF rip \notin Indices THEN 0
                          ELSE IF program.size <= Visible THEN 0
                          ELSE Smaller(IF rip > h THEN rip - h ELSE 0,
                                       program.size - Visible)
    BY DEF Centred
  <2> HIDE DEF h
  <2>3. rip \in Indices => rip \in Nat
    BY <1>1 DEF Indices
  <2>4. QED
    BY <1>1, <1>2, <2>1, <2>2, <2>3 DEF Smaller
<1>4. UITypeOK
  <2>1. offset \in 0..program.size /\ ymmOffset \in 0..(Registers - 1)
        /\ ymmMode \in 0..(YmmModes - 1)
    BY <1>2, <1>3 DEF Init
  <2>2. QED
    BY <2>1 DEF Init, UITypeOK, Phases
<1>5. NothingScrollsOut
  BY <1>1, <1>2, <1>3 DEF Init, NothingScrollsOut
<1>6. QED
  BY <1>4, <1>5 DEF UIInvariant

LEMMA BoundsStep == UIInvariant /\ [Next]_vars => UIInvariant'
BY YmmKeysKeepBounds, DrawKeysKeepBounds, StepKeepsBounds, OthersKeepBounds
DEF Next, Keys

(* The state of the interface is well typed in every reachable state, for  *)
(* every program, window size and number of registers.                     *)
THEOREM InterfaceTypeCorrect == Spec => []UITypeOK
<1>1. UIInvariant => UITypeOK
  BY DEF UIInvariant
<1>2. QED
  BY <1>1, BoundsInit, BoundsStep, PTL DEF Spec

(* No sequence of keys and steps scrolls past the last page of a program   *)
(* that is decoded from address zero, or past the last ymm registers.      *)
THEOREM ScrollingStaysInside == Spec => []NothingScrollsOut
<1>1. UIInvariant => NothingScrollsOut
  BY DEF UIInvariant
<1>2. QED
  BY <1>1, BoundsInit, BoundsStep, PTL DEF Spec

-----------------------------------------------------------------------------
(* What is on the screen.                                                  *)

\* The text window's view after a step that draws it for address at.
LEMMA DrawnText ==
  ASSUME NEW at, UNCHANGED program, text' = TextView(at, offset', labelNames')
  PROVE  /\ text'.at = at
         /\ text' = TextView(text.at, offset, labelNames)'
<1>1. \A o : {i \in Indices : i >= o /\ Row(i, o) < Visible}
             = {i \in Indices' : i >= o /\ (i - o) + Cardinality(program'.labelled \cap (o..i)) < Visible}
  BY DEF Indices, Row
<1>2. QED
  BY <1>1 DEF TextView, Shown, Row

LEMMA SameViews ==
  /\ UNCHANGED <<ymmOffset, view, ymmMode, base, values>> => UNCHANGED YmmView
  /\ UNCHANGED <<rip, values, flagsText>> => UNCHANGED MainView
  /\ UNCHANGED <<program, rip, values>> => UNCHANGED Description
  /\ UNCHANGED program => UNCHANGED AddressZero
BY DEF YmmView, MainView, Description, AddressZero, Indices

LEMMA SameText ==
  ASSUME UNCHANGED <<program, offset, labelNames, text>>,
         text = TextView(text.at, offset, labelNames)
  PROVE  text' = TextView(text.at, offset, labelNames)'
<1>1. text' = TextView(text.at, offset', labelNames')
  OBVIOUS
<1>2. QED
  BY <1>1, DrawnText

LEMMA DrawAllDraws ==
  ASSUME UNCHANGED program, DrawAll, phase' = "waiting" => fresh'
  PROVE  Drawn'
BY DrawnText DEF DrawAll, DrawTextWindow, Drawn

LEMMA KeysRedraw == ASSUME Drawn, Keys PROVE Drawn'
<1> USE DEF Key, Handled, machine, settings
<1>0. phase = "waiting" /\ UNCHANGED <<program, rip, values>>
  BY DEF Keys, PressQuit, PressNext, PressFlags, PressView, PressPlus, PressMinus,
         PressMode, PressBase, PressLabels, PressUp, PressDown, Scroll
<1>1. /\ ymm = YmmView /\ main = MainView /\ description = Description
      /\ text = TextView(text.at, offset, labelNames)
      /\ text.at \in {rip, AddressZero}
      /\ description' = description => description' = Description'
      /\ AddressZero' = AddressZero
  BY <1>0, SameViews DEF Drawn
<1>2. CASE PressQuit \/ PressNext
  BY <1>2 DEF PressQuit, PressNext, Drawn
<1>3. CASE PressFlags
  BY <1>0, <1>1, <1>3, SameViews, SameText DEF PressFlags, Drawn
<1>4. CASE PressView
  BY <1>0, <1>4, DrawAllDraws DEF PressView
<1>5. CASE PressPlus \/ PressMinus \/ PressMode \/ PressBase
  <2>1. /\ UNCHANGED <<phase, offset, flagsText, labelNames, text, main, description>>
        /\ fresh' = TRUE /\ ymm' = YmmView'
    BY <1>5 DEF PressPlus, PressMinus, PressMode, PressBase, DrawYmmOnly
  <2>2. QED
    BY <2>1, <1>0, <1>1, SameViews, SameText DEF Drawn
<1>6. CASE PressLabels
  BY <1>0, <1>1, <1>6, SameViews, DrawnText DEF PressLabels, DrawTextWindow, Drawn
<1>7. CASE PressUp \/ PressDown
  <2>1. /\ text' = TextView(AddressZero, offset', labelNames') /\ fresh' = TRUE
        /\ UNCHANGED <<phase, settings, ymm, main, description>>
    BY <1>7 DEF PressUp, PressDown, Scroll
  <2>2. QED
    BY <2>1, <1>0, <1>1, SameViews, DrawnText DEF Drawn
<1>8. QED
  BY <1>2, <1>3, <1>4, <1>5, <1>6, <1>7 DEF Keys

LEMMA DrawnStep == ASSUME Drawn, [Next]_vars PROVE Drawn'
<1>1. CASE Keys
  BY <1>1, KeysRedraw
<1>2. CASE Refresh
  <2>1. UNCHANGED <<program, rip, values, offset, settings, text, ymm, main, description>>
    BY <1>2 DEF Refresh, machine
  <2>2. QED
    BY <1>2, <2>1, SameViews, SameText DEF Refresh, Drawn, settings
<1>3. CASE Step
  <2>1. UNCHANGED program /\ phase' # "waiting"
    BY <1>3 DEF Step
  <2>2. QED
    BY <1>3, <2>1, DrawAllDraws DEF Step
<1>4. CASE StepThrows \/ TearDown
  BY <1>4 DEF StepThrows, TearDown, Drawn
<1>5. CASE UNCHANGED vars
  <2>1. UNCHANGED <<program, rip, values, phase, offset, settings, text, ymm, main,
                    description, fresh>>
    BY <1>5 DEF vars, machine
  <2>2. QED
    BY <2>1, SameViews, SameText DEF Drawn, settings
<1>6. QED
  BY <1>1, <1>2, <1>3, <1>4, <1>5 DEF Next

(* While a key is awaited, every window shows the registers and settings   *)
(* as they are, and has been refreshed, after any keys and steps.          *)
THEOREM ScreenIsCurrent == Spec => []ScreenShowsState
<1>1. Init => Drawn
  BY DEF Init, Drawn, TextView
<1>2. Drawn => ScreenShowsState
  BY DEF Drawn, ScreenShowsState
<1>3. QED
  BY <1>1, <1>2, DrawnStep, PTL DEF Spec

-----------------------------------------------------------------------------
(* The current instruction.                                                *)

LEMMA DrawingCentresText ==
  ASSUME UITypeOK, UNCHANGED program, NEW at, NEW o, NEW names,
         text' = TextView(at, Centred(at, o), names)
  PROVE  TextCentred'
<1>1. /\ text'.at = at /\ text'.first = Centred(at, o)
      /\ text'.shown = Shown(Centred(at, o)) /\ Indices' = Indices
  BY DEF TextView, Indices
<1>2. at \in Indices => /\ Centred(at, o) \in Nat /\ Centred(at, o) <= at
                        /\ at - Centred(at, o) < Visible
  BY CentredAround
<1>3. Shown(text.first)' = Shown(Centred(at, o))
  BY <1>1 DEF Shown, Row
<1>4. QED
  BY <1>1, <1>2, <1>3 DEF TextCentred

LEMMA KeptTextIsCentred ==
  ASSUME TextCentred, UNCHANGED <<program, text>> PROVE TextCentred'
<1>1. Shown(text.first)' = Shown(text.first) /\ Indices' = Indices
  BY DEF Shown, Row, Indices
<1>2. QED
  BY <1>1 DEF TextCentred

LEMMA TextCentredStep ==
  ASSUME UITypeOK, TextCentred, [Next]_vars PROVE TextCentred'
<1>1. UNCHANGED program
  BY DEF Next, Keys, PressQuit, PressNext, PressFlags, PressView, PressPlus, PressMinus,
         PressMode, PressBase, PressLabels, PressUp, PressDown, Scroll, Key, Handled,
         Refresh, Step, StepThrows, TearDown, machine, vars
<1>2. CASE PressView \/ PressLabels \/ Step
  <2>1. PICK at : DrawTextWindow(at)
    BY <1>2 DEF PressView, PressLabels, Step, DrawAll
  <2>2. text' = TextView(at, Centred(at, offset), labelNames')
    BY <2>1 DEF DrawTextWindow
  <2>3. QED
    BY <1>1, <2>2, DrawingCentresText
<1>3. CASE PressUp \/ PressDown
  <2>1. PICK moved : Scroll(moved)
    BY <1>3 DEF PressUp, PressDown
  <2>2. text' = TextView(AddressZero, Centred(AddressZero, moved), labelNames)
    BY <2>1 DEF Scroll
  <2>3. QED
    BY <1>1, <2>2, DrawingCentresText
<1>4. CASE ~ (PressView \/ PressLabels \/ Step \/ PressUp \/ PressDown)
  <2>1. UNCHANGED text
    BY <1>4 DEF Next, Keys, PressQuit, PressNext, PressFlags, PressPlus, PressMinus,
                PressMode, PressBase, DrawYmmOnly, Refresh, StepThrows, TearDown, vars
  <2>2. QED
    BY <1>1, <2>1, KeptTextIsCentred
<1>5. QED
  BY <1>2, <1>3, <1>4

LEMMA CentredIsShown == ASSUME UITypeOK, TextCentred PROVE CurrentIsShown
<1> SUFFICES ASSUME text.at \in Indices \ text.shown
             PROVE  \E i \in program.labelled : i <= text.at /\ i > text.at - Visible
  BY DEF CurrentIsShown
<1> DEFINE at == text.at
           o  == text.first
<1>1. /\ at \in Int /\ o \in Nat /\ o <= at /\ at - o < Visible /\ Visible \in Nat
      /\ program.labelled \subseteq Int
  BY Sizes DEF TextCentred
<1>2. ~ ((at - o) + Cardinality(program.labelled \cap (o..at)) < Visible)
  BY <1>1 DEF TextCentred, Shown, Row
<1>3. program.labelled \cap (o..at) # {}
  BY <1>1, <1>2, FS_EmptySet
<1>4. PICK i \in program.labelled : i \in o..at
  BY <1>3
<1>5. i \in Int /\ i <= at /\ i > at - Visible
  BY <1>1, <1>4
<1>6. QED
  BY <1>4, <1>5

(* The instruction the text window is drawn for is in the window, unless a *)
(* label of the last windowful of instructions up to it takes its row.     *)
THEOREM CurrentStaysShown == Spec => []CurrentIsShown
<1>1. Init => TextCentred
  <2> SUFFICES ASSUME Init PROVE TextCentred
    OBVIOUS
  <2>1. UITypeOK
    BY BoundsInit DEF UIInvariant
  <2>2. text.at = rip /\ text.first = Centred(rip, 0) /\ text.shown = Shown(text.first)
    BY DEF Init, TextView
  <2>3. QED
    BY <2>1, <2>2, CentredAround DEF TextCentred
<1>2. UITypeOK /\ TextCentred => CurrentIsShown
  BY CentredIsShown
<1>3. QED
  BY <1>1, <1>2, InterfaceTypeCorrect, TextCentredStep, PTL DEF Spec
=============================================================================
