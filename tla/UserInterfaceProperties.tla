----------------------- MODULE UserInterfaceProperties ------------------------
(***************************************************************************)
(* What the user of the stepping interface sees.                           *)
(***************************************************************************)
EXTENDS UserInterface

Phases == {"started", "drawn", "waiting", "stepping", "ended",
           "torn down", "torn down twice", "terminated"}

UITypeOK ==
  /\ program \in Programs
  /\ rip \in Indices \cup {Stray, End} /\ values \in Values
  /\ phase \in Phases
  /\ offset \in 0..program.size
  /\ ymmOffset \in 0..(Registers - 1)
  /\ view \in {"normal", "expanded"}
  /\ flagsText \in BOOLEAN /\ labelNames \in BOOLEAN
  /\ ymmMode \in 0..(YmmModes - 1)
  /\ base \in {"DEC", "HEX", "OCT"}
  /\ fresh \in BOOLEAN

(* No sequence of keys and steps scrolls past the last page of a program   *)
(* whose first instruction was decoded, nor fewer than three registers     *)
(* into the ymm window (centerViewOnRip, waitForInput).                    *)
NothingScrollsOut ==
  /\ program.atZero /\ offset > 0 => offset + Visible <= program.size
  /\ ymmOffset <= Registers - 3

(* While a key is awaited, the terminal shows the registers and settings   *)
(* as they are, whichever keys and steps came before: every key redraws    *)
(* each window its setting is shown in, and refreshes. Only the arrow keys *)
(* leave the text drawn for address 0 instead of rip.                      *)
ScreenShowsState ==
  phase = "waiting" =>
    /\ fresh
    /\ ymm = YmmView /\ main = MainView /\ description = Description
    /\ text = TextView(text.at, offset, labelNames)
    /\ text.at \in {rip, AddressZero}

(* The instruction the text window is drawn for is in it (drawTextSegment  *)
(* after centerViewOnRip), unless labels among the instructions above it   *)
(* or its own pushed it out.                                               *)
CurrentIsShown ==
  text.at \in Indices \ text.shown =>
    \E i \in program.labelled : i <= text.at /\ i > text.at - Visible

(* Once a step has taken rip past the text segment, the interface is torn  *)
(* down, and no further key is awaited. A program that starts there is     *)
(* stepped once all the same: the loop prompts before it tests.            *)
EndTearsDown ==
  (rip = End /\ phase \notin {"started", "waiting", "stepping", "terminated"})
    ~> (phase = "torn down twice")

(* The legend (ui_manager.cpp:409) offers the arrow keys for scrolling:    *)
(* with instructions below the window, Down moves it one further.          *)
DownScrolls ==
  [][PressDown /\ offset + Visible < program.size => offset' = offset + 1]_vars
=============================================================================
