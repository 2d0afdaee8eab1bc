--------------------------- MODULE MCUserInterface ----------------------------
(***************************************************************************)
(* A text window of three rows stands for the twenty of the program, four  *)
(* registers for sixteen; programs are shorter than, as long as, and       *)
(* longer than the window, with and without labels.                        *)
(***************************************************************************)
EXTENDS UserInterfaceProperties

Decoded(size, labelled, atZero) ==
  [size |-> size, labelled |-> labelled, atZero |-> atZero]

MCPrograms ==
  {Decoded(0, {}, FALSE), Decoded(2, {0}, TRUE), Decoded(3, {}, TRUE),
   Decoded(4, {1, 3}, TRUE), Decoded(6, {}, TRUE), Decoded(6, 0..5, TRUE),
   Decoded(5, {}, FALSE), Decoded(6, {2}, FALSE)}
=============================================================================
