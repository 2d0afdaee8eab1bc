------------------------------- MODULE FileStore -------------------------------
(***************************************************************************)
(* What the simulated disk promises its clients: each works on the texts   *)
(* it found when it opened the store, or on none if it could not read it,  *)
(* and what the store holds is what one client had when it closed, unless  *)
(* a closing was disturbed: then nobody finds anything in the store before *)
(* another client has closed.                                              *)
(***************************************************************************)
EXTENDS Sequences

CONSTANTS
  Clients, Files,
  Characters,    \* what a text is made of
  Initials,      \* the texts a file can be created with
  None, Unreadable

VARIABLES
  open,          \* the clients that use the store
  view,          \* what each sees: a text or None for every file
  disk           \* what the next client will find

vars == <<open, view, disk>>

NoFiles == [f \in Files |-> None]

Init ==
  /\ open = {}
  /\ view = [c \in Clients |-> NoFiles]
  /\ disk \in [Files -> Initials \cup {None}]

Enter(c, files) ==
  /\ c \notin open /\ open' = open \cup {c}
  /\ view' = [view EXCEPT ![c] = files]

Leave(c) ==
  /\ c \in open /\ open' = open \ {c}
  /\ view' = [view EXCEPT ![c] = NoFiles]

Open(c) ==
  /\ Enter(c, disk) /\ disk # Unreadable
  /\ UNCHANGED disk

OpenBlind(c) ==
  /\ Enter(c, NoFiles)
  /\ UNCHANGED disk

\* A file is created with a text or a first character, and extended by one.
Edited(text) ==
  IF text = None THEN Initials \cup {<<ch>> : ch \in Characters}
  ELSE {Append(text, ch) : ch \in Characters}

Edit(c, f) ==
  /\ c \in open /\ UNCHANGED open
  /\ view'[c][f] \in Edited(view[c][f])
  /\ view' = [view EXCEPT ![c][f] = view'[c][f]]
  /\ UNCHANGED disk

StartClosing(c) ==
  /\ c \in open
  /\ disk' = Unreadable
  /\ UNCHANGED <<open, view>>

Close(c) ==
  /\ Leave(c)
  /\ disk' \in {view[c], Unreadable}

Die(c) ==
  /\ Leave(c)
  /\ disk' \in {disk, Unreadable}

Next ==
  \E c \in Clients :
    \/ Open(c) \/ OpenBlind(c) \/ StartClosing(c) \/ Close(c) \/ Die(c)
    \/ \E f \in Files : Edit(c, f)

Spec == Init /\ [][Next]_vars
=============================================================================
