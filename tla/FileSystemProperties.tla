------------------------- MODULE FileSystemProperties -------------------------
(***************************************************************************)
(* What the file system device keeps, within one run and across runs.      *)
(***************************************************************************)
EXTENDS FileSystem

CONSTANTS None, Unreadable   \* of the store of texts

ASSUME StoreAssumption ==
  /\ None \notin Seq(Characters)
  /\ Unreadable \notin [Directories \X Names -> Seq(Characters) \cup {None}]

\* getFileContent, as one text; files of a directory that does not exist
\* are not found either.
Joined(content) ==
  LET upTo[i \in 0..Len(content)] ==
        IF i = 0 THEN <<>>
        ELSE IF i = 1 THEN content[1]
        ELSE upTo[i - 1] \o <<Newline>> \o content[i]
  IN  upTo[Len(content)]

Texts(t) ==
  [f \in Directories \X Names |->
     LET found == FindFile(t, [dir |-> f[1], name |-> f[2], bare |-> FALSE])
     IN  IF found = 0 THEN None ELSE Joined(t[f[1]][found].content)]

\* A file that is there and is not one whole tree.
Cut(f) == f.kind \in {"empty", "garbage"}

Store == INSTANCE FileStore WITH
  Clients    <- Devices,
  Files      <- Directories \X Names,
  Initials   <- {Joined(content) : content \in Contents},
  open       <- {d \in Devices : Uses(d)},
  view       <- [d \in Devices |-> Texts(tree[d])],
  disk       <- IF Cut(file) THEN Unreadable ELSE Texts(Loaded(file))

(* The device implements the store of texts: appending a character or a    *)
(* newline extends the text of that file alone, a file created under a     *)
(* name in use or appended to without a slash changes no text, and what is *)
(* found after a restart is what one device held when it was closed.       *)
StoresTexts == Store!Spec

(* A file left unreadable by a save that was cut short or overlapped stays *)
(* so: with no device in use, load throws in the next one to be built. One *)
(* that cannot even open the file starts with an empty root, and only what *)
(* it does from there can end in the file (file_system_device.cpp, save,   *)
(* load). Nothing that was in the file is ever found again.                *)
Stuck == Cut(file) /\ \A d \in Devices : Off(d)

StaysUnreadable ==
  [][Stuck => /\ Cut(file)'
              /\ \A d \in Devices : Off(d)' \/ tree'[d] = Fresh]_vars

(* A recorded size counts the characters, and the line ends of all lines   *)
(* or of none, in whichever order files are created and appended to, and   *)
(* also after they have been saved and loaded.                             *)
SizesCount ==
  \A d \in Devices : \A dir \in DOMAIN tree[d] : \A i \in 1..Len(tree[d][dir]) :
    LET entry == tree[d][dir][i]
        count == CharacterCount(entry.content)
    IN  entry.size \in {count, count + Len(entry.content)}
=============================================================================
