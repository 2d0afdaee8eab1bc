------------------------------ MODULE FileSystem ------------------------------
(***************************************************************************)
(* The file system device, in several simulators that share a persistence  *)
(* file: each loads its tree when the device is built, works on the copy   *)
(* and saves it all when the device is destroyed. A simulator may die at   *)
(* any time, also while it saves.                                          *)
(*                                                                         *)
(* "/root/f" and "/f" name the same file; "f" without a slash names a file *)
(* that is created in the root and never found again.                      *)
(***************************************************************************)
EXTENDS Naturals, SequencesExt

CONSTANTS
  Devices,
  Root, Subdirectories,  \* subdirectories come with the file, if at all
  Names,
  Characters, Newline,   \* Newline is one of Characters
  Contents,              \* the lines a file can be created with
  MaxFiles, MaxSize      \* bounds on the tree of a device: its files, and
                         \* its files, lines and characters together

Directories == {Root} \cup Subdirectories

Line  == Seq(Characters \ {Newline})
Entry == [name : Names, content : Seq(Line), size : Nat]

ASSUME FileSystemAssumption ==
  /\ Root \notin Subdirectories
  /\ Newline \in Characters
  /\ Contents \subseteq Seq(Line)

VARIABLES
  file,    \* the persistence file: absent, a tree, or not a whole tree
  state,   \* of the simulator that owns the device
  tree     \* root_directory: the files of every directory, in order

vars == <<file, state, tree>>

IsTree(t) ==
  /\ Root \in DOMAIN t /\ DOMAIN t \subseteq Directories
  /\ \A dir \in DOMAIN t : t[dir] \in Seq(Entry)

Uses(d) == state[d] \in {"running", "saving"}

FileSystemTypeOK ==
  /\ \/ file \in [kind : {"absent", "empty", "garbage"}]
     \/ file.kind = "tree" /\ IsTree(file.tree)
  /\ state \in [Devices -> {"off", "refused", "running", "saving"}]
  /\ \A d \in Devices : IF Uses(d) THEN IsTree(tree[d]) ELSE tree[d] = <<>>

-----------------------------------------------------------------------------
(* Entries.                                                                *)

CharacterCount(content) ==
  LET upTo[i \in 0..Len(content)] ==
        IF i = 0 THEN 0 ELSE upTo[i - 1] + Len(content[i])
  IN  upTo[Len(content)]

\* The constructor counts the characters, appendToFile the line ends too.
NewEntry(name, content) ==
  [name |-> name, content |-> content, size |-> CharacterCount(content)]

WithCharacter(content, c) ==
  LET opened == IF content = <<>> THEN <<(<<>>)>> ELSE content
  IN  IF c = Newline THEN Append(opened, <<>>)
      ELSE Front(opened) \o <<Append(Last(opened), c)>>

\* Mutant: the size is not reset before the lines are counted.
WrittenUnreset(entry, c) ==
  LET content == WithCharacter(entry.content, c)
  IN  [entry EXCEPT !.content = content,
                    !.size = @ + CharacterCount(content) + Len(content)]

Written(entry, c) ==
  LET content == WithCharacter(entry.content, c)
  IN  [entry EXCEPT !.content = content,
                    !.size = CharacterCount(content) + Len(content)]

\* Mutant: the last file of the name.
FindFileLast(t, path) ==
  IF path.bare \/ path.dir \notin DOMAIN t THEN 0
  ELSE SelectLastInSeq(t[path.dir], LAMBDA entry : entry.name = path.name)

\* The first file of the name, or 0; a path without a slash finds none.
FindFile(t, path) ==
  IF path.bare \/ path.dir \notin DOMAIN t THEN 0
  ELSE SelectInSeq(t[path.dir], LAMBDA entry : entry.name = path.name)

Paths == [dir : Directories, name : Names, bare : {FALSE}]
           \cup [dir : {Root}, name : Names, bare : {TRUE}]

-----------------------------------------------------------------------------
(* The life of a device.                                                   *)

Fresh == [dir \in {Root} |-> <<>>]

\* Mutant: load makes no root when there is no file.
LoadedNull(f) == IF f.kind = "tree" THEN f.tree ELSE <<>>

Loaded(f) == IF f.kind = "tree" THEN f.tree ELSE Fresh

\* The archive throws on anything but a whole tree.
CanLoad(f) == f.kind \in {"absent", "tree"}

Off(d) == state[d] \in {"off", "refused"}

Load(d) ==
  /\ Off(d) /\ CanLoad(file)
  /\ state' = [state EXCEPT ![d] = "running"]
  /\ tree' = [tree EXCEPT ![d] = Loaded(file)]
  /\ UNCHANGED file

\* A file that is there and cannot be opened counts as none.
LoadUnopened(d) ==
  /\ Off(d) /\ file.kind # "absent"
  /\ state' = [state EXCEPT ![d] = "running"]
  /\ tree' = [tree EXCEPT ![d] = Fresh]
  /\ UNCHANGED file

\* Mutant: load catches the exception, and the destructor saves a new root.
LoadThrowsSaving(d) ==
  /\ Off(d) /\ ~ CanLoad(file)
  /\ state' = [state EXCEPT ![d] = "refused"]
  /\ file' = [kind |-> "tree", tree |-> Fresh]
  /\ UNCHANGED tree

\* The exception leaves the constructor, and the simulator with it.
LoadThrows(d) ==
  /\ Off(d) /\ ~ CanLoad(file)
  /\ state' = [state EXCEPT ![d] = "refused"]
  /\ UNCHANGED <<file, tree>>

\* The destructor opens the stream, which truncates the file.
OpenForSave(d) ==
  /\ state[d] = "running"
  /\ state' = [state EXCEPT ![d] = "saving"]
  /\ file' = [kind |-> "empty"]
  /\ UNCHANGED tree

\* The buffered text is written from the start of the file: over a longer
\* one that another device has written meanwhile, it leaves a tail behind.
WriteOut(d) ==
  /\ state[d] = "saving"
  /\ \/ file' = [kind |-> "tree", tree |-> tree[d]]
     \/ file.kind # "empty" /\ file' = [kind |-> "garbage"]
  /\ state' = [state EXCEPT ![d] = "off"]
  /\ tree' = [tree EXCEPT ![d] = <<>>]

\* The file cannot be opened for writing: save goes unnoticed.
SaveNowhere(d) ==
  /\ state[d] = "running"
  /\ state' = [state EXCEPT ![d] = "off"]
  /\ tree' = [tree EXCEPT ![d] = <<>>]
  /\ UNCHANGED file

Crash(d) ==
  /\ Uses(d)
  /\ \/ UNCHANGED file
     \/ state[d] = "saving" /\ file' = [kind |-> "garbage"]
  /\ state' = [state EXCEPT ![d] = "off"]
  /\ tree' = [tree EXCEPT ![d] = <<>>]

-----------------------------------------------------------------------------
(* Operations.                                                             *)

\* A tree within the bounds of the model.
Bounded(t) ==
  LET all == FoldLeft(LAMBDA s, dir : s \o t[dir], <<>>, SetToSeq(DOMAIN t))
  IN  /\ Len(all) <= MaxFiles
      /\ FoldLeft(LAMBDA n, e : n + 1 + CharacterCount(e.content) + Len(e.content),
                  0, all) <= MaxSize

Change(d, t) ==
  /\ state[d] = "running" /\ Bounded(t)
  /\ tree' = [tree EXCEPT ![d] = t]
  /\ UNCHANGED <<file, state>>

\* A name that exists is not looked for. An unknown parent is only reported.
CreateFile(d, dir, name, content) ==
  /\ state[d] = "running" /\ dir \in DOMAIN tree[d]
  /\ Change(d, [tree[d] EXCEPT ![dir] = Append(@, NewEntry(name, content))])

AppendToFile(d, path, c) ==
  /\ state[d] = "running" /\ path.dir \in DOMAIN tree[d]
  /\ LET found   == FindFile(tree[d], path)
         entries == IF found # 0 THEN tree[d][path.dir]
                    ELSE Append(tree[d][path.dir], NewEntry(path.name, <<>>))
         at      == IF found # 0 THEN found ELSE Len(entries)
     IN  Change(d, [tree[d] EXCEPT ![path.dir] =
                      ReplaceAt(entries, at, Written(entries[at], c))])

\* No file yet, or one with the subdirectories.
Init ==
  /\ file \in {[kind |-> "absent"],
               [kind |-> "tree", tree |-> [dir \in Directories |-> <<>>]]}
  /\ state = [d \in Devices |-> "off"]
  /\ tree = [d \in Devices |-> <<>>]

\* What a program that owns the device d, and nothing else, does with it.
Client(d) ==
  \/ Load(d) \/ LoadUnopened(d) \/ LoadThrows(d)
  \/ OpenForSave(d) \/ WriteOut(d) \/ SaveNowhere(d) \/ Crash(d)
  \/ \E dir \in Directories, name \in Names, content \in Contents :
       CreateFile(d, dir, name, content)
  \/ \E path \in Paths, c \in Characters : AppendToFile(d, path, c)

Next == \E d \in Devices : Client(d)

Spec == Init /\ [][Next]_vars
=============================================================================
