--------------------------- MODULE FileSystemProofs ---------------------------
(***************************************************************************)
(* For any devices, directories, names, characters and bounds: the size    *)
(* recorded for a file counts its characters, and the devices implement    *)
(* the store of texts.                                                     *)
(***************************************************************************)
EXTENDS FileSystemProperties, NumberProofs, SequenceTheorems

\* The entries the operations can produce: the size of the content, with or
\* without the line ends.
SizedEntries ==
  {[name |-> name, content |-> content, size |-> CharacterCount(content)] :
     name \in Names, content \in Seq(Line)}
  \cup
  {[name |-> name, content |-> content, size |-> CharacterCount(content) + Len(content)] :
     name \in Names, content \in Seq(Line)}

Sized(t) == \A dir \in DOMAIN t : t[dir] \in Seq(SizedEntries)

SizeInvariant ==
  /\ file.kind = "tree" => Sized(file.tree)
  /\ DOMAIN tree = Devices
  /\ \A d \in Devices : Sized(tree[d])

-----------------------------------------------------------------------------
(* Counts, which are computed line by line.                                *)

LEMMA EmptyLine == <<>> \in Line /\ \A l \in Line : l \in Seq(Characters)
<1>1. <<>> \in Line
  BY DEF Line
<1>2. ASSUME NEW l \in Line PROVE l \in Seq(Characters)
  <2>1. Characters \ {Newline} \subseteq Characters
    OBVIOUS
  <2>2. QED
    BY <2>1, SeqMonotonic DEF Line
<1>3. QED
  BY <1>1, <1>2

LEMMA CountExists ==
  ASSUME NEW n \in Nat, NEW content \in [1..n -> Seq(Characters)]
  PROVE  \E g : g = [i \in 0..n |-> IF i = 0 THEN 0 ELSE g[i - 1] + Len(content[i])]
<1> DEFINE step == [p \in (1..n) \X Nat |-> p[2] + Len(content[p[1]])]
<1>1. step \in [(1..n) \X Nat -> Nat]
  <2>1. \A i \in 1..n : Len(content[i]) \in Nat
    OBVIOUS
  <2>2. QED
    BY <2>1
<1>2. PICK g \in [0..n -> Nat] :
        g[0] = 0 /\ \A i \in 1..n : g[i] = step[<<i, g[i - 1]>>]
  <2> HIDE DEF step
  <2>1. n \in Nat /\ 0 \in Nat
    OBVIOUS
  <2>2. Solutions(n, Nat, 0, step) # {}
    BY <1>1, <2>1, RecursionExists
  <2>3. QED
    BY <2>2 DEF Solutions
<1>3. ASSUME NEW i \in 1..n PROVE g[i] = g[i - 1] + Len(content[i])
  <2>1. g[i - 1] \in Nat
    OBVIOUS
  <2>2. QED
    BY <1>2, <2>1
<1>4. \A i \in 0..n : g[i] = IF i = 0 THEN 0 ELSE g[i - 1] + Len(content[i])
  BY <1>2, <1>3
<1> HIDE DEF step
<1>5. g = [i \in 0..n |-> IF i = 0 THEN 0 ELSE g[i - 1] + Len(content[i])]
  BY <1>4
<1>6. QED
  BY <1>5

LEMMA CountRecursion ==
  ASSUME NEW n \in Nat, NEW content \in [1..n -> Seq(Characters)], NEW f,
         f = [i \in 0..n |-> IF i = 0 THEN 0 ELSE f[i - 1] + Len(content[i])]
  PROVE  f \in [0..n -> Nat]
<1> DEFINE S == {i \in 0..n : f[i] \in Nat}
<1>1. 0 \in S
  <2>1. 0 \in 0..n
    OBVIOUS
  <2>2. f[0] = 0
    BY <2>1
  <2>3. QED
    BY <2>1, <2>2
<1>2. ASSUME NEW k \in 0..(n - 1), k \in S PROVE k + 1 \in S
  <2>1. k + 1 \in 0..n /\ k + 1 # 0 /\ k + 1 \in 1..n /\ (k + 1) - 1 = k
    OBVIOUS
  <2>2. f[k + 1] = f[k] + Len(content[k + 1])
    BY <2>1
  <2>3. f[k] \in Nat /\ Len(content[k + 1]) \in Nat
    BY <1>2, <2>1
  <2>4. QED
    BY <2>1, <2>2, <2>3
<1> HIDE DEF S
<1>3. 0..n \subseteq S
  BY <1>1, <1>2, BoundedInduction
<1>4. QED
  BY <1>3 DEF S

LEMMA CountType ==
  ASSUME NEW content \in Seq(Line) PROVE CharacterCount(content) \in Nat
<1> DEFINE n == Len(content)
           f == CHOOSE g : g = [i \in 0..n |-> IF i = 0 THEN 0
                                                ELSE g[i - 1] + Len(content[i])]
<1>1. n \in Nat /\ content \in [1..n -> Seq(Characters)]
  BY EmptyLine
<1>2. CharacterCount(content) = f[n]
  BY DEF CharacterCount
<1>3. \E g : g = [i \in 0..n |-> IF i = 0 THEN 0 ELSE g[i - 1] + Len(content[i])]
  <2> HIDE DEF n
  <2>1. QED
    BY <1>1, CountExists
<1>4. f = [i \in 0..n |-> IF i = 0 THEN 0 ELSE f[i - 1] + Len(content[i])]
  BY <1>3, Zenon
<1> HIDE DEF f, n
<1>5. f \in [0..n -> Nat]
  BY <1>1, <1>4, CountRecursion
<1>6. QED
  BY <1>1, <1>2, <1>5

-----------------------------------------------------------------------------
(* Entries.                                                                *)

LEMMA SizedNew ==
  ASSUME NEW name \in Names, NEW content \in Seq(Line)
  PROVE  NewEntry(name, content) \in SizedEntries
BY DEF NewEntry, SizedEntries

\* The lines stay free of newlines.
LEMMA CharacterAdded ==
  ASSUME NEW content \in Seq(Line), NEW c \in Characters
  PROVE  WithCharacter(content, c) \in Seq(Line)
<1> DEFINE opened == IF content = <<>> THEN <<(<<>>)>> ELSE content
<1>1. opened \in Seq(Line) /\ opened # <<>>
  <2>1. <<>> \in Line
    BY DEF Line
  <2> HIDE DEF Line
  <2>2. <<(<<>>)>> \in Seq(Line) /\ <<(<<>>)>> # <<>>
    BY <2>1
  <2>3. QED
    BY <2>2
<1>2. CASE c = Newline
  BY <1>1, <1>2 DEF WithCharacter, Line
<1>3. CASE c # Newline
  <2>1. Len(opened) \in Nat \ {0} /\ opened[Len(opened)] \in Line
    BY <1>1
  <2>2. Append(Last(opened), c) \in Line
    BY <1>3, <2>1 DEF Line, Last
  <2>3. Front(opened) \in Seq(Line)
    BY <1>1, <2>1 DEF Front
  <2>4. Front(opened) \o <<Append(Last(opened), c)>> \in Seq(Line)
    BY <2>2, <2>3
  <2>5. QED
    BY <1>3, <2>4 DEF WithCharacter
<1>4. QED
  BY <1>2, <1>3

LEMMA SizedWritten ==
  ASSUME NEW entry \in SizedEntries, NEW c \in Characters
  PROVE  Written(entry, c) \in SizedEntries
<1>1. PICK name, content, size :
        /\ name \in Names /\ content \in Seq(Line)
        /\ entry = [name |-> name, content |-> content, size |-> size]
  BY DEF SizedEntries
<1>2. WithCharacter(content, c) \in Seq(Line)
  BY <1>1, CharacterAdded
<1>3. Written(entry, c) =
        [name |-> name, content |-> WithCharacter(content, c),
         size |-> CharacterCount(WithCharacter(content, c))
                    + Len(WithCharacter(content, c))]
  <2> DEFINE added == WithCharacter(content, c)
             count == CharacterCount(added) + Len(added)
  <2>1. Written(entry, c) = [entry EXCEPT !.content = added, !.size = count]
    BY <1>1 DEF Written
  <2> HIDE DEF added, count
  <2>2. [entry EXCEPT !.content = added]
          = [name |-> name, content |-> added, size |-> size]
    BY <1>1
  <2>3. [entry EXCEPT !.content = added, !.size = count]
          = [[entry EXCEPT !.content = added] EXCEPT !.size = count]
    OBVIOUS
  <2>4. [[name |-> name, content |-> added, size |-> size] EXCEPT !.size = count]
          = [name |-> name, content |-> added, size |-> count]
    OBVIOUS
  <2>5. QED
    BY <2>1, <2>2, <2>3, <2>4 DEF added, count
<1>4. QED
  BY <1>1, <1>2, <1>3 DEF SizedEntries

-----------------------------------------------------------------------------
(* Trees.                                                                  *)

LEMMA SizedLoaded == ASSUME SizeInvariant PROVE Sized(Loaded(file))
BY DEF SizeInvariant, Loaded, Fresh, Sized

LEMMA SizedCreated ==
  ASSUME NEW t, Sized(t), NEW dir \in DOMAIN t,
         NEW name \in Names, NEW content \in Contents
  PROVE  Sized([t EXCEPT ![dir] = Append(@, NewEntry(name, content))])
<1>1. NewEntry(name, content) \in SizedEntries
  BY SizedNew, FileSystemAssumption
<1>2. QED
  BY <1>1 DEF Sized

LEMMA SizedAppended ==
  ASSUME NEW t, Sized(t), NEW dir \in DOMAIN t, NEW name \in Names,
         NEW c \in Characters, NEW at, NEW entries,
         entries \in {t[dir], Append(t[dir], NewEntry(name, <<>>))}
  PROVE  Sized([t EXCEPT ![dir] = ReplaceAt(entries, at, Written(entries[at], c))])
<1>1. NewEntry(name, <<>>) \in SizedEntries
  <2>1. <<>> \in Seq(Line)
    OBVIOUS
  <2>2. QED
    BY <2>1, SizedNew
<1>2. entries \in Seq(SizedEntries)
  BY <1>1 DEF Sized
<1>3. ReplaceAt(entries, at, Written(entries[at], c)) \in Seq(SizedEntries)
  <2>1. CASE at \in 1..Len(entries)
    <3>1. Written(entries[at], c) \in SizedEntries
      BY <1>2, <2>1, SizedWritten
    <3>2. QED
      BY <1>2, <2>1, <3>1 DEF ReplaceAt
  <2>2. CASE at \notin 1..Len(entries)
    <3> DEFINE value == Written(entries[at], c)
    <3>1. DOMAIN entries = 1..Len(entries)
      BY <1>2
    <3> HIDE DEF value
    <3>2. entries = [i \in 1..Len(entries) |-> entries[i]]
      BY <1>2
    <3>3. [entries EXCEPT ![at] = value]
            = [i \in 1..Len(entries) |-> IF i = at THEN value ELSE entries[i]]
      BY <3>1
    <3>4. \A i \in 1..Len(entries) : i # at
      BY <2>2
    <3>5. [entries EXCEPT ![at] = value] = entries
      BY <3>2, <3>3, <3>4
    <3>6. QED
      BY <1>2, <3>5 DEF ReplaceAt, value
  <2>3. QED
    BY <2>1, <2>2
<1>4. QED
  BY <1>3 DEF Sized

-----------------------------------------------------------------------------
(* Steps.                                                                  *)

LEMMA SizesClient ==
  ASSUME SizeInvariant, NEW d \in Devices, Client(d) PROVE SizeInvariant'
<1>1. CASE Load(d)
  BY <1>1, SizedLoaded DEF Load, SizeInvariant
<1>2. CASE LoadThrows(d) \/ LoadUnopened(d)
  <2>1. Sized(Fresh)
    BY DEF Fresh, Sized
  <2>2. QED
    BY <1>2, <2>1 DEF LoadThrows, LoadUnopened, SizeInvariant
<1>3. CASE OpenForSave(d)
  BY <1>3 DEF OpenForSave, SizeInvariant
<1>4. CASE WriteOut(d) \/ SaveNowhere(d) \/ Crash(d)
  <2>1. Sized(<<>>)
    BY DEF Sized
  <2>2. tree' = [tree EXCEPT ![d] = <<>>]
    BY <1>4 DEF WriteOut, SaveNowhere, Crash
  <2>3. file'.kind = "tree" => Sized(file'.tree)
    BY <1>4 DEF WriteOut, SaveNowhere, Crash, SizeInvariant
  <2>4. QED
    BY <2>1, <2>2, <2>3 DEF SizeInvariant
<1>5. ASSUME NEW t, Change(d, t), Sized(t) PROVE SizeInvariant'
  BY <1>5 DEF Change, SizeInvariant
<1>6. ASSUME NEW dir \in Directories, NEW name \in Names, NEW content \in Contents,
             CreateFile(d, dir, name, content)
      PROVE  SizeInvariant'
  BY <1>5, <1>6, SizedCreated DEF CreateFile, SizeInvariant
<1>7. ASSUME NEW path \in Paths, NEW c \in Characters, AppendToFile(d, path, c)
      PROVE  SizeInvariant'
  <2>1. path.dir \in DOMAIN tree[d] /\ path.name \in Names /\ Sized(tree[d])
    BY <1>7 DEF AppendToFile, Paths, SizeInvariant
  <2>2. PICK at, entries :
          /\ entries \in {tree[d][path.dir],
                          Append(tree[d][path.dir], NewEntry(path.name, <<>>))}
          /\ Change(d, [tree[d] EXCEPT ![path.dir] =
                          ReplaceAt(entries, at, Written(entries[at], c))])
    <3> DEFINE found == FindFile(tree[d], path)
               es == IF found # 0 THEN tree[d][path.dir]
                     ELSE Append(tree[d][path.dir], NewEntry(path.name, <<>>))
               i == IF found # 0 THEN found ELSE Len(es)
    <3>1. Change(d, [tree[d] EXCEPT ![path.dir] = ReplaceAt(es, i, Written(es[i], c))])
      BY <1>7 DEF AppendToFile
    <3>2. QED
      BY <3>1
  <2>3. QED
    BY <1>5, <2>1, <2>2, SizedAppended
<1>8. QED
  BY <1>1, <1>2, <1>3, <1>4, <1>6, <1>7 DEF Client

LEMMA SizesStep == SizeInvariant /\ [Next]_vars => SizeInvariant'
<1>1. ASSUME SizeInvariant, Next PROVE SizeInvariant'
  BY <1>1, SizesClient DEF Next
<1>2. ASSUME SizeInvariant, UNCHANGED vars PROVE SizeInvariant'
  BY <1>2 DEF vars, SizeInvariant
<1>3. QED
  BY <1>1, <1>2

LEMMA SizedEmpty == Sized(<<>>) /\ Sized([dir \in Directories |-> <<>>])
BY DEF Sized

LEMMA SizesInit == ASSUME Init PROVE SizeInvariant
<1>1. file.kind = "tree" => Sized(file.tree)
  BY SizedEmpty DEF Init
<1>2. DOMAIN tree = Devices /\ \A d \in Devices : tree[d] = <<>>
  BY DEF Init
<1>3. QED
  BY <1>1, <1>2, SizedEmpty DEF SizeInvariant

(* Every recorded size counts the characters of its file, with the line    *)
(* ends of all lines or of none, in every reachable state.                 *)
THEOREM SizesAreCounts == Spec => []SizesCount
<1>1. ASSUME SizeInvariant PROVE SizesCount
  <2> SUFFICES ASSUME NEW d \in Devices, NEW dir \in DOMAIN tree[d],
                      NEW i \in 1..Len(tree[d][dir])
               PROVE  tree[d][dir][i].size \in
                        {CharacterCount(tree[d][dir][i].content),
                         CharacterCount(tree[d][dir][i].content)
                           + Len(tree[d][dir][i].content)}
    BY DEF SizesCount
  <2>1. tree[d][dir] \in Seq(SizedEntries)
    BY <1>1 DEF SizeInvariant, Sized
  <2>2. PICK entry \in SizedEntries : entry = tree[d][dir][i]
    BY <2>1
  <2>3. entry.size \in {CharacterCount(entry.content),
                        CharacterCount(entry.content) + Len(entry.content)}
    BY DEF SizedEntries
  <2>4. QED
    BY <2>2, <2>3
<1>2. QED
  BY <1>1, SizesInit, SizesStep, PTL DEF Spec

-----------------------------------------------------------------------------
(* Types.                                                                  *)

Rooted(t) == Root \in DOMAIN t /\ DOMAIN t \subseteq Directories

TreesInvariant ==
  /\ SizeInvariant
  /\ \/ file \in [kind : {"absent", "empty", "garbage"}]
     \/ file.kind = "tree" /\ Rooted(file.tree)
  /\ state \in [Devices -> {"off", "refused", "running", "saving"}]
  /\ \A d \in Devices : IF Uses(d) THEN Rooted(tree[d]) ELSE tree[d] = <<>>

LEMMA SizedTyped == SizedEntries \subseteq Entry
<1>1. ASSUME NEW name \in Names, NEW content \in Seq(Line), NEW size \in Nat
      PROVE  [name |-> name, content |-> content, size |-> size] \in Entry
  BY DEF Entry
<1>2. \A content \in Seq(Line) :
        CharacterCount(content) \in Nat /\ CharacterCount(content) + Len(content) \in Nat
  <2> SUFFICES ASSUME NEW content \in Seq(Line)
               PROVE  /\ CharacterCount(content) \in Nat
                      /\ CharacterCount(content) + Len(content) \in Nat
    OBVIOUS
  <2>1. CharacterCount(content) \in Nat /\ Len(content) \in Nat
    BY CountType
  <2>2. QED
    BY <2>1
<1>3. QED
  BY <1>1, <1>2 DEF SizedEntries

LEMMA TreeTyped == ASSUME NEW t, Sized(t), Rooted(t) PROVE IsTree(t)
<1>1. ASSUME NEW dir \in DOMAIN t PROVE t[dir] \in Seq(Entry)
  <2>1. t[dir] \in Seq(SizedEntries)
    BY DEF Sized
  <2>2. QED
    BY <2>1, SizedTyped, SeqMonotonic
<1>2. QED
  BY <1>1 DEF Rooted, IsTree

LEMMA TreesLoaded == ASSUME TreesInvariant, CanLoad(file) PROVE Rooted(Loaded(file))
BY DEF TreesInvariant, CanLoad, Loaded, Fresh, Rooted, Directories

\* A change of one directory.
LEMMA TreesChange ==
  ASSUME TreesInvariant, NEW d \in Devices, NEW dir, NEW entries,
         dir \in DOMAIN tree[d], Change(d, [tree[d] EXCEPT ![dir] = entries]),
         SizeInvariant'
  PROVE  TreesInvariant'
<1> DEFINE t == [tree[d] EXCEPT ![dir] = entries]
<1>1. DOMAIN t = DOMAIN tree[d]
  OBVIOUS
<1>2. /\ state[d] = "running" /\ tree' = [tree EXCEPT ![d] = t]
      /\ file' = file /\ state' = state
  BY DEF Change
<1> HIDE DEF t
<1>3. Rooted(tree[d]) /\ Rooted(t)
  BY <1>1, <1>2 DEF TreesInvariant, Uses, Rooted
<1>4. DOMAIN tree = Devices
  BY DEF TreesInvariant, SizeInvariant
<1>5. ASSUME NEW e \in Devices
      PROVE  IF Uses(e)' THEN Rooted(tree'[e]) ELSE tree'[e] = <<>>
  BY <1>2, <1>3, <1>4 DEF TreesInvariant, Uses
<1>6. QED
  BY <1>2, <1>5 DEF TreesInvariant

LEMMA TreesClient ==
  ASSUME TreesInvariant, NEW d \in Devices, Client(d) PROVE TreesInvariant'
<1>1. SizeInvariant'
  BY SizesClient DEF TreesInvariant
<1>2. DOMAIN tree = Devices
  BY DEF TreesInvariant, SizeInvariant
<1>3. CASE Load(d)
  <2>1. Rooted(Loaded(file))
    BY <1>3, TreesLoaded DEF Load
  <2>2. QED
    BY <1>1, <1>2, <1>3, <2>1 DEF Load, TreesInvariant, Uses
<1>4. CASE LoadThrows(d) \/ LoadUnopened(d)
  <2>1. Rooted(Fresh)
    BY DEF Fresh, Rooted, Directories
  <2>2. QED
    BY <1>1, <1>2, <1>4, <2>1 DEF LoadThrows, LoadUnopened, TreesInvariant, Uses, Off
<1>5. CASE OpenForSave(d)
  BY <1>1, <1>5 DEF OpenForSave, TreesInvariant, Uses
<1>6. CASE WriteOut(d)
  <2>1. Rooted(tree[d])
    BY <1>6 DEF WriteOut, TreesInvariant, Uses
  <2>2. \/ file' \in [kind : {"absent", "empty", "garbage"}]
        \/ file'.kind = "tree" /\ Rooted(file'.tree)
    BY <1>6, <2>1 DEF WriteOut
  <2>3. QED
    BY <1>1, <1>2, <1>6, <2>2 DEF WriteOut, TreesInvariant, Uses
<1>7. CASE SaveNowhere(d)
  BY <1>1, <1>2, <1>7 DEF SaveNowhere, TreesInvariant, Uses
<1>8. CASE Crash(d)
  BY <1>1, <1>2, <1>8 DEF Crash, TreesInvariant, Uses
<1>9. ASSUME NEW dir \in Directories, NEW name \in Names, NEW content \in Contents,
             CreateFile(d, dir, name, content)
      PROVE  TreesInvariant'
  BY <1>1, <1>9, TreesChange DEF CreateFile
<1>10. ASSUME NEW path \in Paths, NEW c \in Characters, AppendToFile(d, path, c)
       PROVE  TreesInvariant'
  <2>1. PICK entries :
          path.dir \in DOMAIN tree[d] /\ Change(d, [tree[d] EXCEPT ![path.dir] = entries])
    BY <1>10 DEF AppendToFile
  <2>2. QED
    BY <1>1, <2>1, TreesChange
<1>11. QED
  BY <1>3, <1>4, <1>5, <1>6, <1>7, <1>8, <1>9, <1>10 DEF Client

LEMMA TreesInit == ASSUME Init PROVE TreesInvariant
<1>1. \/ file \in [kind : {"absent", "empty", "garbage"}]
      \/ file.kind = "tree" /\ Rooted(file.tree)
  BY DEF Init, Rooted, Directories
<1>2. QED
  BY <1>1, SizesInit DEF Init, TreesInvariant, Uses

LEMMA TreesStep == TreesInvariant /\ [Next]_vars => TreesInvariant'
<1>1. ASSUME TreesInvariant, Next PROVE TreesInvariant'
  BY <1>1, TreesClient DEF Next
<1>2. ASSUME TreesInvariant, UNCHANGED vars PROVE TreesInvariant'
  BY <1>2, SizesStep DEF vars, TreesInvariant, Uses
<1>3. QED
  BY <1>1, <1>2

(* The file is missing, cut, or one whole tree, every device in use has a  *)
(* tree with a root, and no other holds one.                               *)
THEOREM FileSystemTypeCorrect == Spec => []FileSystemTypeOK
<1>1. ASSUME TreesInvariant PROVE FileSystemTypeOK
  <2>1. file.kind = "tree" /\ Rooted(file.tree) => IsTree(file.tree)
    BY <1>1, TreeTyped DEF TreesInvariant, SizeInvariant
  <2>2. \A d \in Devices : Rooted(tree[d]) => IsTree(tree[d])
    BY <1>1, TreeTyped DEF TreesInvariant, SizeInvariant
  <2>3. QED
    BY <1>1, <2>1, <2>2 DEF TreesInvariant, FileSystemTypeOK
<1>2. QED
  BY <1>1, TreesInit, TreesStep, PTL DEF Spec

-----------------------------------------------------------------------------
(* Texts, which are joined line by line.                                   *)

\* The text with line i behind it.
Longer(text, content, i) == IF i = 1 THEN content[1]
                            ELSE text \o <<Newline>> \o content[i]

LEMMA LongerType ==
  ASSUME NEW n \in Nat, NEW content \in [1..n -> Seq(Characters)],
         NEW text \in Seq(Characters), NEW i \in 1..n
  PROVE  Longer(text, content, i) \in Seq(Characters)
<1>1. <<Newline>> \in Seq(Characters) /\ content[i] \in Seq(Characters)
  BY FileSystemAssumption
<1>2. text \o <<Newline>> \o content[i] \in Seq(Characters)
  BY <1>1, ConcatProperties
<1>3. QED
  BY <1>1, <1>2 DEF Longer

LEMMA JoinedExists ==
  ASSUME NEW n \in Nat, NEW content \in [1..n -> Seq(Characters)]
  PROVE  \E g : g = [i \in 0..n |-> IF i = 0 THEN <<>>
                                    ELSE Longer(g[i - 1], content, i)]
<1> DEFINE Text == Seq(Characters)
           step == [p \in (1..n) \X Text |-> Longer(p[2], content, p[1])]
<1>1. <<>> \in Text
  OBVIOUS
<1>2. \A text \in Text, i \in 1..n : Longer(text, content, i) \in Text
  BY LongerType
<1> HIDE DEF Text
<1>3. step \in [(1..n) \X Text -> Text]
  BY <1>2
<1>4. PICK g \in [0..n -> Text] :
        g[0] = <<>> /\ \A i \in 1..n : g[i] = step[<<i, g[i - 1]>>]
  <2> HIDE DEF step
  <2>1. n \in Nat
    OBVIOUS
  <2>2. Solutions(n, Text, <<>>, step) # {}
    BY <1>1, <1>3, <2>1, RecursionExists
  <2>3. QED
    BY <2>2 DEF Solutions
<1>5. ASSUME NEW i \in 1..n PROVE g[i] = Longer(g[i - 1], content, i)
  <2>1. g[i - 1] \in Text
    OBVIOUS
  <2>2. QED
    BY <1>4, <2>1
<1>6. \A i \in 0..n : g[i] = IF i = 0 THEN <<>> ELSE Longer(g[i - 1], content, i)
  BY <1>4, <1>5
<1> HIDE DEF step
<1>7. g = [i \in 0..n |-> IF i = 0 THEN <<>> ELSE Longer(g[i - 1], content, i)]
  BY <1>6
<1>8. QED
  BY <1>7

LEMMA JoinedRecursion ==
  ASSUME NEW n \in Nat, NEW content \in [1..n -> Seq(Characters)], NEW f,
         f = [i \in 0..n |-> IF i = 0 THEN <<>> ELSE Longer(f[i - 1], content, i)]
  PROVE  f \in [0..n -> Seq(Characters)]
<1> DEFINE S == {i \in 0..n : f[i] \in Seq(Characters)}
<1>1. 0 \in S
  <2>1. 0 \in 0..n
    OBVIOUS
  <2>2. f[0] = <<>>
    BY <2>1
  <2>3. QED
    BY <2>1, <2>2
<1>2. ASSUME NEW k \in 0..(n - 1), k \in S PROVE k + 1 \in S
  <2>1. k + 1 \in 0..n /\ k + 1 # 0 /\ k + 1 \in 1..n /\ (k + 1) - 1 = k
    OBVIOUS
  <2>2. f[k + 1] = Longer(f[k], content, k + 1)
    BY <2>1
  <2>3. Longer(f[k], content, k + 1) \in Seq(Characters)
    BY <1>2, <2>1, LongerType
  <2>4. QED
    BY <2>1, <2>2, <2>3
<1> HIDE DEF S
<1>3. 0..n \subseteq S
  BY <1>1, <1>2, BoundedInduction
<1>4. QED
  BY <1>3 DEF S

\* The text of the first i lines, for every i.
LEMMA JoinedSteps ==
  ASSUME NEW content \in Seq(Line)
  PROVE  \E f \in [0..Len(content) -> Seq(Characters)] :
           /\ Joined(content) = f[Len(content)]
           /\ \A i \in 0..Len(content) :
                f[i] = IF i = 0 THEN <<>> ELSE Longer(f[i - 1], content, i)
<1> DEFINE n == Len(content)
           f == CHOOSE g : g = [i \in 0..n |-> IF i = 0 THEN <<>>
                                               ELSE Longer(g[i - 1], content, i)]
<1>1. n \in Nat /\ content \in [1..n -> Seq(Characters)]
  BY EmptyLine
<1>2. Joined(content) = f[n]
  BY DEF Joined, Longer
<1>3. \E g : g = [i \in 0..n |-> IF i = 0 THEN <<>>
                                 ELSE Longer(g[i - 1], content, i)]
  <2> HIDE DEF n
  <2>1. QED
    BY <1>1, JoinedExists
<1>4. f = [i \in 0..n |-> IF i = 0 THEN <<>> ELSE Longer(f[i - 1], content, i)]
  BY <1>3, Zenon
<1> HIDE DEF f, n
<1>5. f \in [0..n -> Seq(Characters)]
  BY <1>1, <1>4, JoinedRecursion
<1>6. \A i \in 0..n : f[i] = IF i = 0 THEN <<>> ELSE Longer(f[i - 1], content, i)
  BY <1>4
<1>7. QED
  BY <1>2, <1>5, <1>6 DEF n

LEMMA JoinedAppend ==
  ASSUME NEW content \in Seq(Line), NEW l \in Line
  PROVE  Joined(Append(content, l)) =
           IF content = <<>> THEN l ELSE Joined(content) \o <<Newline>> \o l
<1> DEFINE n == Len(content)
           longer == Append(content, l)
<1>1. /\ n \in Nat /\ longer \in Seq(Line) /\ Len(longer) = n + 1
      /\ \A i \in 1..n : longer[i] = content[i]
      /\ longer[n + 1] = l
  BY AppendProperties
<1> HIDE DEF longer
<1>2. PICK f \in [0..n -> Seq(Characters)] :
        /\ Joined(content) = f[n]
        /\ \A i \in 0..n : f[i] = IF i = 0 THEN <<>> ELSE Longer(f[i - 1], content, i)
  BY JoinedSteps
<1>3. PICK g \in [0..(n + 1) -> Seq(Characters)] :
        /\ Joined(longer) = g[n + 1]
        /\ \A i \in 0..(n + 1) :
             g[i] = IF i = 0 THEN <<>> ELSE Longer(g[i - 1], longer, i)
  <2>1. PICK m : m = Len(longer)
    OBVIOUS
  <2>2. m = n + 1
    BY <1>1, <2>1
  <2>3. QED
    BY <1>1, <2>1, <2>2, JoinedSteps
<1> DEFINE S == {i \in 0..n : g[i] = f[i]}
<1> HIDE DEF n
<1>4. 0 \in S
  BY <1>1, <1>2, <1>3
<1>5. ASSUME NEW k \in 0..(n - 1), k \in S PROVE k + 1 \in S
  <2>1. /\ k + 1 \in 0..n /\ k + 1 \in 0..(n + 1) /\ k + 1 \in 1..n
        /\ k + 1 # 0 /\ (k + 1) - 1 = k
    BY <1>1
  <2>2. g[k + 1] = Longer(g[k], longer, k + 1)
    BY <1>3, <2>1
  <2>3. f[k + 1] = Longer(f[k], content, k + 1)
    BY <1>2, <2>1
  <2>4. longer[k + 1] = content[k + 1] /\ (k + 1 = 1 => longer[1] = content[1])
    BY <1>1, <2>1
  <2>5. g[k] = f[k]
    BY <1>5
  <2>6. QED
    BY <2>1, <2>2, <2>3, <2>4, <2>5 DEF Longer
<1>6. g[n] = f[n]
  <2> HIDE DEF S
  <2>1. 0..n \subseteq S
    BY <1>1, <1>4, <1>5, BoundedInduction
  <2>2. n \in S
    BY <1>1, <2>1
  <2>3. QED
    BY <2>2 DEF S
<1>7. g[n + 1] = Longer(g[n], longer, n + 1)
  <2>1. n + 1 \in 0..(n + 1) /\ n + 1 # 0 /\ (n + 1) - 1 = n
    BY <1>1
  <2>2. QED
    BY <1>3, <2>1
<1>8. content = <<>> <=> n + 1 = 1
  BY <1>1, EmptySeq DEF n
<1>9. CASE content = <<>>
  <2>1. n + 1 = 1 /\ longer[1] = l
    BY <1>1, <1>8, <1>9
  <2>2. QED
    BY <1>3, <1>7, <1>9, <2>1 DEF Longer, longer
<1>10. CASE content # <<>>
  BY <1>1, <1>2, <1>3, <1>6, <1>7, <1>8, <1>10 DEF Longer, longer
<1>11. QED
  BY <1>9, <1>10

LEMMA JoinedType ==
  ASSUME NEW content \in Seq(Line) PROVE Joined(content) \in Seq(Characters)
<1>1. PICK f \in [0..Len(content) -> Seq(Characters)] : Joined(content) = f[Len(content)]
  BY JoinedSteps
<1>2. Len(content) \in 0..Len(content)
  OBVIOUS
<1>3. QED
  BY <1>1, <1>2

LEMMA JoinedEmpty == Joined(<<>>) = <<>>
<1>1. <<>> \in Seq(Line) /\ Len(<<>>) = 0 /\ 0 \in 0..0
  OBVIOUS
<1>2. PICK f \in [0..Len(<<>>) -> Seq(Characters)] :
        /\ Joined(<<>>) = f[Len(<<>>)]
        /\ \A i \in 0..Len(<<>>) :
             f[i] = IF i = 0 THEN <<>> ELSE Longer(f[i - 1], <<>>, i)
  BY <1>1, JoinedSteps
<1>3. QED
  BY <1>1, <1>2

\* A character, also a newline, is added at the end of the text.
LEMMA JoinedWithCharacter ==
  ASSUME NEW content \in Seq(Line), NEW c \in Characters
  PROVE  Joined(WithCharacter(content, c)) = Append(Joined(content), c)
<1> DEFINE opened == IF content = <<>> THEN <<(<<>>)>> ELSE content
<1>1. /\ opened \in Seq(Line) /\ opened # <<>>
      /\ Joined(opened) = Joined(content) /\ Joined(content) \in Seq(Characters)
  <2>1. CASE content = <<>>
    <3>1. <<(<<>>)>> = Append(<<>>, <<>>) /\ <<>> \in Seq(Line) /\ <<>> \in Line
      BY EmptyLine
    <3>2. Joined(<<(<<>>)>>) = <<>>
      BY <3>1, JoinedAppend
    <3>3. <<(<<>>)>> \in Seq(Line) /\ <<(<<>>)>> # <<>>
      BY <3>1, AppendProperties
    <3>4. QED
      BY <2>1, <3>2, <3>3, JoinedEmpty, JoinedType
  <2>2. CASE content # <<>>
    BY <2>2, JoinedType
  <2>3. QED
    BY <2>1, <2>2
<1>2. WithCharacter(content, c) =
        IF c = Newline THEN Append(opened, <<>>)
        ELSE Front(opened) \o <<Append(Last(opened), c)>>
  BY DEF WithCharacter
<1> HIDE DEF opened
<1>3. CASE c = Newline
  <2>1. Joined(Append(opened, <<>>)) = Joined(opened) \o <<Newline>> \o <<>>
    BY <1>1, EmptyLine, JoinedAppend
  <2>2. Joined(opened) \o <<Newline>> \o <<>> = Append(Joined(opened), Newline)
    BY <1>1, FileSystemAssumption
  <2>3. QED
    BY <1>1, <1>2, <1>3, <2>1, <2>2
<1>4. CASE c # Newline
  <2>1. PICK front \in Seq(Line), last \in Line : opened = Append(front, last)
    BY <1>1, SequenceEmptyOrAppend
  <2>2. Front(opened) = front /\ Last(opened) = last
    <3>1. Len(opened) = Len(front) + 1
      BY <2>1
    <3>2. SubSeq(opened, 1, Len(front)) = front
      BY <2>1
    <3>3. QED
      BY <2>1, <3>1, <3>2 DEF Front, Last
  <2>3. last \in Seq(Characters) /\ Append(last, c) \in Line
    BY <1>4, EmptyLine DEF Line
  <2>4. front \o <<Append(last, c)>> = Append(front, Append(last, c))
    BY <2>3, AppendIsConcat
  <2>5. Joined(Append(front, Append(last, c))) =
          IF front = <<>> THEN Append(last, c)
          ELSE Joined(front) \o <<Newline>> \o Append(last, c)
    BY <2>3, JoinedAppend
  <2>6. Joined(opened) =
          IF front = <<>> THEN last ELSE Joined(front) \o <<Newline>> \o last
    BY <2>1, JoinedAppend
  <2>7. Joined(front) \in Seq(Characters) /\ <<Newline>> \in Seq(Characters)
    BY JoinedType, FileSystemAssumption
  <2>8. Joined(front) \o <<Newline>> \o Append(last, c)
          = Append(Joined(front) \o <<Newline>> \o last, c)
    BY <2>3, <2>7
  <2>9. QED
    BY <1>1, <1>2, <1>4, <2>2, <2>4, <2>5, <2>6, <2>8
<1>5. QED
  BY <1>3, <1>4

-----------------------------------------------------------------------------
(* The first file of a name.                                               *)

Named(entries, name) == {i \in 1..Len(entries) : entries[i].name = name}

FirstNamed(entries, name) ==
  IF Named(entries, name) # {} THEN Min(Named(entries, name)) ELSE 0

TextIn(entries, name) ==
  IF Named(entries, name) = {} THEN None
  ELSE Joined(entries[FirstNamed(entries, name)].content)

\* Entries in which only the text of "name" differs from what it was.
Edits(changed, entries, name, text) ==
  \A other \in Names : TextIn(changed, other) =
    IF other = name THEN text ELSE TextIn(entries, other)

LEMMA SizedContent ==
  ASSUME NEW entry \in SizedEntries PROVE entry.content \in Seq(Line)
BY DEF SizedEntries

LEMMA FirstIsLeast ==
  ASSUME NEW entries, NEW name
  PROVE  IF Named(entries, name) = {} THEN FirstNamed(entries, name) = 0
         ELSE /\ FirstNamed(entries, name) \in Named(entries, name)
              /\ \A i \in Named(entries, name) : FirstNamed(entries, name) <= i
<1>1. CASE Named(entries, name) # {}
  <2>1. Named(entries, name) \in SUBSET Nat
    BY DEF Named
  <2>2. \E i \in Named(entries, name) : \A j \in Named(entries, name) : i <= j
    BY <1>1, <2>1, LeastElement
  <2>3. QED
    BY <1>1, <2>2 DEF FirstNamed, Min
<1>2. CASE Named(entries, name) = {}
  BY <1>2 DEF FirstNamed
<1>3. QED
  BY <1>1, <1>2

\* What the least one is, is the first one.
LEMMA FirstUnique ==
  ASSUME NEW entries, NEW name, NEW at \in Named(entries, name),
         \A i \in Named(entries, name) : at <= i
  PROVE  FirstNamed(entries, name) = at
<1>1. Named(entries, name) # {} /\ Named(entries, name) \subseteq Nat
  BY DEF Named
<1>2. FirstNamed(entries, name) \in Named(entries, name)
  BY <1>1, FirstIsLeast
<1>3. FirstNamed(entries, name) <= at /\ at <= FirstNamed(entries, name)
  BY <1>1, <1>2, FirstIsLeast
<1>4. FirstNamed(entries, name) \in Nat /\ at \in Nat
  BY <1>1, <1>2
<1>5. QED
  BY <1>3, <1>4

LEMMA FindFirst ==
  ASSUME NEW t, NEW path
  PROVE  FindFile(t, path) =
           IF path.bare \/ path.dir \notin DOMAIN t THEN 0
           ELSE FirstNamed(t[path.dir], path.name)
BY DEF FindFile, SelectInSeq, FirstNamed, Named

LEMMA NamedAppend ==
  ASSUME NEW entries \in Seq(SizedEntries), NEW entry \in SizedEntries, NEW name
  PROVE  Named(Append(entries, entry), name) =
           Named(entries, name)
             \cup (IF entry.name = name THEN {Len(entries) + 1} ELSE {})
<1> DEFINE longer == Append(entries, entry)
<1>1. /\ Len(longer) = Len(entries) + 1 /\ Len(entries) \in Nat
      /\ \A i \in 1..Len(entries) : longer[i] = entries[i]
      /\ longer[Len(entries) + 1] = entry
  BY AppendProperties
<1> HIDE DEF longer
<1>2. QED
  BY <1>1 DEF Named, longer

\* A file behind the others is found only if no other has its name.
LEMMA TextAppend ==
  ASSUME NEW entries \in Seq(SizedEntries), NEW entry \in SizedEntries, NEW name
  PROVE  TextIn(Append(entries, entry), name) =
           IF Named(entries, name) = {} /\ entry.name = name THEN Joined(entry.content)
           ELSE TextIn(entries, name)
<1> DEFINE longer == Append(entries, entry)
           n == Len(entries)
<1>1. /\ n \in Nat /\ longer[n + 1] = entry
      /\ \A i \in 1..n : longer[i] = entries[i]
  BY AppendProperties
<1>2. Named(longer, name) =
        Named(entries, name) \cup (IF entry.name = name THEN {n + 1} ELSE {})
  BY NamedAppend
<1>3. Named(entries, name) \subseteq 1..n
  BY DEF Named
<1> HIDE DEF longer, n
<1>4. CASE Named(entries, name) # {}
  <2> DEFINE at == FirstNamed(entries, name)
  <2>1. at \in Named(entries, name) /\ \A i \in Named(entries, name) : at <= i
    BY <1>4, FirstIsLeast
  <2> HIDE DEF at
  <2>2. at \in Named(longer, name) /\ \A i \in Named(longer, name) : at <= i
    BY <1>1, <1>2, <1>3, <2>1
  <2>3. FirstNamed(longer, name) = at
    BY <2>2, FirstUnique
  <2>4. longer[at] = entries[at]
    BY <1>1, <1>3, <2>1
  <2>5. Named(longer, name) # {}
    BY <2>2
  <2>6. QED
    BY <1>4, <2>3, <2>4, <2>5 DEF TextIn, at, longer
<1>5. CASE Named(entries, name) = {} /\ entry.name = name
  <2>1. Named(longer, name) = {n + 1}
    BY <1>2, <1>5
  <2>2. FirstNamed(longer, name) = n + 1
    <3>1. n + 1 \in Named(longer, name) /\ \A i \in Named(longer, name) : n + 1 <= i
      BY <1>1, <2>1
    <3>2. QED
      BY <3>1, FirstUnique
  <2>3. QED
    BY <1>1, <1>5, <2>1, <2>2 DEF TextIn, longer
<1>6. CASE Named(entries, name) = {} /\ entry.name # name
  BY <1>2, <1>6 DEF TextIn, longer
<1>7. QED
  BY <1>4, <1>5, <1>6

\* Writing to the first file of a name changes the text of that name alone.
LEMMA TextReplace ==
  ASSUME NEW entries \in Seq(SizedEntries), NEW name, NEW c \in Characters,
         Named(entries, name) # {}, NEW at, at = FirstNamed(entries, name)
  PROVE  Edits(ReplaceAt(entries, at, Written(entries[at], c)), entries,
               name, Append(TextIn(entries, name), c))
<1> DEFINE value == Written(entries[at], c)
           changed == ReplaceAt(entries, at, value)
<1> SUFFICES ASSUME NEW other \in Names
             PROVE  TextIn(changed, other) =
                      IF other = name THEN Append(TextIn(entries, name), c)
                      ELSE TextIn(entries, other)
  BY DEF Edits
<1>1. at \in 1..Len(entries) /\ entries[at].name = name
  <2>1. at \in Named(entries, name)
    BY FirstIsLeast
  <2>2. QED
    BY <2>1 DEF Named
<1>2. entries[at] \in SizedEntries
  BY <1>1, ElementOfSeq
<1>3. /\ value \in SizedEntries /\ value.name = name
      /\ Joined(value.content) = Append(Joined(entries[at].content), c)
  <2>1. value \in SizedEntries
    BY <1>2, SizedWritten
  <2>2. /\ value.name = entries[at].name
        /\ value.content = WithCharacter(entries[at].content, c)
    BY <1>2 DEF Written, SizedEntries
  <2>3. entries[at].content \in Seq(Line)
    BY <1>2, SizedContent
  <2>4. QED
    BY <1>1, <2>1, <2>2, <2>3, JoinedWithCharacter
<1> HIDE DEF value
<1>4. /\ Len(changed) = Len(entries) /\ changed[at] = value
      /\ \A i \in 1..Len(entries) : changed[i] = IF i = at THEN value ELSE entries[i]
  BY <1>1, <1>3, ExceptSeq DEF ReplaceAt
<1> HIDE DEF changed
<1>5. Named(changed, other) = Named(entries, other)
  BY <1>1, <1>3, <1>4 DEF Named
<1>6. FirstNamed(changed, other) = FirstNamed(entries, other)
  BY <1>5 DEF FirstNamed
<1>7. CASE other = name
  BY <1>3, <1>4, <1>5, <1>6, <1>7 DEF TextIn
<1>8. CASE other # name /\ Named(entries, other) # {}
  <2>1. FirstNamed(entries, other) \in Named(entries, other)
    BY <1>8, FirstIsLeast
  <2>2. FirstNamed(entries, other) # at /\ FirstNamed(entries, other) \in 1..Len(entries)
    BY <1>1, <1>8, <2>1 DEF Named
  <2>3. changed[FirstNamed(entries, other)] = entries[FirstNamed(entries, other)]
    BY <1>4, <2>2
  <2>4. QED
    BY <1>5, <1>6, <1>8, <2>3 DEF TextIn
<1>9. CASE other # name /\ Named(entries, other) = {}
  BY <1>5, <1>9 DEF TextIn
<1>10. QED
  BY <1>7, <1>8, <1>9

-----------------------------------------------------------------------------
(* The texts of a tree.                                                    *)

Files == Directories \X Names

LEMMA TextsAre ==
  ASSUME NEW t
  PROVE  Texts(t) = [f \in Files |-> IF f[1] \in DOMAIN t THEN TextIn(t[f[1]], f[2])
                                     ELSE None]
<1> SUFFICES ASSUME NEW dir \in Directories, NEW name \in Names
             PROVE  LET found == FindFile(t, [dir |-> dir, name |-> name, bare |-> FALSE])
                    IN  (IF found = 0 THEN None ELSE Joined(t[dir][found].content))
                          = IF dir \in DOMAIN t THEN TextIn(t[dir], name) ELSE None
  BY DEF Texts, Files
<1>1. FindFile(t, [dir |-> dir, name |-> name, bare |-> FALSE])
        = IF dir \in DOMAIN t THEN FirstNamed(t[dir], name) ELSE 0
  BY FindFirst
<1>2. FirstNamed(t[dir], name) = 0 <=> Named(t[dir], name) = {}
  <2>1. 0 \notin Named(t[dir], name)
    BY DEF Named
  <2>2. QED
    BY <2>1, FirstIsLeast
<1>3. QED
  BY <1>1, <1>2 DEF TextIn

LEMMA TextsType ==
  ASSUME NEW t, Sized(t) PROVE Texts(t) \in [Files -> Seq(Characters) \cup {None}]
<1>1. ASSUME NEW dir \in DOMAIN t, NEW name, Named(t[dir], name) # {}
      PROVE  TextIn(t[dir], name) \in Seq(Characters)
  <2>1. FirstNamed(t[dir], name) \in Named(t[dir], name)
    BY <1>1, FirstIsLeast
  <2>2. FirstNamed(t[dir], name) \in 1..Len(t[dir]) /\ t[dir] \in Seq(SizedEntries)
    BY <2>1 DEF Named, Sized
  <2>3. t[dir][FirstNamed(t[dir], name)] \in SizedEntries
    BY <2>2, ElementOfSeq
  <2>4. t[dir][FirstNamed(t[dir], name)].content \in Seq(Line)
    BY <2>3, SizedContent
  <2>5. QED
    BY <1>1, <2>4, JoinedType DEF TextIn
<1>2. \A f \in Files : (IF f[1] \in DOMAIN t THEN TextIn(t[f[1]], f[2]) ELSE None)
                         \in Seq(Characters) \cup {None}
  BY <1>1 DEF TextIn
<1>3. QED
  BY <1>2, TextsAre

LEMMA TextsOpen ==
  ASSUME NEW t, Sized(t) PROVE Texts(t) # Unreadable
BY TextsType, StoreAssumption DEF Files

LEMMA TextsEdit ==
  ASSUME NEW t, NEW dir \in Directories, dir \in DOMAIN t, NEW name \in Names,
         NEW entries, NEW text, Edits(entries, t[dir], name, text)
  PROVE  Texts([t EXCEPT ![dir] = entries]) = [Texts(t) EXCEPT ![<<dir, name>>] = text]
<1> DEFINE u == [t EXCEPT ![dir] = entries]
<1>1. DOMAIN u = DOMAIN t /\ u[dir] = entries
      /\ \A other \in DOMAIN t : other # dir => u[other] = t[other]
  OBVIOUS
<1> HIDE DEF u
<1>2. ASSUME NEW f \in Files
      PROVE  (IF f[1] \in DOMAIN u THEN TextIn(u[f[1]], f[2]) ELSE None)
               = IF f = <<dir, name>> THEN text
                 ELSE IF f[1] \in DOMAIN t THEN TextIn(t[f[1]], f[2]) ELSE None
  <2>1. f = <<f[1], f[2]>> /\ f[2] \in Names
    BY DEF Files
  <2>2. f = <<dir, name>> <=> f[1] = dir /\ f[2] = name
    BY <2>1
  <2>3. QED
    BY <1>1, <2>1, <2>2 DEF Edits
<1>3. <<dir, name>> \in Files
  BY DEF Files
<1>4. QED
  BY <1>2, <1>3, TextsAre DEF u

-----------------------------------------------------------------------------
(* Steps.                                                                  *)

Users   == {d \in Devices : Uses(d)}
View    == [d \in Devices |-> Texts(tree[d])]
Disk    == IF Cut(file) THEN Unreadable ELSE Texts(Loaded(file))
NoTexts == [f \in Files |-> None]

LEMMA EmptyTexts ==
  ASSUME NEW t, \A dir \in DOMAIN t : t[dir] = <<>> PROVE Texts(t) = NoTexts
<1>1. \A name : Named(<<>>, name) = {}
  BY DEF Named
<1>2. \A dir \in DOMAIN t : \A name : TextIn(t[dir], name) = None
  BY <1>1 DEF TextIn
<1>3. QED
  BY <1>2, TextsAre DEF NoTexts

LEMMA FreshTexts == Texts(Fresh) = NoTexts /\ Texts(<<>>) = NoTexts
BY EmptyTexts DEF Fresh

LEMMA EditStep ==
  ASSUME TreesInvariant, NEW d \in Devices, NEW dir \in DOMAIN tree[d],
         NEW name \in Names, NEW entries, NEW text,
         Change(d, [tree[d] EXCEPT ![dir] = entries]),
         Edits(entries, tree[d][dir], name, text),
         \/ text = TextIn(tree[d][dir], name)
         \/ text \in Store!Edited(TextIn(tree[d][dir], name))
  PROVE  [Store!Next]_(Store!vars)
<1> DEFINE f == <<dir, name>>
           t == [tree[d] EXCEPT ![dir] = entries]
<1>1. /\ Uses(d) /\ dir \in Directories /\ f \in Files /\ DOMAIN tree = Devices
      /\ tree' = [tree EXCEPT ![d] = t] /\ file' = file /\ state' = state
  BY DEF Change, Uses, TreesInvariant, SizeInvariant, Rooted, Files
<1>2. Texts(t) = [Texts(tree[d]) EXCEPT ![f] = text]
  <2>1. dir \in Directories /\ dir \in DOMAIN tree[d]
    BY <1>1
  <2>2. PICK old : old = tree[d]
    OBVIOUS
  <2>3. Texts([old EXCEPT ![dir] = entries])
          = [Texts(old) EXCEPT ![<<dir, name>>] = text]
    BY <2>1, <2>2, TextsEdit
  <2>4. QED
    BY <2>2, <2>3
<1>3. Texts(tree[d])[f] = TextIn(tree[d][dir], name)
  BY <1>1, TextsAre
<1>4. DOMAIN Texts(tree[d]) = Files
  BY DEF Texts, Files
<1> HIDE DEF t, f
<1>5. View' = [View EXCEPT ![d] = [Texts(tree[d]) EXCEPT ![f] = text]] /\ Disk' = Disk
  BY <1>1, <1>2 DEF View, Disk, Uses
<1>6. View[d] = Texts(tree[d]) /\ d \in Users /\ Users' = Users
  BY <1>1 DEF View, Users, Uses
<1>7. View' = [View EXCEPT ![d][f] = text]
  BY <1>5, <1>6
<1>8. CASE text = TextIn(tree[d][dir], name)
  <2>1. [Texts(tree[d]) EXCEPT ![f] = text] = Texts(tree[d])
    BY <1>3, <1>4, <1>8 DEF Texts
  <2>2. View' = View
    BY <1>5, <1>6, <2>1 DEF View
  <2>3. QED
    BY <1>5, <1>6, <2>2 DEF Store!vars, View, Disk, Users
<1>9. CASE text \in Store!Edited(TextIn(tree[d][dir], name))
  <2>1. text \in Store!Edited(View[d][f])
    BY <1>3, <1>6, <1>9
  <2>2. View'[d][f] = text
    <3>1. View'[d] = [Texts(tree[d]) EXCEPT ![f] = text]
      BY <1>5 DEF View
    <3>2. QED
      BY <1>1, <1>4, <3>1
  <2>3. Store!Edit(d, f)
    BY <1>5, <1>6, <1>7, <2>1, <2>2 DEF Store!Edit, View, Disk, Users
  <2>4. QED
    BY <1>1, <2>3 DEF Store!Next, Files
<1>10. QED
  BY <1>8, <1>9

LEMMA CreateStep ==
  ASSUME TreesInvariant, NEW d \in Devices, NEW dir \in Directories, NEW name \in Names,
         NEW content \in Contents, CreateFile(d, dir, name, content)
  PROVE  [Store!Next]_(Store!vars)
<1> DEFINE entries == tree[d][dir]
           entry == NewEntry(name, content)
           text == IF Named(entries, name) = {} THEN Joined(content)
                   ELSE TextIn(entries, name)
<1>1. dir \in DOMAIN tree[d] /\ Change(d, [tree[d] EXCEPT ![dir] = Append(entries, entry)])
  BY DEF CreateFile
<1>2. entries \in Seq(SizedEntries) /\ entry \in SizedEntries
  BY <1>1, SizedNew, FileSystemAssumption DEF TreesInvariant, SizeInvariant, Sized
<1>3. entry.name = name /\ entry.content = content
  BY DEF NewEntry
<1>4. Edits(Append(entries, entry), entries, name, text)
  BY <1>2, <1>3, TextAppend DEF Edits
<1>5. text = TextIn(entries, name) \/ text \in Store!Edited(TextIn(entries, name))
  BY DEF TextIn, Store!Edited
<1> HIDE DEF entry, text
<1>6. QED
  BY <1>1, <1>4, <1>5, EditStep

\* What a file with one character in it holds.
LEMMA WrittenNew ==
  ASSUME NEW name \in Names, NEW c \in Characters
  PROVE  LET entry == Written(NewEntry(name, <<>>), c)
         IN  entry \in SizedEntries /\ entry.name = name /\ Joined(entry.content) = <<c>>
<1>1. <<>> \in Seq(Line)
  OBVIOUS
<1>2. NewEntry(name, <<>>) \in SizedEntries
  BY <1>1, SizedNew
<1>3. /\ Written(NewEntry(name, <<>>), c).name = name
      /\ Written(NewEntry(name, <<>>), c).content = WithCharacter(<<>>, c)
  BY DEF Written, NewEntry
<1>4. Append(<<>>, c) = <<c>>
  OBVIOUS
<1>5. QED
  BY <1>1, <1>2, <1>3, <1>4, SizedWritten, JoinedWithCharacter, JoinedEmpty

LEMMA AppendStep ==
  ASSUME TreesInvariant, NEW d \in Devices, NEW path \in Paths, NEW c \in Characters,
         AppendToFile(d, path, c)
  PROVE  [Store!Next]_(Store!vars)
<1> DEFINE dir == path.dir
           entries == tree[d][dir]
           found == FindFile(tree[d], path)
           with == IF found # 0 THEN entries ELSE Append(entries, NewEntry(path.name, <<>>))
           at == IF found # 0 THEN found ELSE Len(with)
           changed == ReplaceAt(with, at, Written(with[at], c))
<1>1. dir \in DOMAIN tree[d] /\ Change(d, [tree[d] EXCEPT ![dir] = changed])
  BY DEF AppendToFile
<1>2. path.name \in Names /\ path.dir \in Directories
  BY DEF Paths, Directories
<1>3. entries \in Seq(SizedEntries)
  BY <1>1 DEF TreesInvariant, SizeInvariant, Sized
<1>4. found = IF path.bare THEN 0 ELSE FirstNamed(entries, path.name)
  BY <1>1, FindFirst
<1>5. CASE found # 0
  <2>1. found = FirstNamed(entries, path.name) /\ Named(entries, path.name) # {}
    BY <1>4, <1>5, FirstIsLeast
  <2>2. changed = ReplaceAt(entries, found, Written(entries[found], c))
    BY <1>5
  <2> DEFINE text == Append(TextIn(entries, path.name), c)
  <2>3. Edits(changed, entries, path.name, text)
    <3> HIDE DEF found, changed, entries
    <3>1. QED
      BY <1>3, <2>1, <2>2, TextReplace
  <2>4. TextIn(entries, path.name) # None
    <3> HIDE DEF entries
    <3>1. FirstNamed(entries, path.name) \in Named(entries, path.name)
      BY <2>1, FirstIsLeast
    <3>2. FirstNamed(entries, path.name) \in 1..Len(entries)
      BY <3>1 DEF Named
    <3>3. entries[FirstNamed(entries, path.name)] \in SizedEntries
      BY <1>3, <3>2, ElementOfSeq
    <3>4. entries[FirstNamed(entries, path.name)].content \in Seq(Line)
      BY <3>3, SizedContent
    <3>5. TextIn(entries, path.name) \in Seq(Characters)
      BY <2>1, <3>4, JoinedType DEF TextIn
    <3>6. QED
      BY <3>5, StoreAssumption
  <2>5. text \in Store!Edited(TextIn(entries, path.name))
    BY <2>4 DEF Store!Edited
  <2> HIDE DEF changed, text
  <2>6. QED
    BY <1>1, <1>2, <2>3, <2>5, EditStep
<1>6. CASE found = 0
  <2> DEFINE new == NewEntry(path.name, <<>>)
             entry == Written(new, c)
             text == IF Named(entries, path.name) = {} THEN <<c>>
                     ELSE TextIn(entries, path.name)
  <2>1. entry \in SizedEntries /\ entry.name = path.name /\ Joined(entry.content) = <<c>>
    BY <1>2, WrittenNew
  <2>2. new \in SizedEntries
    <3>1. <<>> \in Seq(Line)
      OBVIOUS
    <3>2. QED
      BY <1>2, <3>1, SizedNew
  <2>3. changed = Append(entries, entry)
    <3> DEFINE longer == Append(entries, new)
    <3>1. /\ longer \in Seq(SizedEntries) /\ Len(longer) = Len(entries) + 1
          /\ \A i \in 1..Len(entries) : longer[i] = entries[i]
          /\ longer[Len(entries) + 1] = new
      BY <1>3, <2>2, AppendProperties
    <3>2. with = longer /\ at = Len(entries) + 1
      BY <1>6, <3>1
    <3>3. changed = [longer EXCEPT ![Len(entries) + 1] = entry]
      BY <3>1, <3>2 DEF ReplaceAt
    <3> HIDE DEF longer, entries, entry, changed
    <3>4. Len(entries) \in Nat /\ Len(entries) + 1 \in 1..Len(longer)
      BY <1>3, <3>1
    <3>5. /\ changed \in Seq(SizedEntries) /\ Len(changed) = Len(entries) + 1
          /\ \A i \in 1..Len(changed) :
               changed[i] = IF i = Len(entries) + 1 THEN entry ELSE longer[i]
      BY <2>1, <3>1, <3>3, <3>4, ExceptSeq
    <3>6. /\ Append(entries, entry) \in Seq(SizedEntries)
          /\ Len(Append(entries, entry)) = Len(entries) + 1
          /\ \A i \in 1..Len(entries) : Append(entries, entry)[i] = entries[i]
          /\ Append(entries, entry)[Len(entries) + 1] = entry
      BY <1>3, <2>1, AppendProperties
    <3>7. \A i \in 1..Len(changed) : changed[i] = Append(entries, entry)[i]
      BY <3>1, <3>4, <3>5, <3>6
    <3>8. QED
      BY <3>5, <3>6, <3>7, SeqEqual
  <2>4. Edits(Append(entries, entry), entries, path.name, text)
    <3> HIDE DEF entries, entry
    <3>1. QED
      BY <1>3, <2>1, TextAppend DEF Edits
  <2>5. text = TextIn(entries, path.name)
        \/ text \in Store!Edited(TextIn(entries, path.name))
    BY DEF TextIn, Store!Edited
  <2> HIDE DEF changed, text, entry
  <2>6. QED
    BY <1>1, <1>2, <2>3, <2>4, <2>5, EditStep
<1>7. QED
  BY <1>5, <1>6

LEMMA StoreClient ==
  ASSUME TreesInvariant, NEW d \in Devices, Client(d) PROVE [Store!Next]_(Store!vars)
<1>1. DOMAIN tree = Devices /\ DOMAIN state = Devices
  BY DEF TreesInvariant, SizeInvariant
<1>2. ASSUME ~ Uses(d), state' = [state EXCEPT ![d] = "running"], NEW t,
             tree' = [tree EXCEPT ![d] = t], file' = file
      PROVE  Store!Enter(d, Texts(t)) /\ Disk' = Disk
  <2>1. d \notin Users /\ Users' = Users \cup {d}
    BY <1>1, <1>2 DEF Users, Uses
  <2>2. View' = [View EXCEPT ![d] = Texts(t)]
    BY <1>1, <1>2 DEF View
  <2>3. QED
    BY <1>2, <2>1, <2>2 DEF Store!Enter, View, Users, Disk
<1>3. CASE Load(d)
  <2>1. ~ Uses(d) /\ Disk = Texts(Loaded(file)) /\ Disk # Unreadable
    BY <1>3, TextsOpen, SizedLoaded
    DEF Load, Off, Uses, CanLoad, Disk, Cut, TreesInvariant
  <2>2. Store!Enter(d, Disk) /\ Disk' = Disk
    BY <1>2, <1>3, <2>1 DEF Load
  <2>3. Store!Open(d)
    BY <2>1, <2>2 DEF Store!Open, Disk
  <2>4. QED
    BY <2>3 DEF Store!Next
<1>4. CASE LoadUnopened(d)
  <2>1. ~ Uses(d)
    BY <1>4 DEF LoadUnopened, Off, Uses
  <2>2. Store!Enter(d, NoTexts) /\ Disk' = Disk
    BY <1>2, <1>4, <2>1, FreshTexts DEF LoadUnopened
  <2>3. Store!OpenBlind(d)
    BY <2>2 DEF Store!OpenBlind, Store!NoFiles, NoTexts, Files, Disk
  <2>4. QED
    BY <2>3 DEF Store!Next
<1>5. CASE LoadThrows(d)
  <2>1. View' = View /\ Disk' = Disk /\ Users' = Users
    BY <1>5 DEF LoadThrows, Off, View, Users, Uses, Disk, TreesInvariant
  <2>2. QED
    BY <2>1 DEF Store!vars, View, Disk, Users
<1>6. CASE OpenForSave(d)
  <2>1. d \in Users /\ Users' = Users /\ View' = View /\ Disk' = Unreadable
    BY <1>6 DEF OpenForSave, View, Users, Uses, Disk, Cut, TreesInvariant
  <2>2. Store!StartClosing(d)
    BY <2>1 DEF Store!StartClosing, View, Disk, Users
  <2>3. QED
    BY <2>2 DEF Store!Next
<1>7. ASSUME Uses(d), state' = [state EXCEPT ![d] = "off"],
             tree' = [tree EXCEPT ![d] = <<>>]
      PROVE  Store!Leave(d)
  <2>1. d \in Users /\ Users' = Users \ {d}
    BY <1>1, <1>7 DEF Users, Uses
  <2>2. View' = [View EXCEPT ![d] = NoTexts]
    BY <1>1, <1>7, FreshTexts DEF View
  <2>3. QED
    BY <2>1, <2>2 DEF Store!Leave, Store!NoFiles, View, Users, NoTexts, Files
<1>8. CASE WriteOut(d)
  <2>1. Store!Leave(d)
    BY <1>7, <1>8 DEF WriteOut, Uses
  <2>2. View[d] = Texts(tree[d])
    BY DEF View
  <2>3. Disk' \in {View[d], Unreadable}
    BY <1>8, <2>2 DEF WriteOut, Disk, Cut, Loaded
  <2>4. Store!Close(d)
    BY <2>1, <2>3 DEF Store!Close, View, Disk
  <2>5. QED
    BY <2>4 DEF Store!Next
<1>9. CASE SaveNowhere(d) \/ Crash(d)
  <2>1. Store!Leave(d)
    BY <1>7, <1>9 DEF SaveNowhere, Crash, Uses
  <2>2. Disk' \in {Disk, Unreadable}
    BY <1>9 DEF SaveNowhere, Crash, Disk, Cut
  <2>3. Store!Die(d)
    BY <2>1, <2>2 DEF Store!Die, View, Disk
  <2>4. QED
    BY <2>3 DEF Store!Next
<1>10. QED
  BY <1>3, <1>4, <1>5, <1>6, <1>8, <1>9, CreateStep, AppendStep DEF Client

LEMMA StoreInit == ASSUME Init PROVE Store!Init
<1>1. View = [d \in Devices |-> NoTexts] /\ Users = {}
  BY FreshTexts DEF Init, View, Users, Uses
<1>2. Disk = NoTexts
  <2>1. ~ Cut(file) /\ \A dir \in DOMAIN Loaded(file) : Loaded(file)[dir] = <<>>
    BY DEF Init, Cut, Loaded, Fresh
  <2>2. QED
    BY <2>1, EmptyTexts DEF Disk
<1>3. QED
  BY <1>1, <1>2 DEF Store!Init, Store!NoFiles, View, Users, Disk, NoTexts, Files

(* Every behaviour of the devices is one of the store of texts.            *)
THEOREM DevicesImplementStore == Spec => StoresTexts
<1>1. TreesInvariant /\ [Next]_vars => [Store!Next]_(Store!vars)
  <2>1. ASSUME TreesInvariant, Next PROVE [Store!Next]_(Store!vars)
    BY <2>1, StoreClient DEF Next
  <2>2. ASSUME UNCHANGED vars PROVE UNCHANGED Store!vars
    BY <2>2 DEF vars, Store!vars, Uses
  <2>3. QED
    BY <2>1, <2>2
<1>2. QED
  BY <1>1, TreesInit, TreesStep, StoreInit, PTL DEF Spec, StoresTexts, Store!Spec

==============================================================================
