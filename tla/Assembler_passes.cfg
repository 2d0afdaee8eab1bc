CONSTANTS
  MaxLines = 5
  NoName = NoName
  start = start
  loop = loop
  x = x
  X = X
  Names <- MCNames
  Lower <- MCLower
  EntryPoint = start
  Arguments = {"none"}
  Programs <- AllFiles
  TextStart = 0
  DataStart = 24
  BssStart = 30
  StackBottom = 40
SPECIFICATION FairSpec
INVARIANTS
  TypeOK
  LabelsMeetCode
  
  LabelInvariant
  StorageIsDisjoint
  SweepFindsInstructions
PROPERTIES
  LoadEnds
