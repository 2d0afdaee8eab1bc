CONSTANTS
  MaxLines = 5
  NoName = NoName
  start = start
  loop = loop
  x = x
  X = X
  Names <- MCNames
  Lower <- MCLower
  EntryPoint = start
  Arguments = {"none"}
  Programs <- StorageFiles
  TextStart = 0
  DataStart = 14
  BssStart = 20
  StackBottom = 34
SPECIFICATION Spec
INVARIANTS
  AllStorageIsDisjoint
