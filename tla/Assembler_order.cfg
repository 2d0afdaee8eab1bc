CONSTANTS
  MaxLines = 5
  NoName = NoName
  start = start
  loop = loop
  x = x
  X = X
  Names <- MCNames
  Lower <- MCLower
  EntryPoint = start
  Arguments = {"none"}
  Programs <- CodeFiles
  TextStart = 0
  DataStart = 40
  BssStart = 46
  StackBottom = 54
SPECIFICATION Spec
INVARIANTS
  LabelsAlwaysMeetCode
