CONSTANTS
  MaxLines = 5
  NoName = NoName
  start = start
  loop = loop
  x = x
  Names <- MCNames
  Lower <- MCLower
  EntryPoint = start
  Registers <- MCRegisters
  Arguments <- MCArguments
  WordSize = 4
  ByteSize = 2
  AddressSize = 128
  Programs <- AllFiles
  TextStart = 0
  DataStart = 30
  BssStart = 32
  StackBottom = 48
SPECIFICATION FairRunSpec
INVARIANTS
  RunTypeOK
  
  NeverWraps
  WrapInvariant
PROPERTIES
  RunsAsWritten
  HeadlessEnds
