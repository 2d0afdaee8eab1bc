CONSTANTS
  MaxLines = 4
  NoName = NoName
  start = start
  loop = loop
  x = x
  Names <- MCNames
  Lower <- MCLower
  EntryPoint = start
  Registers <- MCRegisters
  Arguments <- MCArguments
  WordSize = 4
  ByteSize = 2
  AddressSize = 128
  Programs <- ComparingFiles
  TextStart = 0
  DataStart = 24
  BssStart = 26
  StackBottom = 48
SPECIFICATION RunSpec
PROPERTIES
  GreaterOrEqualJumps
