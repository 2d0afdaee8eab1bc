SPECIFICATION Spec
CONSTANTS
  Width <- MCWidth
  Highs <- MCHighs
  Lanes <- MCLanes
  WordBits = 2
  ShortBits = 3
  Rounded <- MCRounded
  MappedVectors = {0, 1}
  UnmappedVectors = {2}
  Words <- MCWords
  Shorts <- MCShorts
  Floats <- MCFloats
INVARIANTS
  ExecutorTypeOK
  RegisterParts
  ArithmeticExact
  ShiftsRepeat
  ShortShiftsRepeat
  DivisionExact
  PackedExact
  MigrationAgrees
  JumpsDecide
  RotatesRepeat
  IdivExact
CHECK_DEADLOCK FALSE
