SPECIFICATION Spec
CONSTANTS
  Width <- MCWiderWidth
  Highs <- MCNoHighs
  Lanes <- MCLanes
  WordBits = 2
  ShortBits = 3
  Rounded <- MCRounded
  MappedVectors = {0, 1}
  UnmappedVectors = {2}
  Words <- MCNoWords
  Shorts <- MCNoWords
  Floats <- MCNoFloats
INVARIANTS
  ShlSetsCarry
CHECK_DEADLOCK FALSE
