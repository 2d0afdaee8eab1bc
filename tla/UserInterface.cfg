SPECIFICATION FairSpec
CONSTANTS
  Programs <- MCPrograms
  Visible = 3
  Registers = 4
  Peek = 3
  YmmModes = 2
  Values = {idle, busy}
INVARIANTS
  UITypeOK
  NothingScrollsOut
  ScreenShowsState
  CurrentIsShown
PROPERTIES
  EndTearsDown
CHECK_DEADLOCK FALSE
