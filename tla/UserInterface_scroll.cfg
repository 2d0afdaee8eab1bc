SPECIFICATION Spec
CONSTANTS
  Programs <- MCPrograms
  Visible = 3
  Registers = 4
  Peek = 3
  YmmModes = 2
  Values = {idle, busy}
PROPERTY
  DownScrolls
CHECK_DEADLOCK FALSE
