SPECIFICATION BusSpec
CONSTANTS
  Devices = {d1, d2}
  Simulators = {d1}
  Configurations <- MCConfigurations
  Sources = {prime, alpha}
  prime = prime
  alpha = alpha
  NoConfiguration = NoConfiguration
  Root = "root"
  Subdirectories = {"sub"}
  Names = {"f"}
  Characters = {"a", "newline"}
  Newline = "newline"
  Contents <- MCContents
  MaxFiles = 2
  MaxSize = 4
  None = None
  Unreadable = Unreadable
INVARIANTS
  FileSystemTypeOK
  SizesCount
  RunsAllOrNothing
PROPERTIES
  StoresTexts
  StaysUnreadable
  SavesAfterRun
