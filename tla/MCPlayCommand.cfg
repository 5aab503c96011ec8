\* gosible play from its start to the executor.
CONSTANTS
  Words <- MCWords
  Files <- MCFiles
  BaseYml <- Base
  Null = Null
  Modules = {"command", "copy"}
  Freeform = {"command"}
  MaxPlays = 2
  MaxRoom = 3
  MaxExtra = 4
SPECIFICATION Spec
INVARIANTS  ParsedFaithfully SettingsWhole
CHECK_DEADLOCK FALSE
