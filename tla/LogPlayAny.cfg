\* Every log of three lines, and every hard start time that does not wait; started once.
SPECIFICATION Spec
CONSTANTS
  NLines = 3
  Logs <- WholeLog
  NDecks = 3
  MaxPlays = 3
  Modes = {"Auto"}
  Commands = {"play"}
  MaxCommands = 1
  MaxTime = 3
  Timed = "Segue"
  Prompt = TRUE
CHECK_DEADLOCK FALSE
INVARIANTS TypeOK HardTimesKept NoDeadAir
PROPERTIES ImplementsPlaylist NotCutOff
