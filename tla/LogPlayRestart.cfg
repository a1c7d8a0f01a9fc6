\* A line that is started before its hard start time is started again: dead air.
SPECIFICATION Spec
CONSTANTS
  NLines = 4
  Logs <- RestartLog
  NDecks = 3
  MaxPlays = 3
  Modes = {"Auto"}
  Commands = {"play"}
  MaxCommands = 1
  MaxTime = 2
  Timed = "Segue"
  Prompt = TRUE
CHECK_DEADLOCK FALSE
INVARIANTS NeverDeadAir
