\* Songs and macros that the operator starts and stops, one with a hard start that waits.
SPECIFICATION FairSpec
CONSTANTS
  NLines = 3
  Logs <- EndsLog
  NDecks = 3
  MaxPlays = 3
  Modes = {"Auto", "Manual"}
  Commands = {"play", "stop", "mode"}
  MaxCommands = 2
  MaxTime = 1
  Timed = "Segue"
  Prompt = TRUE
CHECK_DEADLOCK FALSE
PROPERTIES LogRunsOut LinesEnd WaitEnds
