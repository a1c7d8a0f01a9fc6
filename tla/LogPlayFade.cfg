\* A segue out of a line that fades into what ends at once: dead air.
SPECIFICATION Spec
CONSTANTS
  NLines = 3
  Logs <- FadeLog
  NDecks = 3
  MaxPlays = 3
  Modes = {"Auto"}
  Commands = {"play"}
  MaxCommands = 1
  MaxTime = 0
  Timed = "Segue"
  Prompt = TRUE
CHECK_DEADLOCK FALSE
INVARIANTS NeverDeadAir
