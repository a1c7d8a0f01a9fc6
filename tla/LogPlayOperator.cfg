\* Songs, and an operator who does anything.
SPECIFICATION Spec
CONSTANTS
  NLines = 2
  Logs <- SongLog
  NDecks = 3
  MaxPlays = 3
  Modes = {"Auto", "LiveAssist"}
  Commands = {"play", "stop", "pause", "next", "mode"}
  MaxCommands = 4
  MaxTime = 0
  Timed = "Segue"
  Prompt = TRUE
CHECK_DEADLOCK FALSE
INVARIANTS DecksMatch NoCollision
PROPERTIES ImplementsPlaylist
