\* A playout's end deletes the event that has come to stand at its index.
SPECIFICATION Spec
CONSTANTS
  Ids = {1, 2}
  Schedules <- Playouts
  MaxStarts = 2
  MaxEdits = 1
  MaxCrashes = 0
CHECK_DEADLOCK FALSE
INVARIANTS PurgedWhenDone
