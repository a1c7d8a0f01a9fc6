\* Any two events of any kind, an RML recording, an edit and a crash.
SPECIFICATION FairSpec
CONSTANTS
  Ids = {1, 2}
  Schedules <- EveryKind
  MaxStarts = 2
  MaxEdits = 1
  MaxCrashes = 1
CHECK_DEADLOCK FALSE
INVARIANTS TypeOK ActiveIsLive DeckTracksPort RightCut OnceOnly
PROPERTIES DecksComeBack
