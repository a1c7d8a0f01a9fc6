\* Two clients share one stream and one capture port: what they start comes to an end.
SPECIFICATION FairSpec
CONSTANTS
  c1 = c1
  c2 = c2
  card0 = card0
  jack = jack
  Conns = {c1, c2}
  Cards = {card0}
  Drivers = {jack}
  DriverOf <- OneCard
  FirstCard = card0
  NStreams = 1
  Ports = {1}
  MaxSerial = 1
  MaxLevel = 1
  FadeTargets = {0, 1}
  Lengths <- AllLengths
  SplitCallback = FALSE
  NoStream = NoStream
  NoOwner = NoOwner
  NoFade = NoFade
INVARIANTS StopPending OwnersKnown
PROPERTIES PlayEnds LimitedRecordingEnds
