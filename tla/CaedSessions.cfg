\* Two clients, one card with two streams, two loads each, the callback split.
SPECIFICATION Spec
CONSTANTS
  c1 = c1
  c2 = c2
  card0 = card0
  jack = jack
  Conns = {c1, c2}
  Cards = {card0}
  Drivers = {jack}
  DriverOf <- OneCard
  FirstCard = card0
  NStreams = 2
  Ports = {}
  MaxSerial = 2
  MaxLevel = 1
  FadeTargets = {}
  Lengths = {1}
  SplitCallback = TRUE
  NoStream = NoStream
  NoOwner = NoOwner
  NoFade = NoFade
SYMMETRY Clients
INVARIANTS TypeOK SessionsSafe NoOrphanStream
PROPERTIES ImplementsSessions
