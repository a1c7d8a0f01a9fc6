\* An instance here and one elsewhere, two changes by rdadmin, one fault.
SPECIFICATION FairSpec
CONSTANTS
  p1 = p1
  p2 = p2
  None = None
  Order <- Few
  Routines = {"local"}
  MaxKids = 2
  Ids = {p1, p2}
  Mine = {p1}
  MaxChanges = 2
  MaxFaults = 1
CHECK_DEADLOCK FALSE
INVARIANTS TypeOK TablesTrue BoxesCurrent PadsCurrent
PROPERTIES StationComesBack PadsSettle
