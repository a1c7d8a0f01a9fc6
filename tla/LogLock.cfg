\* Two processes of any two programs, one log and the name of another.
SPECIFICATION FairSpec
CONSTANTS
  u1 = u1
  u2 = u2
  l1 = l1
  l2 = l2
  Logs = {l1, l2}
  Users = {u1, u2}
  Kinds <- EveryKind
  Timeout = 2
  SaveTicks = 1
  MaxSaves = 2
  NoOne = NoOne
  Dead = Dead
CHECK_DEADLOCK FALSE
INVARIANT TypeOK
PROPERTIES HolderWrites OneSave NoLostUpdate DeadLocksExpire
