\* Three requests of any kind, two of them at a time, two steps that fail and a reboot.
SPECIFICATION Spec
CONSTANTS
  a = a
  b = b
  h1 = h1
  h2 = h2
  Tabs = {a, b}
  Hosts = {h1, h2}
  Local = Local
  None = None
  Requests <- EveryRequest
  MaxAsks = 3
  MaxFaults = 2
  MaxReboots = 1
CHECK_DEADLOCK FALSE
CONSTRAINT Explored
SYMMETRY SameTabs
INVARIANTS TypeOK FilesWhole Agrees MountedOnce
