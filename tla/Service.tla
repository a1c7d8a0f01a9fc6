------------------------------ MODULE Service ------------------------------
(***************************************************************************)
(* rdservice: systemd keeps it running; it starts the station's daemons in *)
(* a fixed order and one rdimport per dropbox, runs rdmaint now and then,  *)
(* and starts the dropboxes anew when it is sent a SIGUSR1.                *)
(*                                                                         *)
(* Its children stand in svc_processes, one per id.  Only the maintenance  *)
(* processes are listened to when they end; a daemon that dies is neither  *)
(* noticed nor replaced.  When rdservice ends, systemd kills the rest of   *)
(* the unit.                                                               *)
(***************************************************************************)
EXTENDS Integers, Sequences, SequencesExt

CONSTANTS
  Order,    \* the daemons, in the order Startup() starts them
  Routines, \* "local" and "system" maintenance
  MaxKids   \* bound: processes of one routine at a time

Daemons == Range(Order)

VARIABLES
  svc,     \* "down", "starting", "up", or "reloading" the dropboxes
  started, \* how far Startup() has come
  alive,   \* the daemons that run
  table,   \* of each routine: svc_processes has an entry for it
  kids,    \* of each routine: its processes
  doubled, \* a routine was started while it was running, since the last start
  boxes,   \* the version of DROPBOXES the dropboxes run, 0 if not all of them do
  usr1,    \* global_reload_dropboxes
  pid      \* rdservice.pid names this rdservice

service == <<svc, started, alive, table, kids, doubled, boxes, usr1, pid>>

ServiceInit ==
  /\ svc = "down" /\ started = 0 /\ alive = {}
  /\ table = [m \in Routines |-> FALSE] /\ kids = [m \in Routines |-> 0]
  /\ doubled = FALSE /\ boxes = 0 /\ usr1 = FALSE /\ pid = FALSE

\* Restart=always.
SystemdStarts ==
  /\ svc = "down"
  /\ svc' = "starting"
  /\ UNCHANGED <<started, alive, table, kids, doubled, boxes, usr1, pid>>

\* Startup() waits until the program runs, not until it listens.
StartDaemon ==
  /\ svc = "starting" /\ started < Len(Order)
  /\ started' = started + 1
  /\ alive' = alive \union {Order[started + 1]}
  /\ UNCHANGED <<svc, table, kids, doubled, boxes, usr1, pid>>

StartDropboxes(version) ==
  /\ svc = "starting" /\ started = Len(Order)
  /\ started' = started + 1
  /\ boxes' = version
  /\ UNCHANGED <<svc, alive, table, kids, doubled, usr1, pid>>

\* Mutant: rdservice waits until every daemon answers.
WritePidWhenAllAlive ==
  /\ svc = "starting" /\ started > Len(Order) /\ alive = Daemons
  /\ svc' = "up" /\ pid' = TRUE
  /\ UNCHANGED <<started, alive, table, kids, doubled, boxes, usr1>>

\* The last thing the constructor does.
WritePid ==
  /\ svc = "starting" /\ started > Len(Order)
  /\ svc' = "up" /\ pid' = TRUE
  /\ UNCHANGED <<started, alive, table, kids, doubled, boxes, usr1>>

\* Startup() cannot start something, rdservice is told to end, or it crashes.
\* After a crash the file stays, and names nobody.
ServiceEnds ==
  /\ svc' = "down" /\ started' = 0 /\ alive' = {}
  /\ table' = [m \in Routines |-> FALSE] /\ kids' = [m \in Routines |-> 0]
  /\ doubled' = FALSE /\ boxes' = 0 /\ usr1' = FALSE /\ pid' = FALSE

DaemonEnds(gone) ==
  /\ svc # "down"
  /\ gone \subseteq alive
  /\ alive' = alive \ gone
  /\ UNCHANGED <<svc, started, table, kids, doubled, boxes, usr1, pid>>

\* checkMaintData(), RunEphemeralProcess(): whatever stands in the table goes.
MaintDue(m) ==
  /\ svc = "up" /\ kids[m] < MaxKids
  /\ table' = [table EXCEPT ![m] = TRUE]
  /\ kids' = [kids EXCEPT ![m] = @ + 1]
  /\ doubled' = (doubled \/ kids[m] > 0)
  /\ UNCHANGED <<svc, started, alive, boxes, usr1, pid>>

\* It does not start: its entry goes, and with it that of a run before it.
MaintFails(m) ==
  /\ svc = "up"
  /\ table' = [table EXCEPT ![m] = FALSE]
  /\ doubled' = (doubled \/ kids[m] > 0)
  /\ UNCHANGED <<svc, started, alive, kids, boxes, usr1, pid>>

\* processFinishedData(): the entry of the id is removed, whoever has ended.
\* rdmaint does nothing, and does not end, before ripcd has answered it.
MaintEnds(m) ==
  /\ svc = "up" /\ kids[m] > 0 /\ "ripcd" \in alive
  /\ table[m]
  /\ table' = [table EXCEPT ![m] = FALSE]
  /\ kids' = [kids EXCEPT ![m] = @ - 1]
  /\ UNCHANGED <<svc, started, alive, doubled, boxes, usr1, pid>>

\* Without an entry it uses the null pointer it finds.
FindsNoEntry(m) == svc = "up" /\ kids[m] > 0 /\ "ripcd" \in alive /\ ~table[m]

\* SIGUSR1, from ripcd, which takes the process id from the file.
Signal == usr1' = (usr1 \/ (svc # "down" /\ pid))

\* Mutant: the dropboxes are started anew from what was read before.
ReloadBeginsStale(version) ==
  /\ svc = "up" /\ usr1
  /\ svc' = "reloading"
  /\ boxes' = IF boxes = 0 THEN version ELSE boxes
  /\ UNCHANGED <<started, alive, table, kids, doubled, usr1, pid>>

\* exitData(): the flag is only taken back when the new dropboxes run.
ReloadBegins(version) ==
  /\ svc = "up" /\ usr1
  /\ svc' = "reloading"
  /\ boxes' = version
  /\ UNCHANGED <<started, alive, table, kids, doubled, usr1, pid>>

\* A dropbox does not start: those after it are not tried, and nobody is told.
ReloadFails ==
  /\ svc = "up" /\ usr1
  /\ svc' = "reloading"
  /\ boxes' = 0
  /\ UNCHANGED <<started, alive, table, kids, doubled, usr1, pid>>

ReloadEnds ==
  /\ svc = "reloading"
  /\ svc' = "up" /\ usr1' = FALSE
  /\ UNCHANGED <<started, alive, table, kids, doubled, boxes, pid>>
=============================================================================
