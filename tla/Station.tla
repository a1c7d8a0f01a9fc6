------------------------------ MODULE Station ------------------------------
(***************************************************************************)
(* One station's services together: rdservice and its daemons, ripcd,      *)
(* rdpadd, rdpadengined with its scripts, and one rdadmin anywhere, which  *)
(* changes DROPBOXES and PYPAD_INSTANCES and then sends a notification.    *)
(*                                                                         *)
(* A notification reaches the station's ripcd or is lost; ripcd sends      *)
(* rdservice a SIGUSR1 or passes it on to rdpadengined, and keeps nothing  *)
(* for those who come later.                                               *)
(***************************************************************************)
EXTENDS Service, PadEngine

CONSTANTS
  None,
  MaxChanges, \* bound: what rdadmin does
  MaxFaults   \* bound: daemons, scripts and services that end

ASSUME StationAssumption ==
  /\ Mine \subseteq Ids /\ Ids # {}
  /\ Order \in Seq(Range(Order)) /\ IsInjective(Order)
  /\ {"ripcd", "rdpadd", "rdpadengined"} \subseteq Range(Order)
  /\ None \notin [act : {"add", "modify", "delete", "boxes"}, id : Ids]
  /\ MaxKids \in Nat /\ MaxChanges \in Nat /\ MaxFaults \in Nat

VARIABLES
  drops,    \* the version of DROPBOXES
  dialog,   \* what rdadmin has written and not yet notified of, or None
  listens,  \* rdpadd listens
  lostBoxes, lostPads, \* a notification was lost and may have been needed, or
                       \* a dropbox could not be started
  changes, faults

admin == <<drops, dialog, changes>>
lost == <<lostBoxes, lostPads>>
vars == <<svc, started, alive, table, kids, doubled, boxes, usr1, pid,
          engine, rows, status, proc, strays, early, notes,
          drops, dialog, listens, lostBoxes, lostPads, changes, faults>>

Init ==
  /\ ServiceInit /\ PadInit
  /\ drops = 1 /\ dialog = None /\ listens = FALSE
  /\ lostBoxes = FALSE /\ lostPads = FALSE
  /\ changes = 0 /\ faults = 0
-----------------------------------------------------------------------------
(* rdservice.                                                              *)

Fault == faults < MaxFaults /\ faults' = faults + 1

Starting ==
  /\ \/ SystemdStarts \/ StartDaemon \/ WritePid
     \/ StartDropboxes(drops)
  /\ UNCHANGED <<listens, faults>> /\ UNCHANGED <<pads, admin, lost>>

\* The daemon's own start.
PadEngineStarts ==
  /\ "rdpadengined" \in alive
  /\ EngineStarts
  /\ UNCHANGED <<listens, faults>> /\ UNCHANGED <<service, admin, lost>>

PadListens ==
  /\ "rdpadd" \in alive /\ ~listens
  /\ listens' = TRUE
  /\ UNCHANGED faults /\ UNCHANGED <<service, pads, admin, lost>>

\* Everything of the unit is killed, and nothing is owed to it any more.
UnitEnds ==
  /\ ServiceEnds /\ EngineAndScriptsEnd
  /\ listens' = FALSE /\ lostBoxes' = FALSE /\ lostPads' = FALSE
  /\ UNCHANGED admin

\* Startup() fails, or rdservice is stopped or killed.
ServiceStops == svc # "down" /\ Fault /\ UnitEnds

\* rdservice crashes on the end of a process it has no entry for.
ServiceCrashes ==
  /\ \E m \in Routines : FindsNoEntry(m)
  /\ UnitEnds /\ UNCHANGED faults

Maintenance ==
  /\ \E m \in Routines : \/ (MaintDue(m) \/ MaintEnds(m)) /\ UNCHANGED faults
                         \/ MaintFails(m) /\ Fault
  /\ UNCHANGED listens /\ UNCHANGED <<pads, admin, lost>>

\* What is read now is current: nothing lost before matters, if all of it starts.
Reload ==
  /\ \/ ReloadBegins(drops) /\ lostBoxes' = FALSE /\ UNCHANGED faults
     \/ ReloadFails /\ lostBoxes' = TRUE /\ Fault
     \/ ReloadEnds /\ UNCHANGED <<lostBoxes, faults>>
  /\ UNCHANGED <<listens, lostPads>> /\ UNCHANGED <<pads, admin>>

\* A daemon dies; ripcd takes its connections with it, rdpadd the scripts.
RipcdDies ==
  /\ Fault /\ "ripcd" \in alive /\ DaemonEnds({"ripcd"})
  /\ UNCHANGED listens /\ UNCHANGED <<pads, admin, lost>>

PaddDies ==
  /\ Fault /\ "rdpadd" \in alive /\ DaemonEnds({"rdpadd"})
  /\ listens' = FALSE
  /\ ScriptsLosePad
  /\ UNCHANGED <<engine, rows, status, strays, early, notes>>
  /\ UNCHANGED <<admin, lost>>
-----------------------------------------------------------------------------
(* rdpadengined.                                                           *)

PadStep ==
  /\ \/ "ripcd" \in alive /\ (Joins \/ Answers)
     \/ Connected \/ Added \/ Modified \/ Deleted
     \/ \E id \in Ids : Finished(id) \/ ScriptBoots(id, listens)
  /\ UNCHANGED <<listens, faults>> /\ UNCHANGED <<service, admin, lost>>

\* A script fails by itself.
PadFault ==
  /\ Fault /\ \E id \in Ids : ScriptFails(id)
  /\ UNCHANGED listens /\ UNCHANGED <<service, admin, lost>>

EngineDies ==
  /\ DeletesNothing
  /\ DaemonEnds({"rdpadengined"})
  /\ UNCHANGED <<listens, faults>> /\ UNCHANGED <<admin, lost>>

\* A process ends whose place was taken; the engine may be gone after it.
StrayGoes ==
  /\ \E id \in Ids : StrayEnds(id)
  /\ IF engine' = "down" THEN DaemonEnds({"rdpadengined"}) ELSE UNCHANGED service
  /\ UNCHANGED <<listens, faults>> /\ UNCHANGED <<admin, lost>>
-----------------------------------------------------------------------------
(* rdadmin: the row is written first, the notification follows when the    *)
(* dialog is closed.                                                       *)

Writes(act, id) ==
  /\ dialog = None /\ changes < MaxChanges
  /\ changes' = changes + 1
  /\ dialog' = [act |-> act, id |-> id]
  /\ UNCHANGED <<listens, faults>> /\ UNCHANGED <<service, lost>>

SetRow(id, version) ==
  /\ rows' = [rows EXCEPT ![id] = version]
  /\ UNCHANGED <<engine, status, proc, strays, early, notes, drops>>

AddPad(id)    == rows[id] = -1 /\ Writes("add", id) /\ SetRow(id, 1)
EditPad(id)   == rows[id] > 0 /\ Writes("modify", id) /\ SetRow(id, rows[id] + 1)
DeletePad(id) == rows[id] > 0 /\ Writes("delete", id) /\ SetRow(id, 0)

ChangeBoxes ==
  /\ Writes("boxes", CHOOSE id \in Ids : TRUE)
  /\ drops' = drops + 1
  /\ UNCHANGED pads

\* The new instance is given up: the row goes, and nobody is told.
CancelAdd ==
  /\ dialog # None /\ dialog.act = "add"
  /\ SetRow(dialog.id, 0)
  /\ dialog' = None
  /\ lostPads' = (lostPads \/ proc[dialog.id].state # "none")
  /\ UNCHANGED <<listens, lostBoxes, changes, faults>> /\ UNCHANGED service

\* RunLocalNotifications(), BroadcastCommand().
Notified ==
  /\ "ripcd" \in alive
  /\ IF dialog.act = "boxes" THEN Signal /\ UNCHANGED notes
     ELSE Notify(dialog.act, dialog.id) /\ UNCHANGED usr1

\* What nobody was there for, or what the end of a reload takes back.
Missed(heard) ==
  /\ lostBoxes' = (lostBoxes \/ (/\ dialog.act = "boxes" /\ started > Len(Order)
                                 /\ ~heard \/ ~pid \/ svc = "reloading"))
  /\ lostPads' = (lostPads \/ (dialog.act # "boxes" /\ ~heard))

\* It arrives, or ripcd is dead, or rdadmin is at another station, whose ripcd
\* multicasts it in a datagram that is lost.
Sends ==
  /\ dialog # None
  /\ \/ Notified /\ Missed(TRUE)
     \/ UNCHANGED <<usr1, notes>> /\ Missed(FALSE)
  /\ dialog' = None
  /\ UNCHANGED <<svc, started, alive, table, kids, doubled, boxes, pid,
                 engine, rows, status, proc, strays, early, drops, listens, changes, faults>>

Next ==
  \/ Starting \/ PadEngineStarts \/ PadListens
  \/ ServiceStops \/ ServiceCrashes \/ Maintenance \/ Reload
  \/ RipcdDies \/ PaddDies
  \/ PadStep \/ PadFault \/ EngineDies \/ StrayGoes
  \/ \E id \in Ids : AddPad(id) \/ EditPad(id) \/ DeletePad(id)
  \/ ChangeBoxes \/ CancelAdd \/ Sends

\* systemd, rdservice's event loop, the engine's and the scripts go on;
\* nothing makes rdadmin act or close its dialog.
Fairness ==
  /\ WF_vars(Starting) /\ WF_vars(PadEngineStarts) /\ WF_vars(PadListens)
  /\ WF_vars(ServiceCrashes) /\ WF_vars(Reload) /\ WF_vars(PadStep)
  /\ WF_vars(EngineDies)

Spec == Init /\ [][Next]_vars
FairSpec == Spec /\ Fairness
-----------------------------------------------------------------------------
(* Properties.                                                             *)

\* Every variable is in its range.
TypeOK ==
  /\ svc \in {"down", "starting", "up", "reloading"}
  /\ started \in 0..(Len(Order) + 1) /\ alive \subseteq Daemons
  /\ table \in [Routines -> BOOLEAN] /\ kids \in [Routines -> 0..MaxKids]
  /\ {doubled, usr1, pid, early, listens, lostBoxes, lostPads} \subseteq BOOLEAN
  /\ boxes \in 0..drops /\ drops \in 1..(MaxChanges + 1)
  /\ engine \in {"down", "waiting", "joined", "up"}
  /\ rows \in [Ids -> -1..(MaxChanges + 1)]
  /\ status \in [Ids -> {"N", "Y"} \union Failed]
  /\ proc \in [Ids -> [state : {"none", "booting", "running"} \union Ends,
                       ver : 0..(MaxChanges + 1), stay : BOOLEAN]]
  /\ strays \in [Ids -> 0..MaxChanges] /\ Len(notes) <= MaxChanges + 1
  /\ changes \in 0..MaxChanges /\ faults \in 0..MaxFaults

\* svc_processes knows the maintenance that runs, and rdservice does not crash,
\* unless a routine was due before its last run had ended.  pad_instances knows
\* the scripts, one process each, unless a notification reached the engine
\* before ripcd's first answer did.
TablesTrue ==
  /\ ~doubled => \A m \in Routines : table[m] = (kids[m] > 0)
  /\ ~early => \A id \in Ids : strays[id] = 0

\* Nothing is under way between rdadmin and the dropboxes.
BoxesQuiet == svc = "up" /\ ~usr1 /\ (dialog = None \/ dialog.act # "boxes")

\* The dropboxes run what DROPBOXES says, unless a notification was lost on its
\* way, came while ripcd was dead, before the pid file was written or during a
\* reload, or a dropbox could not be started.
BoxesCurrent == BoxesQuiet /\ ~lostBoxes => boxes = drops

\* Nothing is under way in the engine and its scripts.
PadsQuiet ==
  /\ engine = "up" /\ notes = <<>>
  /\ \A id \in Ids : proc[id].state \in {"none", "running"} /\ strays[id] = 0

\* Each instance of the station runs with the configuration in its row, or the
\* row says that it failed; nothing else runs.  Where nothing went wrong, only
\* a second change during its start, or a start before rdpadd listened, can
\* have cost a script its life.
PadsCurrent ==
  PadsQuiet /\ ~early /\ ~lostPads /\ (dialog = None \/ dialog.act = "boxes") =>
    \A id \in Ids :
      IF id \in Mine /\ rows[id] > 0
      THEN \/ proc[id].ver = rows[id] /\ status[id] = "Y"
           \/ proc[id].state = "none" /\ status[id] \in {"killed", "refused"}
           \/ proc[id].state = "none" /\ status[id] \in Failed /\ faults > 0
      ELSE proc[id].state = "none"

\* rdservice comes up again after every end, however it came (systemd's limit on
\* starts is not reached).
StationComesBack == svc = "down" ~> svc = "up"

\* What is owed to the scripts is done in the end: every notification is dealt
\* with, every script that ended is started anew or recorded, unless the engine
\* goes first.
PadsSettle == engine = "up" ~> PadsQuiet \/ early \/ engine = "down"
=============================================================================
