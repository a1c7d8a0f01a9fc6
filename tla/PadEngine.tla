----------------------------- MODULE PadEngine -----------------------------
(***************************************************************************)
(* rdpadengined runs one PyPAD script per instance of its station, starts  *)
(* it anew when its configuration was changed, and writes into             *)
(* PYPAD_INSTANCES whether it runs.  It hears of changes from ripcd, over  *)
(* one connection that carries the notifications and ripcd's first answer, *)
(* upon which it starts all scripts.                                       *)
(*                                                                         *)
(* A script reads its configuration when it starts, connects to rdpadd and *)
(* then catches SIGTERM, upon which it exits with 0.  It exits with 1 when *)
(* rdpadd does not listen or goes away.                                    *)
(***************************************************************************)
EXTENDS Integers, Sequences

CONSTANTS
  Ids,  \* instances of every station
  Mine  \* those of this station

VARIABLES
  engine, \* "down", "waiting" for ripcd, "joined" to it, or "up"
  rows,   \* PYPAD_INSTANCES: the version of each configuration, 0 once the row
          \* was deleted, -1 before it is there (ids are not used again)
  status, \* what the row says: "N", "Y", or how the script failed (EXIT_CODE)
  proc,   \* the process pad_instances has for each instance
  strays, \* processes whose place in pad_instances another has taken
  early,  \* a notification was dealt with before the scripts were started
  notes   \* what ripcd has sent and the engine has not dealt with

pads == <<engine, rows, status, proc, strays, early, notes>>

\* "none", "booting", "running", or how it ended: with 0, killed by a SIGTERM
\* it did not catch yet, without a row or rdpadd, by itself with a code or a
\* signal; the version of its configuration, and whether it is to stay away.
NoProc  == [state |-> "none", ver |-> 0, stay |-> FALSE]
Booting == [NoProc EXCEPT !.state = "booting"]
Failed == {"killed", "refused", "code", "crash"}
Ends == Failed \union {"zero"}

PadInit ==
  /\ engine = "down"
  /\ rows \in [Ids -> {-1, 1}]
  /\ status = [id \in Ids |-> "N"]
  /\ proc = [id \in Ids |-> NoProc]
  /\ strays = [id \in Ids |-> 0]
  /\ early = FALSE
  /\ notes = <<>>

\* StartScript(): only instances of this station that still have a row.  The row
\* says "Y" once the script's process runs (instanceStartedData), which is here
\* the same step: its program always can be run.
Startable(ids) == {id \in ids \intersect Mine : rows[id] > 0}
Overlays(new) ==
  /\ proc' = [id \in Ids |-> IF id \in new THEN Booting ELSE proc[id]]
  /\ strays' = [id \in Ids |-> IF id \in new /\ proc[id].state # "none"
                               THEN strays[id] + 1 ELSE strays[id]]
Starts(ids) ==
  /\ Overlays(Startable(ids))
  /\ status' = [id \in Ids |-> IF id \in Startable(ids) THEN "Y" ELSE status[id]]

\* KillScript(): SIGTERM.
Killed(p) == [p EXCEPT !.state = CASE @ = "booting" -> "killed"
                                   [] @ = "running" -> "zero"
                                   [] OTHER         -> @]

\* The engine ends; its scripts, if it did not end them, run on.
EngineCrashes ==
  /\ engine' = "down" /\ notes' = <<>>
  /\ UNCHANGED <<rows, status, proc, strays, early>>

EngineStarts ==
  /\ engine = "down"
  /\ engine' = "waiting"
  /\ UNCHANGED <<rows, status, proc, strays, early, notes>>

\* The connection stands; from here on notifications reach the engine.
Joins ==
  /\ engine = "waiting"
  /\ engine' = "joined"
  /\ UNCHANGED <<rows, status, proc, strays, early, notes>>

\* ripcd answers "RU", once.
Answers ==
  /\ engine = "joined" /\ \A i \in 1..Len(notes) : notes[i].act # "RU"
  /\ notes' = Append(notes, [act |-> "RU", id |-> CHOOSE id \in Ids : TRUE])
  /\ UNCHANGED <<engine, rows, status, proc, strays, early>>

Notify(act, id) ==
  notes' = IF engine \in {"joined", "up"} THEN Append(notes, [act |-> act, id |-> id])
           ELSE notes

Takes(act) ==
  /\ engine \in {"joined", "up"} /\ notes # <<>> /\ Head(notes).act = act
  /\ notes' = Tail(notes)
  /\ early' = (early \/ (engine = "joined" /\ act # "RU"))
  /\ UNCHANGED rows

\* ripcConnectedData(): takes back what the rows said, starts every instance.
Connected ==
  /\ Takes("RU")
  /\ engine' = "up"
  /\ Overlays(Startable(Ids))
  /\ status' = [id \in Ids |-> IF id \in Startable(Ids) THEN "Y"
                               ELSE IF id \in Mine THEN "N" ELSE status[id]]

\* Mutant: nobody asks whether the script runs.
AddedAgain ==
  /\ Takes("add")
  /\ Starts({Head(notes).id})
  /\ UNCHANGED engine

\* notificationReceivedData().
Added ==
  /\ Takes("add")
  /\ IF proc[Head(notes).id].state = "none" THEN Starts({Head(notes).id})
     ELSE UNCHANGED <<proc, strays, status>>
  /\ UNCHANGED engine

\* Mutant: a script that runs is left alone.
ModifiedLazily ==
  /\ Takes("modify")
  /\ IF proc[Head(notes).id].state # "none" THEN UNCHANGED <<proc, strays, status>>
     ELSE Starts({Head(notes).id})
  /\ UNCHANGED engine

Modified ==
  LET id == Head(notes).id IN
  /\ Takes("modify")
  /\ IF proc[id].state # "none"
     THEN proc' = [proc EXCEPT ![id] = Killed(@)] /\ UNCHANGED <<strays, status>>
     ELSE Starts({id})
  /\ UNCHANGED engine

Deleted ==
  LET id == Head(notes).id IN
  /\ Takes("delete")
  /\ proc[id].state # "none"
  /\ proc' = [proc EXCEPT ![id] = [Killed(@) EXCEPT !.stay = TRUE]]
  /\ UNCHANGED <<engine, strays, status>>

\* pad_instances.value(id)->setPrivateData(): nobody asks whether it is there.
DeletesNothing ==
  /\ engine \in {"joined", "up"} /\ notes # <<>>
  /\ Head(notes).act = "delete" /\ proc[Head(notes).id].state = "none"
  /\ EngineCrashes

\* Mutant: the exit code is written even if it is 0.
HandlesRaw(id) ==
  LET how == IF proc[id].state \in Ends THEN proc[id].state ELSE "zero"
      again == how = "zero" /\ ~proc[id].stay /\ id \in Mine /\ rows[id] > 0 IN
  /\ proc' = [proc EXCEPT ![id] = IF again THEN Booting ELSE NoProc]
  /\ status' = [status EXCEPT ![id] = IF again THEN "Y" ELSE how]
  /\ UNCHANGED <<engine, rows, early, notes>>

\* instanceFinishedData(), for the process the table has; a process that has
\* not ended yet looks as if it had exited with 0, and is killed.
Handles(id) ==
  LET how == IF proc[id].state \in Ends THEN proc[id].state ELSE "zero"
      again == how = "zero" /\ ~proc[id].stay /\ id \in Mine /\ rows[id] > 0 IN
  /\ proc' = [proc EXCEPT ![id] = IF again THEN Booting ELSE NoProc]
  /\ status' = [status EXCEPT ![id] = CASE again                   -> "Y"
                                        [] how = "zero" /\ ~again -> "N"
                                        [] OTHER                   -> how]
  /\ UNCHANGED <<engine, rows, early, notes>>

\* Mutant: a script that crashed is not heard of.
FinishedByExit(id) ==
  /\ engine \in {"joined", "up"} /\ proc[id].state \in Ends \ {"crash"}
  /\ Handles(id)
  /\ UNCHANGED strays

Finished(id) ==
  /\ engine \in {"joined", "up"} /\ proc[id].state \in Ends
  /\ Handles(id)
  /\ UNCHANGED strays

StrayEnds(id) ==
  /\ engine \in {"joined", "up"} /\ strays[id] > 0
  /\ IF proc[id].state = "none"
     THEN /\ engine' = "down" /\ notes' = <<>>
          /\ UNCHANGED <<rows, status, proc, early>>
     ELSE Handles(id)
  /\ strays' = [strays EXCEPT ![id] = @ - 1]

\* A script comes up, or finds no row or no rdpadd.
ScriptBoots(id, listens) ==
  /\ proc[id].state = "booting"
  /\ proc' = [proc EXCEPT ![id].ver = rows[id],
                          ![id].state = IF rows[id] > 0 /\ listens THEN "running" ELSE "refused"]
  /\ UNCHANGED <<engine, rows, status, strays, early, notes>>

ScriptFails(id) ==
  /\ proc[id].state = "running"
  /\ \E how \in {"code", "crash"} : proc' = [proc EXCEPT ![id].state = how]
  /\ UNCHANGED <<engine, rows, status, strays, early, notes>>

\* rdpadd has gone away.
ScriptsLosePad ==
  proc' = [id \in Ids |-> IF proc[id].state = "running"
                          THEN [proc[id] EXCEPT !.state = "code"] ELSE proc[id]]

\* The whole unit is killed.
EngineAndScriptsEnd ==
  /\ engine' = "down" /\ notes' = <<>> /\ early' = FALSE
  /\ proc' = [id \in Ids |-> NoProc]
  /\ strays' = [id \in Ids |-> 0]
  /\ UNCHANGED <<rows, status>>
=============================================================================
