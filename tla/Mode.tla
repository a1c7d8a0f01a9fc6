-------------------------------- MODULE Mode --------------------------------
(***************************************************************************)
(* The dashboard of rivapi switches a station between standalone, server   *)
(* and client (store/mode_apply.go, store/mode.go,                         *)
(* dashboard/handlers_mode.go): it saves what was asked for, then changes  *)
(* rd.conf, fstab, the mount of /var/snd, mariadb's bind address, the      *)
(* exports and autofs, one step after the other, and gives up at the first *)
(* step that fails.  Each HTTP request runs in a goroutine of its own and  *)
(* nothing keeps two of them apart, although they share their staged files.*)
(*                                                                         *)
(* rd.conf and fstab are read, changed, staged and installed step by step: *)
(* install(1) takes the old file away before it copies the new one there,  *)
(* and may be cut off in between.  mariadb's configuration, the exports    *)
(* and autofs' files are edited that way too, here in one step each: of    *)
(* what they hold only the one setting each that a mode is about is kept.  *)
(* Packages, users and directories that are only ever added are left out,  *)
(* and so are the wrong password, which changes nothing, a mode.json that  *)
(* cannot be saved, and directories of which a few became links.           *)
(***************************************************************************)
EXTENDS Integers, Sequences, FiniteSets

CONSTANTS
  Tabs,       \* browser tabs, each with at most one request
  Hosts,      \* other stations
  Local,      \* this station
  None,
  Requests,   \* what may be asked for: [mode, db, nfs]
  MaxAsks,    \* bound: requests
  MaxFaults,  \* bound: steps that fail
  MaxReboots  \* bound: reboots

ASSUME ModeAssumption ==
  /\ Local \notin Hosts /\ None \notin Hosts /\ Local # None
  /\ Requests \subseteq [mode : {"standalone", "server", "client"},
                         db : Hosts \union {None}, nfs : Hosts \union {None}]
  /\ MaxAsks \in Nat /\ MaxFaults \in Nat /\ MaxReboots \in Nat

VARIABLES
  intent,     \* mode.json: the request last saved
  req,        \* of each tab: the request under way, at step "at", or Idle
  conf,       \* rd.conf: database host and password, source of the audio store
  fstab,      \* what it mounts on /var/snd, and whether it binds the exports
  staged,     \* the staged copies of both
  mounts,     \* the mounts on /var/snd, the last one on top
  sys,        \* mariadb, NFS server, autofs and the staging directories
  service,    \* what rivendell was last started with
  last,       \* the last request that ended, and whether it said so
  overlapped, \* two requests have been under way at a time
  crossed,    \* the files they edited, or "mount" if they mounted, at a time
  torn,       \* the files whose install was cut off
  abroad,     \* a client has been asked for
  asked, faults, reboots

files == <<conf, fstab, staged>>
past == <<torn, abroad>>
bounds == <<asked, faults, reboots>>
vars == <<intent, req, conf, fstab, staged, mounts, sys, service, last, overlapped, crossed,
          torn, abroad, asked, faults, reboots>>

ConfType  == [keys : BOOLEAN, host : Hosts \union {Local, None},
              pass : Hosts \union {Local, None}, store : Hosts \union {None}]
FstabType == [root : BOOLEAN, snd : Hosts \union {None}, binds : BOOLEAN]

\* An rd.conf that is missing or empty has no keys to change, such an fstab no
\* root.  One that was copied in part counts as empty.
NoConf  == [keys |-> FALSE, host |-> None, pass |-> None, store |-> None]
NoFstab == [root |-> FALSE, snd |-> None, binds |-> FALSE]

Standalone == [mode |-> "standalone", db |-> None, nfs |-> None]
Idle == [ask |-> Standalone, at |-> 0, phase |-> "read", pass |-> None,
         conf |-> NoConf, fstab |-> NoFstab]

Init ==
  /\ intent = Standalone
  /\ req = [r \in Tabs |-> Idle]
  /\ conf = [keys |-> TRUE, host |-> Local, pass |-> Local, store |-> None]
  /\ fstab = [root |-> TRUE, snd |-> None, binds |-> FALSE]
  /\ staged = [conf |-> NoConf, fstab |-> NoFstab]
  /\ mounts = <<>>
  /\ \E d \in {"empty", "full"} :
       sys = [bind |-> FALSE, listens |-> FALSE, exports |-> FALSE, exported |-> FALSE,
              bound |-> "none", map |-> None, autofs |-> None, dirs |-> d]
  /\ service = conf
  /\ last = [ask |-> Standalone, ok |-> TRUE]
  /\ overlapped = FALSE /\ crossed = {} /\ torn = {} /\ abroad = FALSE
  /\ asked = 0 /\ faults = 0 /\ reboots = 0
-----------------------------------------------------------------------------
(* The steps of ApplyMode.  "mysql", "store", "fstab", "nofstab" and       *)
(* "bindfstab" are edits.                                                  *)

LocalSteps  == <<"bind", "mariadb", "password", "mysql", "unmount", "nofstab", "store">>
ServerSteps == LocalSteps \o <<"binds", "bindfstab", "exports", "exportfs">>
ClientSteps == <<"look", "mount", "fstab", "map", "autofs", "links", "mysql", "store">>

Steps(mode) ==
  (CASE mode = "standalone" -> LocalSteps
     [] mode = "server"     -> ServerSteps
     [] mode = "client"     -> ClientSteps) \o <<"rivendell">>

Active(r) == req[r].at # 0
Ask(r)    == req[r].ask
Step(r)   == IF Active(r) THEN Steps(Ask(r).mode)[req[r].at] ELSE "none"
Remote(r) == Ask(r).mode = "client"

Next1(r, n) == req' = [req EXCEPT ![r].at = @ + n, ![r].phase = "read"]

Ended(r, ok) ==
  /\ req' = [req EXCEPT ![r] = Idle]
  /\ last' = [ask |-> Ask(r), ok |-> ok]

\* The new content of the file an edit is about, from the content it read;
\* only keys that are there are changed.
WithMySQL(c, r) ==
  IF ~c.keys THEN c
  ELSE [c EXCEPT !.host = IF Remote(r) THEN Ask(r).db ELSE Local,
                 !.pass = IF Remote(r) THEN Ask(r).db ELSE req[r].pass]
WithStore(c, r) ==
  IF ~c.keys THEN c ELSE [c EXCEPT !.store = IF Remote(r) THEN Ask(r).nfs ELSE None]
WithFstab(f, r) ==
  CASE Step(r) = "fstab"     -> [f EXCEPT !.snd = Ask(r).nfs]
    [] Step(r) = "nofstab"   -> [f EXCEPT !.snd = None]
    [] Step(r) = "bindfstab" -> [f EXCEPT !.binds = TRUE]
WithConf(c, r) == IF Step(r) = "mysql" THEN WithMySQL(c, r) ELSE WithStore(c, r)

ConfSteps  == {"mysql", "store"}
FstabSteps == {"fstab", "nofstab", "bindfstab"}
FileOf(r) == IF Step(r) \in ConfSteps THEN "conf" ELSE "fstab"

\* Another request stands between the first and the last step of an edit of
\* the same file.
Crosses(r) == \E s \in Tabs \ {r} : req[s].phase # "read" /\ FileOf(s) = FileOf(r)

\* The files that requests are copying, the old one gone and the new one not yet
\* there.
Copying(rs) == {FileOf(r) : r \in {s \in rs : req[s].phase = "copy"}}

\* A file that may not be there at all cannot be read.
Missing(file) ==
  /\ file \in torn \union Copying(Tabs)
  /\ IF file = "conf" THEN conf = NoConf ELSE fstab = NoFstab
-----------------------------------------------------------------------------
(* Requests.                                                               *)

\* What was asked for is saved before ApplyMode looks at it.
ModeApply(r, ask) ==
  /\ ~Active(r) /\ asked < MaxAsks
  /\ asked' = asked + 1
  /\ intent' = ask
  /\ overlapped' = (overlapped \/ \E s \in Tabs : Active(s))
  /\ IF ask.mode = "client" /\ None \in {ask.db, ask.nfs}
     THEN /\ last' = [ask |-> ask, ok |-> FALSE]
          /\ UNCHANGED <<req, abroad>>
     ELSE /\ req' = [req EXCEPT ![r] = [Idle EXCEPT !.ask = ask, !.at = 1]]
          /\ abroad' = (abroad \/ ask.mode = "client")
          /\ UNCHANGED last
  /\ UNCHANGED <<conf, fstab, staged, mounts, sys, service, crossed, torn, faults, reboots>>

\* A step fails, the disk is full, or rivapi dies with the command it runs: the
\* request stops where it is.
Fail(r) ==
  /\ Active(r) /\ faults < MaxFaults
  /\ faults' = faults + 1
  /\ torn' = torn \union Copying({r})
  /\ Ended(r, FALSE)
  /\ UNCHANGED <<intent, conf, fstab, staged, mounts, sys, service, overlapped, crossed,
                 abroad, asked, reboots>>

\* rd.conf and fstab: read, then empty the staged copy, fill it, take the file
\* away and copy the staged one there.  removeFstabEntryFor does nothing when
\* there is no line to remove.
Read(r) ==
  /\ Step(r) \in ConfSteps \union FstabSteps /\ req[r].phase = "read"
  /\ IF Step(r) = "nofstab" /\ fstab.snd = None
     THEN Next1(r, 1) /\ UNCHANGED crossed
     ELSE /\ req' = [req EXCEPT ![r].phase = "empty", ![r].conf = conf, ![r].fstab = fstab]
          /\ crossed' = IF Crosses(r) THEN crossed \union {FileOf(r)} ELSE crossed
  /\ UNCHANGED <<intent, conf, fstab, staged, mounts, sys, service, last, overlapped>>
  /\ UNCHANGED past
  /\ UNCHANGED bounds

ReadFails(r) ==
  /\ Step(r) \in ConfSteps \union FstabSteps /\ req[r].phase = "read"
  /\ Missing(FileOf(r))
  /\ Ended(r, FALSE)
  /\ UNCHANGED <<intent, mounts, sys, service, overlapped, crossed>>
  /\ UNCHANGED files
  /\ UNCHANGED past
  /\ UNCHANGED bounds

\* Mutant: the file itself is emptied and filled.
EmptyInPlace(r) ==
  /\ req[r].phase = "empty"
  /\ IF Step(r) \in ConfSteps THEN conf' = NoConf /\ UNCHANGED fstab
     ELSE fstab' = NoFstab /\ UNCHANGED conf
  /\ req' = [req EXCEPT ![r].phase = "fill"]
  /\ UNCHANGED <<intent, staged, mounts, sys, service, last, overlapped, crossed>>
  /\ UNCHANGED past
  /\ UNCHANGED bounds

Empty(r) ==
  /\ req[r].phase = "empty"
  /\ staged' = IF Step(r) \in ConfSteps THEN [staged EXCEPT !.conf = NoConf]
               ELSE [staged EXCEPT !.fstab = NoFstab]
  /\ req' = [req EXCEPT ![r].phase = "fill"]
  /\ UNCHANGED <<intent, conf, fstab, mounts, sys, service, last, overlapped, crossed>>
  /\ UNCHANGED past
  /\ UNCHANGED bounds

Fill(r) ==
  /\ req[r].phase = "fill"
  /\ staged' = IF Step(r) \in ConfSteps
               THEN [staged EXCEPT !.conf = WithConf(req[r].conf, r)]
               ELSE [staged EXCEPT !.fstab = WithFstab(req[r].fstab, r)]
  /\ req' = [req EXCEPT ![r].phase = "install", ![r].conf = NoConf, ![r].fstab = NoFstab]
  /\ UNCHANGED <<intent, conf, fstab, mounts, sys, service, last, overlapped, crossed>>
  /\ UNCHANGED past
  /\ UNCHANGED bounds

\* install(1) takes the old file away ...
Unlink(r) ==
  /\ req[r].phase = "install"
  /\ IF Step(r) \in ConfSteps THEN conf' = NoConf /\ UNCHANGED fstab
     ELSE fstab' = NoFstab /\ UNCHANGED conf
  /\ req' = [req EXCEPT ![r].phase = "copy"]
  /\ UNCHANGED <<intent, staged, mounts, sys, service, last, overlapped, crossed>>
  /\ UNCHANGED past
  /\ UNCHANGED bounds

\* ... and copies the staged one there.
Install(r) ==
  /\ req[r].phase = "copy"
  /\ IF Step(r) \in ConfSteps
     THEN conf' = staged.conf /\ UNCHANGED fstab
     ELSE fstab' = staged.fstab /\ UNCHANGED conf
  /\ Next1(r, 1)
  /\ UNCHANGED <<intent, staged, mounts, sys, service, last, overlapped, crossed>>
  /\ UNCHANGED past
  /\ UNCHANGED bounds

\* rdConfValue: the local branch keeps the password it finds in rd.conf.
Password(r) ==
  /\ Step(r) = "password"
  /\ req' = [req EXCEPT ![r].pass = conf.pass, ![r].at = @ + 1]
  /\ UNCHANGED <<intent, conf, fstab, staged, mounts, sys, service, last, overlapped, crossed>>
  /\ UNCHANGED past
  /\ UNCHANGED bounds

\* mountSourceOf takes the first line of /proc/mounts: the mount at the bottom.
MountSource == IF mounts = <<>> THEN None ELSE Head(mounts)
Unmounted   == SubSeq(mounts, 1, Len(mounts) - 1)

\* ensureVarSndLocal
Unmount(r) ==
  /\ Step(r) = "unmount"
  /\ mounts' = IF MountSource = None THEN mounts ELSE Unmounted
  /\ Next1(r, 1)
  /\ UNCHANGED <<intent, sys, service, last, overlapped, crossed>>
  /\ UNCHANGED files
  /\ UNCHANGED past
  /\ UNCHANGED bounds

\* Mutant: any mount will do.
LookAny(r) ==
  /\ Step(r) = "look"
  /\ Next1(r, IF MountSource = None THEN 1 ELSE 2)
  /\ UNCHANGED <<intent, mounts, sys, service, last, overlapped, crossed>>
  /\ UNCHANGED files
  /\ UNCHANGED past
  /\ UNCHANGED bounds

\* Mutant: the old mount is not taken off.
LookOnly(r) ==
  /\ Step(r) = "look"
  /\ Next1(r, IF MountSource = Ask(r).nfs THEN 2 ELSE 1)
  /\ UNCHANGED <<intent, mounts, sys, service, last, overlapped, crossed>>
  /\ UNCHANGED files
  /\ UNCHANGED past
  /\ UNCHANGED bounds

\* mountRemoteVarSnd
Look(r) ==
  /\ Step(r) = "look"
  /\ IF MountSource = Ask(r).nfs
     THEN Next1(r, 2) /\ UNCHANGED <<mounts, crossed>>
     ELSE /\ mounts' = IF MountSource = None THEN mounts ELSE Unmounted
          /\ crossed' = IF \E s \in Tabs : Step(s) = "mount"
                        THEN crossed \union {"mount"} ELSE crossed
          /\ Next1(r, 1)
  /\ UNCHANGED <<intent, sys, service, last, overlapped>>
  /\ UNCHANGED files
  /\ UNCHANGED past
  /\ UNCHANGED bounds

\* The kernel refuses to put a file system on top of itself.
Mount(r) ==
  /\ Step(r) = "mount"
  /\ IF mounts # <<>> /\ mounts[Len(mounts)] = Ask(r).nfs
     THEN Ended(r, FALSE) /\ UNCHANGED mounts
     ELSE /\ mounts' = Append(mounts, Ask(r).nfs)
          /\ Next1(r, 1) /\ UNCHANGED last
  /\ UNCHANGED <<intent, sys, service, overlapped, crossed>>
  /\ UNCHANGED files
  /\ UNCHANGED past
  /\ UNCHANGED bounds

\* The staging directories become links, unless one of them has something in it.
Links(r) ==
  /\ Step(r) = "links"
  /\ IF sys.dirs = "full"
     THEN Ended(r, FALSE) /\ UNCHANGED sys
     ELSE sys' = [sys EXCEPT !.dirs = "remote"] /\ Next1(r, 1) /\ UNCHANGED last
  /\ UNCHANGED <<intent, mounts, service, overlapped, crossed>>
  /\ UNCHANGED files
  /\ UNCHANGED past
  /\ UNCHANGED bounds

\* What the NFS server's bind mounts show: the directories, or where they lead.
Bound == IF sys.dirs = "remote" THEN "remote" ELSE "own"

\* mariadb, the NFS server and autofs take up a file when they are told to.
SysSteps ==
  [bind     |-> "bind", mariadb |-> "listens", binds |-> "bound", exports |-> "exports",
   exportfs |-> "exported", map |-> "map", autofs |-> "autofs"]
SysValue(r) ==
  CASE Step(r) = "bind"     -> Ask(r).mode = "server"
    [] Step(r) = "mariadb"  -> sys.bind
    [] Step(r) = "binds"    -> IF sys.bound = "none" THEN Bound ELSE sys.bound
    [] Step(r) = "exports"  -> TRUE
    [] Step(r) = "exportfs" -> sys.exports
    [] Step(r) = "map"      -> Ask(r).nfs
    [] Step(r) = "autofs"   -> sys.map
Sys(r) ==
  /\ Step(r) \in DOMAIN SysSteps
  /\ sys' = [sys EXCEPT ![SysSteps[Step(r)]] = SysValue(r)]
  /\ Next1(r, 1)
  /\ UNCHANGED <<intent, mounts, service, last, overlapped, crossed>>
  /\ UNCHANGED files
  /\ UNCHANGED past
  /\ UNCHANGED bounds

\* Mutant: the request does not end.
RestartAndGoOn(r) ==
  /\ Step(r) = "rivendell"
  /\ service' = conf
  /\ Next1(r, 1)
  /\ UNCHANGED <<intent, mounts, sys, last, overlapped, crossed>>
  /\ UNCHANGED files
  /\ UNCHANGED past
  /\ UNCHANGED bounds

\* The last step of every mode.
RestartRivendell(r) ==
  /\ Step(r) = "rivendell"
  /\ service' = conf
  /\ Ended(r, TRUE)
  /\ UNCHANGED <<intent, mounts, sys, overlapped, crossed>>
  /\ UNCHANGED files
  /\ UNCHANGED past
  /\ UNCHANGED bounds

\* The station starts from its files, if fstab names its root; requests under
\* way are lost.
Reboot ==
  /\ reboots < MaxReboots /\ fstab.root
  /\ reboots' = reboots + 1
  /\ req' = [r \in Tabs |-> Idle]
  /\ last' = [last EXCEPT !.ok = @ /\ \A r \in Tabs : ~Active(r)]
  /\ mounts' = IF fstab.snd = None THEN <<>> ELSE <<fstab.snd>>
  /\ sys' = [sys EXCEPT !.listens = sys.bind, !.exported = sys.exports, !.autofs = sys.map,
                        !.bound = IF fstab.binds THEN Bound ELSE "none"]
  /\ service' = conf
  /\ torn' = torn \union Copying(Tabs)
  /\ UNCHANGED <<intent, overlapped, crossed, abroad, asked, faults>>
  /\ UNCHANGED files

Next ==
  \/ Reboot
  \/ \E r \in Tabs :
       \/ \E ask \in Requests : ModeApply(r, ask)
       \/ Fail(r)
       \/ Read(r) \/ ReadFails(r) \/ Empty(r) \/ Fill(r) \/ Unlink(r) \/ Install(r)
       \/ Password(r) \/ Unmount(r) \/ Look(r) \/ Mount(r) \/ Links(r) \/ Sys(r)
       \/ RestartRivendell(r)

Spec == Init /\ [][Next]_vars
-----------------------------------------------------------------------------
(* Properties.                                                             *)

\* Every variable is in its range; a request never runs past its last step.
TypeOK ==
  /\ intent \in Requests \union {Standalone}
  /\ \A r \in Tabs :
       /\ Ask(r) \in Requests \union {Standalone}
       /\ req[r].at \in 0..Len(Steps(Ask(r).mode))
       /\ req[r].phase \in {"read", "empty", "fill", "install", "copy"}
       /\ req[r].pass \in Hosts \union {Local, None}
       /\ req[r].conf \in ConfType /\ req[r].fstab \in FstabType
  /\ conf \in ConfType /\ fstab \in FstabType
  /\ staged \in [conf : ConfType, fstab : FstabType]
  /\ Len(mounts) <= MaxAsks + 1 /\ \A i \in 1..Len(mounts) : mounts[i] \in Hosts
  /\ sys \in [bind : BOOLEAN, listens : BOOLEAN, exports : BOOLEAN, exported : BOOLEAN,
              bound : {"none", "own", "remote"}, map : Hosts \union {None},
              autofs : Hosts \union {None}, dirs : {"empty", "full", "remote"}]
  /\ service \in ConfType
  /\ last \in [ask : Requests \union {Standalone}, ok : BOOLEAN]
  /\ overlapped \in BOOLEAN /\ crossed \subseteq {"conf", "fstab", "mount"}
  /\ torn \subseteq {"conf", "fstab"} /\ abroad \in BOOLEAN
  /\ asked \in 0..MaxAsks /\ faults \in 0..MaxFaults /\ reboots \in 0..MaxReboots

\* The station is what ask asks for: its files, its mounts, what its servers
\* and rivendell were started with.  What a client left of its own is not
\* undone: the password of its database, its directories, its autofs.
IsLocal(ask) ==
  /\ conf.host = Local /\ conf.store = None
  /\ mounts = <<>> /\ fstab.snd = None
  /\ sys.bind = (ask.mode = "server") /\ sys.listens = sys.bind
  /\ ask.mode = "server" => fstab.binds /\ sys.exported /\ sys.bound # "none"
  /\ ~abroad => conf.pass = Local /\ sys.dirs # "remote" /\ sys.autofs = None
IsClient(ask) ==
  /\ conf.host = ask.db /\ conf.pass = ask.db /\ conf.store = ask.nfs
  /\ mounts = <<ask.nfs>> /\ fstab.snd = ask.nfs
  /\ sys.dirs = "remote" /\ sys.autofs = ask.nfs

Quiet == \A r \in Tabs : ~Active(r)

\* A request that says it was applied was, whatever failed halfway or rebooted
\* before: rd.conf, the mount, fstab, mariadb, the exports and, of a client,
\* autofs and the directories are what it asks for, rivendell runs with them,
\* and it stays so over a reboot.  Requests that met can spoil it, and so can an
\* rd.conf lost when its install was cut off: an empty one has no keys to set.
\* A station that has been a client keeps its password, its directories and
\* its autofs.
Agrees ==
  Quiet /\ last.ok /\ ~overlapped /\ "conf" \notin torn =>
    /\ intent = last.ask /\ service = conf
    /\ IF last.ask.mode = "client" THEN IsClient(last.ask) ELSE IsLocal(last.ask)

\* rd.conf and fstab are whole but while install(1) copies them: requests that
\* die while they read, change or stage them, or that meet elsewhere, leave the
\* station able to boot and to find its database.  Only an install that is cut
\* off, or two requests that edit the same file at a time, can lose it.
FilesWhole ==
  /\ "conf" \notin crossed \union torn \union Copying(Tabs) => conf.keys
  /\ "fstab" \notin crossed \union torn \union Copying(Tabs) => fstab.root

\* The audio store is mounted once, however often clients are asked for, so
\* that one unmount lays the local one bare.  Only two requests that find
\* nothing mounted at a time can mount twice.
MountedOnce == "mount" \notin crossed => Len(mounts) <= 1
=============================================================================
