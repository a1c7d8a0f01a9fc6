---------------------------- MODULE ModeProofs ----------------------------
(***************************************************************************)
(* For any tabs, hosts and requests: rd.conf and fstab are whole but while *)
(* they are copied, unless an install was cut off or two requests edited   *)
(* the same file at a time; the audio store is never mounted twice, unless *)
(* two requests mount at a time; and a request that says it was applied    *)
(* was, unless two were under way at a time or rd.conf was lost.           *)
(***************************************************************************)
EXTENDS Mode, FiniteSetTheorems, TLAPS

Modes  == {"standalone", "server", "client"}
Phases == {"read", "empty", "fill", "install", "copy"}
Asks   == [mode : Modes, db : Hosts \union {None}, nfs : Hosts \union {None}]
Edits  == ConfSteps \union FstabSteps

Records == [ask : Asks, at : Nat, phase : Phases, pass : Hosts \union {Local, None},
            conf : ConfType, fstab : FstabType]

FilesTyped ==
  /\ conf \in ConfType /\ fstab \in FstabType
  /\ staged \in [conf : ConfType, fstab : FstabType]

Types ==
  /\ req \in [Tabs -> Records]
  /\ FilesTyped
  /\ mounts \in Seq(Hosts)

\* A client's request names a server.
Named(r) == Active(r) /\ Remote(r) => Ask(r).nfs # None

\* A request stands at a step of its mode; between two phases it is at an edit.
Placed(r) ==
  /\ Named(r)
  /\ req[r].at <= Len(Steps(Ask(r).mode))
  /\ req[r].phase # "read" => Step(r) \in Edits

Editing(r, file) == req[r].phase # "read" /\ FileOf(r) = file

Copied(file) == \E r \in Tabs : Editing(r, file) /\ req[r].phase = "copy"

\* Until two requests meet in rd.conf, one at most has a copy of it; and until
\* an install is cut off, the file has its keys but while it is copied, and so
\* has the copy that was read or staged, once it has been filled again.
ConfWhole ==
  "conf" \notin crossed =>
    /\ \A r, s \in Tabs : Editing(r, "conf") /\ Editing(s, "conf") => r = s
    /\ "conf" \notin torn =>
         /\ conf.keys \/ Copied("conf")
         /\ \A r \in Tabs : Editing(r, "conf") =>
              /\ req[r].phase \in {"empty", "fill"} => req[r].conf.keys
              /\ req[r].phase \in {"install", "copy"} => staged.conf.keys

\* And so for fstab and its root.
FstabWhole ==
  "fstab" \notin crossed =>
    /\ \A r, s \in Tabs : Editing(r, "fstab") /\ Editing(s, "fstab") => r = s
    /\ "fstab" \notin torn =>
         /\ fstab.root \/ Copied("fstab")
         /\ \A r \in Tabs : Editing(r, "fstab") =>
              /\ req[r].phase \in {"empty", "fill"} => req[r].fstab.root
              /\ req[r].phase \in {"install", "copy"} => staged.fstab.root

\* Until two requests meet at the mount, one at most is about to mount, and
\* then nothing is mounted.
StoreBare ==
  "mount" \notin crossed =>
    /\ Len(mounts) <= 1
    /\ \A r \in Tabs : Step(r) = "mount" => mounts = <<>>
    /\ \A r, s \in Tabs : Step(r) = "mount" /\ Step(s) = "mount" => r = s

IInv ==
  /\ Types
  /\ \A r \in Tabs : Placed(r)
  /\ ConfWhole
  /\ FstabWhole
  /\ StoreBare

Acts(r) ==
  \/ \E ask \in Requests : ModeApply(r, ask)
  \/ Fail(r)
  \/ Read(r) \/ ReadFails(r) \/ Empty(r) \/ Fill(r) \/ Unlink(r) \/ Install(r)
  \/ Password(r) \/ Unmount(r) \/ Look(r) \/ Mount(r) \/ Links(r) \/ Sys(r)
  \/ RestartRivendell(r)
-----------------------------------------------------------------------------
(* The steps of the three modes.                                           *)

Words == {"bind", "mariadb", "password", "mysql", "unmount", "nofstab", "store", "binds",
          "bindfstab", "exports", "exportfs", "look", "mount", "fstab", "map", "autofs",
          "links", "rivendell"}
Others == {"look", "mount", "rivendell"}

\* The steps of a standalone station neither mount nor are the last.
LEMMA LocalAre ==
  /\ LocalSteps \in Seq(Words) /\ Len(LocalSteps) = 7
  /\ \A i \in 1..7 : LocalSteps[i] \notin Others
<1>1. LocalSteps \in Seq(Words) BY DEF LocalSteps, Words
<1>2. Len(LocalSteps) = 7 /\ \A i \in 1..7 : LocalSteps[i] \notin Others
  BY DEF LocalSteps, Others
<1> QED BY <1>1, <1>2

\* A client looks at the mount first and mounts next.
LEMMA ClientAre ==
  /\ ClientSteps \in Seq(Words) /\ Len(ClientSteps) = 8
  /\ \A i \in 1..8 : /\ ClientSteps[i] = "look" <=> i = 1
                     /\ ClientSteps[i] = "mount" <=> i = 2
                     /\ ClientSteps[i] # "rivendell"
<1>1. ClientSteps \in Seq(Words) BY DEF ClientSteps, Words
<1> QED BY <1>1 DEF ClientSteps

\* One list of steps behind another.
LEMMA Joined ==
  ASSUME NEW s \in Seq(Words), NEW t \in Seq(Words)
  PROVE  /\ s \o t \in Seq(Words)
         /\ Len(s \o t) = Len(s) + Len(t)
         /\ \A i \in 1..Len(s) + Len(t) :
              (s \o t)[i] = IF i <= Len(s) THEN s[i] ELSE t[i - Len(s)]
OBVIOUS

\* A server does what a standalone station does, and four steps more.
LEMMA ServerAre ==
  /\ ServerSteps \in Seq(Words) /\ Len(ServerSteps) = 11
  /\ \A i \in 1..11 : ServerSteps[i] \notin Others
<1> DEFINE More == <<"binds", "bindfstab", "exports", "exportfs">>
<1>1. More \in Seq(Words) BY DEF Words
<1>2. Len(More) = 4 /\ \A i \in 1..4 : More[i] \notin Others BY DEF Others
<1>3. ServerSteps = LocalSteps \o More BY DEF ServerSteps
<1> HIDE DEF More
<1>4. /\ ServerSteps \in Seq(Words) /\ Len(ServerSteps) = Len(LocalSteps) + Len(More)
      /\ \A i \in 1..Len(LocalSteps) + Len(More) :
           ServerSteps[i] = IF i <= Len(LocalSteps) THEN LocalSteps[i]
                            ELSE More[i - Len(LocalSteps)]
  BY <1>1, <1>3, LocalAre, Joined
<1> QED BY <1>2, <1>4, LocalAre

\* The last step of each mode starts rivendell.
Final == <<"rivendell">>

\* A step more.
LEMMA OneMore ==
  ASSUME NEW s \in Seq(Words), NEW t \in Seq(Words), t = s \o Final
  PROVE  /\ Len(t) = Len(s) + 1
         /\ \A i \in 1..Len(s) : t[i] = s[i]
         /\ t[Len(s) + 1] = "rivendell"
<1>1. Final \in Seq(Words) BY DEF Words, Final
<1>2. Len(Final) = 1 /\ Final[1] = "rivendell" BY DEF Final
<1>3. /\ Len(t) = Len(s) + Len(Final)
      /\ \A i \in 1..Len(s) + Len(Final) : t[i] = IF i <= Len(s) THEN s[i] ELSE Final[i - Len(s)]
  BY <1>1, Joined
<1>4. t[Len(s) + 1] = "rivendell"
  <2>1. /\ (Len(s) + 1) - Len(s) = 1 /\ ~(Len(s) + 1 <= Len(s))
        /\ Len(s) + 1 \in 1..Len(s) + 1
    OBVIOUS
  <2> QED BY <1>2, <1>3, <2>1
<1> QED BY <1>2, <1>3, <1>4

\* How many steps a mode has, and which.
LEMMA Lengths ==
  /\ Len(Steps("standalone")) = 8 /\ Len(Steps("server")) = 12 /\ Len(Steps("client")) = 9
  /\ \A i \in 1..7  : Steps("standalone")[i] = LocalSteps[i]
  /\ \A i \in 1..11 : Steps("server")[i] = ServerSteps[i]
  /\ \A i \in 1..8  : Steps("client")[i] = ClientSteps[i]
  /\ Steps("standalone")[8] = "rivendell"
  /\ Steps("server")[12] = "rivendell"
  /\ Steps("client")[9] = "rivendell"
<1>1. /\ Steps("standalone") = LocalSteps \o Final
      /\ Steps("server") = ServerSteps \o Final
      /\ Steps("client") = ClientSteps \o Final
  BY DEF Steps, Final
<1>2. /\ LocalSteps \in Seq(Words) /\ Len(LocalSteps) = 7
      /\ ServerSteps \in Seq(Words) /\ Len(ServerSteps) = 11
      /\ ClientSteps \in Seq(Words) /\ Len(ClientSteps) = 8
  BY LocalAre, ServerAre, ClientAre
<1>3. /\ Steps("standalone") \in Seq(Words)
      /\ Steps("server") \in Seq(Words)
      /\ Steps("client") \in Seq(Words)
  <2>1. Final \in Seq(Words) BY DEF Words, Final
  <2> QED BY <1>1, <1>2, <2>1, Joined
<1>4. Len(Steps("standalone")) = 8 /\ Steps("standalone")[8] = "rivendell"
      /\ \A i \in 1..7 : Steps("standalone")[i] = LocalSteps[i]
  <2>1. /\ Len(Steps("standalone")) = Len(LocalSteps) + 1
        /\ \A i \in 1..Len(LocalSteps) : Steps("standalone")[i] = LocalSteps[i]
        /\ Steps("standalone")[Len(LocalSteps) + 1] = "rivendell"
    BY <1>1, <1>2, <1>3, OneMore
  <2> QED BY <1>2, <2>1
<1>5. Len(Steps("server")) = 12 /\ Steps("server")[12] = "rivendell"
      /\ \A i \in 1..11 : Steps("server")[i] = ServerSteps[i]
  <2>1. /\ Len(Steps("server")) = Len(ServerSteps) + 1
        /\ \A i \in 1..Len(ServerSteps) : Steps("server")[i] = ServerSteps[i]
        /\ Steps("server")[Len(ServerSteps) + 1] = "rivendell"
    BY <1>1, <1>2, <1>3, OneMore
  <2> QED BY <1>2, <2>1
<1>6. Len(Steps("client")) = 9 /\ Steps("client")[9] = "rivendell"
      /\ \A i \in 1..8 : Steps("client")[i] = ClientSteps[i]
  <2>1. /\ Len(Steps("client")) = Len(ClientSteps) + 1
        /\ \A i \in 1..Len(ClientSteps) : Steps("client")[i] = ClientSteps[i]
        /\ Steps("client")[Len(ClientSteps) + 1] = "rivendell"
    BY <1>1, <1>2, <1>3, OneMore
  <2> QED BY <1>2, <2>1
<1> QED BY <1>4, <1>5, <1>6

\* Each mode takes several steps.
LEMMA Several == ASSUME NEW m \in Modes PROVE Len(Steps(m)) \in Nat /\ Len(Steps(m)) > 2
<1>1. m = "standalone" \/ m = "server" \/ m = "client" BY DEF Modes
<1>2. CASE m = "standalone" BY <1>2, Lengths
<1>3. CASE m = "server" BY <1>3, Lengths
<1>4. CASE m = "client" BY <1>4, Lengths
<1> QED BY <1>1, <1>2, <1>3, <1>4

\* Rivendell is started last, and only clients look and mount.
LEMMA StepsAre ==
  ASSUME NEW m \in Modes, NEW i \in 1..Len(Steps(m))
  PROVE  /\ Steps(m)[i] = "rivendell" <=> i = Len(Steps(m))
         /\ Steps(m)[i] = "mount" <=> m = "client" /\ i = 2
         /\ Steps(m)[i] = "look" <=> m = "client" /\ i = 1
<1>1. CASE m = "standalone"
  <2>0. Len(Steps(m)) = 8 BY <1>1, Lengths
  <2>1. i = 8 \/ i \in 1..7 BY <2>0
  <2>2. ASSUME i \in 1..7 PROVE Steps(m)[i] \notin Others
    <3>1. Steps("standalone")[i] = LocalSteps[i] BY <2>2, Lengths
    <3>2. LocalSteps[i] \notin Others BY <2>2, LocalAre
    <3> QED BY <1>1, <3>1, <3>2
  <2>3. i = 8 => Steps(m)[i] = "rivendell" BY <1>1, Lengths
  <2> QED BY <1>1, <2>0, <2>1, <2>2, <2>3 DEF Others
<1>2. CASE m = "server"
  <2>0. Len(Steps(m)) = 12 BY <1>2, Lengths
  <2>1. i = 12 \/ i \in 1..11 BY <2>0
  <2>2. ASSUME i \in 1..11 PROVE Steps(m)[i] \notin Others
    <3>1. Steps("server")[i] = ServerSteps[i] BY <2>2, Lengths
    <3>2. ServerSteps[i] \notin Others BY <2>2, ServerAre
    <3> QED BY <1>2, <3>1, <3>2
  <2>3. i = 12 => Steps(m)[i] = "rivendell" BY <1>2, Lengths
  <2> QED BY <1>2, <2>0, <2>1, <2>2, <2>3 DEF Others
<1>3. CASE m = "client"
  <2>0. Len(Steps(m)) = 9 BY <1>3, Lengths
  <2>1. i = 9 \/ i \in 1..8 BY <2>0
  <2>2. ASSUME i \in 1..8
        PROVE  /\ Steps(m)[i] = "look" <=> i = 1
               /\ Steps(m)[i] = "mount" <=> i = 2
               /\ Steps(m)[i] # "rivendell"
    <3>1. Steps("client")[i] = ClientSteps[i] BY <2>2, Lengths
    <3> QED BY <1>3, <2>2, <3>1, ClientAre
  <2>3. CASE i = 9
    <3>1. Steps(m)[i] = "rivendell" BY <1>3, <2>3, Lengths
    <3> QED BY <2>0, <2>3, <3>1
  <2>4. CASE i \in 1..8
    <3>1. i # 9 BY <2>4
    <3> QED BY <1>3, <2>0, <2>2, <2>4, <3>1
  <2> QED BY <2>1, <2>3, <2>4
<1> QED BY <1>1, <1>2, <1>3 DEF Modes
-----------------------------------------------------------------------------
(* One request.                                                            *)

\* Where a request stands, from its step.
LEMMA Standing ==
  ASSUME Types, NEW r \in Tabs, Placed(r)
  PROVE  /\ Len(Steps(Ask(r).mode)) \in Nat
         /\ Len(Steps(Ask(r).mode)) > 2
         /\ Active(r) /\ Step(r) # "rivendell" => req[r].at < Len(Steps(Ask(r).mode))
         /\ Step(r) \in {"look", "mount"} => Remote(r)
         /\ Step(r) = "look" <=> Remote(r) /\ req[r].at = 1
         /\ Step(r) = "mount" <=> Remote(r) /\ req[r].at = 2
<1> DEFINE m == Ask(r).mode
           i == req[r].at
<1>1. m \in Modes /\ i \in Nat BY DEF Types, Records, Asks, Ask
<1>2. Len(Steps(m)) \in Nat /\ Len(Steps(m)) > 2 BY <1>1, Several
<1>3. i <= Len(Steps(m)) BY DEF Placed
<1>4. CASE i = 0 BY <1>1, <1>2, <1>4 DEF Step, Active, Remote
<1>5. CASE i # 0
  <2>1. i \in 1..Len(Steps(m)) BY <1>1, <1>2, <1>3, <1>5
  <2>2. Step(r) = Steps(m)[i] BY <1>5 DEF Step, Active
  <2> HIDE DEF m, i
  <2>3. /\ Step(r) = "rivendell" <=> i = Len(Steps(m))
        /\ Step(r) = "mount" <=> m = "client" /\ i = 2
        /\ Step(r) = "look" <=> m = "client" /\ i = 1
    BY <1>1, <2>1, <2>2, StepsAre
  <2> QED BY <1>1, <1>2, <1>3, <2>3 DEF m, i, Remote
<1> QED BY <1>4, <1>5

\* A request that does not move keeps its step and its file.
LEMMA Resting ==
  ASSUME NEW s \in Tabs, req'[s] = req[s]
  PROVE  /\ Step(s)' = Step(s) /\ FileOf(s)' = FileOf(s)
         /\ Placed(s) => Placed(s)'
         /\ \A file : Editing(s, file)' = Editing(s, file)
<1>1. Step(s)' = Step(s) BY DEF Step, Active, Ask
<1>2. FileOf(s)' = FileOf(s) BY <1>1 DEF FileOf
<1>3. Named(s)' <=> Named(s) BY DEF Named, Active, Remote, Ask
<1> QED BY <1>1, <1>2, <1>3 DEF Placed, Editing, Ask

\* A step moves one request.
LEMMA OneMoves ==
  ASSUME Types, NEW r \in Tabs, Acts(r), NEW s \in Tabs, s # r
  PROVE  req'[s] = req[s]
BY DEF Types, Acts, ModeApply, Fail, Ended, Read, ReadFails, Empty, Fill, Unlink, Install,
       Password, Unmount, Look, Mount, Links, Sys, RestartRivendell, Next1

\* A request that goes on is one; so is one that is over, or begins.
LEMMA Requested ==
  ASSUME Types, NEW r \in Tabs
  PROVE  /\ req[r] \in Records /\ Idle \in Records
         /\ \A q \in Records : [req EXCEPT ![r] = q] \in [Tabs -> Records]
         /\ \A n \in {1, 2} : [req EXCEPT ![r].at = @ + n, ![r].phase = "read"] \in [Tabs -> Records]
         /\ \A ask \in Asks : [Idle EXCEPT !.ask = ask, !.at = 1] \in Records
<1>1. req \in [Tabs -> Records] /\ req[r] \in Records BY DEF Types
<1>2. Idle \in Records
  BY DEF Idle, Standalone, Asks, Modes, Phases, ConfType, FstabType, NoConf, NoFstab, Records
<1>3. \A q \in Records : [req EXCEPT ![r] = q] \in [Tabs -> Records] BY <1>1
<1>4. ASSUME NEW n \in {1, 2}
      PROVE [req EXCEPT ![r].at = @ + n, ![r].phase = "read"] \in [Tabs -> Records]
  <2> DEFINE q == [req[r] EXCEPT !.at = @ + n, !.phase = "read"]
  <2>1. q \in Records
    <3>1. \A p \in Records, i \in Nat, f \in Phases : [p EXCEPT !.at = i, !.phase = f] \in Records
      BY DEF Records
    <3>2. req[r].at \in Nat BY <1>1 DEF Records
    <3>3. req[r].at + n \in Nat /\ "read" \in Phases BY <3>2 DEF Phases
    <3> QED BY <1>1, <3>1, <3>3
  <2>2. [req EXCEPT ![r].at = @ + n, ![r].phase = "read"] = [req EXCEPT ![r] = q] BY <1>1
  <2> HIDE DEF q
  <2> QED BY <1>3, <2>1, <2>2
<1>5. ASSUME NEW ask \in Asks PROVE [Idle EXCEPT !.ask = ask, !.at = 1] \in Records
  BY <1>2 DEF Records
<1> QED BY <1>1, <1>2, <1>3, <1>4, <1>5

\* No action makes of a file or a request what it is not.
LEMMA TypesStep == ASSUME Types, NEW r \in Tabs, Placed(r), Acts(r) PROVE Types'
<1>1. /\ req \in [Tabs -> Records] /\ FilesTyped /\ mounts \in Seq(Hosts)
      /\ req[r] \in Records
  BY DEF Types
<1>2. FilesTyped /\ UNCHANGED files => FilesTyped' BY DEF FilesTyped, files
<1>3. req[r].at \in Nat /\ Ask(r) \in Asks /\ Ask(r).nfs \in Hosts \union {None}
  BY <1>1 DEF Ask, Records, Asks
<1>4. CASE \E ask \in Requests : ModeApply(r, ask)
  <2>1. PICK ask \in Requests : ModeApply(r, ask) BY <1>4
  <2>2. ask \in Asks BY ModeAssumption DEF Asks, Modes
  <2>3. [Idle EXCEPT !.ask = ask, !.at = 1] \in Records BY <2>2, Requested
  <2>4. [req EXCEPT ![r] = [Idle EXCEPT !.ask = ask, !.at = 1]] \in [Tabs -> Records]
    BY <2>3, Requested
  <2>5. req' \in [Tabs -> Records] BY <1>1, <2>1, <2>4 DEF ModeApply
  <2> QED BY <1>1, <1>2, <2>1, <2>5 DEF ModeApply, Types, files
<1>5. CASE Fail(r) \/ RestartRivendell(r) \/ ReadFails(r)
  <2>1. req' \in [Tabs -> Records]
    BY <1>1, <1>5, Requested DEF Fail, RestartRivendell, ReadFails, Ended
  <2> QED BY <1>1, <1>2, <1>5, <2>1 DEF Fail, RestartRivendell, ReadFails, Types, files
<1>6. CASE Read(r)
  <2>1. ASSUME req' = [req EXCEPT ![r].phase = "empty", ![r].conf = conf, ![r].fstab = fstab]
        PROVE req' \in [Tabs -> Records]
    <3> DEFINE q == [req[r] EXCEPT !.phase = "empty", !.conf = conf, !.fstab = fstab]
    <3>1. q \in Records BY <1>1 DEF Records, Phases, FilesTyped
    <3>2. req' = [req EXCEPT ![r] = q] BY <1>1, <2>1
    <3> QED BY <3>1, <3>2, Requested
  <2>2. Next1(r, 1) => req' \in [Tabs -> Records] BY Requested DEF Next1
  <2>3. req' \in [Tabs -> Records] BY <1>6, <2>1, <2>2 DEF Read
  <2> QED BY <1>1, <1>2, <1>6, <2>3 DEF Read, Types, files
<1>7. CASE Empty(r)
  <2> DEFINE q == [req[r] EXCEPT !.phase = "fill"]
  <2>1. q \in Records BY <1>1 DEF Records, Phases
  <2>2. req' = [req EXCEPT ![r] = q] BY <1>1, <1>7 DEF Empty
  <2>3. req' \in [Tabs -> Records] BY <2>1, <2>2, Requested
  <2>4. FilesTyped'
    BY <1>1, <1>7 DEF Empty, FilesTyped, ConfType, FstabType, NoConf, NoFstab
  <2> QED BY <1>1, <1>7, <2>3, <2>4 DEF Empty, Types
<1>8. CASE Fill(r)
  <2>1. WithConf(req[r].conf, r) \in ConfType
    <3>1. req[r].conf \in ConfType /\ req[r].pass \in Hosts \union {Local, None}
      BY <1>1 DEF Records
    <3> QED BY <1>3, <3>1 DEF WithConf, WithMySQL, WithStore, ConfType, Asks
  <2>2. Step(r) \in FstabSteps => WithFstab(req[r].fstab, r) \in FstabType
    <3>1. req[r].fstab \in FstabType BY <1>1 DEF Records
    <3> QED BY <1>3, <3>1 DEF WithFstab, FstabSteps, FstabType
  <2>3. Step(r) \in Edits BY <1>8 DEF Fill, Placed
  <2>4. FilesTyped' BY <1>1, <1>8, <2>1, <2>2, <2>3 DEF Fill, Edits, FilesTyped
  <2> DEFINE q == [req[r] EXCEPT !.phase = "install", !.conf = NoConf, !.fstab = NoFstab]
  <2>5. q \in Records BY <1>1 DEF Records, Phases, ConfType, FstabType, NoConf, NoFstab
  <2>6. req' = [req EXCEPT ![r] = q] BY <1>1, <1>8 DEF Fill
  <2>7. req' \in [Tabs -> Records] BY <2>5, <2>6, Requested
  <2> QED BY <1>1, <1>8, <2>4, <2>7 DEF Fill, Types
<1>9. CASE Install(r)
  <2>1. req' \in [Tabs -> Records] BY <1>9, Requested DEF Install, Next1
  <2>2. FilesTyped' BY <1>1, <1>9 DEF Install, FilesTyped
  <2> QED BY <1>1, <1>9, <2>1, <2>2 DEF Install, Types
<1>14. CASE Unlink(r)
  <2> DEFINE q == [req[r] EXCEPT !.phase = "copy"]
  <2>1. q \in Records BY <1>1 DEF Records, Phases
  <2>2. req' = [req EXCEPT ![r] = q] BY <1>1, <1>14 DEF Unlink
  <2>3. req' \in [Tabs -> Records] BY <2>1, <2>2, Requested
  <2>4. NoConf \in ConfType /\ NoFstab \in FstabType
    BY DEF ConfType, FstabType, NoConf, NoFstab
  <2>5. FilesTyped' BY <1>1, <1>14, <2>4 DEF Unlink, FilesTyped
  <2> QED BY <1>1, <1>14, <2>3, <2>5 DEF Unlink, Types
<1>10. CASE Password(r)
  <2> DEFINE q == [req[r] EXCEPT !.pass = conf.pass, !.at = @ + 1]
  <2>1. q \in Records
    <3>1. \A p \in Records, i \in Nat, w \in Hosts \union {Local, None} :
            [p EXCEPT !.pass = w, !.at = i] \in Records
      BY DEF Records
    <3>2. conf.pass \in Hosts \union {Local, None} BY <1>1 DEF ConfType, FilesTyped
    <3>3. req[r].at + 1 \in Nat BY <1>3
    <3> QED BY <1>1, <3>1, <3>2, <3>3
  <2>2. req' = [req EXCEPT ![r] = q] BY <1>1, <1>10 DEF Password
  <2>3. req' \in [Tabs -> Records] BY <2>1, <2>2, Requested
  <2> QED BY <1>1, <1>2, <1>10, <2>3 DEF Password, Types, files
<1>11. CASE Unmount(r) \/ Look(r)
  <2>1. req' \in [Tabs -> Records] BY <1>11, Requested DEF Unmount, Look, Next1
  <2>2. mounts # <<>> => Unmounted \in Seq(Hosts) BY <1>1 DEF Unmounted
  <2>3. mounts' \in Seq(Hosts)
    BY <1>1, <1>11, <2>2 DEF Unmount, Look, MountSource
  <2> QED BY <1>1, <1>2, <1>11, <2>1, <2>3 DEF Unmount, Look, Types
<1>12. CASE Mount(r)
  <2>1. req' \in [Tabs -> Records] BY <1>1, <1>12, Requested DEF Mount, Ended, Next1
  <2>2. Append(mounts, Ask(r).nfs) \in Seq(Hosts)
    <3>1. Active(r) BY <1>12 DEF Mount, Step
    <3>2. Remote(r) BY <1>12, Standing DEF Mount
    <3>3. Ask(r).nfs \in Hosts BY <1>3, <3>1, <3>2 DEF Placed, Named
    <3> QED BY <1>1, <3>3
  <2>3. mounts' \in Seq(Hosts) BY <1>1, <1>12, <2>2 DEF Mount
  <2> QED BY <1>1, <1>2, <1>12, <2>1, <2>3 DEF Mount, Types
<1>13. CASE Links(r) \/ Sys(r)
  <2>1. req' \in [Tabs -> Records] BY <1>1, <1>13, Requested DEF Links, Sys, Ended, Next1
  <2> QED BY <1>1, <1>2, <1>13, <2>1 DEF Links, Sys, Types
<1> QED BY <1>4, <1>5, <1>6, <1>7, <1>8, <1>9, <1>10, <1>11, <1>12, <1>13, <1>14 DEF Acts

\* What a step makes of the request that takes it: it goes on in its mode, it
\* begins, or it is over.
LEMMA Goes ==
  ASSUME Types, NEW r \in Tabs, Placed(r), Acts(r)
  PROVE  \/ /\ Active(r) /\ Ask(r)' = Ask(r)
            /\ \/ req'[r].at = req[r].at /\ Step(r) \in Edits
               \/ req'[r].at = req[r].at + 1 /\ req'[r].phase = "read" /\ Step(r) # "rivendell"
               \/ req'[r].at = req[r].at + 2 /\ req'[r].phase = "read" /\ Step(r) = "look"
         \/ req'[r].at \in {0, 1} /\ req'[r].phase = "read" /\ Named(r)'
<1>0. (Step(r) # "none" => Active(r)) /\ req \in [Tabs -> Records] /\ req[r] \in Records
  BY DEF Step, Types
<1> USE DEF Records
<1>1. req[r].phase # "read" => Step(r) \in Edits BY DEF Placed
<1>2. "none" \notin Edits BY DEF Edits, ConfSteps, FstabSteps
<1>9. ~Active(r) => req[r].phase = "read" BY <1>1, <1>2 DEF Step
<1>3. CASE \/ \E ask \in Requests : ModeApply(r, ask)
           \/ Fail(r) \/ RestartRivendell(r) \/ ReadFails(r)
  <2>1. ASSUME Ended(r, TRUE) \/ Ended(r, FALSE)
        PROVE req'[r].at = 0 /\ req'[r].phase = "read" /\ Named(r)'
    BY <1>0, <2>1 DEF Ended, Idle, Named, Active
  <2>2. ASSUME NEW ask \in Requests, ModeApply(r, ask)
        PROVE req'[r].at \in {0, 1} /\ req'[r].phase = "read" /\ Named(r)'
    <3>1. CASE req' = [req EXCEPT ![r] = [Idle EXCEPT !.ask = ask, !.at = 1]]
               /\ (ask.mode = "client" => ask.nfs # None)
      <4>1. req'[r].at = 1 /\ req'[r].phase = "read" /\ req'[r].ask = ask BY <1>0, <3>1 DEF Idle
      <4> QED BY <3>1, <4>1 DEF Named, Remote, Ask
    <3>2. CASE req' = req
      <4>1. req[r].at = 0 BY <2>2 DEF ModeApply, Active
      <4> QED BY <3>2, <4>1, <1>9 DEF Active, Named
    <3> QED BY <2>2, <3>1, <3>2 DEF ModeApply
  <2> QED BY <1>3, <2>1, <2>2 DEF Fail, RestartRivendell, ReadFails
<1>4. CASE Read(r) BY <1>0, <1>2, <1>4 DEF Read, Next1, Ask, Edits, ConfSteps, FstabSteps
<1>5. CASE Empty(r) \/ Fill(r) \/ Unlink(r) \/ Install(r)
  BY <1>0, <1>1, <1>2, <1>5
  DEF Empty, Fill, Unlink, Install, Next1, Ask, Edits, ConfSteps, FstabSteps
<1>6. CASE Password(r)
  <2>1. req[r].phase = "read" BY <1>1, <1>6 DEF Password, Edits, ConfSteps, FstabSteps
  <2> QED BY <1>0, <1>6, <2>1 DEF Password, Ask
<1>7. CASE Unmount(r) \/ Look(r) \/ Sys(r)
  BY <1>0, <1>7 DEF Unmount, Look, Sys, SysSteps, Next1, Ask
<1>8. CASE Mount(r) \/ Links(r)
  BY <1>0, <1>8 DEF Mount, Links, Next1, Ended, Ask, Idle, Named, Active
<1> QED BY <1>3, <1>4, <1>5, <1>6, <1>7, <1>8 DEF Acts

\* No request runs past the last step of its mode, and one that is at the
\* mount has just looked.
LEMMA PlacedStep ==
  ASSUME Types, NEW r \in Tabs, Placed(r), Acts(r), Types'
  PROVE  /\ Placed(r)'
         /\ req'[r].phase # "read" => Active(r) /\ Step(r)' = Step(r) /\ Step(r) \in Edits
         /\ Step(r)' = "mount" => Step(r) = "look" /\ req'[r].at = 2
<1> DEFINE L == Len(Steps(Ask(r).mode))
<1>0. Active(r) /\ Ask(r)' = Ask(r) => Named(r)' BY DEF Placed, Named, Remote
<1>1. /\ L \in Nat /\ L > 2 /\ req[r].at <= L
      /\ Active(r) /\ Step(r) # "rivendell" => req[r].at < L
      /\ Step(r) = "look" <=> Remote(r) /\ req[r].at = 1
      /\ Step(r) = "mount" <=> Remote(r) /\ req[r].at = 2
  BY Standing DEF Placed
<1>2. req[r].at \in Nat /\ req'[r].at \in Nat /\ Ask(r)' \in Asks /\ Ask(r)'.mode \in Modes
  <2>1. req[r] \in Records /\ req'[r] \in Records BY DEF Types
  <2>2. \A p \in Records : p.at \in Nat /\ p.ask \in Asks /\ p.ask.mode \in Modes
    BY DEF Records, Asks
  <2>3. Ask(r) = req[r].ask /\ Ask(r)' = req'[r].ask BY DEF Ask
  <2> QED BY <2>1, <2>2, <2>3
<1>3. Len(Steps(Ask(r)'.mode)) \in Nat /\ Len(Steps(Ask(r)'.mode)) > 2
  BY <1>2, Several
<1>4. Step(r)' = IF req'[r].at # 0 THEN Steps(Ask(r)'.mode)[req'[r].at] ELSE "none"
  BY DEF Step, Active
<1>5. CASE /\ Active(r) /\ Ask(r)' = Ask(r)
           /\ req'[r].at = req[r].at /\ Step(r) \in Edits
  <2>1. Step(r)' = Step(r) BY <1>4, <1>5 DEF Step, Active
  <2>2. Step(r) # "mount" BY <1>5 DEF Edits, ConfSteps, FstabSteps
  <2> QED BY <1>0, <1>1, <1>5, <2>1, <2>2 DEF Placed
<1>6. CASE /\ Active(r) /\ Ask(r)' = Ask(r) /\ req'[r].phase = "read"
           /\ req'[r].at = req[r].at + 1 /\ Step(r) # "rivendell"
  <2>1. req'[r].at <= L /\ req'[r].at \in 1..L BY <1>1, <1>2, <1>6
  <2>2. Step(r)' = "mount" <=> Ask(r).mode = "client" /\ req'[r].at = 2
    BY <1>2, <1>4, <1>6, <2>1, StepsAre
  <2>3. Step(r)' = "mount" => Step(r) = "look" /\ req'[r].at = 2
    BY <1>1, <1>2, <1>6, <2>2 DEF Remote
  <2> QED BY <1>0, <1>6, <2>1, <2>3 DEF Placed
<1>7. CASE /\ Active(r) /\ Ask(r)' = Ask(r) /\ req'[r].phase = "read"
           /\ req'[r].at = req[r].at + 2 /\ Step(r) = "look"
  <2>1. req'[r].at = 3 /\ req'[r].at \in 1..L BY <1>1, <1>2, <1>7
  <2>2. Step(r)' # "mount" BY <1>2, <1>4, <1>7, <2>1, StepsAre
  <2> QED BY <1>0, <1>7, <2>1, <2>2 DEF Placed
<1>8. CASE req'[r].at \in {0, 1} /\ req'[r].phase = "read" /\ Named(r)'
  <2>1. Step(r)' # "mount"
    <3>1. CASE req'[r].at = 0 BY <1>4, <3>1
    <3>2. CASE req'[r].at = 1
      <4>1. 1 \in 1..Len(Steps(Ask(r)'.mode)) BY <1>3
      <4> QED BY <1>2, <1>4, <3>2, <4>1, StepsAre
    <3> QED BY <1>8, <3>1, <3>2
  <2> QED BY <1>3, <1>8, <2>1 DEF Placed
<1> QED BY <1>5, <1>6, <1>7, <1>8, Goes
-----------------------------------------------------------------------------
(* rd.conf and fstab.                                                      *)

\* A request begins an edit by reading the file, and then says so if another
\* edits the file.
LEMMA Entering ==
  ASSUME Types, NEW r \in Tabs, Placed(r), Acts(r), req[r].phase = "read", req'[r].phase # "read"
  PROVE  /\ Read(r) /\ req'[r].phase = "empty"
         /\ req'[r].conf = conf /\ req'[r].fstab = fstab
         /\ \A s \in Tabs \ {r} : Editing(s, FileOf(r)) => FileOf(r) \in crossed'
<1>0. req \in [Tabs -> Records] /\ req[r] \in Records BY DEF Types
<1>1. Active(r) /\ Step(r) \in Edits BY Goes
<1>2. ~\E ask \in Requests : ModeApply(r, ask) BY <1>1 DEF ModeApply
<1>3. ~Fail(r) /\ ~RestartRivendell(r) /\ ~ReadFails(r)
  BY <1>0 DEF Fail, RestartRivendell, ReadFails, Ended, Idle
<1>4. ~Empty(r) /\ ~Fill(r) /\ ~Unlink(r) /\ ~Install(r) BY DEF Empty, Fill, Unlink, Install
<1>5. ~Password(r) /\ ~Unmount(r) /\ ~Look(r) /\ ~Mount(r) /\ ~Links(r)
  BY <1>1 DEF Password, Unmount, Look, Mount, Links, Edits, ConfSteps, FstabSteps
<1>6. ~Sys(r) BY <1>1 DEF Sys, SysSteps, Edits, ConfSteps, FstabSteps
<1>7. Read(r) BY <1>2, <1>3, <1>4, <1>5, <1>6 DEF Acts
<1>8. ~Next1(r, 1) BY <1>0 DEF Next1, Records
<1>9. /\ req' = [req EXCEPT ![r].phase = "empty", ![r].conf = conf, ![r].fstab = fstab]
      /\ crossed' = IF Crosses(r) THEN crossed \union {FileOf(r)} ELSE crossed
  BY <1>7, <1>8 DEF Read
<1>10. req'[r] = [req[r] EXCEPT !.phase = "empty", !.conf = conf, !.fstab = fstab] BY <1>0, <1>9
<1> QED BY <1>0, <1>7, <1>9, <1>10 DEF Records, Crosses, Editing

\* A step that does not begin an edit, nor ends one, does not touch the files.
\* What it fills keeps the keys, what it installs is what was staged.
LEMMA Edited ==
  ASSUME Types, NEW r \in Tabs, Placed(r), Acts(r), Types'
  PROVE  /\ crossed \subseteq crossed' /\ torn \subseteq torn'
         /\ \/ UNCHANGED <<conf, fstab, staged>>
               /\ (req'[r].phase = "read" \/ req[r].phase = "read")
               /\ (req[r].phase = "copy" => FileOf(r) \in torn')
            \/ req[r].phase = "empty" /\ req'[r].phase = "fill" /\ UNCHANGED <<conf, fstab>>
               /\ req'[r].conf = req[r].conf /\ req'[r].fstab = req[r].fstab
               /\ (FileOf(r) = "conf" => staged'.fstab = staged.fstab)
               /\ (FileOf(r) = "fstab" => staged'.conf = staged.conf)
            \/ req[r].phase = "fill" /\ req'[r].phase = "install" /\ UNCHANGED <<conf, fstab>>
               /\ (FileOf(r) = "conf" => /\ staged'.fstab = staged.fstab
                                         /\ req[r].conf.keys => staged'.conf.keys)
               /\ (FileOf(r) = "fstab" => /\ staged'.conf = staged.conf
                                          /\ req[r].fstab.root => staged'.fstab.root)
            \/ req[r].phase = "install" /\ req'[r].phase = "copy" /\ staged' = staged
               /\ (FileOf(r) = "conf" => fstab' = fstab)
               /\ (FileOf(r) = "fstab" => conf' = conf)
            \/ req[r].phase = "copy" /\ req'[r].phase = "read" /\ staged' = staged
               /\ (FileOf(r) = "conf" => conf' = staged.conf /\ fstab' = fstab)
               /\ (FileOf(r) = "fstab" => fstab' = staged.fstab /\ conf' = conf)
<1>1. /\ req \in [Tabs -> Records] /\ req[r] \in Records /\ FilesTyped
  BY DEF Types
<1>2. FileOf(r) = IF Step(r) \in ConfSteps THEN "conf" ELSE "fstab" BY DEF FileOf
<1>3. \A n \in {1, 2} : Next1(r, n) => req'[r].phase = "read" BY <1>1 DEF Next1, Records
<1>4. \A ok : Ended(r, ok) => req'[r].phase = "read" BY <1>1 DEF Ended, Idle
<1>5. CASE \E ask \in Requests : ModeApply(r, ask)
  <2>1. Step(r) = "none" BY <1>5 DEF ModeApply, Step
  <2>2. req[r].phase = "read" BY <2>1 DEF Placed, Edits, ConfSteps, FstabSteps
  <2> QED BY <1>5, <2>2 DEF ModeApply
<1>6. CASE Fail(r) \/ RestartRivendell(r) \/ ReadFails(r)
  <2>1. req[r].phase = "copy" => ~RestartRivendell(r) /\ ~ReadFails(r)
    BY DEF Placed, RestartRivendell, ReadFails, Edits, ConfSteps, FstabSteps
  <2>2. Fail(r) /\ req[r].phase = "copy" => FileOf(r) \in torn' BY DEF Fail, Copying
  <2>3. torn \subseteq torn' BY <1>6 DEF Fail, RestartRivendell, ReadFails, past
  <2> QED BY <1>4, <1>6, <2>1, <2>2, <2>3 DEF Fail, RestartRivendell, ReadFails, files
<1>7. CASE Read(r)
  BY <1>7 DEF Read, past
<1>8. CASE Empty(r)
  <2>1. req'[r] = [req[r] EXCEPT !.phase = "fill"] BY <1>1, <1>8 DEF Empty
  <2>2. req'[r].phase = "fill" /\ req'[r].conf = req[r].conf /\ req'[r].fstab = req[r].fstab
    BY <1>1, <2>1 DEF Records
  <2>3. /\ FileOf(r) = "conf" => staged'.fstab = staged.fstab
        /\ FileOf(r) = "fstab" => staged'.conf = staged.conf
    BY <1>1, <1>2, <1>8 DEF Empty, FilesTyped
  <2> QED BY <1>8, <2>2, <2>3 DEF Empty, past
<1>9. CASE Fill(r)
  <2>1. req'[r].phase = "install"
    <3>1. req'[r] = [req[r] EXCEPT !.phase = "install", !.conf = NoConf, !.fstab = NoFstab]
      BY <1>1, <1>9 DEF Fill
    <3> QED BY <1>1, <3>1 DEF Records
  <2>2. Step(r) \in ConfSteps \/ Step(r) \in FstabSteps BY <1>9 DEF Fill, Placed, Edits
  <2>3. req[r].conf.keys => WithConf(req[r].conf, r).keys
    <3>1. req[r].conf \in ConfType BY <1>1 DEF Records
    <3> QED BY <3>1 DEF WithConf, WithMySQL, WithStore, ConfType
  <2>4. Step(r) \in FstabSteps /\ req[r].fstab.root => WithFstab(req[r].fstab, r).root
    <3>1. req[r].fstab \in FstabType BY <1>1 DEF Records
    <3> QED BY <3>1 DEF WithFstab, FstabType, FstabSteps
  <2>5. /\ Step(r) \in ConfSteps => /\ staged'.fstab = staged.fstab
                                    /\ staged'.conf = WithConf(req[r].conf, r)
        /\ Step(r) \notin ConfSteps => /\ staged'.conf = staged.conf
                                       /\ staged'.fstab = WithFstab(req[r].fstab, r)
    BY <1>1, <1>9 DEF Fill, FilesTyped
  <2> QED BY <1>2, <1>9, <2>1, <2>2, <2>3, <2>4, <2>5 DEF Fill, past
<1>10. CASE Install(r)
  BY <1>2, <1>3, <1>10 DEF Install, past
<1>14. CASE Unlink(r)
  <2>1. req'[r].phase = "copy" BY <1>1, <1>14 DEF Unlink, Records
  <2> QED BY <1>2, <1>14, <2>1 DEF Unlink, past
<1>11. CASE Password(r)
  <2>1. Step(r) \notin Edits BY <1>11 DEF Password, Edits, ConfSteps, FstabSteps
  <2>2. req[r].phase = "read" BY <2>1 DEF Placed
  <2> QED BY <1>11, <2>2 DEF Password, files, past
<1>12. CASE Unmount(r) \/ Look(r) \/ Sys(r)
  <2>1. req[r].phase = "read"
    BY <1>12 DEF Placed, Unmount, Look, Sys, SysSteps, Edits, ConfSteps, FstabSteps
  <2> QED BY <1>3, <1>12, <2>1 DEF Unmount, Look, Sys, files, past
<1>13. CASE Mount(r) \/ Links(r)
  <2>1. req[r].phase = "read"
    BY <1>13 DEF Placed, Mount, Links, Edits, ConfSteps, FstabSteps
  <2> QED BY <1>3, <1>4, <1>13, <2>1 DEF Mount, Links, files, past
<1> QED BY <1>5, <1>6, <1>7, <1>8, <1>9, <1>10, <1>11, <1>12, <1>13, <1>14 DEF Acts

\* The keys of rd.conf outlive a step.
LEMMA ConfStep ==
  ASSUME Types, \A s \in Tabs : Placed(s), ConfWhole, NEW r \in Tabs, Acts(r), Types'
  PROVE  ConfWhole'
<1> SUFFICES ASSUME "conf" \notin crossed'
             PROVE  /\ \A s, t \in Tabs : Editing(s, "conf")' /\ Editing(t, "conf")' => s = t
                    /\ "conf" \notin torn' =>
                         /\ conf'.keys \/ Copied("conf")'
                         /\ \A s \in Tabs : Editing(s, "conf")' =>
                              /\ req'[s].phase \in {"empty", "fill"} => req'[s].conf.keys
                              /\ req'[s].phase \in {"install", "copy"} => staged'.conf.keys
  BY DEF ConfWhole
<1>0. Placed(r) OBVIOUS
<1>1. "conf" \notin crossed /\ torn \subseteq torn' BY Edited
<1>2. /\ \A s, t \in Tabs : Editing(s, "conf") /\ Editing(t, "conf") => s = t
      /\ "conf" \notin torn =>
           /\ conf.keys \/ Copied("conf")
           /\ \A s \in Tabs : Editing(s, "conf") =>
                /\ req[s].phase \in {"empty", "fill"} => req[s].conf.keys
                /\ req[s].phase \in {"install", "copy"} => staged.conf.keys
  BY <1>1 DEF ConfWhole
<1>3. \A s \in Tabs \ {r} : req'[s] = req[s] /\ (Editing(s, "conf")' <=> Editing(s, "conf"))
  BY OneMoves, Resting
<1>4. Editing(r, "conf")' <=> req'[r].phase # "read" /\ FileOf(r) = "conf"
  BY PlacedStep DEF Editing, FileOf
<1>5. CASE Editing(r, "conf")
  <2>1. req[r].phase # "read" /\ FileOf(r) = "conf" BY <1>5 DEF Editing
  <2>2. \A s \in Tabs \ {r} : ~Editing(s, "conf") /\ ~Editing(s, "conf")' BY <1>2, <1>3, <1>5
  <2>3. ASSUME "conf" \notin torn'
        PROVE  /\ conf'.keys \/ Copied("conf")'
               /\ req'[r].phase \in {"empty", "fill"} => req'[r].conf.keys
               /\ req'[r].phase \in {"install", "copy"} => staged'.conf.keys
    <3>1. /\ req[r].phase # "copy" => conf.keys
          /\ req[r].phase \in {"empty", "fill"} => req[r].conf.keys
          /\ req[r].phase \in {"install", "copy"} => staged.conf.keys
      BY <1>1, <1>2, <1>5, <2>2, <2>3 DEF Copied
    <3>2. req'[r].phase = "copy" => Copied("conf")' BY <1>4, <2>1 DEF Copied
    <3> QED BY <2>1, <2>3, <3>1, <3>2, Edited
  <2> QED BY <1>2, <2>2, <2>3
<1>6. CASE ~Editing(r, "conf") /\ Editing(r, "conf")'
  <2>1. req[r].phase = "read" /\ req'[r].phase # "read" /\ FileOf(r) = "conf"
    BY <1>4, <1>6 DEF Editing
  <2>2. /\ req'[r].phase = "empty" /\ req'[r].conf = conf
        /\ \A s \in Tabs \ {r} : ~Editing(s, "conf")
    BY <2>1, Entering
  <2>3. conf' = conf BY <2>1, <2>2, Edited
  <2>4. ~Copied("conf") BY <1>6, <2>2 DEF Copied
  <2> QED BY <1>1, <1>2, <1>3, <2>2, <2>3, <2>4
<1>7. CASE ~Editing(r, "conf") /\ ~Editing(r, "conf")'
  <2>1. conf' = conf /\ staged'.conf = staged.conf
    <3>1. CASE req[r].phase = "read" BY <3>1, Edited
    <3>2. CASE req[r].phase # "read"
      <4>1. FileOf(r) = "fstab" BY <1>7, <3>2 DEF Editing, FileOf
      <4> QED BY <3>2, <4>1, Edited
    <3> QED BY <3>1, <3>2
  <2>2. Copied("conf") => Copied("conf")' BY <1>3, <1>7 DEF Copied
  <2> QED BY <1>1, <1>2, <1>3, <1>7, <2>1, <2>2
<1> QED BY <1>5, <1>6, <1>7

\* And so does the root in fstab.
LEMMA FstabStep ==
  ASSUME Types, \A s \in Tabs : Placed(s), FstabWhole, NEW r \in Tabs, Acts(r), Types'
  PROVE  FstabWhole'
<1> SUFFICES ASSUME "fstab" \notin crossed'
             PROVE  /\ \A s, t \in Tabs : Editing(s, "fstab")' /\ Editing(t, "fstab")' => s = t
                    /\ "fstab" \notin torn' =>
                         /\ fstab'.root \/ Copied("fstab")'
                         /\ \A s \in Tabs : Editing(s, "fstab")' =>
                              /\ req'[s].phase \in {"empty", "fill"} => req'[s].fstab.root
                              /\ req'[s].phase \in {"install", "copy"} => staged'.fstab.root
  BY DEF FstabWhole
<1>0. Placed(r) OBVIOUS
<1>1. "fstab" \notin crossed /\ torn \subseteq torn' BY Edited
<1>2. /\ \A s, t \in Tabs : Editing(s, "fstab") /\ Editing(t, "fstab") => s = t
      /\ "fstab" \notin torn =>
           /\ fstab.root \/ Copied("fstab")
           /\ \A s \in Tabs : Editing(s, "fstab") =>
                /\ req[s].phase \in {"empty", "fill"} => req[s].fstab.root
                /\ req[s].phase \in {"install", "copy"} => staged.fstab.root
  BY <1>1 DEF FstabWhole
<1>3. \A s \in Tabs \ {r} : req'[s] = req[s] /\ (Editing(s, "fstab")' <=> Editing(s, "fstab"))
  BY OneMoves, Resting
<1>4. Editing(r, "fstab")' <=> req'[r].phase # "read" /\ FileOf(r) = "fstab"
  BY PlacedStep DEF Editing, FileOf
<1>5. CASE Editing(r, "fstab")
  <2>1. req[r].phase # "read" /\ FileOf(r) = "fstab" BY <1>5 DEF Editing
  <2>2. \A s \in Tabs \ {r} : ~Editing(s, "fstab") /\ ~Editing(s, "fstab")' BY <1>2, <1>3, <1>5
  <2>3. ASSUME "fstab" \notin torn'
        PROVE  /\ fstab'.root \/ Copied("fstab")'
               /\ req'[r].phase \in {"empty", "fill"} => req'[r].fstab.root
               /\ req'[r].phase \in {"install", "copy"} => staged'.fstab.root
    <3>1. /\ req[r].phase # "copy" => fstab.root
          /\ req[r].phase \in {"empty", "fill"} => req[r].fstab.root
          /\ req[r].phase \in {"install", "copy"} => staged.fstab.root
      BY <1>1, <1>2, <1>5, <2>2, <2>3 DEF Copied
    <3>2. req'[r].phase = "copy" => Copied("fstab")' BY <1>4, <2>1 DEF Copied
    <3> QED BY <2>1, <2>3, <3>1, <3>2, Edited
  <2> QED BY <1>2, <2>2, <2>3
<1>6. CASE ~Editing(r, "fstab") /\ Editing(r, "fstab")'
  <2>1. req[r].phase = "read" /\ req'[r].phase # "read" /\ FileOf(r) = "fstab"
    BY <1>4, <1>6 DEF Editing
  <2>2. /\ req'[r].phase = "empty" /\ req'[r].fstab = fstab
        /\ \A s \in Tabs \ {r} : ~Editing(s, "fstab")
    BY <2>1, Entering
  <2>3. fstab' = fstab BY <2>1, <2>2, Edited
  <2>4. ~Copied("fstab") BY <1>6, <2>2 DEF Copied
  <2> QED BY <1>1, <1>2, <1>3, <2>2, <2>3, <2>4
<1>7. CASE ~Editing(r, "fstab") /\ ~Editing(r, "fstab")'
  <2>1. fstab' = fstab /\ staged'.fstab = staged.fstab
    <3>1. CASE req[r].phase = "read" BY <3>1, Edited
    <3>2. CASE req[r].phase # "read"
      <4>1. FileOf(r) = "conf" BY <1>7, <3>2 DEF Editing, FileOf
      <4> QED BY <3>2, <4>1, Edited
    <3> QED BY <3>1, <3>2
  <2>2. Copied("fstab") => Copied("fstab")' BY <1>3, <1>7 DEF Copied
  <2> QED BY <1>1, <1>2, <1>3, <1>7, <2>1, <2>2
<1> QED BY <1>5, <1>6, <1>7
-----------------------------------------------------------------------------
(* The mount.                                                              *)

\* What a step does to the mount: it mounts where it stands at the mount, takes
\* one mount off, or leaves it; whoever comes to the mount leaves nothing
\* mounted where one thing was, and says so if another stands there.
LEMMA Mounting ==
  ASSUME Types, NEW r \in Tabs, Placed(r), Acts(r), Types'
  PROVE  /\ \/ mounts' = mounts
            \/ mounts # <<>> /\ mounts' = Unmounted
            \/ Step(r) = "mount" /\ mounts' = Append(mounts, Ask(r).nfs)
         /\ Step(r)' = "mount" =>
              /\ mounts' = IF MountSource = None THEN mounts ELSE Unmounted
              /\ \A s \in Tabs : Step(s) = "mount" => "mount" \in crossed'
         /\ Step(r) = "mount" => Step(r)' # "mount"
<1>1. req \in [Tabs -> Records] /\ req[r] \in Records /\ req[r].at \in Nat
  BY DEF Types, Records
<1>2. Step(r)' = "mount" => Step(r) = "look" /\ req'[r].at = 2 BY PlacedStep
<1>3. Step(r) = "look" => req[r].at = 1 BY Standing
<1>4. CASE Look(r)
  <2>1. MountSource = Ask(r).nfs => req'[r].at = 3
    <3>1. Next1(r, 2) => req'[r].at = req[r].at + 2 BY <1>1 DEF Next1, Records
    <3> QED BY <1>1, <1>3, <1>4, <3>1 DEF Look
  <2>2. Step(r) = "look" BY <1>4 DEF Look
  <2> QED BY <1>2, <1>4, <2>1, <2>2 DEF Look, MountSource
<1>5. CASE Step(r) # "look"
  <2>1. Step(r)' # "mount" BY <1>2, <1>5
  <2>2. ~Look(r) BY <1>5 DEF Look
  <2>3. \/ mounts' = mounts
        \/ mounts # <<>> /\ mounts' = Unmounted
        \/ Step(r) = "mount" /\ mounts' = Append(mounts, Ask(r).nfs)
    BY <2>2 DEF Acts, ModeApply, Fail, Read, ReadFails, Empty, Fill, Unlink, Install, Password,
            Unmount, Mount, Links, Sys, RestartRivendell, MountSource
  <2> QED BY <1>5, <2>1, <2>3
<1>6. CASE Step(r) = "look" /\ ~Look(r)
  <2>1. ~Active(r) => Step(r) = "none" BY DEF Step
  <2>2. Fail(r)
    BY <1>6, <2>1 DEF Acts, ModeApply, Read, ReadFails, Empty, Fill, Unlink, Install, Password,
            Unmount, Mount, Links, Sys, SysSteps, RestartRivendell, Placed, Edits, ConfSteps, FstabSteps
  <2>3. req'[r].at = 0 BY <1>1, <2>2 DEF Fail, Ended, Idle
  <2> QED BY <1>2, <1>6, <2>2, <2>3 DEF Fail
<1> QED BY <1>4, <1>5, <1>6

\* Of one mount nothing is left when it is taken off.
LEMMA Bare ==
  ASSUME NEW S, NEW m \in Seq(S), Len(m) <= 1, m # <<>>
  PROVE  Len(m) = 1 /\ Head(m) \in S /\ SubSeq(m, 1, Len(m) - 1) = <<>>
<1>1. Len(m) = 1
  <2>1. Len(m) \in Nat /\ (Len(m) = 0 => m = <<>>) OBVIOUS
  <2> QED BY <2>1
<1>2. SubSeq(m, 1, 0) = <<>>
  <2> DEFINE t == SubSeq(m, 1, 0)
  <2>1. t \in Seq(S) /\ Len(t) = 0 OBVIOUS
  <2> HIDE DEF t
  <2> QED BY <2>1
<1> QED BY <1>1, <1>2

\* One request at most is about to mount, with nothing mounted.
LEMMA StoreStep ==
  ASSUME Types, \A s \in Tabs : Placed(s), StoreBare, NEW r \in Tabs, Acts(r), Types',
         crossed \subseteq crossed'
  PROVE  StoreBare'
<1> SUFFICES ASSUME "mount" \notin crossed'
             PROVE  /\ Len(mounts') <= 1
                    /\ \A s \in Tabs : Step(s)' = "mount" => mounts' = <<>>
                    /\ \A s, t \in Tabs : Step(s)' = "mount" /\ Step(t)' = "mount" => s = t
  BY DEF StoreBare
<1>1. /\ Len(mounts) <= 1
      /\ \A s \in Tabs : Step(s) = "mount" => mounts = <<>>
      /\ \A s, t \in Tabs : Step(s) = "mount" /\ Step(t) = "mount" => s = t
  BY DEF StoreBare
<1>2. mounts \in Seq(Hosts) BY DEF Types
<1>3. mounts # <<>> => Unmounted = <<>> /\ MountSource # None
  BY <1>1, <1>2, Bare, ModeAssumption DEF Unmounted, MountSource
<1>4. \A s \in Tabs \ {r} : Step(s)' = Step(s) BY OneMoves, Resting
<1>5. CASE Step(r) = "mount"
  <2>1. mounts = <<>> BY <1>1, <1>5
  <2>2. mounts' = mounts \/ mounts' = Append(mounts, Ask(r).nfs) BY <2>1, Mounting
  <2>3. Len(mounts') <= 1 BY <1>2, <2>1, <2>2
  <2>4. \A s \in Tabs : Step(s)' # "mount" BY <1>1, <1>4, <1>5, Mounting
  <2> QED BY <2>3, <2>4
<1>6. CASE Step(r)' = "mount"
  <2>1. mounts' = IF MountSource = None THEN mounts ELSE Unmounted BY <1>6, Mounting
  <2>2. mounts = <<>> => MountSource = None BY DEF MountSource
  <2>4. mounts' = <<>> BY <1>3, <2>1, <2>2
  <2>5. \A s \in Tabs : Step(s) # "mount" BY <1>6, Mounting
  <2> QED BY <1>2, <1>4, <2>4, <2>5
<1>7. CASE Step(r) # "mount" /\ Step(r)' # "mount"
  <2>1. \/ mounts' = mounts
        \/ mounts # <<>> /\ mounts' = Unmounted
        \/ Step(r) = "mount" /\ mounts' = Append(mounts, Ask(r).nfs)
    BY Mounting
  <2> QED BY <1>1, <1>2, <1>3, <1>4, <1>7, <2>1
<1> QED BY <1>5, <1>6, <1>7
-----------------------------------------------------------------------------
(* The invariant.                                                          *)

\* At first nobody has asked for anything.
LEMMA InitialState == Init => IInv
<1> SUFFICES ASSUME Init PROVE IInv OBVIOUS
<1>1. \A r \in Tabs : req[r] = Idle BY DEF Init
<1>2. Idle \in Records
  BY DEF Idle, Standalone, Asks, Modes, Phases, ConfType, FstabType, NoConf, NoFstab, Records
<1>3. Types
  BY <1>2 DEF Init, Types, FilesTyped, ConfType, FstabType, NoConf, NoFstab
<1>4. \A r \in Tabs : ~Active(r) /\ req[r].phase = "read" /\ req[r].at = 0 /\ Ask(r).mode \in Modes
  BY <1>1 DEF Active, Idle, Ask, Standalone, Modes
<1>5. \A r \in Tabs : Placed(r) BY <1>4, Several DEF Placed, Named
<1>6. \A r \in Tabs : Step(r) # "mount" BY <1>4 DEF Step
<1>7. ConfWhole BY <1>4 DEF Init, ConfWhole, Editing
<1>8. FstabWhole BY <1>4 DEF Init, FstabWhole, Editing
<1>9. StoreBare BY <1>6 DEF Init, StoreBare
<1> QED BY <1>3, <1>5, <1>7, <1>8, <1>9 DEF IInv

\* A reboot ends every request, and mounts what fstab says.
LEMMA RebootStep == ASSUME IInv, Reboot PROVE IInv'
<1>1. \A r \in Tabs : req'[r] = Idle BY DEF Reboot
<1>2. Idle \in Records
  BY DEF Idle, Standalone, Asks, Modes, Phases, ConfType, FstabType, NoConf, NoFstab, Records
<1>3. mounts' = IF fstab.snd = None THEN <<>> ELSE <<fstab.snd>> BY DEF Reboot
<1>4. fstab.snd \in Hosts \union {None} BY DEF IInv, Types, FilesTyped, FstabType
<1>5. Len(mounts') <= 1 /\ mounts' \in Seq(Hosts)
  <2>1. CASE fstab.snd = None BY <1>3, <2>1
  <2>2. CASE fstab.snd \in Hosts
    <3> DEFINE h == fstab.snd
    <3>1. mounts' = <<h>> BY <1>3, <2>2, ModeAssumption
    <3> HIDE DEF h
    <3>2. <<h>> \in Seq({h}) /\ Len(<<h>>) = 1 OBVIOUS
    <3> QED BY <2>2, <3>1, <3>2 DEF h
  <2> QED BY <1>4, <2>1, <2>2
<1>6. Types'
  <2>1. req' \in [Tabs -> Records] BY <1>2 DEF Reboot
  <2> QED BY <1>5, <2>1 DEF Reboot, IInv, Types, FilesTyped, files
<1>7. \A r \in Tabs : req'[r].at = 0 /\ req'[r].phase = "read" /\ Ask(r)'.mode \in Modes
  BY <1>1 DEF Idle, Ask, Standalone, Modes
<1>8. \A r \in Tabs : Step(r)' = "none" BY <1>7 DEF Step, Active
<1>9. \A r \in Tabs : Placed(r)' BY <1>7, Several DEF Placed, Named, Active
<1>10. ConfWhole'
  <2>1. torn \subseteq torn' /\ (Copied("conf") => "conf" \in torn')
    BY DEF Reboot, Copying, Copied, Editing
  <2> QED BY <1>7, <2>1 DEF Reboot, IInv, ConfWhole, Editing, files
<1>11. FstabWhole'
  <2>1. torn \subseteq torn' /\ (Copied("fstab") => "fstab" \in torn')
    BY DEF Reboot, Copying, Copied, Editing
  <2> QED BY <1>7, <2>1 DEF Reboot, IInv, FstabWhole, Editing, files
<1>12. StoreBare' BY <1>5, <1>8 DEF StoreBare
<1> QED BY <1>6, <1>9, <1>10, <1>11, <1>12 DEF IInv

\* Whatever a request does next, the invariant holds.
LEMMA RequestStep == ASSUME IInv, NEW r \in Tabs, Acts(r) PROVE IInv'
<1>1. Types /\ (\A s \in Tabs : Placed(s)) /\ ConfWhole /\ FstabWhole /\ StoreBare BY DEF IInv
<1>2. Types' BY <1>1, TypesStep
<1>3. crossed \subseteq crossed' BY <1>1, <1>2, Edited
<1>4. \A s \in Tabs : Placed(s)'
  <2>1. Placed(r)' BY <1>1, <1>2, PlacedStep
  <2>2. \A s \in Tabs \ {r} : Placed(s)' BY <1>1, OneMoves, Resting
  <2> QED BY <2>1, <2>2
<1>5. ConfWhole' BY <1>1, <1>2, ConfStep
<1>6. FstabWhole' BY <1>1, <1>2, FstabStep
<1>7. StoreBare' BY <1>1, <1>2, <1>3, StoreStep
<1> QED BY <1>2, <1>4, <1>5, <1>6, <1>7 DEF IInv

\* It holds whatever happens.
LEMMA Invariance == Spec => []IInv
<1>1. IInv /\ UNCHANGED vars => IInv'
  <2> SUFFICES ASSUME IInv, UNCHANGED vars PROVE IInv' OBVIOUS
  <2>1. \A r \in Tabs : /\ Placed(r)' <=> Placed(r)
                        /\ Step(r)' = Step(r) /\ FileOf(r)' = FileOf(r)
    BY DEF vars, Placed, Named, Remote, Step, Active, Ask, FileOf
  <2>2. \A r \in Tabs : \A file : Editing(r, file)' <=> Editing(r, file) BY <2>1 DEF Editing, vars
  <2>3. Types' BY DEF IInv, Types, FilesTyped, vars
  <2>4. ConfWhole' BY <2>2 DEF IInv, ConfWhole, Copied, vars
  <2>5. FstabWhole' BY <2>2 DEF IInv, FstabWhole, Copied, vars
  <2>6. StoreBare' BY <2>1 DEF IInv, StoreBare, vars
  <2> QED BY <2>1, <2>3, <2>4, <2>5, <2>6 DEF IInv
<1>2. IInv /\ Next => IInv' BY RebootStep, RequestStep DEF Next, Acts
<1>3. IInv /\ [Next]_vars => IInv' BY <1>1, <1>2
<1> QED BY InitialState, <1>3, PTL DEF Spec
-----------------------------------------------------------------------------
\* However many requests are made, fail or are cut short by a reboot, rd.conf
\* has its keys and fstab its root but while install(1) copies them, until one
\* of its calls is cut off or two requests edit the same file at a time: the
\* station can boot and find its database.
THEOREM FilesAreWhole == Spec => []FilesWhole
<1>1. ASSUME IInv PROVE FilesWhole
  <2>1. \A file : Copied(file) => file \in Copying(Tabs) BY DEF Copied, Editing, Copying
  <2>2. "conf" \notin crossed \union torn \union Copying(Tabs) => conf.keys
    BY <1>1, <2>1 DEF IInv, ConfWhole
  <2>3. "fstab" \notin crossed \union torn \union Copying(Tabs) => fstab.root
    BY <1>1, <2>1 DEF IInv, FstabWhole
  <2> QED BY <2>2, <2>3 DEF FilesWhole
<1> QED BY <1>1, Invariance, PTL

\* And the audio store is mounted once at most, until two requests come to
\* the mount at a time.
THEOREM OneMount == Spec => []MountedOnce
<1>1. IInv => MountedOnce BY DEF IInv, StoreBare, MountedOnce
<1> QED BY <1>1, Invariance, PTL
-----------------------------------------------------------------------------
(* The ranges of the other variables.                                      *)

SysType ==
  [bind : BOOLEAN, listens : BOOLEAN, exports : BOOLEAN, exported : BOOLEAN,
   bound : {"none", "own", "remote"}, map : Hosts \union {None},
   autofs : Hosts \union {None}, dirs : {"empty", "full", "remote"}]

Asked == Requests \union {Standalone}

Ranges ==
  /\ intent \in Asked /\ \A r \in Tabs : Ask(r) \in Asked
  /\ sys \in SysType /\ service \in ConfType
  /\ last \in [ask : Asked, ok : BOOLEAN]
  /\ overlapped \in BOOLEAN /\ crossed \subseteq {"conf", "fstab", "mount"}
  /\ torn \subseteq {"conf", "fstab"} /\ abroad \in BOOLEAN
  /\ asked \in 0..MaxAsks /\ faults \in 0..MaxFaults /\ reboots \in 0..MaxReboots

\* What a server or autofs is told, file by file.
LEMMA SysDoes ==
  ASSUME NEW r \in Tabs, Sys(r)
  PROVE  \/ Step(r) = "bind" /\ sys' = [sys EXCEPT !.bind = (Ask(r).mode = "server")]
         \/ Step(r) = "mariadb" /\ sys' = [sys EXCEPT !.listens = sys.bind]
         \/ Step(r) = "binds" /\ sys' = [sys EXCEPT !.bound = IF sys.bound = "none" THEN Bound ELSE sys.bound]
         \/ Step(r) = "exports" /\ sys' = [sys EXCEPT !.exports = TRUE]
         \/ Step(r) = "exportfs" /\ sys' = [sys EXCEPT !.exported = sys.exports]
         \/ Step(r) = "map" /\ sys' = [sys EXCEPT !.map = Ask(r).nfs]
         \/ Step(r) = "autofs" /\ sys' = [sys EXCEPT !.autofs = sys.map]
<1>1. Step(r) \in DOMAIN SysSteps /\ sys' = [sys EXCEPT ![SysSteps[Step(r)]] = SysValue(r)]
  BY DEF Sys
<1>2. CASE Step(r) = "bind"
  <2>1. SysSteps[Step(r)] = "bind" /\ SysValue(r) = (Ask(r).mode = "server") BY <1>2 DEF SysSteps, SysValue
  <2> QED BY <1>1, <1>2, <2>1
<1>3. CASE Step(r) = "mariadb"
  <2>1. SysSteps[Step(r)] = "listens" /\ SysValue(r) = sys.bind BY <1>3 DEF SysSteps, SysValue
  <2> QED BY <1>1, <1>3, <2>1
<1>4. CASE Step(r) = "binds"
  <2>1. SysSteps[Step(r)] = "bound" /\ SysValue(r) = (IF sys.bound = "none" THEN Bound ELSE sys.bound) BY <1>4 DEF SysSteps, SysValue
  <2> QED BY <1>1, <1>4, <2>1
<1>5. CASE Step(r) = "exports"
  <2>1. SysSteps[Step(r)] = "exports" /\ SysValue(r) = TRUE BY <1>5 DEF SysSteps, SysValue
  <2> QED BY <1>1, <1>5, <2>1
<1>6. CASE Step(r) = "exportfs"
  <2>1. SysSteps[Step(r)] = "exported" /\ SysValue(r) = sys.exports BY <1>6 DEF SysSteps, SysValue
  <2> QED BY <1>1, <1>6, <2>1
<1>7. CASE Step(r) = "map"
  <2>1. SysSteps[Step(r)] = "map" /\ SysValue(r) = Ask(r).nfs BY <1>7 DEF SysSteps, SysValue
  <2> QED BY <1>1, <1>7, <2>1
<1>8. CASE Step(r) = "autofs"
  <2>1. SysSteps[Step(r)] = "autofs" /\ SysValue(r) = sys.map BY <1>8 DEF SysSteps, SysValue
  <2> QED BY <1>1, <1>8, <2>1
<1> QED BY <1>1, <1>2, <1>3, <1>4, <1>5, <1>6, <1>7, <1>8 DEF SysSteps

\* Mariadb, the NFS server, autofs and the directories stay what they can be.
LEMMA SysRange ==
  ASSUME Types, sys \in SysType, NEW r \in Tabs, Acts(r)
  PROVE  sys' \in SysType
<1>1. Ask(r).nfs \in Hosts \union {None} /\ Ask(r).mode \in Modes
  <2>1. req[r] \in Records BY DEF Types
  <2> QED BY <2>1 DEF Records, Asks, Ask
<1>2. CASE Sys(r)
  <2>1. CASE sys' = [sys EXCEPT !.bind = (Ask(r).mode = "server")] BY <1>1, <2>1 DEF SysType, Bound
  <2>2. CASE sys' = [sys EXCEPT !.listens = sys.bind] BY <1>1, <2>2 DEF SysType, Bound
  <2>3. CASE sys' = [sys EXCEPT !.bound = (IF sys.bound = "none" THEN Bound ELSE sys.bound)] BY <1>1, <2>3 DEF SysType, Bound
  <2>4. CASE sys' = [sys EXCEPT !.exports = TRUE] BY <1>1, <2>4 DEF SysType, Bound
  <2>5. CASE sys' = [sys EXCEPT !.exported = sys.exports] BY <1>1, <2>5 DEF SysType, Bound
  <2>6. CASE sys' = [sys EXCEPT !.map = Ask(r).nfs] BY <1>1, <2>6 DEF SysType, Bound
  <2>7. CASE sys' = [sys EXCEPT !.autofs = sys.map] BY <1>1, <2>7 DEF SysType, Bound
  <2> QED BY <1>2, <2>1, <2>2, <2>3, <2>4, <2>5, <2>6, <2>7, SysDoes
<1>3. CASE Links(r) BY <1>3 DEF Links, SysType
<1>4. CASE ~Sys(r) /\ ~Links(r)
  BY <1>4 DEF Acts, ModeApply, Fail, Read, ReadFails, Empty, Fill, Unlink, Install, Password,
              Unmount, Look, Mount, RestartRivendell
<1> QED BY <1>2, <1>3, <1>4

\* What a request does to the account of requests: it is the one last saved, it
\* goes on, or it ends, and says whether it was applied.
LEMMA Accounts ==
  ASSUME Types, NEW r \in Tabs, Placed(r), Acts(r)
  PROVE  \/ /\ \E ask \in Requests :
                 /\ intent' = ask
                 /\ \/ req' = [req EXCEPT ![r] = [Idle EXCEPT !.ask = ask, !.at = 1]]
                       /\ last' = last /\ (ask.mode = "client" => ask.db # None /\ ask.nfs # None)
                       /\ abroad' = (abroad \/ ask.mode = "client")
                    \/ req' = req /\ last' = [ask |-> ask, ok |-> FALSE] /\ abroad' = abroad
            /\ ~Active(r) /\ asked < MaxAsks /\ asked' = asked + 1
            /\ overlapped' = (overlapped \/ \E s \in Tabs : Active(s))
            /\ UNCHANGED <<conf, fstab, staged, mounts, sys, service, crossed, torn, faults,
                           reboots>>
         \/ /\ Active(r) /\ Active(r)' /\ Ask(r)' = Ask(r)
            /\ UNCHANGED <<intent, last, service, overlapped, torn, abroad, asked, faults, reboots>>
         \/ /\ Active(r) /\ req' = [req EXCEPT ![r] = Idle]
            /\ \/ RestartRivendell(r)
               \/ last' = [ask |-> Ask(r), ok |-> FALSE] /\ UNCHANGED service
            /\ faults' \in {faults, faults + 1} /\ (faults' # faults => faults < MaxFaults)
            /\ torn' = torn \union Copying({r})
            /\ UNCHANGED <<intent, conf, fstab, staged, mounts, sys, overlapped, crossed, abroad,
                           asked, reboots>>
<1>0. req \in [Tabs -> Records] /\ req[r] \in Records /\ req[r].at \in Nat
      /\ (Step(r) # "none" => Active(r))
  BY DEF Types, Records, Step
<1>1. req[r].phase # "read" => Active(r)
  BY <1>0 DEF Placed, Edits, ConfSteps, FstabSteps
<1>2. \A n \in {1, 2} : Next1(r, n) => req'[r].at = req[r].at + n /\ Ask(r)' = Ask(r)
  BY <1>0 DEF Next1, Ask, Records
<1>11. Step(r) \notin Edits => Copying({r}) = {} BY DEF Placed, Copying
<1>3. CASE \E ask \in Requests : ModeApply(r, ask)
  <2>1. PICK ask \in Requests : ModeApply(r, ask) BY <1>3
  <2> QED BY <2>1 DEF ModeApply
<1>4. CASE Fail(r) BY <1>4 DEF Fail, Ended
<1>5. CASE RestartRivendell(r)
  <2>1. Step(r) = "rivendell" BY <1>5 DEF RestartRivendell
  <2>2. Active(r) BY <1>0, <2>1
  <2>3. Copying({r}) = {} BY <1>11, <2>1 DEF Edits, ConfSteps, FstabSteps
  <2> QED BY <1>5, <2>2, <2>3 DEF RestartRivendell, Ended, files, past, bounds
<1>10. CASE ReadFails(r)
  <2>1. Active(r) BY <1>0, <1>10 DEF ReadFails, ConfSteps, FstabSteps
  <2>2. Copying({r}) = {} BY <1>10 DEF ReadFails, Copying
  <2> QED BY <1>10, <2>1, <2>2 DEF ReadFails, Ended, files, past, bounds
<1>6. CASE Read(r)
  <2>1. Active(r) BY <1>0, <1>6 DEF Read, ConfSteps, FstabSteps
  <2>2. req'[r].at # 0 /\ Ask(r)' = Ask(r)
    <3>1. CASE Next1(r, 1)
      <4>1. req'[r].at = req[r].at + 1 /\ Ask(r)' = Ask(r) BY <1>2, <3>1
      <4> QED BY <1>0, <4>1
    <3>2. CASE req' = [req EXCEPT ![r].phase = "empty", ![r].conf = conf, ![r].fstab = fstab]
      BY <1>0, <2>1, <3>2 DEF Active, Ask, Records
    <3> QED BY <1>6, <3>1, <3>2 DEF Read
  <2> QED BY <1>6, <2>1, <2>2 DEF Read, Active, past, bounds
<1>7. CASE Empty(r) \/ Fill(r) \/ Unlink(r) \/ Install(r) \/ Password(r)
  <2>1. Active(r) BY <1>0, <1>1, <1>7 DEF Empty, Fill, Unlink, Install, Password
  <2>2. req'[r].at # 0 /\ Ask(r)' = Ask(r)
    <3>1. CASE Install(r)
      <4>1. req'[r].at = req[r].at + 1 /\ Ask(r)' = Ask(r) BY <1>2, <3>1 DEF Install
      <4> QED BY <1>0, <4>1
    <3>2. CASE Password(r)
      <4>1. req'[r].at = req[r].at + 1 /\ Ask(r)' = Ask(r) BY <1>0, <3>2 DEF Password, Ask
      <4> QED BY <1>0, <4>1
    <3>3. CASE Empty(r) \/ Fill(r) \/ Unlink(r)
      BY <1>0, <2>1, <3>3 DEF Empty, Fill, Unlink, Active, Ask, Records
    <3> QED BY <1>7, <3>1, <3>2, <3>3
  <2> QED BY <1>7, <2>1, <2>2 DEF Empty, Fill, Unlink, Install, Password, Active, past, bounds
<1>8. CASE Unmount(r) \/ Look(r) \/ Sys(r)
  <2>1. Active(r) BY <1>0, <1>8 DEF Unmount, Look, Sys, SysSteps
  <2>2. Next1(r, 1) \/ Next1(r, 2) BY <1>8 DEF Unmount, Look, Sys
  <2>3. Ask(r)' = Ask(r) /\ (req'[r].at = req[r].at + 1 \/ req'[r].at = req[r].at + 2)
    BY <1>2, <2>2
  <2>4. req'[r].at # 0 BY <1>0, <2>3
  <2> QED BY <1>8, <2>1, <2>3, <2>4 DEF Unmount, Look, Sys, Active, past, bounds
<1>9. CASE Mount(r) \/ Links(r)
  <2>1. Active(r) BY <1>0, <1>9 DEF Mount, Links
  <2>2. CASE Next1(r, 1) /\ UNCHANGED last
    <3>1. Ask(r)' = Ask(r) /\ req'[r].at = req[r].at + 1 BY <1>2, <2>2
    <3>2. req'[r].at # 0 BY <1>0, <3>1
    <3> QED BY <1>9, <2>1, <2>2, <3>1, <3>2 DEF Mount, Links, Active, past, bounds
  <2>3. CASE Ended(r, FALSE) /\ UNCHANGED <<mounts, sys>>
    <3>1. Copying({r}) = {} BY <1>9, <1>11 DEF Mount, Links, Edits, ConfSteps, FstabSteps
    <3> QED BY <1>9, <2>1, <2>3, <3>1 DEF Mount, Links, Ended, files, past, bounds
  <2> QED BY <1>9, <2>2, <2>3 DEF Mount, Links
<1> QED BY <1>3, <1>4, <1>5, <1>6, <1>7, <1>8, <1>9, <1>10 DEF Acts

\* Files met are files, or the mount.
LEMMA Crossing ==
  ASSUME NEW r \in Tabs, Acts(r)
  PROVE  \/ crossed' = crossed
         \/ crossed' = crossed \union {FileOf(r)} /\ \E s \in Tabs \ {r} : req[s].phase # "read"
         \/ crossed' = crossed \union {"mount"} /\ Step(r) = "look" /\ \E s \in Tabs : Step(s) = "mount"
BY DEF Acts, ModeApply, Fail, Read, ReadFails, Empty, Fill, Unlink, Install, Password, Unmount,
       Look, Mount, Links, Sys, RestartRivendell, Crosses, bounds, files

\* The other variables stay in their ranges.
LEMMA RangesStep ==
  ASSUME Types, Types', Ranges, NEW r \in Tabs, Placed(r), Acts(r)
  PROVE  Ranges'
<1> USE DEF Ranges
<1>1. \A s \in Tabs \ {r} : Ask(s)' = Ask(s) BY OneMoves DEF Ask
<1>2. sys' \in SysType BY SysRange
<1>3. crossed' \subseteq {"conf", "fstab", "mount"} BY Crossing DEF FileOf
<1>4. asked \in Nat /\ faults \in Nat BY ModeAssumption
<1>0. req \in [Tabs -> Records] /\ conf \in ConfType BY DEF Types, FilesTyped
<1>5. CASE ~Active(r)
  <2>1. PICK ask \in Requests :
          /\ intent' = ask
          /\ \/ req' = [req EXCEPT ![r] = [Idle EXCEPT !.ask = ask, !.at = 1]] /\ last' = last
             \/ req' = req /\ last' = [ask |-> ask, ok |-> FALSE]
          /\ asked < MaxAsks /\ asked' = asked + 1
          /\ overlapped' = (overlapped \/ \E s \in Tabs : Active(s))
          /\ abroad' \in BOOLEAN
          /\ UNCHANGED <<service, torn, faults, reboots>>
    BY <1>5, Accounts
  <2>2. Ask(r)' \in Asked
    <3>1. CASE req' = [req EXCEPT ![r] = [Idle EXCEPT !.ask = ask, !.at = 1]]
      <4>1. req'[r].ask = ask BY <1>0, <3>1 DEF Idle
      <4> QED BY <4>1 DEF Ask, Asked
    <3>2. CASE req' = req BY <3>2 DEF Ask
    <3> QED BY <2>1, <3>1, <3>2
  <2>3. asked' \in 0..MaxAsks BY <1>4, <2>1, ModeAssumption
  <2>8. ask \in Asked BY DEF Asked
  <2>9. intent' \in Asked BY <2>1, <2>8
  <2>4. last' \in [ask : Asked, ok : BOOLEAN]
    <3>1. last \in [ask : Asked, ok : BOOLEAN] OBVIOUS
    <3>2. last' = last \/ last' = [ask |-> ask, ok |-> FALSE] BY <2>1
    <3>3. [ask |-> ask, ok |-> FALSE] \in [ask : Asked, ok : BOOLEAN] BY <2>8
    <3> HIDE DEF Ranges
    <3> QED BY <3>1, <3>2, <3>3
  <2>5. overlapped' \in BOOLEAN BY <2>1
  <2>6. \A s \in Tabs : Ask(s)' \in Asked BY <1>1, <2>2
  <2>7. /\ service' \in ConfType /\ faults' \in 0..MaxFaults /\ reboots' \in 0..MaxReboots
        /\ abroad' \in BOOLEAN /\ torn' \subseteq {"conf", "fstab"}
    BY <2>1
  <2> QED BY <1>2, <1>3, <2>3, <2>4, <2>5, <2>6, <2>7, <2>9
<1>6. CASE Active(r) /\ Ask(r)' = Ask(r)
           /\ UNCHANGED <<intent, last, service, overlapped, torn, abroad, asked, faults, reboots>>
  BY <1>1, <1>2, <1>3, <1>6
<1>7. CASE /\ Active(r) /\ req' = [req EXCEPT ![r] = Idle]
           /\ \/ RestartRivendell(r)
              \/ last' = [ask |-> Ask(r), ok |-> FALSE] /\ UNCHANGED service
           /\ faults' \in {faults, faults + 1} /\ (faults' # faults => faults < MaxFaults)
           /\ torn' = torn \union Copying({r})
           /\ UNCHANGED <<intent, overlapped, abroad, asked, reboots>>
  <2>1. Ask(r)' = Standalone BY <1>0, <1>7 DEF Ask, Idle
  <2>2. \A s \in Tabs : Ask(s)' \in Asked BY <1>1, <2>1 DEF Asked
  <2>3. last' \in [ask : Asked, ok : BOOLEAN] /\ service' \in ConfType
    <3>1. Ask(r) \in Asked OBVIOUS
    <3>2. CASE RestartRivendell(r)
      <4>1. last' = [ask |-> Ask(r), ok |-> TRUE] /\ service' = conf
        BY <3>2 DEF RestartRivendell, Ended
      <4> QED BY <1>0, <3>1, <4>1
    <3>3. CASE last' = [ask |-> Ask(r), ok |-> FALSE] /\ UNCHANGED service BY <3>1, <3>3
    <3> QED BY <1>7, <3>2, <3>3
  <2>4. faults' \in 0..MaxFaults BY <1>4, <1>7, ModeAssumption
  <2>5. torn' \subseteq {"conf", "fstab"} BY <1>7 DEF Copying, FileOf
  <2> QED BY <1>2, <1>3, <1>7, <2>2, <2>3, <2>4, <2>5
<1> QED BY <1>5, <1>6, <1>7, Accounts
-----------------------------------------------------------------------------
(* What a request does that goes on.                                       *)

\* It works on its edit, takes the file away, puts the new one there, takes the
\* next step, or finds the store mounted already.
Works(r) ==
  /\ req'[r].at = req[r].at /\ Step(r) \in Edits /\ req'[r].pass = req[r].pass
  /\ \/ /\ req[r].phase = "read" /\ req'[r].phase = "empty"
        /\ req'[r].conf = conf /\ req'[r].fstab = fstab
     \/ /\ req[r].phase = "empty" /\ req'[r].phase = "fill"
        /\ req'[r].conf = req[r].conf /\ req'[r].fstab = req[r].fstab
     \/ /\ req[r].phase = "fill" /\ req'[r].phase = "install"
        /\ IF Step(r) \in ConfSteps THEN staged'.conf = WithConf(req[r].conf, r)
           ELSE staged'.fstab = WithFstab(req[r].fstab, r)
  /\ UNCHANGED <<conf, fstab, mounts, sys>>
Unlinks(r) ==
  /\ req'[r].at = req[r].at /\ Step(r) \in Edits /\ req'[r].pass = req[r].pass
  /\ req[r].phase = "install" /\ req'[r].phase = "copy"
  /\ IF Step(r) \in ConfSteps THEN UNCHANGED fstab ELSE UNCHANGED conf
  /\ UNCHANGED <<staged, mounts, sys>>
Lands(r) ==
  /\ req'[r].at = req[r].at + 1 /\ Step(r) \in Edits /\ req'[r].pass = req[r].pass
  /\ req[r].phase = "copy" /\ req'[r].phase = "read"
  /\ IF Step(r) \in ConfSteps THEN conf' = staged.conf /\ UNCHANGED fstab
     ELSE fstab' = staged.fstab /\ UNCHANGED conf
  /\ UNCHANGED <<mounts, sys>>
Sets(r) ==
  \/ Step(r) = "nofstab" /\ fstab.snd = None /\ UNCHANGED <<mounts, sys>>
  \/ Step(r) = "password" /\ UNCHANGED <<mounts, sys>>
  \/ /\ Step(r) \in {"unmount", "look"} /\ UNCHANGED sys
     /\ mounts' = IF MountSource = None THEN mounts ELSE Unmounted
  \/ Step(r) = "mount" /\ mounts' = Append(mounts, Ask(r).nfs) /\ UNCHANGED sys
  \/ Step(r) = "links" /\ sys' = [sys EXCEPT !.dirs = "remote"] /\ UNCHANGED mounts
  \/ Sys(r) /\ UNCHANGED mounts
Takes(r) ==
  /\ req'[r].at = req[r].at + 1 /\ req[r].phase = "read" /\ req'[r].phase = "read"
  /\ req'[r].pass = IF Step(r) = "password" THEN conf.pass ELSE req[r].pass
  /\ Sets(r) /\ UNCHANGED <<conf, fstab>>
Skips(r) ==
  /\ req'[r].at = req[r].at + 2 /\ req[r].phase = "read" /\ req'[r].phase = "read"
  /\ Step(r) = "look" /\ MountSource = Ask(r).nfs
  /\ UNCHANGED <<conf, fstab, mounts, sys>>

\* It does one of these.
LEMMA Doing ==
  ASSUME Types, NEW r \in Tabs, Placed(r), Acts(r), Active(r), Active(r)'
  PROVE  Works(r) \/ Unlinks(r) \/ Lands(r) \/ Takes(r) \/ Skips(r)
<1>0. req \in [Tabs -> Records] /\ req[r] \in Records /\ req[r].at \in Nat
  BY DEF Types, Records
<1>1. \A n \in {1, 2} : Next1(r, n) => /\ req'[r].at = req[r].at + n /\ req'[r].phase = "read"
                                      /\ req'[r].pass = req[r].pass
  BY <1>0 DEF Next1, Records
<1>15. Step(r) \notin Edits => req[r].phase = "read" BY DEF Placed
<1> USE DEF Edits, ConfSteps, FstabSteps
<1>2. \A ok : ~Ended(r, ok)
  <2> SUFFICES ASSUME NEW ok, Ended(r, ok) PROVE FALSE OBVIOUS
  <2>1. req'[r] = Idle BY <1>0 DEF Ended
  <2> QED BY <2>1 DEF Idle, Active
<1>3. /\ ~(\E ask \in Requests : ModeApply(r, ask)) /\ ~Fail(r) /\ ~RestartRivendell(r)
      /\ ~ReadFails(r)
  BY <1>2 DEF ModeApply, Fail, RestartRivendell, ReadFails
<1>4. CASE Read(r)
  <2>1. CASE Next1(r, 1) /\ Step(r) = "nofstab" /\ fstab.snd = None
    BY <1>1, <1>4, <2>1 DEF Read, Takes, Sets
  <2>2. CASE req' = [req EXCEPT ![r].phase = "empty", ![r].conf = conf, ![r].fstab = fstab]
    <3>1. req'[r] = [req[r] EXCEPT !.phase = "empty", !.conf = conf, !.fstab = fstab]
      BY <1>0, <2>2
    <3>2. /\ req'[r].at = req[r].at /\ req'[r].phase = "empty" /\ req'[r].pass = req[r].pass
          /\ req'[r].conf = conf /\ req'[r].fstab = fstab
      BY <1>0, <3>1 DEF Records
    <3>3. Step(r) \in Edits /\ req[r].phase = "read" /\ UNCHANGED <<conf, fstab, mounts, sys>>
      BY <1>4 DEF Read, Edits
    <3> QED BY <3>2, <3>3 DEF Works
  <2> QED BY <1>4, <2>1, <2>2 DEF Read
<1>5. CASE Empty(r)
  <2>0. req'[r] = [req[r] EXCEPT !.phase = "fill"] BY <1>0, <1>5 DEF Empty
  <2>1. /\ req'[r].at = req[r].at /\ req'[r].phase = "fill" /\ req'[r].pass = req[r].pass
        /\ req'[r].conf = req[r].conf /\ req'[r].fstab = req[r].fstab
    BY <1>0, <2>0 DEF Records
  <2>2. /\ Step(r) \in Edits /\ req[r].phase = "empty"
        /\ UNCHANGED <<conf, fstab, mounts, sys>>
    BY <1>5 DEF Empty, Placed
  <2> QED BY <2>1, <2>2 DEF Works
<1>6. CASE Fill(r)
  <2>0. req'[r] = [req[r] EXCEPT !.phase = "install", !.conf = NoConf, !.fstab = NoFstab]
    BY <1>0, <1>6 DEF Fill
  <2>1. req'[r].at = req[r].at /\ req'[r].phase = "install" /\ req'[r].pass = req[r].pass
    BY <1>0, <2>0 DEF Records
  <2>2. /\ Step(r) \in Edits /\ req[r].phase = "fill"
        /\ UNCHANGED <<conf, fstab, mounts, sys>>
    BY <1>6 DEF Fill, Placed
  <2>3. IF Step(r) \in ConfSteps THEN staged'.conf = WithConf(req[r].conf, r)
        ELSE staged'.fstab = WithFstab(req[r].fstab, r)
    <3>1. staged \in [conf : ConfType, fstab : FstabType] BY DEF Types, FilesTyped
    <3>2. staged' = IF Step(r) \in ConfSteps
                    THEN [staged EXCEPT !.conf = WithConf(req[r].conf, r)]
                    ELSE [staged EXCEPT !.fstab = WithFstab(req[r].fstab, r)]
      BY <1>6 DEF Fill
    <3> QED BY <3>1, <3>2
  <2> QED BY <2>1, <2>2, <2>3 DEF Works
<1>7. CASE Install(r)
  <2>1. Step(r) \in Edits /\ req[r].phase = "copy" BY <1>7 DEF Install, Placed
  <2> QED BY <1>1, <1>7, <2>1 DEF Install, Lands
<1>14. CASE Unlink(r)
  <2>0. req'[r] = [req[r] EXCEPT !.phase = "copy"] BY <1>0, <1>14 DEF Unlink
  <2>1. req'[r].at = req[r].at /\ req'[r].phase = "copy" /\ req'[r].pass = req[r].pass
    BY <1>0, <2>0 DEF Records
  <2>2. Step(r) \in Edits /\ req[r].phase = "install" BY <1>14 DEF Unlink, Placed
  <2> QED BY <1>14, <2>1, <2>2 DEF Unlink, Unlinks
<1>8. CASE Password(r)
  <2>1. Step(r) = "password" /\ req[r].phase = "read" BY <1>8, <1>15 DEF Password
  <2>2. req'[r] = [req[r] EXCEPT !.pass = conf.pass, !.at = @ + 1]
    BY <1>0, <1>8 DEF Password
  <2>3. /\ req'[r].at = req[r].at + 1 /\ req'[r].phase = "read" /\ req'[r].pass = conf.pass
    BY <1>0, <2>1, <2>2 DEF Records
  <2> QED BY <1>8, <2>1, <2>3 DEF Password, Takes, Sets
<1>9. CASE Unmount(r) BY <1>1, <1>9, <1>15 DEF Unmount, Takes, Sets, files
<1>10. CASE Look(r)
  <2>1. CASE MountSource = Ask(r).nfs BY <1>1, <1>10, <1>15, <2>1 DEF Look, Skips, files
  <2>2. CASE MountSource # Ask(r).nfs BY <1>1, <1>10, <1>15, <2>2 DEF Look, Takes, Sets, files
  <2> QED BY <2>1, <2>2
<1>11. CASE Mount(r) BY <1>1, <1>2, <1>11, <1>15 DEF Mount, Takes, Sets, files
<1>12. CASE Links(r) BY <1>1, <1>2, <1>12, <1>15 DEF Links, Takes, Sets, files
<1>13. CASE Sys(r)
  <2>1. Step(r) \notin Edits /\ Step(r) # "password" BY <1>13 DEF Sys, SysSteps
  <2>2. req[r].phase = "read" /\ Next1(r, 1) /\ UNCHANGED <<mounts, conf, fstab>>
    BY <1>13, <1>15, <2>1 DEF Sys, files
  <2> QED BY <1>1, <1>13, <2>1, <2>2 DEF Takes, Sets
<1> QED BY <1>3, <1>4, <1>5, <1>6, <1>7, <1>8, <1>9, <1>10, <1>11, <1>12, <1>13, <1>14
       DEF Acts
-----------------------------------------------------------------------------
(* How many mounts there may be.                                           *)

\* The clients' requests that have yet to mount.
Ahead == {r \in Tabs : Active(r) /\ Remote(r) /\ req[r].at <= 2}

\* Each request mounts once at most, and a reboot leaves one mount.
Room == IsFiniteSet(Ahead) /\ Len(mounts) + Cardinality(Ahead) <= asked + 1

\* A subset of a finite set is no larger; without one of its members, smaller.
LEMMA Fewer ==
  ASSUME NEW S, IsFiniteSet(S), NEW T, T \subseteq S
  PROVE  /\ IsFiniteSet(T) /\ Cardinality(T) \in Nat /\ Cardinality(S) \in Nat
         /\ Cardinality(T) <= Cardinality(S)
         /\ \A x \in S : x \notin T => Cardinality(T) + 1 <= Cardinality(S)
<1>1. IsFiniteSet(T) /\ Cardinality(T) \in Nat /\ Cardinality(S) \in Nat
      /\ Cardinality(T) <= Cardinality(S)
  BY FS_Subset, FS_CardinalityType
<1>2. ASSUME NEW x \in S, x \notin T PROVE Cardinality(T) + 1 <= Cardinality(S)
  <2>1. IsFiniteSet(T \union {x}) /\ Cardinality(T \union {x}) = Cardinality(T) + 1
    BY <1>1, <1>2, FS_AddElement
  <2>2. T \union {x} \subseteq S BY <1>2
  <2> QED BY <2>1, <2>2, FS_Subset
<1> QED BY <1>1, <1>2

\* The first members of a list.
LEMMA Front ==
  ASSUME NEW S, NEW m \in Seq(S), NEW n \in 0..Len(m)
  PROVE  Len(SubSeq(m, 1, n)) = n
OBVIOUS

\* One more request may mount once more.
LEMMA RoomStep ==
  ASSUME Types, Types', Ranges, Room, NEW r \in Tabs, Placed(r), Acts(r)
  PROVE  Room'
<1>1. /\ req \in [Tabs -> Records] /\ req' \in [Tabs -> Records] /\ req[r].at \in Nat
      /\ req'[r].at \in Nat /\ mounts \in Seq(Hosts)
  BY DEF Types, Records
<1>2. \A s \in Tabs \ {r} : s \in Ahead' <=> s \in Ahead
  BY OneMoves DEF Ahead, Active, Remote, Ask
<1>3. asked \in Nat /\ IsFiniteSet(Ahead) /\ Cardinality(Ahead) \in Nat
      /\ Len(mounts) + Cardinality(Ahead) <= asked + 1
  BY ModeAssumption, FS_CardinalityType DEF Ranges, Room
<1>4. CASE ~Active(r)
  <2>1. asked' = asked + 1 /\ mounts' = mounts BY <1>4, Accounts
  <2>2. r \notin Ahead BY <1>4 DEF Ahead
  <2>3. Ahead' \subseteq Ahead \union {r} BY <1>2 DEF Ahead
  <2>4. IsFiniteSet(Ahead \union {r})
        /\ Cardinality(Ahead \union {r}) = Cardinality(Ahead) + 1
    BY <1>3, <2>2, FS_AddElement
  <2>5. IsFiniteSet(Ahead') /\ Cardinality(Ahead') <= Cardinality(Ahead) + 1
        /\ Cardinality(Ahead') \in Nat
    BY <2>3, <2>4, Fewer
  <2>6. Len(mounts) \in Nat BY <1>1
  <2>7. Len(mounts') + Cardinality(Ahead') <= asked' + 1 BY <1>3, <2>1, <2>5, <2>6
  <2> QED BY <2>5, <2>7 DEF Room
<1>5. CASE Active(r) /\ ~Active(r)'
  <2>1. asked' = asked /\ mounts' = mounts BY <1>5, Accounts DEF RestartRivendell
  <2>2. r \notin Ahead' BY <1>5 DEF Ahead
  <2>3. Ahead' \subseteq Ahead BY <1>2, <2>2 DEF Ahead
  <2>5. IsFiniteSet(Ahead') /\ Cardinality(Ahead') <= Cardinality(Ahead)
        /\ Cardinality(Ahead') \in Nat
    BY <1>3, <2>3, Fewer
  <2>6. Len(mounts) \in Nat BY <1>1
  <2>7. Len(mounts') + Cardinality(Ahead') <= asked' + 1 BY <1>3, <2>1, <2>5, <2>6
  <2> QED BY <2>5, <2>7 DEF Room
<1>6. CASE Active(r) /\ Active(r)'
  <2>1. asked' = asked /\ Ask(r)' = Ask(r)
    <3>1. req' # [req EXCEPT ![r] = Idle] BY <1>1, <1>6 DEF Active, Idle
    <3> QED BY <1>6, <3>1, Accounts
  <2>2. Works(r) \/ Unlinks(r) \/ Lands(r) \/ Takes(r) \/ Skips(r) BY <1>6, Doing
  <2>3. req'[r].at >= req[r].at BY <1>1, <2>2 DEF Works, Unlinks, Lands, Takes, Skips
  <2>4. r \in Ahead' => r \in Ahead BY <1>1, <1>6, <2>1, <2>3 DEF Ahead, Remote
  <2>5. Ahead' \subseteq Ahead BY <1>2, <2>4 DEF Ahead
  <2>6. CASE Step(r) = "mount" /\ mounts' = Append(mounts, Ask(r).nfs) /\ Takes(r)
    <3>1. req[r].at = 2 /\ Remote(r) BY <2>6, Standing
    <3>2. req'[r].at = 3 BY <2>6, <3>1 DEF Takes
    <3>3. r \in Ahead /\ r \notin Ahead' BY <1>6, <3>1, <3>2 DEF Ahead
    <3>4. /\ IsFiniteSet(Ahead') /\ Cardinality(Ahead') + 1 <= Cardinality(Ahead)
          /\ Cardinality(Ahead') \in Nat
      BY <1>3, <2>5, <3>3, Fewer
    <3>5. Len(mounts') = Len(mounts) + 1 /\ Len(mounts) \in Nat
      <4>1. mounts' \in Seq(Hosts) BY DEF Types
      <4> QED BY <1>1, <2>6, <4>1
    <3>6. Len(mounts') + Cardinality(Ahead') <= asked' + 1 BY <1>3, <2>1, <3>4, <3>5
    <3> QED BY <3>4, <3>6 DEF Room
  <2>7. CASE mounts' = mounts \/ mounts' = IF MountSource = None THEN mounts ELSE Unmounted
    <3>1. Len(mounts') <= Len(mounts) /\ Len(mounts) \in Nat /\ Len(mounts') \in Nat
      <4>1. mounts # <<>> => Len(Unmounted) = Len(mounts) - 1 /\ Len(mounts) > 0
        <5> SUFFICES ASSUME mounts # <<>>
                     PROVE  Len(Unmounted) = Len(mounts) - 1 /\ Len(mounts) > 0
          OBVIOUS
        <5>1. Len(mounts) \in Nat /\ Len(mounts) > 0 BY <1>1
        <5>2. Unmounted = SubSeq(mounts, 1, Len(mounts) - 1) BY DEF Unmounted
        <5>3. Len(mounts) - 1 \in 0..Len(mounts) BY <5>1
        <5>4. Len(SubSeq(mounts, 1, Len(mounts) - 1)) = Len(mounts) - 1 BY <1>1, <5>3, Front
        <5> QED BY <5>1, <5>2, <5>4
      <4>2. mounts = <<>> => MountSource = None BY DEF MountSource
      <4>3. Len(mounts) \in Nat BY <1>1
      <4> QED BY <2>7, <4>1, <4>2, <4>3
    <3>2. IsFiniteSet(Ahead') /\ Cardinality(Ahead') <= Cardinality(Ahead)
          /\ Cardinality(Ahead') \in Nat
      BY <1>3, <2>5, Fewer
    <3>3. Len(mounts') + Cardinality(Ahead') <= asked' + 1 BY <1>3, <2>1, <3>1, <3>2
    <3> QED BY <3>2, <3>3 DEF Room
  <2> QED BY <2>2, <2>6, <2>7 DEF Works, Unlinks, Lands, Takes, Sets, Skips, Sys
<1> QED BY <1>4, <1>5, <1>6
-----------------------------------------------------------------------------
(* What a request has done when it comes to a step.                        *)

\* One that asks for a station of its own, or a server, once rd.conf and fstab
\* are c and f; p is the password it has read.
LocalBy(ask, n, c, f, p) ==
  /\ n > 1 => sys.bind = (ask.mode = "server")
  /\ n > 2 => sys.listens = sys.bind
  /\ n > 4 => c.host = Local
  /\ n > 5 => mounts = <<>>
  /\ n > 6 => f.snd = None
  /\ n > 7 => c.store = None
  /\ n > 8 => sys.bound # "none"
  /\ n > 9 => f.binds
  /\ n > 10 => sys.exports
  /\ n > 11 => sys.exported
  /\ ~abroad => c.pass = Local /\ (n > 3 => p = Local)

\* One that asks for a client.
ClientBy(ask, n, c, f) ==
  /\ n = 2 => mounts = <<>>
  /\ n > 2 => mounts = <<ask.nfs>>
  /\ n > 3 => f.snd = ask.nfs
  /\ n > 4 => sys.map = ask.nfs
  /\ n > 5 => sys.autofs = ask.nfs
  /\ n > 6 => sys.dirs = "remote"
  /\ n > 7 => c.host = ask.db /\ c.pass = ask.db
  /\ n > 8 => c.store = ask.nfs

\* The copies it edits are of the files as they are.
Copies(r) ==
  /\ req[r].phase \in {"empty", "fill"} => req[r].conf = conf /\ req[r].fstab = fstab
  /\ req[r].phase = "install" =>
       IF Step(r) \in ConfSteps THEN staged.conf = WithConf(conf, r)
       ELSE staged.fstab = WithFstab(fstab, r)

\* A file that is being copied is taken for what it is to be, and the step that
\* copies it for done.
Copy(r)     == req[r].phase = "copy"
Due(r)      == IF Copy(r) THEN req[r].at + 1 ELSE req[r].at
DueConf(r)  == IF Copy(r) /\ Step(r) \in ConfSteps THEN staged.conf ELSE conf
DueFstab(r) == IF Copy(r) /\ Step(r) \notin ConfSteps THEN staged.fstab ELSE fstab

\* The steps of a station of its own and of a server, in their order.
LEMMA LocalNames ==
  ASSUME NEW m \in {"standalone", "server"}, NEW i \in 1..Len(Steps(m))
  PROVE  \/ i = 1 /\ Steps(m)[i] = "bind"
         \/ i = 2 /\ Steps(m)[i] = "mariadb"
         \/ i = 3 /\ Steps(m)[i] = "password"
         \/ i = 4 /\ Steps(m)[i] = "mysql"
         \/ i = 5 /\ Steps(m)[i] = "unmount"
         \/ i = 6 /\ Steps(m)[i] = "nofstab"
         \/ i = 7 /\ Steps(m)[i] = "store"
         \/ m = "server" /\ i = 8 /\ Steps(m)[i] = "binds"
         \/ m = "server" /\ i = 9 /\ Steps(m)[i] = "bindfstab"
         \/ m = "server" /\ i = 10 /\ Steps(m)[i] = "exports"
         \/ m = "server" /\ i = 11 /\ Steps(m)[i] = "exportfs"
         \/ m = "server" /\ i = 12 /\ Steps(m)[i] = "rivendell"
         \/ m = "standalone" /\ i = 8 /\ Steps(m)[i] = "rivendell"
<1>1. /\ LocalSteps[1] = "bind" /\ LocalSteps[2] = "mariadb" /\ LocalSteps[3] = "password"
      /\ LocalSteps[4] = "mysql" /\ LocalSteps[5] = "unmount" /\ LocalSteps[6] = "nofstab"
      /\ LocalSteps[7] = "store"
  BY DEF LocalSteps
<1>2. CASE m = "standalone"
  <2>1. Len(Steps(m)) = 8 BY <1>2, Lengths
  <2>2. i \in 1..7 \/ i = 8 BY <2>1
  <2>3. CASE i = 8 BY <1>2, <2>3, Lengths
  <2>4. CASE i \in 1..7
    <3>1. Steps(m)[i] = LocalSteps[i] BY <1>2, <2>4, Lengths
    <3>2. i = 1 \/ i = 2 \/ i = 3 \/ i = 4 \/ i = 5 \/ i = 6 \/ i = 7 BY <2>4
    <3> QED BY <1>1, <3>1, <3>2
  <2> QED BY <2>2, <2>3, <2>4
<1>3. CASE m = "server"
  <2>1. Len(Steps(m)) = 12 BY <1>3, Lengths
  <2>2. i \in 1..11 \/ i = 12 BY <2>1
  <2>3. CASE i = 12 BY <1>3, <2>3, Lengths
  <2>4. CASE i \in 1..11
    <3>1. Steps(m)[i] = ServerSteps[i] BY <1>3, <2>4, Lengths
    <3>2. \/ i = 1 \/ i = 2 \/ i = 3 \/ i = 4 \/ i = 5 \/ i = 6 \/ i = 7
          \/ i = 8 \/ i = 9 \/ i = 10 \/ i = 11
      BY <2>4
    <3> DEFINE More == <<"binds", "bindfstab", "exports", "exportfs">>
    <3>3. More \in Seq(Words) /\ Len(More) = 4 BY DEF Words
    <3>4. ServerSteps = LocalSteps \o More BY DEF ServerSteps
    <3>5. More[1] = "binds" /\ More[2] = "bindfstab" /\ More[3] = "exports" /\ More[4] = "exportfs"
      OBVIOUS
    <3> HIDE DEF More
    <3>6. ServerSteps[i] = IF i <= 7 THEN LocalSteps[i] ELSE More[i - 7]
      <4>1. /\ Len(LocalSteps \o More) = Len(LocalSteps) + Len(More)
            /\ \A j \in 1..Len(LocalSteps) + Len(More) :
                 (LocalSteps \o More)[j] = IF j <= Len(LocalSteps) THEN LocalSteps[j]
                                           ELSE More[j - Len(LocalSteps)]
        BY <3>3, LocalAre, Joined
      <4>2. Len(LocalSteps) = 7 BY LocalAre
      <4>3. i \in 1..7 + 4 BY <2>4
      <4> QED BY <3>3, <3>4, <4>1, <4>2, <4>3
    <3>7. CASE i \in 1..7
      <4>1. i = 1 \/ i = 2 \/ i = 3 \/ i = 4 \/ i = 5 \/ i = 6 \/ i = 7 BY <3>7
      <4>2. Steps(m)[i] = LocalSteps[i] BY <3>1, <3>6, <3>7
      <4> QED BY <1>1, <4>1, <4>2
    <3>8. CASE i \notin 1..7
      <4>1. (i = 8 /\ i - 7 = 1) \/ (i = 9 /\ i - 7 = 2) \/ (i = 10 /\ i - 7 = 3)
            \/ (i = 11 /\ i - 7 = 4)
        BY <3>2, <3>8
      <4>2. Steps(m)[i] = More[i - 7] BY <2>4, <3>1, <3>6, <3>8
      <4> QED BY <1>3, <3>5, <4>1, <4>2
    <3> QED BY <3>7, <3>8
  <2> QED BY <2>2, <2>3, <2>4
<1> QED BY <1>2, <1>3

\* And those of a client.
LEMMA ClientNames ==
  ASSUME NEW i \in 1..Len(Steps("client"))
  PROVE  \/ i = 1 /\ Steps("client")[i] = "look"
         \/ i = 2 /\ Steps("client")[i] = "mount"
         \/ i = 3 /\ Steps("client")[i] = "fstab"
         \/ i = 4 /\ Steps("client")[i] = "map"
         \/ i = 5 /\ Steps("client")[i] = "autofs"
         \/ i = 6 /\ Steps("client")[i] = "links"
         \/ i = 7 /\ Steps("client")[i] = "mysql"
         \/ i = 8 /\ Steps("client")[i] = "store"
         \/ i = 9 /\ Steps("client")[i] = "rivendell"
<1>1. /\ ClientSteps[1] = "look" /\ ClientSteps[2] = "mount" /\ ClientSteps[3] = "fstab"
      /\ ClientSteps[4] = "map" /\ ClientSteps[5] = "autofs" /\ ClientSteps[6] = "links"
      /\ ClientSteps[7] = "mysql" /\ ClientSteps[8] = "store"
  BY DEF ClientSteps
<1>2. Len(Steps("client")) = 9 BY Lengths
<1>3. i \in 1..8 \/ i = 9
  <2>1. i \in 1..9 BY <1>2
  <2> QED BY <2>1
<1>4. CASE i = 9 BY <1>4, Lengths
<1>5. CASE i \in 1..8
  <2>1. Steps("client")[i] = ClientSteps[i] BY <1>5, Lengths
  <2>2. i = 1 \/ i = 2 \/ i = 3 \/ i = 4 \/ i = 5 \/ i = 6 \/ i = 7 \/ i = 8 BY <1>5
  <2> QED BY <1>1, <2>1, <2>2
<1> QED BY <1>3, <1>4, <1>5

\* A request's copies stay true while it works.
LEMMA CopiesStep ==
  ASSUME Types, Types', NEW r \in Tabs, Copies(r), Active(r), Active(r)', Ask(r)' = Ask(r),
         Works(r) \/ Unlinks(r) \/ Lands(r) \/ Takes(r) \/ Skips(r)
  PROVE  Copies(r)'
<1>1. CASE req'[r].phase \in {"read", "copy"} BY <1>1 DEF Copies
<1>2. CASE req'[r].phase \notin {"read", "copy"}
  <2>1. Works(r) BY <1>2 DEF Unlinks, Lands, Takes, Skips
  <2>2. Step(r)' = Step(r) BY <2>1 DEF Works, Step, Active
  <2>3. conf' = conf /\ fstab' = fstab BY <2>1 DEF Works
  <2>5. CASE req'[r].phase = "empty" /\ req'[r].conf = conf /\ req'[r].fstab = fstab
    BY <2>3, <2>5 DEF Copies
  <2>6. CASE /\ req[r].phase = "empty" /\ req'[r].phase = "fill"
             /\ req'[r].conf = req[r].conf /\ req'[r].fstab = req[r].fstab
    BY <2>3, <2>6 DEF Copies
  <2>7. CASE /\ req[r].phase = "fill" /\ req'[r].phase = "install"
             /\ IF Step(r) \in ConfSteps THEN staged'.conf = WithConf(req[r].conf, r)
                ELSE staged'.fstab = WithFstab(req[r].fstab, r)
    <3>1. req[r].conf = conf /\ req[r].fstab = fstab BY <2>7 DEF Copies
    <3>3. WithFstab(fstab, r)' = WithFstab(fstab, r) BY <2>2, <2>3 DEF WithFstab, Ask
    <3>4. Step(r) \notin ConfSteps => staged'.fstab = WithFstab(fstab, r)' BY <2>7, <3>1, <3>3
    <3>5. WithConf(conf, r)' = WithConf(conf, r)
      BY <2>1, <2>2, <2>3 DEF Works, WithConf, WithMySQL, WithStore, Remote, Ask
    <3>6. Step(r) \in ConfSteps => staged'.conf = WithConf(conf, r)' BY <2>7, <3>1, <3>5
    <3> QED BY <2>2, <2>7, <3>4, <3>6 DEF Copies
  <2> QED BY <2>1, <1>2, <2>5, <2>6, <2>7 DEF Works
<1> QED BY <1>1, <1>2
-----------------------------------------------------------------------------
(* One step more.                                                          *)

\* Of one mount nothing is left when it is taken off, and what is at the
\* bottom is all there is.
LEMMA Single ==
  ASSUME Types, Len(mounts) <= 1
  PROVE  /\ (IF MountSource = None THEN mounts ELSE Unmounted) = <<>>
         /\ \A h : MountSource = h /\ h # None => mounts = <<h>>
<1>1. mounts \in Seq(Hosts) BY DEF Types
<1>2. CASE mounts = <<>> BY <1>2 DEF MountSource
<1>3. CASE mounts # <<>>
  <2>1. Len(mounts) = 1 /\ Head(mounts) \in Hosts
        /\ SubSeq(mounts, 1, Len(mounts) - 1) = <<>>
    BY <1>1, <1>3, Bare
  <2>2. mounts = <<Head(mounts)>> BY <1>1, <2>1
  <2>3. MountSource = Head(mounts) BY <1>3 DEF MountSource
  <2> QED BY <2>1, <2>2, <2>3, ModeAssumption DEF Unmounted
<1> QED BY <1>2, <1>3

\* A request goes on with its files as c and f: an edit has changed one of them,
\* or another step is done.
Advances(r, c, f) ==
  \/ /\ Step(r) \in Edits /\ UNCHANGED <<mounts, sys>>
     /\ IF Step(r) \in ConfSteps THEN c = WithConf(conf, r) /\ f = fstab
        ELSE f = WithFstab(fstab, r) /\ c = conf
  \/ Sets(r) /\ c = conf /\ f = fstab

\* What an edit makes of its file.
LEMMA Changes ==
  ASSUME Types, NEW r \in Tabs, conf.keys, NEW c, NEW f, Advances(r, c, f)
  PROVE  /\ Step(r) \in Edits => UNCHANGED <<mounts, sys>>
         /\ Step(r) = "mysql" =>
              /\ f = fstab /\ c.store = conf.store
              /\ c.host = IF Remote(r) THEN Ask(r).db ELSE Local
              /\ c.pass = IF Remote(r) THEN Ask(r).db ELSE req[r].pass
         /\ Step(r) = "store" =>
              /\ f = fstab /\ c.host = conf.host /\ c.pass = conf.pass
              /\ c.store = IF Remote(r) THEN Ask(r).nfs ELSE None
         /\ Step(r) = "fstab" => c = conf /\ f.snd = Ask(r).nfs
         /\ Step(r) = "nofstab" => c = conf /\ f.snd = None
         /\ Step(r) = "bindfstab" => c = conf /\ f.snd = fstab.snd /\ f.binds
         /\ Step(r) \notin Edits => c = conf /\ f = fstab /\ Sets(r)
<1>1. conf \in ConfType /\ fstab \in FstabType BY DEF Types, FilesTyped
<1>3. Step(r) \in Edits =>
        \/ /\ UNCHANGED <<mounts, sys>>
           /\ IF Step(r) \in ConfSteps THEN c = WithConf(conf, r) /\ f = fstab
              ELSE f = WithFstab(fstab, r) /\ c = conf
        \/ /\ Step(r) = "nofstab" /\ fstab.snd = None
           /\ c = conf /\ f = fstab /\ UNCHANGED <<mounts, sys>>
  BY DEF Advances, Sets, Edits, ConfSteps, FstabSteps, Sys, SysSteps
<1>4. Step(r) = "mysql" =>
        WithConf(conf, r) = [conf EXCEPT !.host = IF Remote(r) THEN Ask(r).db ELSE Local,
                                         !.pass = IF Remote(r) THEN Ask(r).db ELSE req[r].pass]
  BY DEF WithConf, WithMySQL
<1>5. Step(r) = "store" =>
        WithConf(conf, r) = [conf EXCEPT !.store = IF Remote(r) THEN Ask(r).nfs ELSE None]
  BY DEF WithConf, WithStore
<1>6. /\ Step(r) = "fstab" => WithFstab(fstab, r) = [fstab EXCEPT !.snd = Ask(r).nfs]
      /\ Step(r) = "nofstab" => WithFstab(fstab, r) = [fstab EXCEPT !.snd = None]
      /\ Step(r) = "bindfstab" => WithFstab(fstab, r) = [fstab EXCEPT !.binds = TRUE]
  BY DEF WithFstab
<1>7. /\ Step(r) \in Edits => UNCHANGED <<mounts, sys>>
      /\ Step(r) \notin Edits => c = conf /\ f = fstab /\ Sets(r)
  BY <1>3 DEF Advances
<1>8. Step(r) = "mysql" =>
        /\ f = fstab /\ c.store = conf.store
        /\ c.host = IF Remote(r) THEN Ask(r).db ELSE Local
        /\ c.pass = IF Remote(r) THEN Ask(r).db ELSE req[r].pass
  BY <1>1, <1>3, <1>4 DEF ConfType, Edits, ConfSteps, FstabSteps
<1>9. Step(r) = "store" =>
        /\ f = fstab /\ c.host = conf.host /\ c.pass = conf.pass
        /\ c.store = IF Remote(r) THEN Ask(r).nfs ELSE None
  BY <1>1, <1>3, <1>5 DEF ConfType, Edits, ConfSteps, FstabSteps
<1>10. /\ Step(r) = "fstab" => c = conf /\ f.snd = Ask(r).nfs
       /\ Step(r) = "nofstab" => c = conf /\ f.snd = None
       /\ Step(r) = "bindfstab" => c = conf /\ f.snd = fstab.snd /\ f.binds
  BY <1>1, <1>3, <1>6 DEF FstabType, Edits, ConfSteps, FstabSteps
<1> QED BY <1>7, <1>8, <1>9, <1>10

\* A request for a station of its own, or a server, goes one step on.
LEMMA LocalStep ==
  ASSUME Types, Ranges, NEW r \in Tabs, Placed(r), Active(r), ~Remote(r), conf.keys,
         Len(mounts) <= 1, NEW c, NEW f, Advances(r, c, f), abroad' = abroad,
         NEW ask, ask = Ask(r), NEW n \in Nat, n = req[r].at,
         NEW p, p = req[r].pass,
         NEW w, w = IF Step(r) = "password" THEN conf.pass ELSE p,
         LocalBy(ask, n, conf, fstab, p)
  PROVE  LocalBy(ask, n + 1, c, f, w)'
<1> DEFINE m == Ask(r).mode
<1>1. m \in {"standalone", "server"} /\ n \in 1..Len(Steps(m)) /\ Step(r) = Steps(m)[n]
  <2>1. req[r] \in Records BY DEF Types
  <2>2. m \in Modes BY <2>1 DEF Records, Asks, Ask
  <2>3. Len(Steps(m)) \in Nat BY <2>2, Several
  <2> QED BY <2>2, <2>3 DEF Placed, Active, Step, Remote, Modes
<1> HIDE DEF m
<1>2. sys \in SysType /\ mounts \in Seq(Hosts) BY DEF Ranges, Types
<1>3. CASE n = 1 /\ Step(r) = "bind"
  <2>1. Sys(r) /\ mounts' = mounts /\ c = conf /\ f = fstab
    BY <1>3, Changes DEF Sets, Edits, ConfSteps, FstabSteps
  <2>2. sys' = [sys EXCEPT !.bind = (Ask(r).mode = "server")] BY <1>3, <2>1, SysDoes
  <2>3. sys'.bind = (ask.mode = "server") BY <1>2, <2>2 DEF SysType
  <2> QED BY <1>3, <2>1, <2>3 DEF LocalBy
<1>4. CASE n = 2 /\ Step(r) = "mariadb"
  <2>1. Sys(r) /\ mounts' = mounts /\ c = conf /\ f = fstab
    BY <1>4, Changes DEF Sets, Edits, ConfSteps, FstabSteps
  <2>2. sys' = [sys EXCEPT !.listens = sys.bind] BY <1>4, <2>1, SysDoes
  <2>3. sys'.bind = sys.bind /\ sys'.listens = sys.bind BY <1>2, <2>2 DEF SysType
  <2> QED BY <1>4, <2>1, <2>3 DEF LocalBy
<1>5. CASE n = 3 /\ Step(r) = "password"
  <2>1. sys' = sys /\ c = conf BY <1>5, Changes DEF Sets, Edits, ConfSteps, FstabSteps, Sys, SysSteps
  <2> QED BY <1>5, <2>1 DEF LocalBy
<1>6. CASE n = 4 /\ Step(r) = "mysql"
  <2>1. sys' = sys /\ c.host = Local /\ c.pass = p
    BY <1>6, Changes DEF Edits, ConfSteps, FstabSteps
  <2> QED BY <1>6, <2>1 DEF LocalBy
<1>7. CASE n = 5 /\ Step(r) = "unmount"
  <2>1. /\ mounts' = (IF MountSource = None THEN mounts ELSE Unmounted)
        /\ c = conf /\ sys' = sys
    BY <1>7, Changes DEF Sets, Edits, ConfSteps, FstabSteps, Sys, SysSteps
  <2>2. mounts' = <<>> BY <2>1, Single
  <2> QED BY <1>7, <2>1, <2>2 DEF LocalBy
<1>8. CASE n = 6 /\ Step(r) = "nofstab"
  <2>1. sys' = sys /\ mounts' = mounts /\ c = conf /\ f.snd = None
    BY <1>8, Changes DEF Edits, ConfSteps, FstabSteps
  <2> QED BY <1>8, <2>1 DEF LocalBy
<1>9. CASE n = 7 /\ Step(r) = "store"
  <2>1. /\ sys' = sys /\ mounts' = mounts /\ f = fstab
        /\ c.host = conf.host /\ c.store = None /\ c.pass = conf.pass
    BY <1>9, Changes DEF Edits, ConfSteps, FstabSteps
  <2> QED BY <1>9, <2>1 DEF LocalBy
<1>10. CASE n = 8 /\ Step(r) = "binds"
  <2>1. Sys(r) /\ mounts' = mounts /\ c = conf /\ f = fstab
    BY <1>10, Changes DEF Sets, Edits, ConfSteps, FstabSteps
  <2>2. sys' = [sys EXCEPT !.bound = IF sys.bound = "none" THEN Bound ELSE sys.bound]
    BY <1>10, <2>1, SysDoes
  <2>3. sys'.bind = sys.bind /\ sys'.listens = sys.listens /\ sys'.bound # "none"
    BY <1>2, <2>2 DEF SysType, Bound
  <2> QED BY <1>10, <2>1, <2>3 DEF LocalBy
<1>11. CASE n = 9 /\ Step(r) = "bindfstab"
  <2>1. /\ sys' = sys /\ mounts' = mounts /\ c = conf
        /\ f.snd = fstab.snd /\ f.binds
    BY <1>11, Changes DEF Edits, ConfSteps, FstabSteps
  <2> QED BY <1>11, <2>1 DEF LocalBy
<1>12. CASE n = 10 /\ Step(r) = "exports"
  <2>1. Sys(r) /\ mounts' = mounts /\ c = conf /\ f = fstab
    BY <1>12, Changes DEF Sets, Edits, ConfSteps, FstabSteps
  <2>2. sys' = [sys EXCEPT !.exports = TRUE] BY <1>12, <2>1, SysDoes
  <2>3. /\ sys'.bind = sys.bind /\ sys'.listens = sys.listens /\ sys'.bound = sys.bound
        /\ sys'.exports
    BY <1>2, <2>2 DEF SysType
  <2> QED BY <1>12, <2>1, <2>3 DEF LocalBy
<1>13. CASE n = 11 /\ Step(r) = "exportfs"
  <2>1. Sys(r) /\ mounts' = mounts /\ c = conf /\ f = fstab
    BY <1>13, Changes DEF Sets, Edits, ConfSteps, FstabSteps
  <2>2. sys' = [sys EXCEPT !.exported = sys.exports] BY <1>13, <2>1, SysDoes
  <2>3. /\ sys'.bind = sys.bind /\ sys'.listens = sys.listens /\ sys'.bound = sys.bound
        /\ sys'.exports = sys.exports /\ sys'.exported = sys.exports
    BY <1>2, <2>2 DEF SysType
  <2> QED BY <1>13, <2>1, <2>3 DEF LocalBy
<1>14. Step(r) # "rivendell"
  BY DEF Advances, Sets, Edits, ConfSteps, FstabSteps, Sys, SysSteps
<1> QED BY <1>1, <1>3, <1>4, <1>5, <1>6, <1>7, <1>8, <1>9, <1>10, <1>11, <1>12, <1>13, <1>14,
           LocalNames

\* So does a request for a client.
LEMMA ClientStep ==
  ASSUME Types, Ranges, NEW r \in Tabs, Placed(r), Active(r), Remote(r), conf.keys,
         Len(mounts) <= 1, NEW c, NEW f, Advances(r, c, f),
         NEW ask, ask = Ask(r), NEW n \in Nat, n = req[r].at,
         ClientBy(ask, n, conf, fstab)
  PROVE  ClientBy(ask, n + 1, c, f)'
<1>1. n \in 1..Len(Steps("client")) /\ Step(r) = Steps("client")[n]
  <2>3. Len(Steps("client")) \in Nat BY Lengths
  <2> QED BY <2>3 DEF Placed, Active, Step, Remote
<1>2. sys \in SysType /\ mounts \in Seq(Hosts) BY DEF Ranges, Types
<1>3. CASE n = 1 /\ Step(r) = "look"
  <2>1. mounts' = (IF MountSource = None THEN mounts ELSE Unmounted)
    BY <1>3, Changes DEF Sets, Edits, ConfSteps, FstabSteps, Sys, SysSteps
  <2>2. mounts' = <<>> BY <2>1, Single
  <2> QED BY <1>3, <2>2 DEF ClientBy
<1>4. CASE n = 2 /\ Step(r) = "mount"
  <2>1. mounts' = Append(mounts, ask.nfs)
    BY <1>4, Changes DEF Sets, Edits, ConfSteps, FstabSteps, Sys, SysSteps
  <2>2. mounts = <<>> BY <1>4 DEF ClientBy
  <2>3. mounts' = <<ask.nfs>> BY <2>1, <2>2
  <2> QED BY <1>4, <2>3 DEF ClientBy
<1>5. CASE n = 3 /\ Step(r) = "fstab"
  <2>1. mounts' = mounts /\ f.snd = ask.nfs
    BY <1>5, Changes DEF Edits, ConfSteps, FstabSteps
  <2> QED BY <1>5, <2>1 DEF ClientBy
<1>6. CASE n = 4 /\ Step(r) = "map"
  <2>1. Sys(r) /\ mounts' = mounts /\ c = conf /\ f = fstab
    BY <1>6, Changes DEF Sets, Edits, ConfSteps, FstabSteps
  <2>2. sys' = [sys EXCEPT !.map = Ask(r).nfs] BY <1>6, <2>1, SysDoes
  <2>3. sys'.map = ask.nfs BY <1>2, <2>2 DEF SysType
  <2> QED BY <1>6, <2>1, <2>3 DEF ClientBy
<1>7. CASE n = 5 /\ Step(r) = "autofs"
  <2>1. Sys(r) /\ mounts' = mounts /\ c = conf /\ f = fstab
    BY <1>7, Changes DEF Sets, Edits, ConfSteps, FstabSteps
  <2>2. sys' = [sys EXCEPT !.autofs = sys.map] BY <1>7, <2>1, SysDoes
  <2>3. sys'.map = sys.map /\ sys'.autofs = sys.map BY <1>2, <2>2 DEF SysType
  <2> QED BY <1>7, <2>1, <2>3 DEF ClientBy
<1>8. CASE n = 6 /\ Step(r) = "links"
  <2>1. sys' = [sys EXCEPT !.dirs = "remote"] /\ mounts' = mounts /\ c = conf /\ f = fstab
    BY <1>8, Changes DEF Sets, Edits, ConfSteps, FstabSteps, Sys, SysSteps
  <2>2. sys'.map = sys.map /\ sys'.autofs = sys.autofs /\ sys'.dirs = "remote"
    BY <1>2, <2>1 DEF SysType
  <2> QED BY <1>8, <2>1, <2>2 DEF ClientBy
<1>9. CASE n = 7 /\ Step(r) = "mysql"
  <2>1. /\ sys' = sys /\ mounts' = mounts /\ f = fstab
        /\ c.host = ask.db /\ c.pass = ask.db
    BY <1>9, Changes DEF Edits, ConfSteps, FstabSteps
  <2> QED BY <1>9, <2>1 DEF ClientBy
<1>10. CASE n = 8 /\ Step(r) = "store"
  <2>1. /\ sys' = sys /\ mounts' = mounts /\ f = fstab
        /\ c.host = conf.host /\ c.pass = conf.pass /\ c.store = ask.nfs
    BY <1>10, Changes DEF Edits, ConfSteps, FstabSteps
  <2> QED BY <1>10, <2>1 DEF ClientBy
<1>11. Step(r) # "rivendell"
  BY DEF Advances, Sets, Edits, ConfSteps, FstabSteps, Sys, SysSteps
<1> QED BY <1>1, <1>3, <1>4, <1>5, <1>6, <1>7, <1>8, <1>9, <1>10, <1>11, ClientNames
-----------------------------------------------------------------------------
(* What a request that says it was applied leaves.                         *)

\* The request under way is the one last saved, edits the files as they are,
\* and has done what its steps so far do.
Progress(r) ==
  Active(r) =>
    /\ intent = Ask(r) /\ Copies(r)
    /\ IF Remote(r) THEN ClientBy(Ask(r), Due(r), DueConf(r), DueFstab(r))
       ELSE LocalBy(Ask(r), Due(r), DueConf(r), DueFstab(r), req[r].pass)

\* When none is, the last one stands if it said so: here, and after a reboot.
Stands(ask) ==
  /\ intent = ask /\ service = conf
  /\ IF ask.mode = "client" THEN IsClient(ask) /\ sys.map = ask.nfs /\ ask.nfs # None
     ELSE IsLocal(ask) /\ (ask.mode = "server" => sys.exports)

\* Until two requests are under way at a time, or rd.conf is lost.
Alone ==
  ~overlapped =>
    /\ crossed = {}
    /\ \A r, s \in Tabs : Active(r) /\ Active(s) => r = s
    /\ "conf" \notin torn =>
         /\ \A r \in Tabs : Progress(r)
         /\ Quiet /\ ~abroad => conf.pass = Local
         /\ Quiet /\ last.ok => Stands(last.ask)

\* Until a client is asked for, the directories and autofs are as they were.
Home ==
  ~abroad => /\ sys.dirs # "remote" /\ sys.map = None /\ sys.autofs = None
             /\ \A r \in Tabs : Active(r) => ~Remote(r)

Whole == IInv /\ Ranges /\ Room /\ Home /\ Alone

\* Who edits is under way.
LEMMA Editors ==
  ASSUME NEW s \in Tabs, Placed(s), ~Active(s)
  PROVE  req[s].phase = "read" /\ Step(s) = "none"
BY DEF Placed, Step, Edits, ConfSteps, FstabSteps

\* A request that restarts rivendell has done it all.
LEMMA Finished ==
  ASSUME Types, Ranges, Home, NEW r \in Tabs, Placed(r), Step(r) = "rivendell", Progress(r)
  PROVE  LET ask == Ask(r)
         IN  IF ask.mode = "client" THEN IsClient(ask) /\ sys.map = ask.nfs /\ ask.nfs # None
             ELSE IsLocal(ask) /\ (ask.mode = "server" => sys.exports)
<1> DEFINE m == Ask(r).mode
<1>0. Active(r) BY DEF Step
<1>1. m \in Modes /\ req[r].at \in 1..Len(Steps(m)) /\ Step(r) = Steps(m)[req[r].at]
  <2>1. req[r] \in Records BY DEF Types
  <2>2. m \in Modes /\ req[r].at \in Nat BY <2>1 DEF Records, Asks, Ask
  <2>3. Len(Steps(m)) \in Nat BY <2>2, Several
  <2> QED BY <1>0, <2>2, <2>3 DEF Placed, Active, Step
<1>5. Due(r) = req[r].at /\ DueConf(r) = conf /\ DueFstab(r) = fstab
  <2>1. req[r].phase = "read" BY DEF Placed, Edits, ConfSteps, FstabSteps
  <2> QED BY <2>1 DEF Due, DueConf, DueFstab, Copy
<1>2. CASE m = "client"
  <2>1. req[r].at = 9 BY <1>1, <1>2, ClientNames
  <2>2. ClientBy(Ask(r), 9, conf, fstab) BY <1>0, <1>2, <1>5, <2>1 DEF Progress, Remote
  <2>3. Ask(r).nfs # None BY <1>0, <1>2 DEF Placed, Named, Remote
  <2> QED BY <1>2, <2>2, <2>3 DEF ClientBy, IsClient
<1>3. CASE m = "server"
  <2>1. req[r].at = 12 BY <1>1, <1>3, LocalNames
  <2>2. LocalBy(Ask(r), 12, conf, fstab, req[r].pass)
    BY <1>0, <1>3, <1>5, <2>1 DEF Progress, Remote
  <2> QED BY <1>3, <2>2 DEF LocalBy, IsLocal, Home
<1>4. CASE m = "standalone"
  <2>1. req[r].at = 8 BY <1>1, <1>4, LocalNames
  <2>2. LocalBy(Ask(r), 8, conf, fstab, req[r].pass)
    BY <1>0, <1>4, <1>5, <2>1 DEF Progress, Remote
  <2> QED BY <1>4, <2>2 DEF LocalBy, IsLocal, Home
<1> QED BY <1>1, <1>2, <1>3, <1>4 DEF Modes

\* The request under way goes on doing so.
LEMMA ProgressStep ==
  ASSUME Types, Types', Ranges, NEW r \in Tabs, Placed(r), Acts(r), Active(r), Active(r)',
         Ask(r)' = Ask(r), intent' = intent, abroad' = abroad, Progress(r),
         req[r].phase # "copy" => conf.keys, Len(mounts) <= 1
  PROVE  Progress(r)'
<1>0. intent = Ask(r) /\ Copies(r) BY DEF Progress
<1>1. Works(r) \/ Unlinks(r) \/ Lands(r) \/ Takes(r) \/ Skips(r) BY Doing
<1>2. Copies(r)' BY <1>0, <1>1, CopiesStep
<1>3. req[r].at \in Nat /\ req'[r].at \in Nat /\ (Remote(r)' <=> Remote(r))
  BY DEF Types, Records, Remote
<1>4. PICK ask : ask = Ask(r) OBVIOUS
<1>5. PICK n \in Nat : n = req[r].at BY <1>3
<1>9. PICK p : p = req[r].pass OBVIOUS
<1>10. req[r].phase # "copy" =>
         IF Remote(r) THEN ClientBy(ask, n, conf, fstab) ELSE LocalBy(ask, n, conf, fstab, p)
  BY <1>4, <1>5, <1>9 DEF Progress, Due, DueConf, DueFstab, Copy
<1>11. PICK d, c, f, w : /\ d = Due(r)' /\ c = DueConf(r)' /\ f = DueFstab(r)'
                         /\ w = req'[r].pass
  OBVIOUS
<1>12. SUFFICES /\ Remote(r) => ClientBy(ask, d, c, f)'
                /\ ~Remote(r) => LocalBy(ask, d, c, f, w)'
  <2>1. Remote(r)' => ClientBy(Ask(r), Due(r), DueConf(r), DueFstab(r))'
    BY <1>3, <1>4, <1>11, <1>12
  <2>2. ~Remote(r)' => LocalBy(Ask(r), Due(r), DueConf(r), DueFstab(r), req[r].pass)'
    BY <1>3, <1>4, <1>11, <1>12
  <2> QED BY <1>0, <1>2, <2>1, <2>2 DEF Progress
<1>6. CASE Works(r)
  <2>1. /\ conf' = conf /\ fstab' = fstab /\ mounts' = mounts /\ sys' = sys
        /\ d = n /\ c = conf /\ f = fstab /\ w = p /\ req[r].phase # "copy"
    BY <1>5, <1>6, <1>9, <1>11 DEF Works, Due, DueConf, DueFstab, Copy
  <2>2. ASSUME Remote(r) PROVE ClientBy(ask, d, c, f)'
    <3>1. ClientBy(ask, d, c, f) BY <1>10, <2>1, <2>2
    <3> QED BY <2>1, <3>1 DEF ClientBy
  <2>3. ASSUME ~Remote(r) PROVE LocalBy(ask, d, c, f, w)'
    <3>1. LocalBy(ask, d, c, f, w) BY <1>10, <2>1, <2>3
    <3> QED BY <2>1, <3>1 DEF LocalBy
  <2> QED BY <2>2, <2>3
<1>7. CASE Unlinks(r) \/ Takes(r)
  <2>1. /\ d = n + 1 /\ req[r].phase # "copy"
        /\ w = (IF Step(r) = "password" THEN conf.pass ELSE p)
    BY <1>5, <1>7, <1>9, <1>11
    DEF Unlinks, Takes, Due, Copy, Edits, ConfSteps, FstabSteps
  <2>2. Advances(r, c, f)
    <3>1. CASE Unlinks(r)
      <4>1. req'[r].at = req[r].at BY <3>1 DEF Unlinks
      <4>2. Step(r)' = Step(r) BY <1>4, <4>1 DEF Step, Active
      <4>3. IF Step(r) \in ConfSteps THEN c = staged.conf /\ f = fstab
            ELSE c = conf /\ f = staged.fstab
        BY <1>11, <3>1, <4>2 DEF Unlinks, DueConf, DueFstab, Copy
      <4>4. IF Step(r) \in ConfSteps THEN staged.conf = WithConf(conf, r)
            ELSE staged.fstab = WithFstab(fstab, r)
        BY <1>0, <3>1 DEF Copies, Unlinks
      <4> QED BY <3>1, <4>3, <4>4 DEF Advances, Unlinks
    <3>2. CASE Takes(r)
      <4>1. c = conf /\ f = fstab BY <1>11, <3>2 DEF Takes, DueConf, DueFstab, Copy
      <4> QED BY <3>2, <4>1 DEF Advances, Takes
    <3> QED BY <1>7, <3>1, <3>2
  <2>3. conf.keys BY <2>1
  <2>4. ASSUME Remote(r) PROVE ClientBy(ask, d, c, f)'
    <3>1. ClientBy(ask, n, conf, fstab) BY <1>10, <2>1, <2>4
    <3>2. ClientBy(ask, n + 1, c, f)' BY <1>4, <1>5, <2>2, <2>3, <2>4, <3>1, ClientStep
    <3> QED BY <2>1, <3>2
  <2>5. ASSUME ~Remote(r) PROVE LocalBy(ask, d, c, f, w)'
    <3>1. LocalBy(ask, n, conf, fstab, p) BY <1>10, <2>1, <2>5
    <3>2. LocalBy(ask, n + 1, c, f, w)'
      BY <1>4, <1>5, <1>9, <2>1, <2>2, <2>3, <2>5, <3>1, LocalStep
    <3> QED BY <2>1, <3>2
  <2> QED BY <2>4, <2>5
<1>13. CASE Lands(r)
  <2>1. /\ d = n + 1 /\ c = conf' /\ f = fstab' /\ w = p /\ mounts' = mounts /\ sys' = sys
        /\ Due(r) = n + 1
    BY <1>5, <1>9, <1>11, <1>13 DEF Lands, Due, DueConf, DueFstab, Copy
  <2>2. c = DueConf(r) /\ f = DueFstab(r)
    BY <1>13, <2>1 DEF Lands, DueConf, DueFstab, Copy
  <2>3. ASSUME Remote(r) PROVE ClientBy(ask, d, c, f)'
    <3>1. ClientBy(ask, d, c, f) BY <1>4, <2>1, <2>2, <2>3 DEF Progress
    <3> QED BY <2>1, <3>1 DEF ClientBy
  <2>4. ASSUME ~Remote(r) PROVE LocalBy(ask, d, c, f, w)'
    <3>1. LocalBy(ask, d, c, f, w) BY <1>4, <1>9, <2>1, <2>2, <2>4 DEF Progress
    <3> QED BY <2>1, <3>1 DEF LocalBy
  <2> QED BY <2>3, <2>4
<1>8. CASE Skips(r)
  <2>1. Remote(r) /\ n = 1 BY <1>5, <1>8, Standing DEF Skips
  <2>2. d = 3 /\ mounts' = mounts BY <1>5, <1>8, <1>11, <2>1 DEF Skips, Due, Copy
  <2>3. mounts = <<ask.nfs>>
    <3>1. ask.nfs # None BY <1>4, <2>1 DEF Placed, Named
    <3> QED BY <1>4, <1>8, <3>1, Single DEF Skips
  <2>4. ClientBy(ask, d, c, f)' BY <2>2, <2>3 DEF ClientBy
  <2> QED BY <2>1, <2>4
<1> QED BY <1>1, <1>6, <1>7, <1>8, <1>13

\* Only clients touch the directories and autofs.
LEMMA HomeStep ==
  ASSUME Types, Ranges, Home, NEW r \in Tabs, Placed(r), Acts(r)
  PROVE  Home'
<1> SUFFICES ASSUME ~abroad'
             PROVE  /\ sys'.dirs # "remote" /\ sys'.map = None /\ sys'.autofs = None
                    /\ \A s \in Tabs : Active(s)' => ~Remote(s)'
  BY DEF Home
<1>1. ~abroad BY Accounts
<1>2. /\ sys.dirs # "remote" /\ sys.map = None /\ sys.autofs = None
      /\ \A s \in Tabs : Active(s) => ~Remote(s)
  BY <1>1 DEF Home
<1>3. \A s \in Tabs \ {r} : Active(s)' = Active(s) /\ Remote(s)' = Remote(s)
  BY OneMoves DEF Active, Remote, Ask
<1>4. req \in [Tabs -> Records] BY DEF Types
<1>5. CASE ~Active(r)
  <2>1. PICK ask \in Requests :
          /\ \/ req' = [req EXCEPT ![r] = [Idle EXCEPT !.ask = ask, !.at = 1]]
                /\ abroad' = (abroad \/ ask.mode = "client")
             \/ req' = req
          /\ UNCHANGED sys
    BY <1>5, Accounts
  <2>2. Active(r)' => ~Remote(r)'
    <3>1. CASE req' = req BY <1>5, <3>1 DEF Active
    <3>2. CASE req' = [req EXCEPT ![r] = [Idle EXCEPT !.ask = ask, !.at = 1]]
               /\ ask.mode # "client"
      <4>1. req'[r].ask = ask BY <1>4, <3>2 DEF Idle
      <4> QED BY <3>2, <4>1 DEF Remote, Ask
    <3> QED BY <2>1, <3>1, <3>2
  <2> QED BY <1>2, <1>3, <2>1, <2>2
<1>6. CASE Active(r) /\ Active(r)'
  <2>1. req' # [req EXCEPT ![r] = Idle] BY <1>4, <1>6 DEF Active, Idle
  <2>2. Ask(r)' = Ask(r) BY <1>6, <2>1, Accounts
  <2>3. Works(r) \/ Unlinks(r) \/ Lands(r) \/ Takes(r) \/ Skips(r) BY <1>6, Doing
  <2>4. Step(r) \notin {"links", "map", "autofs"}
    <3>1. req[r] \in Records BY <1>4
    <3>2. PICK m : m = Ask(r).mode OBVIOUS
    <3>3. m \in Modes /\ req[r].at \in Nat BY <3>1, <3>2 DEF Records, Asks, Ask
    <3>4. Len(Steps(m)) \in Nat BY <3>3, Several
    <3>5. m \in {"standalone", "server"} /\ req[r].at \in 1..Len(Steps(m))
      BY <1>2, <1>6, <3>2, <3>3, <3>4 DEF Placed, Active, Remote, Modes
    <3>6. Step(r) = Steps(m)[req[r].at] BY <1>6, <3>2 DEF Step
    <3> QED BY <3>5, <3>6, LocalNames
  <2>5. sys'.dirs = sys.dirs /\ sys'.map = sys.map /\ sys'.autofs = sys.autofs
    <3>1. CASE Sys(r)
      <4>1. sys \in SysType BY DEF Ranges
      <4>2. \/ sys' = sys \/ \E b \in BOOLEAN : \/ sys' = [sys EXCEPT !.bind = b]
                                            \/ sys' = [sys EXCEPT !.listens = b]
            \/ \E b : \/ sys' = [sys EXCEPT !.bound = b]
                     \/ sys' = [sys EXCEPT !.exports = b]
                     \/ sys' = [sys EXCEPT !.exported = b]
        BY <2>4, <3>1, <4>1, SysDoes DEF SysType
      <4> QED BY <4>1, <4>2 DEF SysType
    <3>2. CASE ~Sys(r) BY <2>3, <2>4, <3>2 DEF Works, Unlinks, Lands, Takes, Sets, Skips
    <3> QED BY <3>1, <3>2
  <2>6. Remote(r)' = Remote(r) BY <2>2 DEF Remote
  <2> QED BY <1>2, <1>3, <1>6, <2>5, <2>6
<1>7. CASE Active(r) /\ ~Active(r)'
  <2>1. UNCHANGED sys BY <1>7, Accounts
  <2> QED BY <1>2, <1>3, <1>7, <2>1
<1> QED BY <1>5, <1>6, <1>7

\* Until two requests are under way at a time, one says it was applied only
\* when it was.
LEMMA AloneStep ==
  ASSUME IInv, IInv', Ranges, Home, Alone, NEW r \in Tabs, Acts(r)
  PROVE  Alone'
<1> SUFFICES ASSUME ~overlapped'
             PROVE  /\ crossed' = {}
                    /\ \A s, t \in Tabs : Active(s)' /\ Active(t)' => s = t
                    /\ "conf" \notin torn' =>
                         /\ \A s \in Tabs : Progress(s)'
                         /\ Quiet' /\ ~abroad' => conf'.pass = Local
                         /\ Quiet' /\ last'.ok => Stands(last.ask)'
  BY DEF Alone
<1>0. Types /\ Types' /\ (\A s \in Tabs : Placed(s)) BY DEF IInv
<1>1. ~overlapped /\ torn \subseteq torn' BY <1>0, Accounts, Edited
<1>2. /\ crossed = {}
      /\ \A s, t \in Tabs : Active(s) /\ Active(t) => s = t
  BY <1>1 DEF Alone
<1>3. "conf" \notin torn' =>
        /\ \A s \in Tabs : Progress(s)
        /\ Quiet /\ ~abroad => conf.pass = Local
        /\ Quiet /\ last.ok => Stands(last.ask)
  BY <1>1 DEF Alone
<1>4. \A s \in Tabs \ {r} : req'[s] = req[s] BY <1>0, OneMoves
<1>5. \A s \in Tabs \ {r} : /\ Active(s)' = Active(s) /\ Ask(s)' = Ask(s)
                            /\ Remote(s)' = Remote(s)
  BY <1>4 DEF Active, Ask, Remote
<1>6. req \in [Tabs -> Records] /\ req' \in [Tabs -> Records] BY <1>0 DEF Types
<1>7. CASE ~Active(r)
  <2>1. PICK ask \in Requests :
          /\ intent' = ask
          /\ \/ req' = [req EXCEPT ![r] = [Idle EXCEPT !.ask = ask, !.at = 1]]
                /\ abroad' = (abroad \/ ask.mode = "client")
             \/ req' = req /\ last' = [ask |-> ask, ok |-> FALSE] /\ abroad' = abroad
          /\ overlapped' = (overlapped \/ \E s \in Tabs : Active(s))
          /\ UNCHANGED <<conf, fstab, staged, mounts, sys, service, crossed>>
    BY <1>0, <1>7, Accounts
  <2>2. (\A s \in Tabs : ~Active(s)) /\ Quiet BY <2>1 DEF Quiet
  <2>3. \A s \in Tabs \ {r} : ~Active(s)' BY <1>5, <2>2
  <2>6. "conf" \notin torn' /\ ~abroad' => conf'.pass = Local BY <1>3, <2>1, <2>2
  <2>4. CASE req' = req /\ last' = [ask |-> ask, ok |-> FALSE]
    <3>1. ~Active(r)' BY <1>7, <2>4 DEF Active
    <3> QED BY <1>2, <2>1, <2>3, <2>4, <2>6, <3>1 DEF Progress
  <2>5. CASE req' = [req EXCEPT ![r] = [Idle EXCEPT !.ask = ask, !.at = 1]]
    <3>1. req'[r] = [Idle EXCEPT !.ask = ask, !.at = 1] BY <1>6, <2>5
    <3>2. req'[r].at = 1 /\ req'[r].phase = "read" /\ req'[r].ask = ask BY <3>1 DEF Idle
    <3>3. Active(r)' /\ Ask(r)' = ask BY <3>2 DEF Active, Ask
    <3>4. Copies(r)' BY <3>2 DEF Copies
    <3>5. PICK d, c, f, w : /\ d = Due(r)' /\ c = DueConf(r)' /\ f = DueFstab(r)'
                            /\ w = req'[r].pass
      OBVIOUS
    <3>6. d = 1 /\ c = conf' BY <3>2, <3>5 DEF Due, DueConf, Copy
    <3>7. "conf" \notin torn' => ClientBy(ask, d, c, f)' /\ LocalBy(ask, d, c, f, w)'
      BY <2>6, <3>6 DEF ClientBy, LocalBy
    <3>8. "conf" \notin torn' =>
            /\ ClientBy(Ask(r), Due(r), DueConf(r), DueFstab(r))'
            /\ LocalBy(Ask(r), Due(r), DueConf(r), DueFstab(r), req[r].pass)'
      BY <3>3, <3>5, <3>7
    <3>9. "conf" \notin torn' => Progress(r)' BY <2>1, <3>3, <3>4, <3>8 DEF Progress
    <3>10. "conf" \notin torn' => \A s \in Tabs : Progress(s)' BY <2>3, <3>9 DEF Progress
    <3>11. ~Quiet' BY <3>3 DEF Quiet
    <3> QED BY <1>2, <2>1, <2>3, <3>10, <3>11
  <2> QED BY <2>1, <2>4, <2>5
<1>8. CASE Active(r)
  <2>1. \A s \in Tabs \ {r} : ~Active(s) /\ ~Active(s)' BY <1>2, <1>5, <1>8
  <2>2. \A s \in Tabs \ {r} : req[s].phase = "read" /\ Step(s) = "none"
    BY <1>0, <2>1, Editors
  <2>3. crossed' = {}
    <3>1. ~\E s \in Tabs \ {r} : req[s].phase # "read" BY <2>2
    <3>2. Step(r) = "look" => ~\E s \in Tabs : Step(s) = "mount" BY <2>2
    <3> QED BY <1>2, <3>1, <3>2, Crossing
  <2>4. \A s, t \in Tabs : Active(s)' /\ Active(t)' => s = t BY <2>1
  <2>5. \A s \in Tabs \ {r} : Progress(s)' BY <2>1 DEF Progress
  <2>6. CASE Active(r)'
    <3>1. req' # [req EXCEPT ![r] = Idle] BY <1>6, <2>6 DEF Active, Idle
    <3>2. Ask(r)' = Ask(r) /\ intent' = intent /\ abroad' = abroad BY <1>0, <1>8, <3>1, Accounts
    <3>3. ASSUME "conf" \notin torn' PROVE Progress(r)'
      <4>1. Len(mounts) <= 1 BY <1>2 DEF IInv, StoreBare
      <4>2. conf.keys \/ Copied("conf") BY <1>1, <1>2, <3>3 DEF IInv, ConfWhole
      <4>3. req[r].phase # "copy" => conf.keys BY <2>2, <4>2 DEF Copied
      <4> QED BY <1>0, <1>3, <1>8, <2>6, <3>2, <3>3, <4>1, <4>3, ProgressStep
    <3>4. ~Quiet' BY <2>6 DEF Quiet
    <3> QED BY <2>3, <2>4, <2>5, <3>3, <3>4
  <2>7. CASE ~Active(r)'
    <3>1. /\ \/ RestartRivendell(r)
             \/ last' = [ask |-> Ask(r), ok |-> FALSE]
          /\ torn' = torn \union Copying({r})
          /\ UNCHANGED <<intent, conf, fstab, mounts, sys, abroad>>
      BY <1>0, <1>8, <2>7, Accounts
    <3>2. Progress(r)' BY <2>7 DEF Progress
    <3>3. ASSUME "conf" \notin torn', ~abroad' PROVE conf'.pass = Local
      <4>1. DueConf(r) = conf BY <3>1, <3>3 DEF DueConf, Copy, Copying, FileOf
      <4>2. ~Remote(r) BY <1>8, <3>1, <3>3 DEF Home
      <4>3. LocalBy(Ask(r), Due(r), DueConf(r), DueFstab(r), req[r].pass)
        BY <1>3, <1>8, <3>3, <4>2 DEF Progress
      <4> QED BY <3>1, <3>3, <4>1, <4>3 DEF LocalBy
    <3>4. CASE last' = [ask |-> Ask(r), ok |-> FALSE] BY <2>3, <2>4, <2>5, <3>2, <3>3, <3>4
    <3>5. CASE RestartRivendell(r)
      <4>1. Step(r) = "rivendell" /\ service' = conf /\ last' = [ask |-> Ask(r), ok |-> TRUE]
        BY <3>5 DEF RestartRivendell, Ended
      <4>3. PICK ask : ask = Ask(r) OBVIOUS
      <4>4. ASSUME "conf" \notin torn' PROVE Stands(last.ask)'
        <5>1. intent = Ask(r) /\ Progress(r) BY <1>3, <1>8, <4>4 DEF Progress
        <5>2. IF ask.mode = "client" THEN IsClient(ask) /\ sys.map = ask.nfs /\ ask.nfs # None
              ELSE IsLocal(ask) /\ (ask.mode = "server" => sys.exports)
          BY <1>0, <4>1, <4>3, <5>1, Finished
        <5>3. last'.ask = ask BY <4>1, <4>3
        <5>4. Stands(ask)' BY <3>1, <4>1, <4>3, <5>1, <5>2 DEF Stands, IsClient, IsLocal
        <5> QED BY <5>3, <5>4
      <4> QED BY <2>3, <2>4, <2>5, <3>2, <3>3, <4>4
    <3> QED BY <3>1, <3>4, <3>5
  <2> QED BY <2>6, <2>7
<1> QED BY <1>7, <1>8
-----------------------------------------------------------------------------
\* At first it holds: nothing is mounted, and the station is its own.
LEMMA WholeInitially == Init => Whole
<1> SUFFICES ASSUME Init PROVE Whole OBVIOUS
<1>1. \A r \in Tabs : req[r] = Idle BY DEF Init
<1>2. \A r \in Tabs : ~Active(r) /\ Ask(r) = Standalone BY <1>1 DEF Active, Ask, Idle
<1>3. Ranges
  <2>1. sys \in SysType BY DEF Init, SysType
  <2>2. service \in ConfType BY DEF Init, ConfType
  <2>3. last \in [ask : Asked, ok : BOOLEAN] BY DEF Init, Asked
  <2>4. asked \in 0..MaxAsks /\ faults \in 0..MaxFaults /\ reboots \in 0..MaxReboots
    BY ModeAssumption DEF Init
  <2> QED BY <1>2, <2>1, <2>2, <2>3, <2>4 DEF Init, Ranges, Asked
<1>6. Home BY <1>2 DEF Init, Home
<1>4. Room
  <2>1. Ahead = {} BY <1>2 DEF Ahead
  <2>2. IsFiniteSet(Ahead) /\ Cardinality(Ahead) = 0 BY <2>1, FS_EmptySet
  <2>3. mounts = <<>> /\ asked = 0 BY DEF Init
  <2>4. Len(mounts) = 0 BY <2>3
  <2>5. Len(mounts) + Cardinality(Ahead) <= asked + 1 BY <2>2, <2>3, <2>4
  <2> QED BY <2>2, <2>5 DEF Room
<1>5. Alone
  <2>1. sys.bind = FALSE /\ sys.listens = FALSE BY DEF Init
  <2>2. last.ask = Standalone /\ Standalone.mode = "standalone" BY DEF Init, Standalone
  <2>3. /\ conf.host = Local /\ conf.pass = Local /\ conf.store = None
        /\ fstab.snd = None /\ mounts = <<>>
        /\ sys.dirs # "remote" /\ sys.autofs = None
    BY DEF Init
  <2>4. IsLocal(last.ask) BY <2>1, <2>2, <2>3 DEF IsLocal
  <2>5. Stands(last.ask) BY <2>2, <2>4 DEF Stands, Init
  <2> QED BY <1>2, <2>3, <2>5 DEF Alone, Progress, Init
<1> QED BY <1>3, <1>4, <1>5, <1>6, InitialState DEF Whole

\* A reboot takes up from its files what the request last applied wrote there.
LEMMA WholeReboot == ASSUME Whole, Reboot PROVE Whole'
<1>1. IInv /\ Ranges /\ Room /\ Home /\ Alone BY DEF Whole
<1>2. IInv' BY <1>1, RebootStep
<1>3. \A r \in Tabs : req'[r] = Idle BY DEF Reboot
<1>4. \A r \in Tabs : ~Active(r)' /\ Ask(r)' = Standalone BY <1>3 DEF Active, Ask, Idle
<1>5. /\ mounts' = (IF fstab.snd = None THEN <<>> ELSE <<fstab.snd>>)
      /\ UNCHANGED <<intent, conf, fstab, staged, overlapped, crossed, abroad, asked, faults>>
      /\ torn' = torn \union Copying(Tabs)
      /\ service' = conf
  BY DEF Reboot, files
<1>6. sys \in SysType /\ last \in [ask : Asked, ok : BOOLEAN] BY <1>1 DEF Ranges
<1>7. /\ sys'.listens = sys.bind /\ sys'.exported = sys.exports /\ sys'.autofs = sys.map
      /\ sys'.bound = (IF fstab.binds THEN Bound ELSE "none")
      /\ sys'.bind = sys.bind /\ sys'.exports = sys.exports /\ sys'.map = sys.map
      /\ sys'.dirs = sys.dirs /\ sys' \in SysType
  <2>1. sys' = [sys EXCEPT !.listens = sys.bind, !.exported = sys.exports, !.autofs = sys.map,
                           !.bound = IF fstab.binds THEN Bound ELSE "none"]
    BY DEF Reboot
  <2> QED BY <1>6, <2>1 DEF SysType, Bound
<1>8. last'.ask = last.ask /\ (last'.ok => last.ok /\ Quiet)
      /\ last' \in [ask : Asked, ok : BOOLEAN]
  <2>1. last' = [last EXCEPT !.ok = last.ok /\ \A r \in Tabs : ~Active(r)] BY DEF Reboot
  <2> QED BY <1>6, <2>1 DEF Quiet
<1>9. Ranges'
  <2>1. conf \in ConfType BY <1>1 DEF IInv, Types, FilesTyped
  <2>2. reboots' \in 0..MaxReboots BY <1>1, ModeAssumption DEF Reboot, Ranges
  <2>3. torn' \subseteq {"conf", "fstab"} BY <1>1, <1>5 DEF Ranges, Copying, FileOf
  <2> QED BY <1>1, <1>4, <1>5, <1>7, <1>8, <2>1, <2>2, <2>3 DEF Ranges, Asked
<1>12. Home' BY <1>1, <1>4, <1>5, <1>7 DEF Home
<1>10. Room'
  <2>1. Ahead' = {} BY <1>4 DEF Ahead
  <2>2. IsFiniteSet(Ahead') /\ Cardinality(Ahead') = 0 BY <2>1, FS_EmptySet
  <2>3. asked' \in Nat BY <1>1, <1>5, ModeAssumption DEF Ranges
  <2>4. Len(mounts') <= 1 /\ Len(mounts') \in Nat
    <3>1. Len(<<>>) = 0 /\ Len(<<fstab.snd>>) = 1 OBVIOUS
    <3> QED BY <1>5, <3>1
  <2>5. Len(mounts') + Cardinality(Ahead') <= asked' + 1 BY <2>2, <2>3, <2>4
  <2> QED BY <2>2, <2>5 DEF Room
<1>11. Alone'
  <2>5. ASSUME ~overlapped', "conf" \notin torn', ~abroad' PROVE conf'.pass = Local
    <3>1. ~overlapped /\ "conf" \notin torn /\ ~abroad BY <1>5, <2>5
    <3>2. CASE Quiet BY <1>1, <1>5, <3>1, <3>2 DEF Alone
    <3>3. CASE ~Quiet
      <4>1. PICK r \in Tabs : Active(r) BY <3>3 DEF Quiet
      <4>2. Progress(r) /\ ~Remote(r) BY <1>1, <3>1, <4>1 DEF Alone, Home
      <4>3. LocalBy(Ask(r), Due(r), DueConf(r), DueFstab(r), req[r].pass)
        BY <4>1, <4>2 DEF Progress
      <4>4. DueConf(r) = conf BY <1>5, <2>5 DEF DueConf, Copy, Copying, FileOf
      <4> QED BY <1>5, <3>1, <4>3, <4>4 DEF LocalBy
    <3> QED BY <3>2, <3>3
  <2> SUFFICES ASSUME ~overlapped', "conf" \notin torn', last'.ok PROVE Stands(last.ask)'
    BY <1>1, <1>4, <1>5, <2>5 DEF Alone, Progress
  <2>1. PICK ask : ask = last.ask OBVIOUS
  <2>2. Stands(ask) BY <1>1, <1>5, <1>8, <2>1 DEF Alone
  <2>3. CASE ask.mode = "client"
    <3>1. IsClient(ask) /\ sys.map = ask.nfs /\ ask.nfs # None /\ intent = ask
      BY <2>2, <2>3 DEF Stands
    <3>2. mounts' = <<ask.nfs>> BY <1>5, <3>1 DEF IsClient
    <3>3. IsClient(ask)' BY <1>5, <1>7, <3>1, <3>2 DEF IsClient
    <3>4. Stands(ask)' BY <1>5, <1>7, <2>3, <3>1, <3>3 DEF Stands
    <3> QED BY <1>8, <2>1, <3>4
  <2>4. CASE ask.mode # "client"
    <3>1. IsLocal(ask) /\ (ask.mode = "server" => sys.exports) /\ intent = ask
      BY <2>2, <2>4 DEF Stands
    <3>2. mounts' = <<>> BY <1>5, <3>1 DEF IsLocal
    <3>3. ask.mode = "server" => sys'.bound # "none" /\ sys'.exported
      BY <1>7, <3>1 DEF IsLocal, Bound
    <3>6. ~abroad => sys.map = None /\ sys.dirs # "remote" BY <1>1 DEF Home
    <3>4. IsLocal(ask)' BY <1>5, <1>7, <3>1, <3>2, <3>3, <3>6 DEF IsLocal
    <3>5. Stands(ask)' BY <1>5, <1>7, <2>4, <3>1, <3>4 DEF Stands
    <3> QED BY <1>8, <2>1, <3>5
  <2> QED BY <2>3, <2>4
<1> QED BY <1>2, <1>9, <1>10, <1>11, <1>12 DEF Whole

\* It holds whatever happens.
LEMMA WholeAlways == Spec => []Whole
<1>1. ASSUME Whole, NEW r \in Tabs, Acts(r) PROVE Whole'
  <2>1. IInv /\ Ranges /\ Room /\ Home /\ Alone /\ Types /\ Placed(r) BY <1>1 DEF Whole, IInv
  <2>2. IInv' BY <1>1, <2>1, RequestStep
  <2>3. Types' BY <2>2 DEF IInv
  <2>4. Ranges' BY <1>1, <2>1, <2>3, RangesStep
  <2>5. Room' BY <1>1, <2>1, <2>3, RoomStep
  <2>6. Alone' BY <1>1, <2>1, <2>2, AloneStep
  <2>7. Home' BY <1>1, <2>1, HomeStep
  <2> QED BY <2>2, <2>4, <2>5, <2>6, <2>7 DEF Whole
<1>2. ASSUME Whole, UNCHANGED vars PROVE Whole'
  <2>1. /\ intent' = intent /\ req' = req /\ conf' = conf /\ fstab' = fstab
        /\ staged' = staged /\ mounts' = mounts /\ sys' = sys /\ service' = service
        /\ last' = last /\ overlapped' = overlapped /\ crossed' = crossed
        /\ torn' = torn /\ abroad' = abroad
        /\ asked' = asked /\ faults' = faults /\ reboots' = reboots
    BY <1>2 DEF vars
  <2>2. \A r \in Tabs : /\ Active(r)' <=> Active(r)
                        /\ Ask(r)' = Ask(r) /\ Step(r)' = Step(r)
                        /\ Remote(r)' <=> Remote(r)
    BY <2>1 DEF Active, Ask, Step, Remote
  <2>3. IInv'
    <3>1. IInv BY <1>2 DEF Whole
    <3> QED BY <2>1, <2>2, <3>1
        DEF IInv, Types, FilesTyped, Placed, Named, ConfWhole, FstabWhole, StoreBare, Editing,
            Copied, FileOf
  <2>4. Ranges' BY <1>2, <2>1, <2>2 DEF Whole, Ranges
  <2>5. Room'
    <3>1. Ahead' = Ahead BY <2>1, <2>2 DEF Ahead
    <3> QED BY <1>2, <2>1, <3>1 DEF Whole, Room
  <2>6. Alone'
    <3>1. \A r \in Tabs : Copies(r)' <=> Copies(r)
      BY <2>1, <2>2 DEF Copies, WithConf, WithMySQL, WithStore, WithFstab
    <3>2. \A r \in Tabs : Progress(r)' <=> Progress(r)
      BY <2>1, <2>2, <3>1
      DEF Progress, ClientBy, LocalBy, Due, DueConf, DueFstab, Copy
    <3>3. Quiet' <=> Quiet BY <2>2 DEF Quiet
    <3>4. Stands(last.ask)' <=> Stands(last.ask) BY <2>1 DEF Stands, IsClient, IsLocal
    <3> QED BY <1>2, <2>1, <2>2, <3>2, <3>3, <3>4 DEF Whole, Alone
  <2>7. Home' BY <1>2, <2>1, <2>2 DEF Whole, Home
  <2> QED BY <2>3, <2>4, <2>5, <2>6, <2>7 DEF Whole
<1>3. Whole /\ [Next]_vars => Whole' BY <1>1, <1>2, WholeReboot DEF Next, Acts
<1> QED BY WholeInitially, <1>3, PTL DEF Spec
-----------------------------------------------------------------------------
\* Every variable stays in its range, no request runs past its last step, and
\* however many fail or are cut short, no more is mounted than was asked for.
THEOREM TypeCorrect == Spec => []TypeOK
<1>1. ASSUME Whole PROVE TypeOK
  <2>1. Types /\ Ranges /\ Room /\ \A r \in Tabs : Placed(r) BY <1>1 DEF Whole, IInv
  <2>2. ASSUME NEW r \in Tabs
        PROVE  /\ Ask(r) \in Requests \union {Standalone}
               /\ req[r].at \in 0..Len(Steps(Ask(r).mode))
               /\ req[r].phase \in {"read", "empty", "fill", "install", "copy"}
               /\ req[r].pass \in Hosts \union {Local, None}
               /\ req[r].conf \in ConfType /\ req[r].fstab \in FstabType
    <3>1. req[r] \in Records BY <2>1 DEF Types
    <3>2. req[r].at \in Nat /\ Ask(r).mode \in Modes BY <3>1 DEF Records, Asks, Ask
    <3>3. Len(Steps(Ask(r).mode)) \in Nat BY <3>2, Several
    <3>4. req[r].at <= Len(Steps(Ask(r).mode)) BY <2>1 DEF Placed
    <3>5. Ask(r) \in Requests \union {Standalone} BY <2>1 DEF Ranges, Asked
    <3> QED BY <3>1, <3>2, <3>3, <3>4, <3>5 DEF Records, Phases
  <2>3. Len(mounts) <= MaxAsks + 1 /\ \A i \in 1..Len(mounts) : mounts[i] \in Hosts
    <3>1. mounts \in Seq(Hosts) /\ asked \in Nat /\ asked <= MaxAsks
      BY <2>1, ModeAssumption DEF Types, Ranges
    <3>2. Len(mounts) \in Nat /\ \A i \in 1..Len(mounts) : mounts[i] \in Hosts BY <3>1
    <3>3. Cardinality(Ahead) \in Nat /\ Len(mounts) + Cardinality(Ahead) <= asked + 1
      BY <2>1, FS_CardinalityType DEF Room
    <3> QED BY <3>1, <3>2, <3>3, ModeAssumption
  <2>4. /\ sys \in [bind : BOOLEAN, listens : BOOLEAN, exports : BOOLEAN, exported : BOOLEAN,
                    bound : {"none", "own", "remote"}, map : Hosts \union {None},
                    autofs : Hosts \union {None}, dirs : {"empty", "full", "remote"}]
        /\ intent \in Requests \union {Standalone}
        /\ last \in [ask : Requests \union {Standalone}, ok : BOOLEAN]
    BY <2>1 DEF Ranges, SysType, Asked
  <2>5. conf \in ConfType /\ fstab \in FstabType
        /\ staged \in [conf : ConfType, fstab : FstabType]
    BY <2>1 DEF Types, FilesTyped
  <2>6. /\ service \in ConfType
        /\ overlapped \in BOOLEAN /\ crossed \subseteq {"conf", "fstab", "mount"}
        /\ torn \subseteq {"conf", "fstab"} /\ abroad \in BOOLEAN
        /\ asked \in 0..MaxAsks /\ faults \in 0..MaxFaults /\ reboots \in 0..MaxReboots
    BY <2>1 DEF Ranges
  <2> QED BY <2>2, <2>3, <2>4, <2>5, <2>6 DEF TypeOK
<1> QED BY <1>1, WholeAlways, PTL

\* A request that says it was applied was: whatever failed halfway, was refused
\* or was cut short by a reboot before, rd.conf, fstab, the mount, mariadb, the
\* exports and, of a client, autofs and the directories are then what it asked
\* for, rivendell runs with them, and a reboot keeps it so; until two requests
\* are under way at a time or rd.conf is lost in its install.  The password, the
\* directories and autofs of a local station are its own only if no client was
\* ever asked for.
THEOREM AppliedIsSo == Spec => []Agrees
<1>1. Whole => Agrees
  <2> SUFFICES ASSUME Whole, Quiet, last.ok, ~overlapped, "conf" \notin torn
               PROVE  /\ intent = last.ask /\ service = conf
                      /\ IF last.ask.mode = "client" THEN IsClient(last.ask)
                         ELSE IsLocal(last.ask)
    BY DEF Agrees
  <2>1. Stands(last.ask) BY DEF Whole, Alone
  <2> QED BY <2>1 DEF Stands
<1> QED BY <1>1, WholeAlways, PTL
=============================================================================
