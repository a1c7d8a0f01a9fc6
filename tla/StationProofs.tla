--------------------------- MODULE StationProofs ---------------------------
(***************************************************************************)
(* Theorems about Station: the tables of rdservice and rdpadengined know   *)
(* the processes that run, and where nothing is under way the dropboxes    *)
(* and the scripts run what the database says.                             *)
(***************************************************************************)
EXTENDS Station, TLAPS

\* What the proofs need to know of the variables.
Answer  == [act : {"RU", "add", "modify", "delete"}, id : Ids]
Dialogs == [act : {"add", "modify", "delete", "boxes"}, id : Ids]
Types ==
  /\ started \in Nat
  /\ table \in [Routines -> BOOLEAN] /\ kids \in [Routines -> Nat]
  /\ doubled \in BOOLEAN /\ early \in BOOLEAN
  /\ engine \in {"down", "waiting", "joined", "up"}
  /\ notes \in Seq(Answer)
  /\ dialog = None \/ dialog \in Dialogs

\* One process of a routine at a time, and svc_processes knows whether it is
\* there, until one is started while another runs.
KidsKnown ==
  ~doubled => \A m \in Routines : kids[m] <= 1 /\ (table[m] <=> kids[m] = 1)

\* ripcd's answer comes once, and before the scripts are started.
OneAnswer ==
  /\ engine \in {"down", "waiting"} => notes = <<>>
  /\ engine = "up" => \A i \in 1..Len(notes) : notes[i].act # "RU"
  /\ \A i, j \in 1..Len(notes) : notes[i].act = "RU" /\ notes[j].act = "RU" => i = j

Idle == \A id \in Ids : proc[id].state = "none"

\* rdpadengined was started by this rdservice, which starts it once.
Begun == \E i \in 1..Len(Order) : i <= started /\ Order[i] = "rdpadengined"

\* An engine that has not started its scripts has none, be it that it never
\* ran or that it waits for ripcd; none takes the place of another.
ScriptsKnown ==
  /\ "rdpadengined" \in alive => Begun
  /\ ~early =>
       /\ engine \in {"waiting", "joined"} => Idle
       /\ engine = "down" /\ ("rdpadengined" \in alive \/ ~Begun) => Idle
       /\ \A id \in Ids : strays[id] = 0

IInv == Types /\ KidsKnown /\ OneAnswer /\ ScriptsKnown

\* Nothing is started at first, and no notification is under way.
LEMMA InitialState == Init => IInv
<1> SUFFICES ASSUME Init PROVE IInv
  OBVIOUS
<1> USE DEF Init, ServiceInit, PadInit
<1>1. Types
  <2>1. started \in Nat /\ notes \in Seq(Answer)
    OBVIOUS
  <2>2. table \in [Routines -> BOOLEAN] /\ kids \in [Routines -> Nat]
    OBVIOUS
  <2>3. doubled \in BOOLEAN /\ early \in BOOLEAN
    OBVIOUS
  <2>4. QED
    BY <2>1, <2>2, <2>3 DEF Types
<1>2. KidsKnown /\ OneAnswer
  BY DEF KidsKnown, OneAnswer
<1>3. ScriptsKnown
  BY DEF ScriptsKnown, Idle, NoProc
<1>4. QED
  BY <1>1, <1>2, <1>3 DEF IInv

-----------------------------------------------------------------------------
(* svc_processes.                                                          *)

\* svc_processes stays true of the maintenance processes, whatever is started or ends.
LEMMA KidsStep ==
  ASSUME IInv, [Next]_vars
  PROVE  /\ started' \in Nat /\ doubled' \in BOOLEAN
         /\ table' \in [Routines -> BOOLEAN] /\ kids' \in [Routines -> Nat]
         /\ KidsKnown'
<1> USE DEF IInv, Types, KidsKnown
<1> DEFINE Same == UNCHANGED <<table, kids, doubled>> /\ started' \in Nat
<1>a. ASSUME ServiceEnds
      PROVE  /\ started' \in Nat /\ doubled' \in BOOLEAN
             /\ table' \in [Routines -> BOOLEAN] /\ kids' \in [Routines -> Nat]
             /\ KidsKnown'
  <2>1. started' = 0 /\ doubled' = FALSE
    BY <1>a DEF ServiceEnds
  <2>2. /\ table' = [m \in Routines |-> FALSE] /\ kids' = [m \in Routines |-> 0]
    BY <1>a DEF ServiceEnds
  <2>3. table' \in [Routines -> BOOLEAN] /\ kids' \in [Routines -> Nat]
    BY <2>2
  <2>4. KidsKnown'
    BY <2>2
  <2>5. doubled' \in BOOLEAN /\ started' \in Nat
    BY <2>1
  <2>6. QED
    BY <2>3, <2>4, <2>5
<1>1. CASE Starting
  <2>1. Same
    BY <1>1 DEF Starting, SystemdStarts, StartDaemon, WritePid, StartDropboxes
  <2>2. QED
    BY <2>1
<1>2. CASE ServiceStops \/ ServiceCrashes
  BY <1>2, <1>a DEF ServiceStops, ServiceCrashes, UnitEnds
<1>3. CASE Maintenance
  <2>1. PICK m \in Routines : MaintDue(m) \/ MaintEnds(m) \/ MaintFails(m)
    BY <1>3 DEF Maintenance
  <2>2. CASE MaintDue(m)
    <3>1. /\ table' = [table EXCEPT ![m] = TRUE]
          /\ kids' = [kids EXCEPT ![m] = @ + 1]
          /\ doubled' = (doubled \/ kids[m] > 0) /\ started' = started
      BY <2>2 DEF MaintDue
    <3>2. QED
      BY <3>1
  <2>3. CASE MaintEnds(m)
    <3>1. /\ table' = [table EXCEPT ![m] = FALSE]
          /\ kids' = [kids EXCEPT ![m] = @ - 1] /\ kids[m] > 0
          /\ doubled' = doubled /\ started' = started
      BY <2>3 DEF MaintEnds
    <3>2. QED
      BY <3>1
  <2>4. CASE MaintFails(m)
    <3>1. /\ table' = [table EXCEPT ![m] = FALSE] /\ kids' = kids
          /\ doubled' = (doubled \/ kids[m] > 0) /\ started' = started
      BY <2>4 DEF MaintFails
    <3>2. QED
      BY <3>1
  <2>5. QED
    BY <2>1, <2>2, <2>3, <2>4
<1>4. CASE Reload \/ RipcdDies \/ PaddDies \/ EngineDies
  <2>1. Same
    BY <1>4 DEF Reload, ReloadBegins, ReloadFails, ReloadEnds, RipcdDies, PaddDies, EngineDies,
                DaemonEnds
  <2>2. QED
    BY <2>1
<1>5. CASE PadEngineStarts \/ PadListens \/ PadStep \/ PadFault
  <2>1. Same
    BY <1>5 DEF PadEngineStarts, PadListens, PadStep, PadFault, service
  <2>2. QED
    BY <2>1
<1>6. CASE StrayGoes
  <2>1. Same
    BY <1>6 DEF StrayGoes, DaemonEnds, service
  <2>2. QED
    BY <2>1
<1>7. CASE \/ \E id \in Ids : AddPad(id) \/ EditPad(id) \/ DeletePad(id)
           \/ ChangeBoxes \/ CancelAdd \/ Sends
  <2>1. Same
    BY <1>7 DEF AddPad, EditPad, DeletePad, ChangeBoxes, CancelAdd, Sends, Writes, service
  <2>2. QED
    BY <2>1
<1>8. CASE UNCHANGED vars
  BY <1>8 DEF vars
<1>9. QED
  BY <1>1, <1>2, <1>3, <1>4, <1>5, <1>6, <1>7, <1>8 DEF Next
-----------------------------------------------------------------------------
(* The connection of rdpadengined to ripcd.                                *)

\* What was sent and not yet read loses its head, or is longer by one.
LEMMA AnswersKept ==
  ASSUME NEW s \in Seq(Answer), NEW n \in Answer
  PROVE  /\ Append(s, n) \in Seq(Answer) /\ Len(Append(s, n)) = Len(s) + 1
         /\ \A i \in 1..Len(s) : Append(s, n)[i] = s[i]
         /\ Append(s, n)[Len(s) + 1] = n
         /\ s # <<>> => /\ Tail(s) \in Seq(Answer) /\ Len(Tail(s)) = Len(s) - 1
                        /\ Head(s) = s[1] /\ Len(s) > 0
                        /\ \A i \in 1..Len(Tail(s)) : Tail(s)[i] = s[i + 1]
  OBVIOUS

\* No step but these three touches what the engine has to read.
LEMMA OneAnswerStep ==
  ASSUME IInv, [Next]_vars
  PROVE  /\ notes' \in Seq(Answer) /\ engine' \in {"down", "waiting", "joined", "up"}
         /\ dialog' = None \/ dialog' \in Dialogs
         /\ early' \in BOOLEAN
         /\ OneAnswer'
<1> USE DEF IInv, Types
<1> DEFINE Goal == /\ notes' \in Seq(Answer) /\ engine' \in {"down", "waiting", "joined", "up"}
                   /\ early' \in BOOLEAN
                   /\ OneAnswer'
<1>a. ASSUME notes' = <<>>, engine' \in {"down", "waiting", "joined", "up"}, early' \in BOOLEAN
      PROVE  Goal
  BY <1>a DEF OneAnswer
<1>b. ASSUME notes' = notes, engine' = engine, early' = early
      PROVE  Goal
  BY <1>b DEF OneAnswer
<1>c. ASSUME engine \in {"joined", "up"}, notes # <<>>, notes' = Tail(notes), early' \in BOOLEAN,
             engine' = engine \/ (engine' = "up" /\ Head(notes).act = "RU")
      PROVE  Goal
  <2>1. PICK n \in Answer : n = Head(notes)
    BY <1>c
  <2>2. /\ notes' \in Seq(Answer) /\ Len(notes') = Len(notes) - 1 /\ Len(notes) \in Nat
        /\ Head(notes) = notes[1] /\ Len(notes) > 0
        /\ \A i \in 1..Len(notes') : notes'[i] = notes[i + 1]
    BY <1>c, <2>1, AnswersKept
  <2>3. engine' \notin {"down", "waiting"}
    BY <1>c
  <2>4. \A i \in 1..Len(notes') : i + 1 \in 1..Len(notes) /\ i + 1 # 1
    BY <2>2
  <2>5. 1 \in 1..Len(notes)
    BY <2>2
  <2>6. ASSUME NEW i \in 1..Len(notes'), engine' = "up"
        PROVE  notes'[i].act # "RU"
    BY <2>2, <2>4, <2>5, <2>6, <1>c DEF OneAnswer
  <2>7. ASSUME NEW i \in 1..Len(notes'), NEW j \in 1..Len(notes'),
               notes'[i].act = "RU", notes'[j].act = "RU"
        PROVE  i = j
    <3>1. notes[i + 1].act = "RU" /\ notes[j + 1].act = "RU"
      BY <2>2, <2>7
    <3>2. i + 1 \in 1..Len(notes) /\ j + 1 \in 1..Len(notes)
      BY <2>4
    <3>3. i + 1 = j + 1
      BY <3>1, <3>2 DEF OneAnswer
    <3>4. QED
      BY <3>3
  <2>8. OneAnswer'
    BY <2>3, <2>6, <2>7 DEF OneAnswer
  <2>9. QED
    BY <1>c, <2>2, <2>8
<1>d. ASSUME NEW n \in Answer, notes' = Append(notes, n), engine' = engine, early' = early,
             engine \in {"joined", "up"},
             n.act = "RU" => engine = "joined" /\ \A i \in 1..Len(notes) : notes[i].act # "RU"
      PROVE  Goal
  <2>1. /\ notes' \in Seq(Answer) /\ Len(notes') = Len(notes) + 1 /\ Len(notes) \in Nat
        /\ \A i \in 1..Len(notes) : notes'[i] = notes[i]
        /\ notes'[Len(notes) + 1] = n
    BY <1>d, AnswersKept
  <2>2. \A i \in 1..Len(notes') : i \in 1..Len(notes) \/ i = Len(notes) + 1
    BY <2>1
  <2>3. ASSUME NEW i \in 1..Len(notes'), engine' = "up"
        PROVE  notes'[i].act # "RU"
    BY <2>1, <2>2, <2>3, <1>d DEF OneAnswer
  <2>4. ASSUME NEW i \in 1..Len(notes'), NEW j \in 1..Len(notes'),
               notes'[i].act = "RU", notes'[j].act = "RU"
        PROVE  i = j
    BY <2>1, <2>2, <2>4, <1>d DEF OneAnswer
  <2>5. OneAnswer'
    BY <1>d, <2>3, <2>4 DEF OneAnswer
  <2>6. QED
    BY <1>d, <2>1, <2>5
<1>1. CASE Starting \/ PadListens \/ Maintenance \/ Reload \/ RipcdDies
  <2>1. UNCHANGED <<notes, engine, early, dialog>>
    BY <1>1 DEF Starting, PadListens, Maintenance, Reload, RipcdDies, pads, admin
  <2>2. QED
    BY <2>1, <1>b
<1>2. CASE PadEngineStarts
  <2>1. notes' = <<>> /\ engine' = "waiting" /\ UNCHANGED <<early, dialog>>
    BY <1>2 DEF PadEngineStarts, EngineStarts, OneAnswer, admin
  <2>2. QED
    BY <2>1, <1>a
<1>3. CASE ServiceStops \/ ServiceCrashes
  <2>1. notes' = <<>> /\ engine' = "down" /\ early' = FALSE /\ dialog' = dialog
    BY <1>3 DEF ServiceStops, ServiceCrashes, UnitEnds, EngineAndScriptsEnd, admin
  <2>2. QED
    BY <2>1, <1>a
<1>4. CASE PaddDies \/ PadFault
  <2>1. UNCHANGED <<notes, engine, early, dialog>>
    BY <1>4 DEF PaddDies, PadFault, ScriptFails, admin
  <2>2. QED
    BY <2>1, <1>b
<1>5. CASE PadStep
  <2>0. dialog' = dialog
    BY <1>5 DEF PadStep, admin
  <2>1. CASE Joins
    <3>1. notes' = <<>> /\ engine' = "joined" /\ early' = early
      BY <2>1 DEF Joins, OneAnswer
    <3>2. QED
      BY <3>1, <2>0, <1>a
  <2>2. CASE Answers
    <3>1. PICK n \in Answer : /\ n.act = "RU" /\ notes' = Append(notes, n)
      <4>1. (CHOOSE id \in Ids : TRUE) \in Ids
        BY StationAssumption
      <4>2. [act |-> "RU", id |-> CHOOSE id \in Ids : TRUE] \in Answer
        BY <4>1 DEF Answer
      <4>3. QED
        BY <2>2, <4>2 DEF Answers
    <3>2. engine = "joined" /\ UNCHANGED <<engine, early>>
          /\ \A i \in 1..Len(notes) : notes[i].act # "RU"
      BY <2>2 DEF Answers
    <3>3. QED
      BY <3>1, <3>2, <2>0, <1>d
  <2>3. CASE Connected \/ Added \/ Modified \/ Deleted
    <3>1. /\ engine \in {"joined", "up"} /\ notes # <<>> /\ notes' = Tail(notes)
          /\ early' \in BOOLEAN
          /\ engine' = engine \/ (engine' = "up" /\ Head(notes).act = "RU")
      BY <2>3 DEF Connected, Added, Modified, Deleted, Takes
    <3>2. QED
      BY <3>1, <2>0, <1>c
  <2>4. CASE \E id \in Ids : Finished(id) \/ ScriptBoots(id, listens)
    <3>1. UNCHANGED <<notes, engine, early>>
      BY <2>4 DEF Finished, Handles, ScriptBoots
    <3>2. QED
      BY <3>1, <2>0, <1>b
  <2>5. QED
    BY <1>5, <2>1, <2>2, <2>3, <2>4 DEF PadStep
<1>6. CASE EngineDies
  <2>1. notes' = <<>> /\ engine' = "down" /\ UNCHANGED <<early, dialog>>
    BY <1>6 DEF EngineDies, DeletesNothing, EngineCrashes, admin
  <2>2. QED
    BY <2>1, <1>a
<1>7. CASE StrayGoes
  <2>0. dialog' = dialog
    BY <1>7 DEF StrayGoes, admin
  <2>1. \/ notes' = <<>> /\ engine' = "down" /\ early' = early
        \/ UNCHANGED <<notes, engine, early>>
    BY <1>7 DEF StrayGoes, StrayEnds, Handles
  <2>2. QED
    BY <2>0, <2>1, <1>a, <1>b
<1>8. CASE \E id \in Ids : AddPad(id) \/ EditPad(id) \/ DeletePad(id)
  <2>1. UNCHANGED <<notes, engine, early>>
    BY <1>8 DEF AddPad, EditPad, DeletePad, SetRow
  <2>2. dialog' \in Dialogs
    BY <1>8 DEF AddPad, EditPad, DeletePad, Writes, Dialogs
  <2>3. QED
    BY <2>1, <2>2, <1>b
<1>9. CASE ChangeBoxes
  <2>1. UNCHANGED <<notes, engine, early>>
    BY <1>9 DEF ChangeBoxes, pads
  <2>2. dialog' \in Dialogs
    <3>1. (CHOOSE id \in Ids : TRUE) \in Ids
      BY StationAssumption
    <3>2. QED
      BY <1>9, <3>1 DEF ChangeBoxes, Writes, Dialogs
  <2>3. QED
    BY <2>1, <2>2, <1>b
<1>10. CASE CancelAdd
  <2>1. UNCHANGED <<notes, engine, early>> /\ dialog' = None
    BY <1>10 DEF CancelAdd, SetRow
  <2>2. QED
    BY <2>1, <1>b
<1>11. CASE Sends
  <2>1. dialog \in Dialogs /\ dialog' = None /\ UNCHANGED <<engine, early>>
    BY <1>11 DEF Sends
  <2>2. CASE notes' = notes
    BY <2>1, <2>2, <1>b
  <2>3. CASE dialog.act # "boxes" /\ Notify(dialog.act, dialog.id) /\ notes' # notes
    <3>1. PICK n \in Answer : n.act # "RU" /\ n = [act |-> dialog.act, id |-> dialog.id]
      BY <2>1, <2>3 DEF Answer, Dialogs
    <3>2. engine \in {"joined", "up"} /\ notes' = Append(notes, n)
      BY <2>3, <3>1 DEF Notify
    <3>3. QED
      BY <2>1, <3>1, <3>2, <1>d
  <2>4. QED
    BY <1>11, <2>2, <2>3 DEF Sends, Notified
<1>12. CASE UNCHANGED vars
  <2>1. UNCHANGED <<notes, engine, early, dialog>>
    BY <1>12 DEF vars
  <2>2. QED
    BY <2>1, <1>b
<1>13. QED
  BY <1>1, <1>2, <1>3, <1>4, <1>5, <1>6, <1>7, <1>8, <1>9, <1>10, <1>11, <1>12 DEF Next
-----------------------------------------------------------------------------
(* pad_instances.                                                          *)

\* A daemon that ends is gone; none begins but in StartDaemon.
LEMMA StartedOnce ==
  ASSUME NEW i \in 1..Len(Order), NEW j \in 1..Len(Order), Order[i] = Order[j]
  PROVE  i = j
<1>1. IsInjective(Order)
  BY StationAssumption
<1>2. QED
  BY <1>1 DEF IsInjective

\* No script loses its place, whatever the engine, its scripts and ripcd do.
LEMMA ScriptsStep ==
  ASSUME IInv, [Next]_vars
  PROVE  ScriptsKnown'
<1> USE DEF IInv, Types
\* The engine neither ends nor begins, and the scripts it has are as they were.
<1>a. ASSUME UNCHANGED <<started, alive, engine>>, early => early',
             ~early' => (Idle => Idle') /\ \A id \in Ids : strays'[id] = strays[id]
      PROVE  ScriptsKnown'
  BY <1>a DEF ScriptsKnown, Begun
\* The engine's own steps.
<1>b. ASSUME UNCHANGED <<started, alive>>, engine' \notin {"down", "waiting", "joined"},
             ~early' => \A id \in Ids : strays'[id] = 0
      PROVE  ScriptsKnown'
  BY <1>b DEF ScriptsKnown, Begun
<1>c. ASSUME UNCHANGED <<proc, strays, early, engine, started>>,
             alive' \subseteq alive, "rdpadengined" \in alive => "rdpadengined" \in alive'
      PROVE  ScriptsKnown'
  BY <1>c DEF ScriptsKnown, Begun, Idle
<1>1. CASE Starting
  <2>0. UNCHANGED <<proc, strays, early, engine>>
    BY <1>1 DEF Starting, pads
  <2>1. CASE SystemdStarts \/ WritePid \/ StartDropboxes(drops)
    <3>1. alive' = alive
      BY <2>1 DEF SystemdStarts, WritePid, StartDropboxes
    <3>2. CASE started' = started
      BY <2>0, <3>1, <3>2, <1>c
    <3>3. CASE StartDropboxes(drops)
      <4>1. started = Len(Order) /\ started' = Len(Order) + 1
        BY <3>3 DEF StartDropboxes
      <4>2. Begun' <=> Begun
        BY <4>1 DEF Begun
      <4>3. QED
        BY <2>0, <3>1, <4>2 DEF ScriptsKnown, Idle
    <3>4. QED
      BY <2>1, <3>2, <3>3 DEF SystemdStarts, WritePid
  <2>2. CASE StartDaemon
    <3>1. /\ started < Len(Order) /\ started' = started + 1 /\ Len(Order) \in Nat
          /\ alive' = alive \union {Order[started']}
      BY <2>2 DEF StartDaemon
    <3>2. started' \in 1..Len(Order)
      BY <3>1
    <3>3. Begun => Begun'
      BY <3>1 DEF Begun
    <3>4. CASE Order[started'] = "rdpadengined"
      <4>1. ~Begun
        <5>1. ASSUME NEW i \in 1..Len(Order), i <= started, Order[i] = "rdpadengined"
              PROVE  FALSE
          <6>1. i = started'
            BY <3>2, <3>4, <5>1, StartedOnce
          <6>2. QED
            BY <3>1, <5>1, <6>1
        <5>2. QED
          BY <5>1 DEF Begun
      <4>2. Begun'
        BY <3>2, <3>4, <3>1 DEF Begun
      <4>3. QED
        BY <2>0, <4>1, <4>2 DEF ScriptsKnown, Idle
    <3>5. CASE Order[started'] # "rdpadengined"
      <4>1. "rdpadengined" \in alive' <=> "rdpadengined" \in alive
        BY <3>1, <3>5
      <4>2. QED
        BY <2>0, <3>3, <4>1 DEF ScriptsKnown, Idle
    <3>6. QED
      BY <3>4, <3>5
  <2>3. QED
    BY <1>1, <2>1, <2>2 DEF Starting
<1>2. CASE PadEngineStarts
  <2>1. /\ "rdpadengined" \in alive /\ engine = "down" /\ engine' = "waiting"
        /\ UNCHANGED <<proc, strays, early, started, alive>>
    BY <1>2 DEF PadEngineStarts, EngineStarts, service
  <2>2. QED
    BY <2>1 DEF ScriptsKnown, Idle, Begun
<1>3. CASE ServiceStops \/ ServiceCrashes
  <2>1. /\ alive' = {} /\ proc' = [id \in Ids |-> NoProc]
        /\ strays' = [id \in Ids |-> 0]
    BY <1>3 DEF ServiceStops, ServiceCrashes, UnitEnds, ServiceEnds, EngineAndScriptsEnd
  <2>2. Idle' /\ \A id \in Ids : strays'[id] = 0
    BY <2>1 DEF Idle, NoProc
  <2>3. QED
    BY <2>1, <2>2 DEF ScriptsKnown
<1>4. CASE PadListens \/ Maintenance \/ Reload
  <2>1. UNCHANGED <<proc, strays, early, engine, started, alive>>
    BY <1>4 DEF PadListens, Maintenance, MaintDue, MaintFails, MaintEnds, Reload, ReloadBegins,
                ReloadFails, ReloadEnds, pads, service
  <2>2. QED
    BY <2>1, <1>c
<1>5. CASE RipcdDies
  <2>1. UNCHANGED <<proc, strays, early, engine, started>> /\ alive' = alive \ {"ripcd"}
    BY <1>5 DEF RipcdDies, DaemonEnds, pads
  <2>2. QED
    BY <2>1, <1>c
<1>6. CASE PaddDies
  <2>1. /\ UNCHANGED <<strays, early, engine, started>> /\ alive' = alive \ {"rdpadd"}
        /\ ScriptsLosePad
    BY <1>6 DEF PaddDies, DaemonEnds
  <2>2. Idle => Idle'
    BY <2>1 DEF ScriptsLosePad, Idle
  <2>3. QED
    BY <2>1, <2>2 DEF ScriptsKnown, Begun
<1>7. CASE PadStep
  <2>0. UNCHANGED <<started, alive>>
    BY <1>7 DEF PadStep, service
  <2>1. CASE Joins
    BY <2>0, <2>1 DEF Joins, ScriptsKnown, Idle, Begun
  <2>2. CASE Answers
    BY <2>0, <2>2, <1>c DEF Answers
  <2>3. CASE Connected
    <3>1. engine = "joined" /\ early' = early /\ engine' = "up"
      <4>1. /\ engine \in {"joined", "up"} /\ notes # <<>> /\ Head(notes).act = "RU"
            /\ engine' = "up" /\ early' = early
        BY <2>3 DEF Connected, Takes
      <4>2. 1 \in 1..Len(notes) /\ Head(notes) = notes[1]
        BY <4>1
      <4>3. engine # "up"
        BY <4>1, <4>2 DEF OneAnswer
      <4>4. QED
        BY <4>1, <4>3
    <3>2. ~early => Idle
      BY <3>1 DEF ScriptsKnown
    <3>3. strays' = [id \in Ids |-> IF id \in Startable(Ids) /\ proc[id].state # "none"
                                    THEN strays[id] + 1 ELSE strays[id]]
      BY <2>3 DEF Connected, Overlays
    <3>4. ~early' => \A id \in Ids : strays'[id] = 0
      BY <3>1, <3>2, <3>3 DEF ScriptsKnown, Idle
    <3>5. QED
      BY <2>0, <3>1, <3>4, <1>b
  <2>4. CASE Added \/ Modified \/ Deleted
    <3>1. /\ engine \in {"joined", "up"} /\ engine' = engine
          /\ early' = (early \/ engine = "joined")
      BY <2>4 DEF Added, Modified, Deleted, Takes
    <3>2. \/ UNCHANGED strays
          \/ proc[Head(notes).id].state = "none" /\ Starts({Head(notes).id})
      BY <2>4 DEF Added, Modified, Deleted
    <3>3. \A id \in Ids : strays[id] = 0 => strays'[id] = 0
      BY <3>2 DEF Starts, Overlays, Startable
    <3>4. QED
      BY <2>0, <3>1, <3>3 DEF ScriptsKnown, Begun
  <2>5. CASE \E id \in Ids : Finished(id)
    <3>1. PICK id \in Ids : Finished(id)
      BY <2>5
    <3>2. /\ proc[id].state # "none" /\ engine \in {"joined", "up"}
          /\ UNCHANGED <<engine, early, strays>>
      BY <3>1 DEF Finished, Handles, Ends, Failed
    <3>3. ~Idle
      BY <3>2 DEF Idle
    <3>4. QED
      BY <2>0, <3>2, <3>3, <1>a
  <2>6. CASE \E id \in Ids : ScriptBoots(id, listens)
    <3>1. PICK id \in Ids : ScriptBoots(id, listens)
      BY <2>6
    <3>2. proc[id].state # "none" /\ UNCHANGED <<engine, early, strays>>
      BY <3>1 DEF ScriptBoots
    <3>3. ~Idle
      BY <3>2 DEF Idle
    <3>4. QED
      BY <2>0, <3>2, <3>3, <1>a
  <2>7. QED
    BY <1>7, <2>1, <2>2, <2>3, <2>4, <2>5, <2>6 DEF PadStep
<1>8. CASE PadFault
  <2>1. PICK id \in Ids : ScriptFails(id)
    BY <1>8 DEF PadFault
  <2>2. proc[id].state # "none" /\ UNCHANGED <<engine, early, strays, started, alive>>
    BY <1>8, <2>1 DEF PadFault, ScriptFails, service
  <2>3. ~Idle
    BY <2>2 DEF Idle
  <2>4. QED
    BY <2>2, <2>3, <1>a
<1>9. CASE EngineDies
  <2>1. /\ "rdpadengined" \in alive /\ alive' = alive \ {"rdpadengined"}
        /\ engine' = "down" /\ UNCHANGED <<proc, strays, early, started>>
    BY <1>9 DEF EngineDies, DeletesNothing, EngineCrashes, DaemonEnds
  <2>2. QED
    BY <2>1 DEF ScriptsKnown, Begun
<1>10. CASE StrayGoes
  <2>1. PICK id \in Ids : StrayEnds(id)
    BY <1>10 DEF StrayGoes
  <2>2. strays[id] > 0
    BY <2>1 DEF StrayEnds
  <2>3. early
    BY <2>2 DEF ScriptsKnown
  <2>4. early' = early
    BY <2>1 DEF StrayEnds, Handles
  <2>5. "rdpadengined" \in alive' => "rdpadengined" \in alive
    BY <1>10 DEF StrayGoes, DaemonEnds, service
  <2>6. started' = started
    BY <1>10 DEF StrayGoes, DaemonEnds, service
  <2>7. QED
    BY <2>3, <2>4, <2>5, <2>6 DEF ScriptsKnown, Begun
<1>11. CASE \/ \E id \in Ids : AddPad(id) \/ EditPad(id) \/ DeletePad(id)
            \/ ChangeBoxes \/ CancelAdd \/ Sends
  <2>1. UNCHANGED <<proc, strays, early, engine, started, alive>>
    BY <1>11 DEF AddPad, EditPad, DeletePad, ChangeBoxes, CancelAdd, Sends, Writes,
                 SetRow, pads, service
  <2>2. QED
    BY <2>1, <1>c
<1>12. CASE UNCHANGED vars
  <2>1. UNCHANGED <<proc, strays, early, engine, started, alive>>
    BY <1>12 DEF vars
  <2>2. QED
    BY <2>1, <1>c
<1>13. QED
  BY <1>1, <1>2, <1>3, <1>4, <1>5, <1>6, <1>7, <1>8, <1>9, <1>10, <1>11, <1>12 DEF Next
-----------------------------------------------------------------------------
\* Every step keeps the invariant.
LEMMA EveryStep == IInv /\ [Next]_vars => IInv'
<1> SUFFICES ASSUME IInv, [Next]_vars PROVE IInv'
  OBVIOUS
<1>1. Types' /\ KidsKnown' /\ OneAnswer'
  BY KidsStep, OneAnswerStep DEF Types
<1>2. QED
  BY <1>1, ScriptsStep DEF IInv

\* And the invariant says that the tables are true.
LEMMA Means == IInv => TablesTrue
<1> SUFFICES ASSUME IInv PROVE TablesTrue
  OBVIOUS
<1>1. ASSUME ~doubled, NEW m \in Routines
      PROVE  table[m] = (kids[m] > 0)
  <2>1. kids[m] \in Nat /\ kids[m] <= 1 /\ table[m] \in BOOLEAN /\ (table[m] <=> kids[m] = 1)
    BY <1>1 DEF IInv, Types, KidsKnown
  <2>2. kids[m] > 0 <=> kids[m] = 1
    BY <2>1
  <2>3. QED
    BY <2>1, <2>2
<1>2. QED
  BY <1>1 DEF TablesTrue, IInv, ScriptsKnown

\* svc_processes knows the maintenance processes, and pad_instances the scripts
\* there are, whatever the stations, daemons, dropboxes and instances, and
\* whatever ends when: until a routine is started twice, or rdpadengined deals
\* with a notification before it has started its scripts.
THEOREM TablesAreTrue == Spec => []TablesTrue
<1>1. QED
  BY InitialState, EveryStep, Means, PTL DEF Spec
-----------------------------------------------------------------------------
(* DROPBOXES and the dropboxes.                                            *)

Process == [state : {"none", "booting", "running"} \union Ends,
            ver : 0..(MaxChanges + 1), stay : BOOLEAN]

\* The ranges of what Types leaves open.
Ranges ==
  /\ svc \in {"down", "starting", "up", "reloading"}
  /\ started <= Len(Order) + 1 /\ alive \subseteq Daemons
  /\ \A m \in Routines : kids[m] <= MaxKids
  /\ usr1 \in BOOLEAN /\ pid \in BOOLEAN /\ listens \in BOOLEAN
  /\ lostBoxes \in BOOLEAN /\ lostPads \in BOOLEAN
  /\ changes \in 0..MaxChanges /\ faults \in 0..MaxFaults
  /\ drops \in 1..(changes + 1) /\ boxes \in 0..drops

Writing(act) == dialog # None /\ dialog.act = act

\* Dropboxes that were started and run something else than DROPBOXES says are
\* owed a reload: rdadmin has not notified yet, or the signal has come and the
\* reload has not begun.
BoxesKnown ==
  /\ svc = "down" => started = 0
  /\ svc \in {"up", "reloading"} => started = Len(Order) + 1
  /\ pid <=> svc \in {"up", "reloading"}
  /\ started > Len(Order) /\ ~lostBoxes =>
       boxes = drops \/ Writing("boxes") \/ (usr1 /\ svc # "reloading")

\* rdservice's own steps, and its end.
LEMMA BoxesStep ==
  ASSUME IInv, Ranges, BoxesKnown, [Next]_vars
  PROVE  Ranges' /\ BoxesKnown'
<1> DEFINE Goal == Ranges' /\ BoxesKnown'
<1>0. Len(Order) \in Nat /\ started \in Nat /\ MaxChanges \in Nat /\ MaxFaults \in Nat
  <2>1. Len(Order) \in Nat
    BY StationAssumption
  <2>2. QED
    BY <2>1, StationAssumption DEF IInv, Types
<1> USE DEF Ranges, BoxesKnown, Writing

<1>1. CASE Starting
  <2>0. UNCHANGED <<drops, dialog, changes, listens, faults, lostBoxes, lostPads, kids, usr1>>
    BY <1>1 DEF Starting, admin, lost, SystemdStarts, StartDaemon, WritePid, StartDropboxes
  <2>1. CASE SystemdStarts
    BY <1>0, <2>0, <2>1 DEF SystemdStarts
  <2>2. CASE StartDaemon
    <3>1. Order[started + 1] \in Daemons
      <4>1. started + 1 \in 1..Len(Order)
        BY <1>0, <2>2 DEF StartDaemon
      <4>2. QED
        BY <4>1, StationAssumption DEF Daemons
    <3>2. QED
      BY <1>0, <2>0, <2>2, <3>1 DEF StartDaemon
  <2>3. CASE WritePid
    BY <1>0, <2>0, <2>3 DEF WritePid
  <2>4. CASE StartDropboxes(drops)
    BY <1>0, <2>0, <2>4 DEF StartDropboxes
  <2>5. QED
    BY <1>1, <2>1, <2>2, <2>3, <2>4 DEF Starting
<1>2. CASE PadEngineStarts \/ PadListens \/ PadStep
  <2>1. UNCHANGED <<svc, started, alive, kids, boxes, usr1, pid, drops, dialog, changes,
                    lostBoxes, lostPads, faults>> /\ listens' \in BOOLEAN
    BY <1>2 DEF PadEngineStarts, PadListens, PadStep, service, admin, lost
  <2>2. QED
    BY <1>0, <2>1
<1>3. CASE ServiceStops \/ ServiceCrashes
  <2>1. ServiceEnds /\ UNCHANGED <<drops, dialog, changes>> /\ listens' = FALSE
        /\ lostBoxes' = FALSE /\ lostPads' = FALSE
    BY <1>3 DEF ServiceStops, ServiceCrashes, UnitEnds, admin
  <2>2. faults' \in 0..MaxFaults
    BY <1>0, <1>3 DEF ServiceStops, ServiceCrashes, Fault
  <2>3. \A m \in Routines : kids'[m] <= MaxKids
    BY <2>1, StationAssumption DEF ServiceEnds
  <2>4. QED
    <3>1. svc' = "down" /\ started' = 0 /\ alive' = {} /\ boxes' = 0 /\ usr1' = FALSE /\ pid' = FALSE
      BY <2>1 DEF ServiceEnds
    <3>2. BoxesKnown'
      BY <1>0, <3>1
    <3>3. Ranges'
      <4>1. usr1' \in BOOLEAN /\ pid' \in BOOLEAN /\ listens' \in BOOLEAN
            /\ lostBoxes' \in BOOLEAN /\ lostPads' \in BOOLEAN
        BY <2>1, <3>1
      <4>2. drops' \in 1..(changes' + 1) /\ boxes' \in 0..drops' /\ changes' \in 0..MaxChanges
        BY <1>0, <2>1, <3>1
      <4>3. svc' \in {"down", "starting", "up", "reloading"} /\ started' <= Len(Order) + 1
            /\ alive' \subseteq Daemons
        BY <1>0, <3>1
      <4>4. QED
        BY <2>2, <2>3, <4>1, <4>2, <4>3
    <3>4. QED
      BY <3>2, <3>3
<1>4. CASE Maintenance
  <2>0. /\ UNCHANGED <<drops, dialog, changes, listens, lostBoxes, lostPads,
                       svc, started, alive, boxes, usr1, pid>>
        /\ faults' \in 0..MaxFaults
    BY <1>0, <1>4, StationAssumption DEF Maintenance, MaintDue, MaintFails, MaintEnds, Fault, admin, lost
  <2>1. \A m \in Routines : kids'[m] <= MaxKids
    <3>1. PICK n \in Routines : MaintDue(n) \/ MaintEnds(n) \/ MaintFails(n)
      BY <1>4 DEF Maintenance
    <3>2. kids \in [Routines -> Nat] /\ MaxKids \in Nat
      BY StationAssumption DEF IInv, Types
    <3>3. \/ kids[n] < MaxKids /\ kids' = [kids EXCEPT ![n] = @ + 1]
          \/ kids' = [kids EXCEPT ![n] = @ - 1]
          \/ kids' = kids
      BY <3>1 DEF MaintDue, MaintFails, MaintEnds
    <3>4. QED
      BY <3>2, <3>3
  <2>2. QED
    BY <1>0, <2>0, <2>1
<1>5. CASE Reload
  <2>0. /\ UNCHANGED <<drops, dialog, changes, listens, lostPads, started, alive, kids, pid>>
        /\ faults' \in 0..MaxFaults
    BY <1>0, <1>5, StationAssumption DEF Reload, ReloadBegins, ReloadFails, ReloadEnds, Fault, admin
  <2>1. CASE ReloadBegins(drops) /\ lostBoxes' = FALSE
    <3>1. svc = "up" /\ usr1 /\ svc' = "reloading" /\ boxes' = drops /\ usr1' = usr1
          /\ lostBoxes' \in BOOLEAN
      BY <2>1 DEF ReloadBegins
    <3>2. QED
      BY <1>0, <2>0, <2>1, <3>1
  <2>2. CASE ReloadEnds /\ UNCHANGED lostBoxes
    <3>1. svc = "reloading" /\ svc' = "up" /\ usr1' = FALSE /\ boxes' = boxes
      BY <2>2 DEF ReloadEnds
    <3>2. QED
      BY <1>0, <2>0, <2>2, <3>1
  <2>3. CASE ReloadFails /\ lostBoxes' = TRUE
    <3>1. svc = "up" /\ usr1 /\ svc' = "reloading" /\ boxes' = 0 /\ usr1' = usr1
      BY <2>3 DEF ReloadFails
    <3>2. QED
      BY <1>0, <2>0, <2>3, <3>1
  <2>4. QED
    BY <1>5, <2>1, <2>2, <2>3 DEF Reload
<1>6. CASE RipcdDies \/ PaddDies \/ EngineDies \/ StrayGoes \/ PadFault
  <2>1. /\ UNCHANGED <<drops, dialog, changes, lostBoxes, lostPads, started, svc, boxes, usr1, pid, kids>>
        /\ alive' \subseteq alive
    BY <1>6 DEF RipcdDies, PaddDies, EngineDies, StrayGoes, PadFault, DaemonEnds, admin, lost, service
  <2>2. listens' \in BOOLEAN
    BY <1>6 DEF RipcdDies, PaddDies, EngineDies, StrayGoes, PadFault
  <2>3. faults' \in 0..MaxFaults
    BY <1>0, <1>6 DEF RipcdDies, PaddDies, EngineDies, StrayGoes, PadFault, Fault
  <2>4. QED
    BY <1>0, <2>1, <2>2, <2>3
<1>7. CASE \/ \E id \in Ids : AddPad(id) \/ EditPad(id) \/ DeletePad(id)
           \/ ChangeBoxes
  <2>1. /\ UNCHANGED <<svc, started, alive, kids, boxes, usr1, pid, lostBoxes, lostPads, listens, faults>>
        /\ dialog = None /\ changes < MaxChanges /\ changes' = changes + 1
    BY <1>7 DEF AddPad, EditPad, DeletePad, ChangeBoxes, Writes, service, lost
  <2>2. drops' = drops \/ (drops' = drops + 1 /\ Writing("boxes")')
    <3>1. CASE ChangeBoxes
      <4>1. dialog' = [act |-> "boxes", id |-> CHOOSE id \in Ids : TRUE] /\ drops' = drops + 1
        BY <3>1 DEF ChangeBoxes, Writes
      <4>2. dialog' # None
        <5>1. (CHOOSE id \in Ids : TRUE) \in Ids
          BY StationAssumption
        <5>2. QED
          BY <4>1, <5>1, StationAssumption
      <4>3. QED
        BY <4>1, <4>2
    <3>2. QED
      BY <1>7, <3>1 DEF AddPad, EditPad, DeletePad, SetRow
  <2>3. QED
    BY <1>0, <2>1, <2>2
<1>8. CASE CancelAdd
  <2>1. /\ UNCHANGED <<svc, started, alive, kids, boxes, usr1, pid, lostBoxes, listens, faults, drops, changes>>
        /\ dialog.act = "add"
    BY <1>8 DEF CancelAdd, service, SetRow
  <2>2. lostPads' \in BOOLEAN
    BY <1>8 DEF CancelAdd
  <2>3. QED
    BY <1>0, <2>1, <2>2
<1>9. CASE Sends
  <2>1. /\ UNCHANGED <<svc, started, alive, kids, boxes, pid, listens, faults, drops, changes>>
        /\ dialog # None /\ dialog' = None
    BY <1>9 DEF Sends
  <2>2. lostPads' \in BOOLEAN /\ lostBoxes' \in BOOLEAN
    BY <1>9 DEF Sends, Missed
  <2>3. usr1' = usr1 \/ Signal
    BY <1>9 DEF Sends, Notified
  <2>4. usr1' \in BOOLEAN /\ (usr1 => usr1')
    BY <2>3 DEF Signal
  <2>5. ~lostBoxes' => ~lostBoxes
    BY <1>9 DEF Sends, Missed
  <2>6. dialog.act = "boxes" /\ ~lostBoxes' /\ started > Len(Order)
        => Notified /\ pid /\ svc # "reloading"
    BY <1>9 DEF Sends, Missed
  <2>7. dialog.act = "boxes" /\ Notified => Signal
    BY DEF Notified
  <2>8. dialog.act = "boxes" /\ ~lostBoxes' /\ started > Len(Order) => usr1'
    BY <2>6, <2>7 DEF Signal
  <2>9. QED
    BY <1>0, <2>1, <2>2, <2>4, <2>5, <2>6, <2>8
<1>10. CASE UNCHANGED vars
  BY <1>10 DEF vars
<1>11. QED
  BY <1>1, <1>2, <1>3, <1>4, <1>5, <1>6, <1>7, <1>8, <1>9, <1>10 DEF Next
-----------------------------------------------------------------------------
(* What a step does to one instance.                                       *)

\* Rows and scripts are in their range; the versions are as many as the changes.
PadRanges ==
  /\ rows \in [Ids -> Int] /\ \A id \in Ids : rows[id] >= -1 /\ rows[id] <= changes + 1
  /\ status \in [Ids -> {"N", "Y"} \union Failed]
  /\ proc \in [Ids -> Process]
  /\ \A id \in Ids : proc[id].state # "none" => rows[id] >= 0

\* rdadmin is about to notify of it, or the engine is about to read of it.
Told(act, id) ==
  \/ dialog # None /\ dialog.act = act /\ dialog.id = id
  \/ \E i \in 1..Len(notes) : notes[i].act = act /\ notes[i].id = id

\* The engine starts the script, hears of its end, or kills it; it comes up or
\* breaks; what its row said is taken back; the whole unit ends.
Stays(id)  == proc'[id] = proc[id] /\ status'[id] = status[id]
Boots(id)  == id \in Mine /\ rows[id] > 0 /\ proc'[id] = Booting /\ status'[id] = "Y"
Goes(id)   == /\ proc[id].state # "none" /\ proc'[id] = NoProc
              /\ ~early => proc[id].state \in Ends
              /\ status'[id] = IF proc[id].state \in Failed THEN proc[id].state ELSE "N"
              /\ proc[id].state = "zero" => proc[id].stay \/ id \notin Mine \/ rows[id] <= 0
Dies(id)   == /\ proc[id].state # "none" /\ proc'[id] \in Process
              /\ proc'[id].state = Killed(proc[id]).state
              /\ status'[id] = status[id]
              /\ proc'[id].stay => proc[id].stay \/ Told("delete", id)
Comes(id)  == /\ proc[id].state = "booting" /\ proc'[id] \in Process /\ status'[id] = status[id]
              /\ proc'[id].state = (IF rows[id] > 0 /\ listens THEN "running" ELSE "refused")
              /\ proc'[id].ver = rows[id] /\ proc'[id].stay = proc[id].stay
Breaks(id) == /\ proc[id].state = "running" /\ proc'[id] \in Process /\ status'[id] = status[id]
              /\ proc'[id].state \in {"code", "crash"} /\ faults' > 0
              /\ proc'[id].stay = proc[id].stay
Clears(id) == /\ engine # "up" /\ proc'[id] = proc[id] /\ rows[id] <= 0
              /\ ~early => proc[id].state = "none"
              /\ status'[id] = "N"
Ends1(id)  == proc'[id] = NoProc /\ status'[id] = status[id] /\ engine' = "down"

Moves(id) == \/ Stays(id) \/ Boots(id) \/ Goes(id) \/ Dies(id) \/ Comes(id)
             \/ Breaks(id) \/ Clears(id) \/ Ends1(id)

\* A SIGTERM ends a script, with 0 if it catches it.
LEMMA KilledIs ==
  ASSUME NEW p \in Process
  PROVE  /\ Killed(p) \in Process /\ Killed(p).stay = p.stay /\ Killed(p).ver = p.ver
         /\ p.state = "booting" => Killed(p).state = "killed"
         /\ p.state = "running" => Killed(p).state = "zero"
         /\ p.state \notin {"booting", "running"} => Killed(p).state = p.state
<1>1. /\ p = [state |-> p.state, ver |-> p.ver, stay |-> p.stay]
      /\ p.state \in {"none", "booting", "running"} \union Ends
      /\ p.ver \in 0..(MaxChanges + 1) /\ p.stay \in BOOLEAN
  BY DEF Process
<1> DEFINE x == CASE p.state = "booting" -> "killed"
                  [] p.state = "running" -> "zero"
                  [] OTHER         -> p.state
<1>2. Killed(p) = [p EXCEPT !.state = x]
  BY DEF Killed
<1>3. x \in {"none", "booting", "running"} \union Ends
  BY <1>1 DEF Ends, Failed
<1>4. /\ p.state = "booting" => x = "killed"
      /\ p.state = "running" => x = "zero"
      /\ p.state \notin {"booting", "running"} => x = p.state
  OBVIOUS
<1> HIDE DEF x
<1>5. /\ Killed(p).state = x /\ Killed(p).stay = p.stay /\ Killed(p).ver = p.ver
      /\ Killed(p) \in Process
  BY <1>1, <1>2, <1>3 DEF Process
<1>6. QED
  BY <1>4, <1>5

\* A script that is started has its place; nothing runs there without it.
LEMMA Processes == NoProc \in Process /\ Booting \in Process
                   /\ NoProc.state = "none" /\ Booting.state = "booting"
                   /\ NoProc.stay = FALSE /\ Booting.stay = FALSE
<1>1. MaxChanges \in Nat
  BY StationAssumption
<1>2. NoProc \in Process /\ NoProc.state = "none" /\ NoProc.stay = FALSE
  BY <1>1 DEF NoProc, Process
<1>3. Booting \in Process /\ Booting.state = "booting" /\ Booting.stay = FALSE
  BY <1>2 DEF Booting, Process
<1>4. QED
  BY <1>2, <1>3

\* instanceFinishedData() starts the script again, or writes how it ended.
LEMMA HandlesMoves ==
  ASSUME NEW id \in Ids, Handles(id), PadRanges, proc[id].state # "none",
         ~early => proc[id].state \in Ends
  PROVE  /\ \A k \in Ids : Moves(k)
         /\ proc' \in [Ids -> Process] /\ status' \in [Ids -> {"N", "Y"} \union Failed]
<1> DEFINE how == IF proc[id].state \in Ends THEN proc[id].state ELSE "zero"
           again == how = "zero" /\ ~proc[id].stay /\ id \in Mine /\ rows[id] > 0
           said == CASE again -> "Y" [] how = "zero" /\ ~again -> "N" [] OTHER -> how
<1>1. /\ proc' = [proc EXCEPT ![id] = IF again THEN Booting ELSE NoProc]
      /\ status' = [status EXCEPT ![id] = said]
  BY DEF Handles
<1>2. proc \in [Ids -> Process] /\ status \in [Ids -> {"N", "Y"} \union Failed]
  BY DEF PadRanges
<1>3. \A k \in Ids \ {id} : Stays(k)
  BY <1>1, <1>2 DEF Stays
<1>4. proc'[id] = (IF again THEN Booting ELSE NoProc) /\ status'[id] = said
  <2> HIDE DEF said, again
  <2>1. QED
    BY <1>1, <1>2
<1>5. again => Boots(id)
  <2>1. again => said = "Y"
    OBVIOUS
  <2> HIDE DEF said
  <2>2. QED
    BY <1>4, <2>1 DEF Boots
<1>6. ~again => Goes(id)
  <2> SUFFICES ASSUME ~again PROVE Goes(id)
    OBVIOUS
  <2>1. said = IF how = "zero" THEN "N" ELSE how
    OBVIOUS
  <2>2. said = IF proc[id].state \in Failed THEN proc[id].state ELSE "N"
    BY <2>1 DEF Ends, Failed
  <2>3. proc'[id] = NoProc /\ status'[id] = said
    BY <1>4
  <2>4. proc[id].state = "zero" => proc[id].stay \/ id \notin Mine \/ rows[id] <= 0
    <3>1. rows[id] \in Int
      BY DEF PadRanges
    <3>2. QED
      BY <3>1 DEF Ends
  <2>5. QED
    BY <2>2, <2>3, <2>4 DEF Goes
<1>7. said \in {"N", "Y"} \union Failed
  BY DEF Ends
<1>8. proc' \in [Ids -> Process]
  BY <1>1, <1>2, Processes
<1>9. status' \in [Ids -> {"N", "Y"} \union Failed]
  <2> HIDE DEF said
  <2>1. QED
    BY <1>1, <1>2, <1>7
<1>10. QED
  BY <1>3, <1>5, <1>6, <1>8, <1>9 DEF Moves

\* StartScript(), of one instance or of all.
LEMMA StartsMoves ==
  ASSUME PadRanges, NEW ids \in SUBSET Ids, Overlays(Startable(ids)), NEW k \in Ids
  PROVE  /\ proc' \in [Ids -> Process]
         /\ k \in ids /\ k \in Mine /\ rows[k] > 0 => proc'[k] = Booting
         /\ ~(k \in ids /\ k \in Mine /\ rows[k] > 0) => proc'[k] = proc[k]
<1>1. proc' = [id \in Ids |-> IF id \in Startable(ids) THEN Booting ELSE proc[id]]
  BY DEF Overlays
<1>2. k \in Startable(ids) <=> k \in ids /\ k \in Mine /\ rows[k] > 0
  BY DEF Startable
<1>3. proc \in [Ids -> Process]
  BY DEF PadRanges
<1>4. QED
  BY <1>1, <1>2, <1>3, Processes

\* Every step does one of these to each instance.
LEMMA ScriptMoves ==
  ASSUME IInv, Ranges, PadRanges, [Next]_vars
  PROVE  /\ \A k \in Ids : Moves(k)
         /\ proc' \in [Ids -> Process] /\ status' \in [Ids -> {"N", "Y"} \union Failed]
<1> DEFINE Goal == /\ \A k \in Ids : Moves(k)
                   /\ proc' \in [Ids -> Process] /\ status' \in [Ids -> {"N", "Y"} \union Failed]
<1>0. /\ proc \in [Ids -> Process] /\ status \in [Ids -> {"N", "Y"} \union Failed]
      /\ rows \in [Ids -> Int] /\ faults \in Nat
  BY DEF PadRanges, Ranges
<1>a. ASSUME UNCHANGED <<proc, status>> PROVE Goal
  BY <1>0, <1>a DEF Moves, Stays
<1>1. CASE Starting \/ PadEngineStarts \/ PadListens \/ Maintenance \/ Reload \/ RipcdDies
           \/ EngineDies \/ ChangeBoxes \/ CancelAdd \/ Sends
           \/ \E id \in Ids : AddPad(id) \/ EditPad(id) \/ DeletePad(id)
  <2>1. UNCHANGED <<proc, status>>
    BY <1>1 DEF Starting, PadEngineStarts, EngineStarts, PadListens, Maintenance, Reload, RipcdDies,
                EngineDies, DeletesNothing, EngineCrashes, ChangeBoxes, CancelAdd, Sends,
                AddPad, EditPad, DeletePad, SetRow, pads
  <2>2. QED
    BY <2>1, <1>a
<1>2. CASE ServiceStops \/ ServiceCrashes
  <2>1. /\ proc' = [id \in Ids |-> NoProc] /\ status' = status /\ engine' = "down"
    BY <1>2 DEF ServiceStops, ServiceCrashes, UnitEnds, EngineAndScriptsEnd
  <2>2. QED
    BY <1>0, <2>1, Processes DEF Moves, Ends1
<1>3. CASE PaddDies
  <2>1. /\ proc' = [id \in Ids |-> IF proc[id].state = "running"
                                   THEN [proc[id] EXCEPT !.state = "code"] ELSE proc[id]]
        /\ status' = status
    BY <1>3 DEF PaddDies, ScriptsLosePad
  <2>2. faults' > 0
    BY <1>0, <1>3 DEF PaddDies, Fault
  <2>3. ASSUME NEW id \in Ids
        PROVE  proc'[id] \in Process /\ Moves(id)
    <3>1. CASE proc[id].state = "running"
      <4> DEFINE p == [proc[id] EXCEPT !.state = "code"]
      <4>1. proc[id] \in Process
        BY <1>0
      <4>2. p \in Process /\ p.state = "code" /\ p.stay = proc[id].stay
        BY <4>1 DEF Process, Ends, Failed
      <4>3. proc'[id] = p
        BY <2>1, <3>1
      <4> HIDE DEF p
      <4>4. QED
        BY <2>1, <2>2, <3>1, <4>2, <4>3 DEF Moves, Breaks
    <3>2. CASE proc[id].state # "running"
      BY <1>0, <2>1, <3>2 DEF Moves, Stays
    <3>3. QED
      BY <3>1, <3>2
  <2>4. proc' \in [Ids -> Process]
    <3>1. DOMAIN proc' = Ids /\ proc' = [id \in Ids |-> proc'[id]]
      BY <2>1
    <3>2. QED
      BY <2>3, <3>1
  <2>5. QED
    BY <1>0, <2>1, <2>3, <2>4
<1>4. CASE PadFault
  <2>1. PICK id \in Ids : ScriptFails(id)
    BY <1>4 DEF PadFault
  <2>2. PICK how \in {"code", "crash"} : proc' = [proc EXCEPT ![id].state = how]
    BY <2>1 DEF ScriptFails
  <2>3. faults' > 0 /\ proc[id].state = "running" /\ status' = status
    BY <1>0, <1>4, <2>1 DEF PadFault, Fault, ScriptFails
  <2> DEFINE p == [proc[id] EXCEPT !.state = how]
  <2>4. p \in Process /\ p.state = how /\ p.stay = proc[id].stay
    <3>1. proc[id] \in Process
      BY <1>0
    <3>2. QED
      BY <3>1 DEF Process, Ends, Failed
  <2>5. proc' = [proc EXCEPT ![id] = p]
    BY <2>2
  <2> HIDE DEF p
  <2>6. \A k \in Ids : proc'[k] = IF k = id THEN p ELSE proc[k]
    BY <1>0, <2>5
  <2>7. proc' \in [Ids -> Process]
    BY <1>0, <2>4, <2>5
  <2>8. Breaks(id)
    BY <2>3, <2>4, <2>6 DEF Breaks
  <2>9. \A k \in Ids \ {id} : Stays(k)
    BY <2>3, <2>6 DEF Stays
  <2>10. QED
    BY <1>0, <2>3, <2>7, <2>8, <2>9 DEF Moves
<1>5. CASE PadStep
  <2>1. CASE Joins \/ Answers
    BY <1>a, <2>1 DEF Joins, Answers
  <2>2. CASE Connected
    <3>1. /\ Overlays(Startable(Ids)) /\ engine \in {"joined", "up"} /\ notes # <<>>
          /\ Head(notes).act = "RU"
      BY <2>2 DEF Connected, Takes
    <3>2. status' = [id \in Ids |-> IF id \in Startable(Ids) THEN "Y"
                               ELSE IF id \in Mine THEN "N" ELSE status[id]]
      BY <2>2 DEF Connected
    <3>3. engine = "joined"
      <4>1. 1 \in 1..Len(notes) /\ Head(notes) = notes[1]
        BY <3>1, AnswersKept DEF IInv, Types
      <4>2. QED
        BY <3>1, <4>1 DEF IInv, OneAnswer
    <3>4. ~early => Idle
      BY <3>3 DEF IInv, ScriptsKnown
    <3>5. ASSUME NEW k \in Ids PROVE Moves(k) /\ status'[k] \in {"N", "Y"} \union Failed
      <4>1. CASE k \in Startable(Ids)
        <5>1. k \in Mine /\ rows[k] > 0
          BY <4>1 DEF Startable
        <5>2. proc'[k] = Booting
          BY <3>1, <5>1, StartsMoves
        <5>3. status'[k] = "Y"
          BY <3>2, <4>1
        <5>4. QED
          BY <5>1, <5>2, <5>3 DEF Moves, Boots
      <4>2. CASE k \notin Startable(Ids)
        <5>1. ~(k \in Mine /\ rows[k] > 0)
          BY <4>2 DEF Startable
        <5>2. proc'[k] = proc[k]
          BY <3>1, <5>1, StartsMoves
        <5>3. CASE k \in Mine
          <6>1. status'[k] = "N"
            BY <3>2, <4>2, <5>3
          <6>2. rows[k] <= 0
            BY <1>0, <5>1, <5>3
          <6>3. ~early => proc[k].state = "none"
            BY <3>4 DEF Idle
          <6>4. QED
            BY <3>3, <5>2, <6>1, <6>2, <6>3 DEF Moves, Clears
        <5>4. CASE k \notin Mine
          BY <1>0, <3>2, <4>2, <5>2, <5>4 DEF Moves, Stays
        <5>5. QED
          BY <5>3, <5>4
      <4>3. QED
        BY <4>1, <4>2
    <3>6. proc' \in [Ids -> Process]
      <4>1. Ids # {}
        BY StationAssumption
      <4>2. QED
        BY <3>1, <4>1, StartsMoves
    <3>7. status' \in [Ids -> {"N", "Y"} \union Failed]
      <4>1. DOMAIN status' = Ids /\ status' = [id \in Ids |-> status'[id]]
        BY <3>2
      <4>2. QED
        BY <3>5, <4>1
    <3>8. QED
      BY <3>5, <3>6, <3>7
  <2>3. CASE (Added \/ Modified) /\ Starts({Head(notes).id})
    <3>1. Head(notes).id \in Ids
      <4>1. notes # <<>>
        BY <2>3 DEF Added, Modified, Takes
      <4>2. Head(notes) \in Answer
        BY <4>1 DEF IInv, Types
      <4>3. QED
        BY <4>2 DEF Answer
    <3>2. PICK h \in Ids : h = Head(notes).id
      BY <3>1
    <3>3. /\ Overlays(Startable({h}))
          /\ status' = [id \in Ids |-> IF id \in Startable({h}) THEN "Y" ELSE status[id]]
      BY <2>3, <3>2 DEF Starts
    <3>4. {h} \in SUBSET Ids
      OBVIOUS
    <3>5. ASSUME NEW k \in Ids PROVE Moves(k)
      <4>1. CASE k \in Startable({h})
        <5>1. k = h /\ k \in Mine /\ rows[k] > 0
          BY <4>1 DEF Startable
        <5>2. proc'[k] = Booting /\ status'[k] = "Y"
          BY <3>3, <3>4, <4>1, <5>1, StartsMoves
        <5>3. QED
          BY <5>1, <5>2 DEF Moves, Boots
      <4>2. CASE k \notin Startable({h})
        <5>1. ~(k \in {h} /\ k \in Mine /\ rows[k] > 0)
          BY <4>2 DEF Startable
        <5>2. proc'[k] = proc[k] /\ status'[k] = status[k]
          BY <3>3, <3>4, <4>2, <5>1, StartsMoves
        <5>3. QED
          BY <5>2 DEF Moves, Stays
      <4>3. QED
        BY <4>1, <4>2
    <3>6. proc' \in [Ids -> Process]
      BY <3>3, <3>4, StartsMoves
    <3>7. status' \in [Ids -> {"N", "Y"} \union Failed]
      BY <1>0, <3>3
    <3>8. QED
      BY <3>5, <3>6, <3>7
  <2>4. CASE UNCHANGED <<proc, status>>
    BY <2>4, <1>a
  <2>5. CASE (Modified \/ Deleted) /\ proc[Head(notes).id].state # "none"
    <3>1. notes # <<>> /\ status' = status
      BY <2>5 DEF Modified, Deleted, Takes
    <3>2. Head(notes) \in Answer /\ 1 \in 1..Len(notes) /\ Head(notes) = notes[1]
      BY <3>1, AnswersKept DEF IInv, Types
    <3>3. PICK h \in Ids : h = Head(notes).id
      BY <3>2 DEF Answer
    <3> DEFINE d == [Killed(proc[h]) EXCEPT !.stay = TRUE]
    <3>4. proc[h] \in Process /\ proc[h].state # "none"
      BY <1>0, <2>5, <3>3
    <3>5. Killed(proc[h]) \in Process /\ Killed(proc[h]).stay = proc[h].stay
      BY <3>4, KilledIs
    <3>6. d \in Process /\ d.state = Killed(proc[h]).state
      BY <3>5 DEF Process
    <3>7. \/ proc' = [proc EXCEPT ![h] = Killed(proc[h])]
          \/ proc' = [proc EXCEPT ![h] = d] /\ Told("delete", h)
      <4>1. CASE Modified
        BY <2>5, <3>3, <4>1 DEF Modified
      <4>2. CASE Deleted
        <5>1. proc' = [proc EXCEPT ![h] = d] /\ Head(notes).act = "delete"
          BY <3>3, <4>2 DEF Deleted, Takes
        <5>2. Told("delete", h)
          BY <3>2, <3>3, <5>1 DEF Told
        <5>3. QED
          BY <5>1, <5>2
      <4>3. QED
        BY <2>5, <4>1, <4>2
    <3> HIDE DEF d
    <3>8. PICK p \in Process : /\ proc' = [proc EXCEPT ![h] = p]
                               /\ p.state = Killed(proc[h]).state
                               /\ p.stay => proc[h].stay \/ Told("delete", h)
      BY <3>5, <3>6, <3>7
    <3>9. \A k \in Ids : proc'[k] = IF k = h THEN p ELSE proc[k]
      BY <1>0, <3>8
    <3>10. Dies(h)
      BY <3>1, <3>4, <3>8, <3>9 DEF Dies
    <3>11. \A k \in Ids \ {h} : Stays(k)
      BY <3>1, <3>9 DEF Stays
    <3>12. proc' \in [Ids -> Process]
      BY <1>0, <3>8
    <3>13. QED
      BY <1>0, <3>1, <3>10, <3>11, <3>12 DEF Moves
  <2>6. CASE \E id \in Ids : Finished(id)
    <3>1. PICK id \in Ids : Finished(id)
      BY <2>6
    <3>2. Handles(id) /\ proc[id].state \in Ends /\ proc[id].state # "none"
      BY <3>1 DEF Finished, Ends, Failed
    <3>3. QED
      BY <3>2, HandlesMoves
  <2>7. CASE \E id \in Ids : ScriptBoots(id, listens)
    <3>1. PICK id \in Ids : ScriptBoots(id, listens)
      BY <2>7
    <3> DEFINE st == IF rows[id] > 0 /\ listens THEN "running" ELSE "refused"
               p == [proc[id] EXCEPT !.ver = rows[id], !.state = st]
    <3>2. /\ proc[id].state = "booting" /\ status' = status
          /\ proc' = [proc EXCEPT ![id] = p]
      BY <3>1 DEF ScriptBoots
    <3>3. rows[id] \in 0..(MaxChanges + 1)
      <4>1. rows[id] >= 0 /\ rows[id] <= changes + 1 /\ changes <= MaxChanges
        BY <1>0, <3>2 DEF PadRanges, Ranges
      <4>2. QED
        BY <1>0, <4>1, StationAssumption DEF Ranges
    <3>4. proc[id] \in Process /\ st \in {"none", "booting", "running"} \union Ends
      BY <1>0 DEF Ends, Failed
    <3> HIDE DEF st
    <3>5. p \in Process /\ p.state = st /\ p.ver = rows[id] /\ p.stay = proc[id].stay
      BY <3>3, <3>4 DEF Process
    <3> HIDE DEF p
    <3>6. \A k \in Ids : proc'[k] = IF k = id THEN p ELSE proc[k]
      BY <1>0, <3>2
    <3>7. Comes(id)
      BY <3>2, <3>5, <3>6 DEF Comes, st
    <3>8. \A k \in Ids \ {id} : Stays(k)
      BY <3>2, <3>6 DEF Stays
    <3>9. proc' \in [Ids -> Process]
      BY <1>0, <3>2, <3>5
    <3>10. QED
      BY <1>0, <3>2, <3>7, <3>8, <3>9 DEF Moves
  <2>8. QED
    BY <1>5, <2>1, <2>2, <2>3, <2>4, <2>5, <2>6, <2>7 DEF PadStep, Added, Modified, Deleted
<1>6. CASE StrayGoes
  <2>1. PICK id \in Ids : StrayEnds(id)
    BY <1>6 DEF StrayGoes
  <2>2. early
    <3>1. strays[id] > 0
      BY <2>1 DEF StrayEnds
    <3>2. QED
      BY <3>1 DEF IInv, ScriptsKnown
  <2>3. CASE proc[id].state = "none"
    BY <1>a, <2>1, <2>3 DEF StrayEnds
  <2>4. CASE proc[id].state # "none"
    <3>1. Handles(id)
      BY <2>1, <2>4 DEF StrayEnds
    <3>2. QED
      BY <2>2, <2>4, <3>1, HandlesMoves
  <2>5. QED
    BY <2>3, <2>4
<1>7. CASE UNCHANGED vars
  <2>1. UNCHANGED <<proc, status>>
    BY <1>7 DEF vars
  <2>2. QED
    BY <2>1, <1>a
<1>8. QED
  BY <1>1, <1>2, <1>3, <1>4, <1>5, <1>6, <1>7 DEF Next

-----------------------------------------------------------------------------
(* What a step does to the rows, and to what is told about them.           *)

Kept(id) == rows'[id] = rows[id]
Written(act, id) ==
  /\ dialog = None /\ dialog' # None /\ dialog'.act = act /\ dialog'.id = id
  /\ changes' = changes + 1
  /\ UNCHANGED <<proc, status, engine, notes, early, lostPads>>
  /\ \/ act = "add" /\ rows[id] = -1 /\ rows'[id] = 1
     \/ act = "modify" /\ rows[id] > 0 /\ rows'[id] = rows[id] + 1
     \/ act = "delete" /\ rows[id] > 0 /\ rows'[id] = 0
Cancelled(id) ==
  /\ dialog # None /\ dialog.act = "add" /\ dialog.id = id
  /\ rows'[id] = 0 /\ proc' = proc /\ status' = status
  /\ lostPads' \/ proc[id].state = "none"
ReadOf(act, id) ==
  /\ \/ act = "add" /\ Added
     \/ act = "modify" /\ Modified
     \/ act = "delete" /\ Deleted
  /\ notes # <<>> /\ Head(notes).id = id

\* A dialog is about one instance.
LEMMA Dialog ==
  ASSUME NEW act \in {"add", "modify", "delete", "boxes"}, NEW id \in Ids
  PROVE  [act |-> act, id |-> id] # None
BY StationAssumption

\* A row changes by what rdadmin does about it.
LEMMA RowMoves ==
  ASSUME IInv, Ranges, PadRanges, [Next]_vars
  PROVE  /\ rows' \in [Ids -> Int] /\ changes' \in Nat /\ changes' >= changes
         /\ \A id \in Ids : \/ Kept(id) \/ Cancelled(id)
                            \/ \E act \in {"add", "modify", "delete"} : Written(act, id)
<1> DEFINE Goal == /\ rows' \in [Ids -> Int] /\ changes' \in Nat /\ changes' >= changes
                   /\ \A id \in Ids : \/ Kept(id) \/ Cancelled(id)
                            \/ \E act \in {"add", "modify", "delete"} : Written(act, id)
<1>0. rows \in [Ids -> Int] /\ changes \in Nat
  BY DEF PadRanges, Ranges
<1>a. ASSUME UNCHANGED rows, changes' = changes \/ changes' = changes + 1 PROVE Goal
  BY <1>0, <1>a DEF Kept
<1>1. CASE Starting \/ PadEngineStarts \/ PadListens \/ Maintenance \/ Reload \/ RipcdDies
           \/ EngineDies \/ ChangeBoxes \/ Sends \/ ServiceStops \/ ServiceCrashes \/ PaddDies
           \/ StrayGoes \/ PadFault
  <2>1. UNCHANGED rows
    BY <1>1 DEF Starting, PadEngineStarts, EngineStarts, PadListens, Maintenance, Reload, RipcdDies,
                EngineDies, DeletesNothing, EngineCrashes, ChangeBoxes, Sends, pads,
                ServiceStops, ServiceCrashes, UnitEnds, EngineAndScriptsEnd, PaddDies,
                StrayGoes, StrayEnds, Handles, PadFault, ScriptFails
  <2>2. changes' = changes \/ changes' = changes + 1
    BY <1>1 DEF Starting, PadEngineStarts, PadListens, Maintenance, Reload, RipcdDies,
                EngineDies, ChangeBoxes, Sends, admin, Writes,
                ServiceStops, ServiceCrashes, UnitEnds, PaddDies, StrayGoes, PadFault
  <2>3. QED
    BY <2>1, <2>2, <1>a
<1>2. CASE PadStep
  <2>1. UNCHANGED rows
    BY <1>2 DEF PadStep, Joins, Answers, Connected, Added, Modified, Deleted, Takes,
                Finished, Handles, ScriptBoots
  <2>2. changes' = changes
    BY <1>2 DEF PadStep, admin
  <2>3. QED
    BY <2>1, <2>2, <1>a
<1>3. ASSUME NEW h \in Ids, NEW act \in {"add", "modify", "delete"}, NEW v \in Int,
             Writes(act, h), SetRow(h, v),
             \/ act = "add" /\ rows[h] = -1 /\ v = 1
             \/ act = "modify" /\ rows[h] > 0 /\ v = rows[h] + 1
             \/ act = "delete" /\ rows[h] > 0 /\ v = 0
      PROVE  Goal
  <2>1. rows' = [rows EXCEPT ![h] = v] /\ changes' = changes + 1
    BY <1>3 DEF Writes, SetRow
  <2>2. \A id \in Ids \ {h} : Kept(id)
    BY <1>0, <2>1 DEF Kept
  <2>3. rows'[h] = v
    BY <1>0, <2>1
  <2>4. /\ dialog = None /\ dialog' = [act |-> act, id |-> h]
        /\ UNCHANGED <<proc, status, engine, notes, early, lostPads>>
    BY <1>3 DEF Writes, SetRow, lost
  <2>5. dialog' # None
    BY <2>4, Dialog
  <2>6. Written(act, h)
    BY <1>3, <2>1, <2>3, <2>4, <2>5 DEF Written
  <2>7. QED
    BY <1>0, <2>1, <2>2, <2>6
<1>4. CASE \E id \in Ids : AddPad(id) \/ EditPad(id) \/ DeletePad(id)
  <2>1. PICK h \in Ids : AddPad(h) \/ EditPad(h) \/ DeletePad(h)
    BY <1>4
  <2>2. CASE AddPad(h)
    BY <2>2, <1>3 DEF AddPad
  <2>3. CASE EditPad(h)
    <3>1. rows[h] + 1 \in Int
      BY <1>0
    <3>2. QED
      BY <2>3, <3>1, <1>3 DEF EditPad
  <2>4. CASE DeletePad(h)
    BY <2>4, <1>3 DEF DeletePad
  <2>5. QED
    BY <2>1, <2>2, <2>3, <2>4
<1>5. CASE CancelAdd
  <2>1. /\ dialog # None /\ dialog.act = "add" /\ rows' = [rows EXCEPT ![dialog.id] = 0]
        /\ UNCHANGED <<proc, status, changes>>
        /\ lostPads' \/ proc[dialog.id].state = "none"
    BY <1>5 DEF CancelAdd, SetRow
  <2>2. \A id \in Ids : id # dialog.id => Kept(id)
    BY <1>0, <2>1 DEF Kept
  <2>3. \A id \in Ids : id = dialog.id => Cancelled(id)
    BY <1>0, <2>1 DEF Cancelled
  <2>4. \A id \in Ids : Kept(id) \/ Cancelled(id)
    BY <2>2, <2>3
  <2>5. rows' \in [Ids -> Int] /\ changes' \in Nat /\ changes' >= changes
    <3>1. dialog.id \in Ids
      BY <2>1 DEF IInv, Types, Dialogs
    <3>2. changes' = changes
      BY <2>1
    <3>3. QED
      BY <1>0, <2>1, <3>1, <3>2
  <2>6. QED
    BY <2>4, <2>5
<1>6. CASE UNCHANGED vars
  BY <1>6, <1>a DEF vars
<1>7. QED
  BY <1>1, <1>2, <1>4, <1>5, <1>6 DEF Next

\* What was told is forgotten only when it is read, lost or cancelled.
LEMMA ToldMoves ==
  ASSUME IInv, Ranges, PadRanges, [Next]_vars,
         NEW act \in {"add", "modify", "delete"}, NEW id \in Ids
  PROVE  /\ Told(act, id)' => Told(act, id) \/ Written(act, id)
         /\ Told(act, id) /\ engine = "up" /\ engine' = "up" /\ ~lostPads' =>
              Told(act, id)' \/ Cancelled(id) \/ ReadOf(act, id)
<1> DEFINE Goal == /\ Told(act, id)' => Told(act, id) \/ Written(act, id)
                   /\ Told(act, id) /\ engine = "up" /\ engine' = "up" /\ ~lostPads' =>
                        Told(act, id)' \/ Cancelled(id) \/ ReadOf(act, id)
<1>0. notes \in Seq(Answer) /\ (dialog = None \/ dialog \in Dialogs)
  BY DEF IInv, Types
<1>a. ASSUME UNCHANGED <<notes, dialog>> PROVE Goal
  BY <1>a DEF Told
<1>b. ASSUME notes' = <<>>, dialog' = dialog, engine # "up" \/ engine' # "up" PROVE Goal
  BY <1>b DEF Told
<1>c. ASSUME notes # <<>>, notes' = Tail(notes), dialog' = dialog
      PROVE  /\ Told(act, id)' => Told(act, id)
             /\ Told(act, id) => Told(act, id)' \/ (Head(notes).act = act /\ Head(notes).id = id)
  <2>1. /\ Len(notes') = Len(notes) - 1 /\ Head(notes) = notes[1] /\ Len(notes) \in Nat
        /\ \A i \in 1..Len(notes') : notes'[i] = notes[i + 1]
    BY <1>0, <1>c, AnswersKept
  <2>2. \A i \in 1..Len(notes') : i + 1 \in 1..Len(notes)
    BY <2>1
  <2>3. \A i \in 1..Len(notes) : i = 1 \/ i - 1 \in 1..Len(notes')
    BY <2>1
  <2>4. \A i \in 1..Len(notes) : i # 1 => notes'[i - 1] = notes[i]
    BY <2>1, <2>3
  <2>5. QED
    BY <1>c, <2>1, <2>2, <2>3, <2>4 DEF Told
<1>1. CASE Starting \/ PadListens \/ Maintenance \/ Reload \/ RipcdDies \/ PaddDies \/ PadFault
           \/ UNCHANGED vars
  <2>1. UNCHANGED <<notes, dialog>>
    BY <1>1 DEF Starting, PadListens, Maintenance, Reload, RipcdDies, PaddDies, PadFault,
                ScriptFails, pads, admin, vars
  <2>2. QED
    BY <2>1, <1>a
<1>2. CASE PadEngineStarts \/ ServiceStops \/ ServiceCrashes \/ EngineDies
  <2>1. UNCHANGED <<notes, dialog>> \/ (notes' = <<>> /\ dialog' = dialog /\ engine' = "down")
    BY <1>2 DEF PadEngineStarts, EngineStarts, ServiceStops, ServiceCrashes, UnitEnds,
                EngineAndScriptsEnd, EngineDies, DeletesNothing, EngineCrashes, admin
  <2>2. QED
    BY <2>1, <1>a, <1>b
<1>3. CASE StrayGoes
  <2>1. UNCHANGED <<notes, dialog>> \/ (notes' = <<>> /\ dialog' = dialog /\ engine' = "down")
    BY <1>3 DEF StrayGoes, StrayEnds, Handles, admin
  <2>2. QED
    BY <2>1, <1>a, <1>b
<1>4. CASE PadStep
  <2>0. dialog' = dialog
    BY <1>4 DEF PadStep, admin
  <2>1. CASE Joins \/ \E k \in Ids : Finished(k) \/ ScriptBoots(k, listens)
    BY <1>a, <2>0, <2>1 DEF Joins, Finished, Handles, ScriptBoots
  <2>2. CASE Answers
    <3>1. PICK n \in Answer : n.act = "RU" /\ notes' = Append(notes, n)
      <4>1. (CHOOSE k \in Ids : TRUE) \in Ids
        BY StationAssumption
      <4>2. [act |-> "RU", id |-> CHOOSE k \in Ids : TRUE] \in Answer
        BY <4>1 DEF Answer
      <4>3. QED
        BY <2>2, <4>2 DEF Answers
    <3>2. /\ Len(notes') = Len(notes) + 1 /\ Len(notes) \in Nat
          /\ \A i \in 1..Len(notes) : notes'[i] = notes[i]
          /\ notes'[Len(notes) + 1] = n
      BY <1>0, <3>1, AnswersKept
    <3>3. \A i \in 1..Len(notes') : i \in 1..Len(notes) \/ i = Len(notes) + 1
      BY <3>2
    <3>4. \A i \in 1..Len(notes) : i \in 1..Len(notes')
      BY <3>2
    <3>5. QED
      BY <2>0, <3>1, <3>2, <3>3, <3>4 DEF Told
  <2>3. CASE Connected \/ Added \/ Modified \/ Deleted
    <3>1. /\ notes # <<>> /\ notes' = Tail(notes)
          /\ Connected => Head(notes).act = "RU"
          /\ Added => Head(notes).act = "add"
          /\ Modified => Head(notes).act = "modify"
          /\ Deleted => Head(notes).act = "delete"
      BY <2>3 DEF Connected, Added, Modified, Deleted, Takes
    <3>2. Head(notes).act = act /\ Head(notes).id = id => ReadOf(act, id)
      BY <2>3, <3>1 DEF ReadOf
    <3>3. QED
      BY <2>0, <3>1, <3>2, <1>c
  <2>4. QED
    BY <1>4, <2>1, <2>2, <2>3 DEF PadStep
<1>5. ASSUME NEW h \in Ids, NEW a \in {"add", "modify", "delete"}, NEW v \in Int,
             Writes(a, h), SetRow(h, v),
             \/ a = "add" /\ rows[h] = -1 /\ v = 1
             \/ a = "modify" /\ rows[h] > 0 /\ v = rows[h] + 1
             \/ a = "delete" /\ rows[h] > 0 /\ v = 0
      PROVE  Goal
  <2>1. /\ dialog = None /\ dialog' = [act |-> a, id |-> h]
        /\ UNCHANGED <<proc, status, engine, notes, early, lostPads>>
        /\ changes' = changes + 1 /\ rows' = [rows EXCEPT ![h] = v]
    BY <1>5 DEF Writes, SetRow, lost
  <2>2. dialog' # None
    BY <2>1, Dialog
  <2>3. Told(act, id) => Told(act, id)'
    BY <2>1 DEF Told
  <2>4. Told(act, id)' => Told(act, id) \/ (act = a /\ id = h)
    BY <2>1, <2>2 DEF Told
  <2>5. act = a /\ id = h => Written(act, id)
    <3>1. rows'[h] = v
      BY <2>1 DEF PadRanges
    <3>2. QED
      BY <1>5, <2>1, <2>2, <3>1 DEF Written
  <2>6. QED
    BY <2>3, <2>4, <2>5
<1>9. CASE \E h \in Ids : AddPad(h) \/ EditPad(h) \/ DeletePad(h)
  <2>1. PICK h \in Ids : AddPad(h) \/ EditPad(h) \/ DeletePad(h)
    BY <1>9
  <2>2. CASE AddPad(h)
    BY <2>2, <1>5 DEF AddPad
  <2>3. CASE EditPad(h)
    <3>1. rows[h] + 1 \in Int
      BY DEF PadRanges
    <3>2. QED
      BY <2>3, <3>1, <1>5 DEF EditPad
  <2>4. CASE DeletePad(h)
    BY <2>4, <1>5 DEF DeletePad
  <2>5. QED
    BY <2>1, <2>2, <2>3, <2>4
<1>6. CASE ChangeBoxes
  <2>1. dialog = None /\ dialog'.act = "boxes" /\ notes' = notes
    BY <1>6 DEF ChangeBoxes, Writes, pads
  <2>2. QED
    BY <2>1 DEF Told
<1>7. CASE CancelAdd
  <2>1. /\ dialog # None /\ dialog.act = "add" /\ rows' = [rows EXCEPT ![dialog.id] = 0]
        /\ UNCHANGED <<proc, status, notes>> /\ dialog' = None
        /\ lostPads' \/ proc[dialog.id].state = "none"
    BY <1>7 DEF CancelAdd, SetRow
  <2>2. Told(act, id)' => Told(act, id)
    BY <2>1 DEF Told
  <2>3. Told(act, id) => Told(act, id)' \/ id = dialog.id
    BY <2>1 DEF Told
  <2>4. id = dialog.id => Cancelled(id)
    BY <2>1 DEF Cancelled, PadRanges
  <2>5. QED
    BY <2>2, <2>3, <2>4
<1>8. CASE Sends
  <2>1. dialog # None /\ dialog \in Dialogs /\ dialog' = None /\ engine' = engine
    BY <1>0, <1>8 DEF Sends
  <2>2. notes' = notes \/ notes' = Append(notes, [act |-> dialog.act, id |-> dialog.id])
    BY <1>8 DEF Sends, Notified, Notify
  <2>3. dialog.act # "boxes" /\ engine = "up" /\ ~lostPads' =>
          notes' = Append(notes, [act |-> dialog.act, id |-> dialog.id])
    BY <1>8 DEF Sends, Notified, Notify, Missed
  <2>4. dialog.act = "boxes" => notes' = notes
    BY <1>8 DEF Sends, Notified
  <2>5. CASE notes' = notes
    BY <2>1, <2>3, <2>5, <1>0 DEF Told
  <2>6. CASE notes' # notes
    <3>1. PICK n \in Answer : n = [act |-> dialog.act, id |-> dialog.id]
      BY <2>1, <2>4, <2>6 DEF Dialogs, Answer
    <3>2. notes' = Append(notes, n) /\ n.act = dialog.act /\ n.id = dialog.id
      BY <2>2, <2>6, <3>1
    <3>3. /\ Len(notes') = Len(notes) + 1 /\ Len(notes) \in Nat
          /\ \A i \in 1..Len(notes) : notes'[i] = notes[i]
          /\ notes'[Len(notes) + 1] = n
      BY <1>0, <3>2, AnswersKept
    <3>4. \A i \in 1..Len(notes') : i \in 1..Len(notes) \/ i = Len(notes) + 1
      BY <3>3
    <3>5. Len(notes) + 1 \in 1..Len(notes') /\ \A i \in 1..Len(notes) : i \in 1..Len(notes')
      BY <3>3
    <3>6. QED
      BY <2>1, <3>2, <3>3, <3>4, <3>5 DEF Told
  <2>7. QED
    BY <2>5, <2>6
<1>10. QED
  BY <1>1, <1>2, <1>3, <1>4, <1>6, <1>7, <1>8, <1>9 DEF Next
-----------------------------------------------------------------------------
(* PYPAD_INSTANCES and the scripts.                                        *)

\* Only instances of this station that have had a row have a process; one that
\* is to stay away has no row any more; a script breaks where something went
\* wrong; and the row of a script says that it runs.
RowKnown(id) ==
  /\ id \notin Mine \/ rows[id] = -1 => proc[id].state = "none"
  /\ proc[id].stay \/ Told("delete", id) => rows[id] = 0
  /\ proc[id].state \in {"code", "crash"} \/ status[id] \in {"code", "crash"} => faults > 0
  /\ ~early /\ proc[id].state # "none" => status[id] = "Y"
RowsKnown == \A id \in Ids : RowKnown(id)

\* The script runs what its row says, will when it comes up or is started
\* anew, or has ended and the row says or will say how.
Settles(id) ==
  \/ proc[id].state = "booting" \/ proc[id].state \in Ends
  \/ proc[id].state = "running" /\ proc[id].ver = rows[id]
  \/ proc[id].state = "none" /\ status[id] \in Failed

\* An instance that is to run settles, or the engine will be told of it; what is
\* not to run does not, or the engine will be told of that.
PadKnown(id) ==
  IF id \in Mine /\ rows[id] > 0
  THEN Settles(id) \/ Told("modify", id) \/ (proc[id].state = "none" /\ Told("add", id))
  ELSE proc[id].state = "running" => Told("delete", id)
PadsKnown ==
  engine = "up" /\ ~early /\ ~lostPads => \A id \in Ids : PadKnown(id)

\* What was dealt with too early is so until the unit ends; what was lost as
\* well, and no fault is forgotten.
LEMMA Flags ==
  ASSUME IInv, Ranges, [Next]_vars
  PROVE  /\ early /\ ~early' => engine' = "down" /\ \A id \in Ids : proc'[id] = NoProc
         /\ lostPads /\ ~lostPads' => engine' = "down"
         /\ faults' \in Nat /\ faults' >= faults
<1>0. faults \in Nat /\ early \in BOOLEAN /\ lostPads \in BOOLEAN
  BY DEF Ranges, IInv, Types
<1>1. CASE ServiceStops \/ ServiceCrashes
  <2>1. engine' = "down" /\ proc' = [id \in Ids |-> NoProc]
    BY <1>1 DEF ServiceStops, ServiceCrashes, UnitEnds, EngineAndScriptsEnd
  <2>2. faults' = faults \/ faults' = faults + 1
    BY <1>1 DEF ServiceStops, ServiceCrashes, Fault
  <2>3. QED
    BY <1>0, <2>1, <2>2
<1>2. CASE Starting \/ PadEngineStarts \/ PadListens \/ Maintenance \/ Reload \/ RipcdDies
           \/ PaddDies \/ PadFault \/ EngineDies \/ StrayGoes
  <2>1. early' = early
    BY <1>2 DEF Starting, PadEngineStarts, EngineStarts, PadListens, Maintenance, Reload, RipcdDies,
                PaddDies, PadFault, ScriptFails, EngineDies, DeletesNothing, EngineCrashes, StrayGoes,
                StrayEnds, Handles, pads
  <2>2. lostPads' = lostPads
    BY <1>2 DEF Starting, PadEngineStarts, PadListens, Maintenance, Reload, RipcdDies,
                PaddDies, PadFault, EngineDies, StrayGoes, lost
  <2>3. faults' = faults \/ faults' = faults + 1
    BY <1>2 DEF Starting, PadEngineStarts, PadListens, Maintenance, Reload, RipcdDies,
                PaddDies, PadFault, EngineDies, StrayGoes, Fault
  <2>4. QED
    BY <1>0, <2>1, <2>2, <2>3
<1>3. CASE PadStep
  <2>1. early => early'
    BY <1>0, <1>3 DEF PadStep, Joins, Answers, Connected, Added, Modified, Deleted, Takes,
                Finished, Handles, ScriptBoots
  <2>2. lostPads' = lostPads /\ faults' = faults
    BY <1>3 DEF PadStep, lost
  <2>3. QED
    BY <1>0, <2>1, <2>2
<1>4. CASE \/ \E id \in Ids : AddPad(id) \/ EditPad(id) \/ DeletePad(id)
           \/ ChangeBoxes \/ CancelAdd \/ Sends
  <2>1. early' = early /\ faults' = faults
    BY <1>4 DEF AddPad, EditPad, DeletePad, ChangeBoxes, CancelAdd, Sends, Writes, SetRow, pads
  <2>2. lostPads => lostPads'
    BY <1>0, <1>4 DEF AddPad, EditPad, DeletePad, ChangeBoxes, CancelAdd, Sends, Missed, Writes, lost
  <2>3. QED
    BY <1>0, <2>1, <2>2
<1>5. CASE UNCHANGED vars
  BY <1>0, <1>5 DEF vars
<1>6. QED
  BY <1>1, <1>2, <1>3, <1>4, <1>5 DEF Next

\* Whatever a process becomes, it is none, or killed as it was, or its own.
LEMMA PadRangesStep ==
  ASSUME IInv, Ranges, PadRanges, [Next]_vars
  PROVE  PadRanges'
<1>1. /\ proc' \in [Ids -> Process] /\ status' \in [Ids -> {"N", "Y"} \union Failed]
      /\ rows' \in [Ids -> Int] /\ changes' \in Nat /\ changes' >= changes /\ changes \in Nat
  BY ScriptMoves, RowMoves DEF Ranges
<1>2. ASSUME NEW id \in Ids
      PROVE  /\ rows'[id] >= -1 /\ rows'[id] <= changes' + 1
             /\ proc'[id].state # "none" => rows'[id] >= 0
  <2>1. /\ rows[id] \in Int /\ rows[id] >= -1 /\ rows[id] <= changes + 1
        /\ proc[id].state # "none" => rows[id] >= 0
    BY DEF PadRanges
  <2>2. Moves(id)
    BY ScriptMoves
  <2>3. proc'[id].state # "none" => rows[id] >= 0
    BY <2>1, <2>2, Processes DEF Moves, Stays, Boots, Goes, Dies, Comes, Breaks, Clears, Ends1
  <2>4. \/ Kept(id) \/ Cancelled(id)
        \/ \E act \in {"add", "modify", "delete"} : Written(act, id)
    BY RowMoves
  <2>5. \/ rows'[id] = rows[id] \/ rows'[id] = 0
        \/ rows'[id] = 1 /\ changes' = changes + 1
        \/ rows'[id] = rows[id] + 1 /\ rows[id] > 0 /\ changes' = changes + 1
    BY <2>4 DEF Kept, Cancelled, Written
  <2>6. QED
    BY <1>1, <2>1, <2>3, <2>5
<1>3. QED
  BY <1>1, <1>2 DEF PadRanges

\* What is known of one instance stays true of it.
LEMMA RowStep ==
  ASSUME IInv, Ranges, PadRanges, RowsKnown, [Next]_vars, NEW id \in Ids
  PROVE  RowKnown(id)'
<1>0. /\ RowKnown(id) /\ rows[id] \in Int /\ proc[id] \in Process /\ early \in BOOLEAN
  BY DEF RowsKnown, PadRanges, IInv, Types
<1>1. Moves(id)
  BY ScriptMoves
<1>2. \/ Kept(id) \/ Cancelled(id)
      \/ \E act \in {"add", "modify", "delete"} : Written(act, id)
  BY RowMoves
<1>3. Told("delete", id)' => Told("delete", id) \/ Written("delete", id)
  BY ToldMoves
<1>4. id \notin Mine \/ rows'[id] = -1 => proc'[id].state = "none"
  <2> SUFFICES ASSUME id \notin Mine \/ rows'[id] = -1 PROVE proc'[id].state = "none"
    OBVIOUS
  <2>1. id \notin Mine \/ rows[id] = -1
    BY <1>0, <1>2 DEF Kept, Cancelled, Written
  <2>2. proc[id].state = "none"
    BY <1>0, <2>1 DEF RowKnown
  <2>3. QED
    BY <1>1, <2>1, <2>2, Processes DEF Moves, Stays, Boots, Goes, Dies, Comes, Breaks, Clears, Ends1
<1>5. proc'[id].stay \/ Told("delete", id)' => rows'[id] = 0
  <2>1. proc'[id].stay => proc[id].stay \/ Told("delete", id)
    BY <1>1, Processes DEF Moves, Stays, Boots, Goes, Dies, Comes, Breaks, Clears, Ends1
  <2>2. proc'[id].stay \/ Told("delete", id)' => rows[id] = 0 \/ Written("delete", id)
    BY <1>0, <1>3, <2>1 DEF RowKnown
  <2>3. Written("delete", id) => rows'[id] = 0
    BY DEF Written
  <2>4. rows[id] = 0 => rows'[id] = 0
    BY <1>2 DEF Kept, Cancelled, Written
  <2>5. QED
    BY <2>2, <2>3, <2>4
<1>6. proc'[id].state \in {"code", "crash"} \/ status'[id] \in {"code", "crash"} => faults' > 0
  <2>1. faults' >= faults /\ faults \in Nat /\ faults' \in Nat
    BY Flags DEF Ranges
  <2>2. \/ proc'[id].state \in {"code", "crash"} => proc[id].state \in {"code", "crash"}
        \/ faults' > 0
    <3>1. Dies(id) /\ Killed(proc[id]).state \in {"code", "crash"} => proc[id].state \in {"code", "crash"}
      BY <1>0, KilledIs DEF Process
    <3>2. QED
      BY <1>1, <3>1, Processes DEF Moves, Stays, Boots, Goes, Dies, Comes, Breaks, Clears, Ends1
  <2>3. status'[id] \in {"code", "crash"} => \/ status[id] \in {"code", "crash"}
                                             \/ proc[id].state \in {"code", "crash"}
    BY <1>1 DEF Moves, Stays, Boots, Goes, Dies, Comes, Breaks, Clears, Ends1, Failed
  <2>4. QED
    BY <1>0, <2>1, <2>2, <2>3 DEF RowKnown
<1>7. ~early' /\ proc'[id].state # "none" => status'[id] = "Y"
  <2> SUFFICES ASSUME ~early', proc'[id].state # "none" PROVE status'[id] = "Y"
    OBVIOUS
  <2>1. ~early
    BY Flags, Processes
  <2>2. proc[id].state # "none" => status[id] = "Y"
    BY <1>0, <2>1 DEF RowKnown
  <2>3. QED
    BY <1>1, <2>1, <2>2, Processes DEF Moves, Stays, Boots, Goes, Dies, Comes, Breaks, Clears, Ends1
<1>8. QED
  BY <1>4, <1>5, <1>6, <1>7 DEF RowKnown

\* The engine comes up when ripcd has answered it, and starts what there is.
LEMMA Startup ==
  ASSUME IInv, PadRanges, [Next]_vars, engine # "up", engine' = "up", ~early, NEW id \in Ids
  PROVE  PadKnown(id)'
<1>1. Connected
  <2>1. ~(Starting \/ PadListens \/ Maintenance \/ Reload \/ RipcdDies \/ PaddDies \/ PadFault
          \/ UNCHANGED vars)
    BY DEF Starting, PadListens, Maintenance, Reload, RipcdDies, PaddDies, PadFault,
           ScriptFails, pads, vars
  <2>2. ~(PadEngineStarts \/ ServiceStops \/ ServiceCrashes \/ EngineDies \/ StrayGoes)
    BY DEF PadEngineStarts, EngineStarts, ServiceStops, ServiceCrashes, UnitEnds,
           EngineAndScriptsEnd, EngineDies, DeletesNothing, EngineCrashes, StrayGoes, StrayEnds, Handles
  <2>3. ~((\E k \in Ids : AddPad(k) \/ EditPad(k) \/ DeletePad(k)) \/ ChangeBoxes \/ CancelAdd \/ Sends)
    BY DEF AddPad, EditPad, DeletePad, ChangeBoxes, CancelAdd, Sends, SetRow, pads
  <2>4. PadStep
    BY <2>1, <2>2, <2>3 DEF Next
  <2>5. QED
    BY <2>4 DEF PadStep, Joins, Answers, Added, Modified, Deleted, Finished, Handles, ScriptBoots
<1>2. /\ Overlays(Startable(Ids)) /\ engine \in {"joined", "up"} /\ rows' = rows
  BY <1>1 DEF Connected, Takes
<1>3. proc[id].state = "none"
  BY <1>2 DEF IInv, ScriptsKnown, Idle
<1>4. CASE id \in Mine /\ rows[id] > 0
  <2>1. proc'[id] = Booting
    BY <1>2, <1>4, StartsMoves
  <2>2. QED
    BY <1>2, <1>4, <2>1, Processes DEF PadKnown, Settles
<1>5. CASE ~(id \in Mine /\ rows[id] > 0)
  <2>1. proc'[id] = proc[id]
    BY <1>2, <1>5, StartsMoves
  <2>2. QED
    BY <1>2, <1>3, <1>5, <2>1 DEF PadKnown
<1>6. QED
  BY <1>4, <1>5

\* What the engine does about what it reads.
LEMMA ReadMeans ==
  ASSUME IInv, PadRanges, NEW id \in Ids
  PROVE  /\ ReadOf("modify", id) /\ id \in Mine /\ rows[id] > 0 => Settles(id)'
         /\ ReadOf("add", id) /\ id \in Mine /\ rows[id] > 0 /\ proc[id].state = "none" => Settles(id)'
         /\ ReadOf("delete", id) => proc'[id].state # "running"
<1>0. proc \in [Ids -> Process] /\ proc[id] \in Process
  BY DEF PadRanges
<1>1. ASSUME Starts({id}), id \in Mine, rows[id] > 0 PROVE Settles(id)'
  <2>1. Overlays(Startable({id})) /\ {id} \in SUBSET Ids
    BY <1>1 DEF Starts
  <2>2. proc'[id] = Booting
    BY <1>1, <2>1, StartsMoves
  <2>3. QED
    BY <2>2, Processes DEF Settles
<1>2. ASSUME proc[id].state # "none"
      PROVE  Killed(proc[id]).state \in Ends
  BY <1>0, <1>2, KilledIs DEF Process, Ends, Failed
<1>3. ASSUME ReadOf("modify", id), id \in Mine, rows[id] > 0 PROVE Settles(id)'
  <2>1. Modified /\ Head(notes).id = id
    BY <1>3 DEF ReadOf
  <2>2. CASE proc[id].state # "none"
    <3>1. proc' = [proc EXCEPT ![id] = Killed(proc[id])]
      BY <2>1, <2>2 DEF Modified
    <3>2. proc'[id] = Killed(proc[id])
      BY <1>0, <3>1
    <3>3. QED
      BY <1>2, <2>2, <3>2 DEF Settles
  <2>3. CASE proc[id].state = "none"
    <3>1. Starts({id})
      BY <2>1, <2>3 DEF Modified
    <3>2. QED
      BY <1>1, <1>3, <3>1
  <2>4. QED
    BY <2>2, <2>3
<1>4. ASSUME ReadOf("add", id), id \in Mine, rows[id] > 0, proc[id].state = "none" PROVE Settles(id)'
  <2>1. Starts({id})
    BY <1>4 DEF ReadOf, Added
  <2>2. QED
    BY <1>1, <1>4, <2>1
<1>5. ASSUME ReadOf("delete", id) PROVE proc'[id].state # "running"
  <2>1. /\ proc[id].state # "none"
        /\ proc' = [proc EXCEPT ![id] = [Killed(proc[id]) EXCEPT !.stay = TRUE]]
    BY <1>5 DEF ReadOf, Deleted
  <2>2. proc'[id] = [Killed(proc[id]) EXCEPT !.stay = TRUE]
    BY <1>0, <2>1
  <2>3. Killed(proc[id]) \in Process /\ Killed(proc[id]).state \in Ends
    BY <1>0, <1>2, <2>1, KilledIs
  <2>4. proc'[id].state = Killed(proc[id]).state
    BY <2>2, <2>3 DEF Process
  <2>5. QED
    BY <2>3, <2>4 DEF Ends, Failed
<1>6. QED
  BY <1>3, <1>4, <1>5

\* An instance is owed what its row says until it has it.
LEMMA PadsStep ==
  ASSUME IInv, Ranges, PadRanges, RowsKnown, PadsKnown, [Next]_vars
  PROVE  PadsKnown'
<1> SUFFICES ASSUME engine' = "up", ~early', ~lostPads', NEW id \in Ids
             PROVE  PadKnown(id)'
  BY DEF PadsKnown
<1>1. ~early /\ ~lostPads
  BY Flags
<1>2. CASE engine # "up"
  BY <1>1, <1>2, Startup
<1>3. CASE engine = "up"
  <2>0. /\ PadKnown(id) /\ RowKnown(id) /\ rows[id] \in Int /\ proc[id] \in Process
    BY <1>1, <1>3 DEF PadsKnown, RowsKnown, PadRanges
  <2>1. Moves(id)
    BY ScriptMoves
  <2>2. ASSUME NEW act \in {"add", "modify", "delete"}, Told(act, id)
        PROVE  Told(act, id)' \/ Cancelled(id) \/ ReadOf(act, id)
    BY <1>3, <2>2, ToldMoves
  <2>3. Killed(proc[id]).state # "running"
        /\ (proc[id].state # "none" => Killed(proc[id]).state \in Ends)
    BY <2>0, KilledIs DEF Process, Ends, Failed
  <2>4. CASE Cancelled(id)
    <3>1. rows'[id] = 0 /\ proc'[id] = proc[id] /\ proc[id].state = "none"
      BY <2>4 DEF Cancelled
    <3>2. QED
      BY <3>1 DEF PadKnown
  <2>5. CASE Kept(id) /\ ~Cancelled(id) /\ id \in Mine /\ rows[id] > 0
    <3>0. rows'[id] = rows[id] /\ rows'[id] > 0
      BY <2>5 DEF Kept
    <3>1. Settles(id) => Settles(id)'
      <4>1. Goes(id) => Settles(id)'
        <5>1. Goes(id) => proc[id].state \in Failed
          BY <1>1, <2>0, <2>5 DEF Goes, RowKnown, Ends
        <5>2. QED
          BY <5>1, Processes DEF Goes, Settles
      <4>2. Boots(id) \/ Dies(id) \/ Breaks(id) => Settles(id)'
        BY <2>3, Processes DEF Boots, Dies, Breaks, Settles, Ends, Failed
      <4>3. Comes(id) => Settles(id)'
        BY <3>0 DEF Comes, Settles, Ends, Failed
      <4>4. Settles(id) /\ Stays(id) => Settles(id)'
        BY <3>0 DEF Stays, Settles
      <4>5. ~Clears(id) /\ ~Ends1(id)
        BY <1>3 DEF Clears, Ends1
      <4>6. QED
        BY <2>1, <4>1, <4>2, <4>3, <4>4, <4>5 DEF Moves
    <3>2. Told("modify", id) => Told("modify", id)' \/ Settles(id)'
      BY <2>2, <2>5, ReadMeans
    <3>3. proc[id].state = "none" /\ Told("add", id) =>
            Settles(id)' \/ (proc'[id].state = "none" /\ Told("add", id)')
      <4>1. proc[id].state = "none" => proc'[id].state = "none" \/ Settles(id)'
        BY <2>1, Processes DEF Moves, Stays, Boots, Goes, Dies, Comes, Breaks, Clears, Ends1, Settles
      <4>2. QED
        BY <2>2, <2>5, <4>1, ReadMeans
    <3>4. QED
      BY <2>0, <2>5, <3>0, <3>1, <3>2, <3>3 DEF PadKnown
  <2>6. CASE Kept(id) /\ ~Cancelled(id) /\ ~(id \in Mine /\ rows[id] > 0)
    <3>0. rows'[id] = rows[id]
      BY <2>6 DEF Kept
    <3>1. proc'[id].state = "running" => proc[id].state = "running"
      <4>1. ~Comes(id) \/ proc'[id].state # "running"
        BY <2>0, <2>6 DEF Comes, RowKnown
      <4>2. QED
        BY <2>1, <2>3, <4>1, Processes DEF Moves, Stays, Boots, Goes, Dies, Breaks, Clears, Ends1
    <3>2. proc[id].state = "running" => Told("delete", id)
      BY <2>0, <2>6 DEF PadKnown
    <3>3. QED
      BY <2>2, <2>6, <3>0, <3>1, <3>2, ReadMeans DEF PadKnown
  <2>7. ASSUME NEW act \in {"add", "modify", "delete"}, Written(act, id)
        PROVE  PadKnown(id)'
    <3>1. /\ Told(act, id)' /\ proc'[id] = proc[id]
      BY <2>7 DEF Written, Told
    <3>2. CASE act = "add"
      <4>1. proc[id].state = "none"
        BY <2>0, <2>7, <3>2 DEF Written, RowKnown
      <4>2. QED
        BY <3>1, <3>2, <4>1 DEF PadKnown
    <3>3. CASE act = "modify"
      <4>1. rows'[id] = rows[id] + 1 /\ rows[id] > 0
        BY <2>7, <3>3 DEF Written
      <4>2. id \in Mine \/ proc[id].state = "none"
        BY <2>0 DEF RowKnown
      <4>3. QED
        BY <2>0, <3>1, <3>3, <4>1, <4>2 DEF PadKnown
    <3>4. CASE act = "delete"
      <4>1. rows'[id] = 0
        BY <2>7, <3>4 DEF Written
      <4>2. QED
        BY <3>1, <3>4, <4>1 DEF PadKnown
    <3>5. QED
      BY <3>2, <3>3, <3>4
  <2>8. QED
    BY RowMoves, <2>4, <2>5, <2>6, <2>7
<1>4. QED
  BY <1>2, <1>3
-----------------------------------------------------------------------------
(* How many notifications are under way, and how many processes are astray. *)

\* What was sent is no more than what was changed, and ripcd's one answer.
HasRU == \E i \in 1..Len(notes) : notes[i].act = "RU"
Sent  == Len(notes) + IF dialog = None THEN 0 ELSE 1
Counted ==
  /\ Sent <= changes + IF HasRU THEN 1 ELSE 0
  /\ early => changes > 0

\* An engine that is yet to start its scripts; and what may be astray before it
\* does: nothing, and afterwards one process of each instance.
Unused == \/ engine \in {"waiting", "joined"}
          \/ engine = "down" /\ ("rdpadengined" \in alive \/ ~Begun)
StraysFew ==
  /\ strays \in [Ids -> {0, 1}]
  /\ Unused => \A id \in Ids : strays[id] = 0

\* A change is counted when it is written, before it is sent.
LEMMA CountedStep ==
  ASSUME IInv, Ranges, Counted, [Next]_vars
  PROVE  Counted'
<1>0. /\ notes \in Seq(Answer) /\ (dialog = None \/ dialog \in Dialogs) /\ changes \in Nat
      /\ early \in BOOLEAN /\ Len(notes) \in Nat
  BY DEF IInv, Types, Ranges
<1>r. HasRU => Len(notes) >= 1
  BY <1>0 DEF HasRU
<1>a. ASSUME UNCHANGED <<notes, dialog, changes, early>> PROVE Counted'
  BY <1>a DEF Counted, Sent, HasRU
<1>b. ASSUME notes' = <<>>, UNCHANGED <<dialog, changes>>, early' => early PROVE Counted'
  <2>1. Len(notes') = 0 /\ ~HasRU'
    BY <1>b DEF HasRU
  <2>2. (IF dialog = None THEN 0 ELSE 1) <= changes
    BY <1>0, <1>r DEF Counted, Sent
  <2>3. QED
    BY <1>0, <1>b, <2>1, <2>2 DEF Counted, Sent
<1>c. ASSUME notes # <<>>, notes' = Tail(notes), UNCHANGED <<dialog, changes>>,
             early' = (early \/ (engine = "joined" /\ Head(notes).act # "RU"))
      PROVE  Counted'
  <2>1. /\ Len(notes') = Len(notes) - 1 /\ Head(notes) = notes[1] /\ Len(notes) > 0
        /\ \A i \in 1..Len(notes') : notes'[i] = notes[i + 1]
    BY <1>0, <1>c, AnswersKept
  <2>2. \A i \in 1..Len(notes) : i = 1 \/ (i - 1 \in 1..Len(notes') /\ notes'[i - 1] = notes[i])
    BY <1>0, <2>1
  <2>3. Head(notes).act # "RU" => (HasRU => HasRU' /\ Len(notes) >= 2)
    BY <1>0, <2>1, <2>2 DEF HasRU
  <2>4. Head(notes).act # "RU" => changes > 0
    BY <1>0, <2>1, <2>3 DEF Counted, Sent
  <2>5. Sent' <= changes' + IF HasRU' THEN 1 ELSE 0
    BY <1>0, <1>c, <2>1, <2>3 DEF Counted, Sent
  <2>6. early' => changes' > 0
    BY <1>0, <1>c, <2>4 DEF Counted
  <2>7. QED
    BY <2>5, <2>6 DEF Counted
<1>d. ASSUME NEW n \in Answer, notes' = Append(notes, n), UNCHANGED <<changes, early>>,
             \/ n.act = "RU" /\ ~HasRU /\ dialog' = dialog
             \/ n.act # "RU" /\ dialog # None /\ dialog' = None
      PROVE  Counted'
  <2>1. /\ Len(notes') = Len(notes) + 1
        /\ \A i \in 1..Len(notes) : notes'[i] = notes[i]
        /\ notes'[Len(notes) + 1] = n
    BY <1>0, <1>d, AnswersKept
  <2>2. Len(notes) + 1 \in 1..Len(notes') /\ \A i \in 1..Len(notes) : i \in 1..Len(notes')
    BY <1>0, <2>1
  <2>3. (HasRU => HasRU') /\ (n.act = "RU" => HasRU')
    BY <2>1, <2>2 DEF HasRU
  <2>4. QED
    BY <1>0, <1>d, <2>1, <2>3 DEF Counted, Sent
<1>1. CASE Starting \/ PadListens \/ Maintenance \/ Reload \/ RipcdDies \/ PaddDies \/ PadFault
           \/ UNCHANGED vars
  <2>1. UNCHANGED <<notes, dialog, changes, early>>
    BY <1>1 DEF Starting, PadListens, Maintenance, Reload, RipcdDies, PaddDies, PadFault,
                ScriptFails, pads, admin, vars
  <2>2. QED
    BY <2>1, <1>a
<1>2. CASE PadEngineStarts \/ ServiceStops \/ ServiceCrashes \/ EngineDies \/ StrayGoes
  <2>1. \/ UNCHANGED <<notes, dialog, changes, early>>
        \/ notes' = <<>> /\ UNCHANGED <<dialog, changes>> /\ (early' => early)
    BY <1>2 DEF PadEngineStarts, EngineStarts, ServiceStops, ServiceCrashes, UnitEnds,
                EngineAndScriptsEnd, EngineDies, DeletesNothing, EngineCrashes, StrayGoes, StrayEnds,
                Handles, admin
  <2>2. QED
    BY <2>1, <1>a, <1>b
<1>3. CASE PadStep
  <2>0. UNCHANGED <<dialog, changes>>
    BY <1>3 DEF PadStep, admin
  <2>1. CASE Joins \/ \E k \in Ids : Finished(k) \/ ScriptBoots(k, listens)
    BY <1>a, <2>0, <2>1 DEF Joins, Finished, Handles, ScriptBoots
  <2>2. CASE Answers
    <3>1. PICK n \in Answer : n.act = "RU" /\ notes' = Append(notes, n)
      <4>1. (CHOOSE k \in Ids : TRUE) \in Ids
        BY StationAssumption
      <4>2. [act |-> "RU", id |-> CHOOSE k \in Ids : TRUE] \in Answer
        BY <4>1 DEF Answer
      <4>3. QED
        BY <2>2, <4>2 DEF Answers
    <3>2. ~HasRU /\ early' = early
      BY <2>2 DEF Answers, HasRU
    <3>3. QED
      BY <2>0, <3>1, <3>2, <1>d
  <2>3. CASE Connected \/ Added \/ Modified \/ Deleted
    <3>1. /\ notes # <<>> /\ notes' = Tail(notes)
          /\ early' = (early \/ (engine = "joined" /\ Head(notes).act # "RU"))
      BY <2>3 DEF Connected, Added, Modified, Deleted, Takes
    <3>2. QED
      BY <2>0, <3>1, <1>c
  <2>4. QED
    BY <1>3, <2>1, <2>2, <2>3 DEF PadStep
<1>4. CASE (\E id \in Ids : AddPad(id) \/ EditPad(id) \/ DeletePad(id)) \/ ChangeBoxes
  <2>1. /\ UNCHANGED <<notes, early>> /\ changes' = changes + 1 /\ dialog = None
    BY <1>4 DEF AddPad, EditPad, DeletePad, ChangeBoxes, Writes, SetRow, pads
  <2>2. QED
    BY <1>0, <2>1 DEF Counted, Sent, HasRU
<1>5. CASE CancelAdd
  <2>1. UNCHANGED <<notes, early, changes>> /\ dialog' = None
    BY <1>5 DEF CancelAdd, SetRow
  <2>2. QED
    BY <1>0, <2>1 DEF Counted, Sent, HasRU
<1>6. CASE Sends
  <2>1. dialog # None /\ dialog \in Dialogs /\ dialog' = None /\ UNCHANGED <<changes, early>>
    BY <1>0, <1>6 DEF Sends
  <2>2. CASE notes' = notes
    BY <1>0, <2>1, <2>2 DEF Counted, Sent, HasRU
  <2>3. CASE notes' # notes
    <3>1. dialog.act # "boxes" /\ notes' = Append(notes, [act |-> dialog.act, id |-> dialog.id])
      BY <1>6, <2>3 DEF Sends, Notified, Notify
    <3>2. PICK n \in Answer : n.act # "RU" /\ n = [act |-> dialog.act, id |-> dialog.id]
      BY <2>1, <3>1 DEF Dialogs, Answer
    <3>3. notes' = Append(notes, n)
      BY <3>1, <3>2
    <3>4. QED
      BY <2>1, <3>2, <3>3, <1>d
  <2>4. QED
    BY <2>2, <2>3
<1>7. QED
  BY <1>1, <1>2, <1>3, <1>4, <1>5, <1>6 DEF Next

\* An engine that is yet to start its scripts was so before, or all have ended.
LEMMA UnusedStep ==
  ASSUME IInv, [Next]_vars, Unused'
  PROVE  Unused \/ \A id \in Ids : strays'[id] = 0
<1>a. /\ started' = started /\ alive' \subseteq alive
      /\ engine' = engine \/ (engine' \in {"waiting", "joined"} /\ engine \in {"waiting", "joined"})
      => Unused
  BY DEF Unused, Begun
<1>1. CASE ServiceStops \/ ServiceCrashes
  BY <1>1 DEF ServiceStops, ServiceCrashes, UnitEnds, EngineAndScriptsEnd
<1>2. CASE Starting
  <2>0. engine' = engine
    BY <1>2 DEF Starting, pads
  <2>1. CASE StartDaemon
    <3>1. /\ started < Len(Order) /\ started' = started + 1 /\ Len(Order) \in Nat
          /\ alive' = alive \union {Order[started']}
      BY <2>1 DEF StartDaemon
    <3>2. started' \in 1..Len(Order)
      BY <3>1 DEF IInv, Types
    <3>3. Begun => Begun'
      BY <3>1 DEF Begun, IInv, Types
    <3>4. CASE Order[started'] = "rdpadengined"
      <4>1. ASSUME NEW i \in 1..Len(Order), i <= started, Order[i] = "rdpadengined"
            PROVE  FALSE
        <5>1. i = started'
          BY <3>2, <3>4, <4>1, StartedOnce
        <5>2. QED
          BY <3>1, <4>1, <5>1 DEF IInv, Types
      <4>2. ~Begun
        BY <4>1 DEF Begun
      <4>3. QED
        BY <2>0, <4>2 DEF Unused
    <3>5. CASE Order[started'] # "rdpadengined"
      <4>1. "rdpadengined" \in alive' <=> "rdpadengined" \in alive
        BY <3>1, <3>5
      <4>2. QED
        BY <2>0, <3>3, <4>1 DEF Unused
    <3>6. QED
      BY <3>4, <3>5
  <2>2. CASE StartDropboxes(drops)
    <3>1. started = Len(Order) /\ started' = Len(Order) + 1 /\ alive' = alive
      BY <2>2 DEF StartDropboxes
    <3>2. Begun' <=> Begun
      BY <3>1 DEF Begun
    <3>3. QED
      BY <2>0, <3>1, <3>2 DEF Unused
  <2>3. CASE SystemdStarts \/ WritePid
    BY <2>0, <2>3, <1>a DEF SystemdStarts, WritePid
  <2>4. QED
    BY <1>2, <2>1, <2>2, <2>3 DEF Starting
<1>3. CASE PadEngineStarts
  BY <1>3 DEF PadEngineStarts, EngineStarts, Unused
<1>4. CASE PadListens \/ Maintenance \/ Reload \/ RipcdDies \/ PaddDies \/ PadFault
  <2>1. UNCHANGED <<started, engine>> /\ alive' \subseteq alive
    BY <1>4 DEF PadListens, Maintenance, MaintDue, MaintFails, MaintEnds, Reload, ReloadBegins,
                ReloadFails, ReloadEnds,
                RipcdDies, PaddDies, PadFault, ScriptFails, DaemonEnds, service, pads
  <2>2. QED
    BY <2>1, <1>a
<1>5. CASE PadStep
  <2>0. UNCHANGED <<started, alive>>
    BY <1>5 DEF PadStep, service
  <2>1. CASE Connected
    BY <2>1 DEF Connected, Unused
  <2>2. CASE ~Connected
    <3>1. engine' = engine \/ (engine' = "joined" /\ engine = "waiting")
      BY <1>5, <2>2 DEF PadStep, Joins, Answers, Added, Modified, Deleted, Takes, Finished, Handles,
                        ScriptBoots
    <3>2. QED
      BY <2>0, <3>1, <1>a
  <2>3. QED
    BY <2>1, <2>2
<1>6. CASE EngineDies \/ StrayGoes
  <2>1. CASE engine' = "down"
    <3>1. /\ "rdpadengined" \in alive /\ alive' = alive \ {"rdpadengined"} /\ started' = started
      BY <1>6, <2>1 DEF EngineDies, StrayGoes, DaemonEnds
    <3>2. Begun'
      BY <3>1 DEF IInv, ScriptsKnown, Begun
    <3>3. QED
      BY <2>1, <3>1, <3>2 DEF Unused
  <2>2. CASE engine' # "down"
    <3>1. UNCHANGED <<started, alive, engine>>
      BY <1>6, <2>2 DEF EngineDies, DeletesNothing, EngineCrashes, StrayGoes, StrayEnds, Handles, service
    <3>2. QED
      BY <3>1, <1>a
  <2>3. QED
    BY <2>1, <2>2
<1>7. CASE \/ \E id \in Ids : AddPad(id) \/ EditPad(id) \/ DeletePad(id)
           \/ ChangeBoxes \/ CancelAdd \/ Sends
  <2>1. UNCHANGED <<started, alive, engine>>
    BY <1>7 DEF AddPad, EditPad, DeletePad, ChangeBoxes, CancelAdd, Sends, Writes, SetRow,
                service, pads
  <2>2. QED
    BY <2>1, <1>a
<1>8. CASE UNCHANGED vars
  <2>1. UNCHANGED <<started, alive, engine>>
    BY <1>8 DEF vars
  <2>2. QED
    BY <2>1, <1>a
<1>9. QED
  BY <1>1, <1>2, <1>3, <1>4, <1>5, <1>6, <1>7, <1>8 DEF Next

\* Only the start of all scripts takes places, and only once.
LEMMA StraysStep ==
  ASSUME IInv, StraysFew, [Next]_vars
  PROVE  StraysFew'
<1>0. strays \in [Ids -> {0, 1}]
  BY DEF StraysFew
<1>1. /\ strays' \in [Ids -> {0, 1}]
      /\ engine' = "up" \/ \A id \in Ids : strays[id] = 0 => strays'[id] = 0
  <2> DEFINE Goal == /\ strays' \in [Ids -> {0, 1}]
                     /\ engine' = "up" \/ \A id \in Ids : strays[id] = 0 => strays'[id] = 0
  <2>a. ASSUME UNCHANGED strays PROVE Goal
    BY <1>0, <2>a
  <2>1. CASE ServiceStops \/ ServiceCrashes
    BY <2>1 DEF ServiceStops, ServiceCrashes, UnitEnds, EngineAndScriptsEnd
  <2>2. CASE Starting \/ PadEngineStarts \/ PadListens \/ Maintenance \/ Reload \/ RipcdDies
             \/ PaddDies \/ PadFault \/ EngineDies
             \/ (\E id \in Ids : AddPad(id) \/ EditPad(id) \/ DeletePad(id))
             \/ ChangeBoxes \/ CancelAdd \/ Sends \/ UNCHANGED vars
    <3>1. UNCHANGED strays
      BY <2>2 DEF Starting, PadEngineStarts, EngineStarts, PadListens, Maintenance, Reload, RipcdDies,
                  PaddDies, PadFault, ScriptFails, EngineDies, DeletesNothing, EngineCrashes, pads,
                  AddPad, EditPad, DeletePad, ChangeBoxes, CancelAdd, Sends, SetRow, vars
    <3>2. QED
      BY <3>1, <2>a
  <2>3. CASE PadStep
    <3>1. CASE Joins \/ Answers \/ Deleted \/ \E id \in Ids : Finished(id) \/ ScriptBoots(id, listens)
      BY <3>1, <2>a DEF Joins, Answers, Deleted, Finished, ScriptBoots
    <3>2. CASE Connected
      <4>1. /\ engine' = "up" /\ engine \in {"joined", "up"} /\ notes # <<>> /\ Head(notes).act = "RU"
        BY <3>2 DEF Connected, Takes
      <4>2. engine = "joined"
        <5>1. 1 \in 1..Len(notes) /\ Head(notes) = notes[1]
          BY <4>1, AnswersKept DEF IInv, Types
        <5>2. QED
          BY <4>1, <5>1 DEF IInv, OneAnswer
      <4>3. \A id \in Ids : strays[id] = 0
        BY <4>2 DEF StraysFew, Unused
      <4>4. strays' = [id \in Ids |-> IF id \in Startable(Ids) /\ proc[id].state # "none"
                                      THEN strays[id] + 1 ELSE strays[id]]
        BY <3>2 DEF Connected, Overlays
      <4>5. QED
        BY <4>1, <4>3, <4>4
    <3>3. CASE Added \/ Modified
      <4>1. CASE UNCHANGED strays
        BY <4>1, <2>a
      <4>2. CASE Starts({Head(notes).id}) /\ proc[Head(notes).id].state = "none"
        <5>1. strays' = [id \in Ids |-> IF id \in Startable({Head(notes).id}) /\ proc[id].state # "none"
                                        THEN strays[id] + 1 ELSE strays[id]]
          BY <4>2 DEF Starts, Overlays
        <5>2. \A id \in Ids : id \in Startable({Head(notes).id}) => id = Head(notes).id
          BY DEF Startable
        <5>3. strays' = [id \in Ids |-> strays[id]]
          BY <4>2, <5>1, <5>2
        <5>4. QED
          BY <1>0, <5>3
      <4>3. QED
        BY <3>3, <4>1, <4>2 DEF Added, Modified
    <3>4. QED
      BY <2>3, <3>1, <3>2, <3>3 DEF PadStep
  <2>4. CASE StrayGoes
    <3>1. PICK id \in Ids : strays[id] > 0 /\ strays' = [strays EXCEPT ![id] = @ - 1]
      BY <2>4 DEF StrayGoes, StrayEnds
    <3>2. QED
      BY <1>0, <3>1
  <2>5. QED
    BY <2>1, <2>2, <2>3, <2>4 DEF Next
<1>2. ASSUME Unused' PROVE \A id \in Ids : strays'[id] = 0
  <2>1. engine' # "up"
    BY <1>2 DEF Unused
  <2>2. QED
    BY <1>1, <1>2, <2>1, UnusedStep DEF StraysFew
<1>3. QED
  BY <1>1, <1>2 DEF StraysFew
-----------------------------------------------------------------------------
(* The invariant as a whole, and what it says.                             *)

Whole == /\ IInv /\ Ranges /\ PadRanges /\ BoxesKnown /\ RowsKnown /\ PadsKnown
         /\ Counted /\ StraysFew

\* At first there are rows, and nobody has read them.
LEMMA WholeInit == Init => Whole
<1> SUFFICES ASSUME Init PROVE Whole
  OBVIOUS
<1> USE DEF Init, ServiceInit, PadInit
<1>1. IInv
  BY InitialState
<1>2. Ranges
  <2>1. changes = 0 /\ faults = 0 /\ drops = 1 /\ boxes = 0 /\ started = 0 /\ alive = {}
    OBVIOUS
  <2>2. /\ changes \in 0..MaxChanges /\ faults \in 0..MaxFaults
        /\ drops \in 1..(changes + 1) /\ boxes \in 0..drops
        /\ started <= Len(Order) + 1 /\ alive \subseteq Daemons
    BY <2>1, StationAssumption
  <2>3. \A m \in Routines : kids[m] <= MaxKids
    BY StationAssumption
  <2>4. QED
    BY <2>2, <2>3 DEF Ranges
<1>3. /\ rows \in [Ids -> Int] /\ status \in [Ids -> {"N", "Y"} \union Failed]
      /\ \A id \in Ids : rows[id] \in {-1, 1} /\ proc[id] = NoProc /\ status[id] = "N"
      /\ proc \in [Ids -> Process]
  BY Processes
<1>4. PadRanges
  BY <1>3, Processes DEF PadRanges
<1>5. BoxesKnown
  BY StationAssumption DEF BoxesKnown, Writing
<1>6. ASSUME NEW id \in Ids PROVE ~Told("delete", id)
  BY DEF Told
<1>7. RowsKnown
  BY <1>3, <1>6, Processes DEF RowsKnown, RowKnown
<1>8. PadsKnown
  BY DEF PadsKnown
<1>9. Counted /\ StraysFew
  BY DEF Counted, Sent, HasRU, StraysFew
<1>10. QED
  BY <1>1, <1>2, <1>4, <1>5, <1>7, <1>8, <1>9 DEF Whole

\* Every part is kept.
LEMMA WholeStep == Whole /\ [Next]_vars => Whole'
<1> SUFFICES ASSUME Whole, [Next]_vars PROVE Whole'
  OBVIOUS
<1>0. /\ IInv /\ Ranges /\ PadRanges /\ BoxesKnown /\ RowsKnown /\ PadsKnown
      /\ Counted /\ StraysFew
  BY DEF Whole
<1>1. IInv' /\ Ranges' /\ BoxesKnown' /\ PadRanges'
  BY <1>0, EveryStep, BoxesStep, PadRangesStep
<1>2. RowsKnown'
  BY <1>0, RowStep DEF RowsKnown
<1>3. PadsKnown' /\ Counted' /\ StraysFew'
  BY <1>0, PadsStep, CountedStep, StraysStep
<1>4. QED
  BY <1>1, <1>2, <1>3 DEF Whole

\* What the invariant says of the dropboxes.
LEMMA BoxesMean == Whole => BoxesCurrent
BY StationAssumption DEF Whole, BoxesKnown, BoxesCurrent, BoxesQuiet, Writing

\* What the invariant says of the scripts.
LEMMA PadsMean == Whole => PadsCurrent
<1> SUFFICES ASSUME Whole, PadsQuiet, ~early, ~lostPads, dialog = None \/ dialog.act = "boxes",
                    NEW id \in Ids
             PROVE  IF id \in Mine /\ rows[id] > 0
                    THEN \/ proc[id].ver = rows[id] /\ status[id] = "Y"
                         \/ proc[id].state = "none" /\ status[id] \in {"killed", "refused"}
                         \/ proc[id].state = "none" /\ status[id] \in Failed /\ faults > 0
                    ELSE proc[id].state = "none"
  BY DEF PadsCurrent
<1>1. PadKnown(id) /\ RowKnown(id)
  BY DEF Whole, PadsQuiet, PadsKnown, RowsKnown
<1>2. notes = <<>> /\ proc[id].state \in {"none", "running"}
  BY DEF PadsQuiet
<1>3. \A act \in {"add", "modify", "delete"} : ~Told(act, id)
  BY <1>2 DEF Told
<1>4. CASE id \in Mine /\ rows[id] > 0
  <2>1. Settles(id)
    BY <1>1, <1>3, <1>4 DEF PadKnown
  <2>2. CASE proc[id].state = "running"
    BY <1>1, <1>4, <2>1, <2>2 DEF Settles, RowKnown, Ends, Failed
  <2>3. CASE proc[id].state = "none"
    BY <1>1, <1>4, <2>1, <2>3 DEF Settles, RowKnown, Ends, Failed
  <2>4. QED
    BY <1>2, <2>2, <2>3
<1>5. CASE ~(id \in Mine /\ rows[id] > 0)
  BY <1>1, <1>2, <1>3, <1>5 DEF PadKnown
<1>6. QED
  BY <1>4, <1>5

\* What the invariant says of the ranges.
LEMMA RangesMean == Whole => TypeOK
<1> SUFFICES ASSUME Whole PROVE TypeOK
  OBVIOUS
<1>a. IInv /\ Ranges /\ PadRanges /\ Counted /\ StraysFew
  BY DEF Whole
<1>0. /\ Len(Order) \in Nat /\ MaxChanges \in Nat /\ MaxFaults \in Nat /\ MaxKids \in Nat
      /\ changes \in 0..MaxChanges
  BY <1>a, StationAssumption DEF Ranges
<1>1. /\ svc \in {"down", "starting", "up", "reloading"}
      /\ started \in 0..(Len(Order) + 1) /\ alive \subseteq Daemons
      /\ engine \in {"down", "waiting", "joined", "up"}
  BY <1>a, <1>0 DEF IInv, Types, Ranges
<1>2. table \in [Routines -> BOOLEAN] /\ kids \in [Routines -> 0..MaxKids]
  BY <1>a, <1>0 DEF IInv, Types, Ranges
<1>3. {doubled, usr1, pid, early, listens, lostBoxes, lostPads} \subseteq BOOLEAN
  BY <1>a DEF IInv, Types, Ranges
<1>4. boxes \in 0..drops /\ drops \in 1..(MaxChanges + 1)
  BY <1>a, <1>0 DEF Ranges
<1>5. rows \in [Ids -> -1..(MaxChanges + 1)]
  <2>1. \A id \in Ids : rows[id] \in -1..(MaxChanges + 1)
    BY <1>a, <1>0 DEF PadRanges
  <2>2. QED
    BY <1>a, <2>1 DEF PadRanges
<1>6. status \in [Ids -> {"N", "Y"} \union Failed]
  BY <1>a DEF PadRanges
<1>7. proc \in [Ids -> [state : {"none", "booting", "running"} \union Ends,
                        ver : 0..(MaxChanges + 1), stay : BOOLEAN]]
  BY <1>a DEF PadRanges, Process
<1>8. strays \in [Ids -> 0..MaxChanges]
  <2>1. ASSUME NEW id \in Ids PROVE strays[id] \in 0..MaxChanges
    <3>1. CASE strays[id] = 0
      BY <1>0, <3>1
    <3>2. CASE strays[id] = 1
      <4>1. early
        BY <1>a, <3>2 DEF IInv, ScriptsKnown
      <4>2. QED
        BY <1>a, <1>0, <3>2, <4>1 DEF Counted
    <3>3. QED
      BY <1>a, <3>1, <3>2 DEF StraysFew
  <2>2. QED
    BY <1>a, <2>1 DEF StraysFew
<1>9. Len(notes) <= MaxChanges + 1
  <2>1. Len(notes) \in Nat
    BY <1>a DEF IInv, Types
  <2>2. QED
    BY <1>a, <1>0, <2>1 DEF Counted, Sent
<1>10. changes \in 0..MaxChanges /\ faults \in 0..MaxFaults
  BY <1>a DEF Ranges
<1>11. QED
  BY <1>1, <1>2, <1>3, <1>4, <1>5, <1>6, <1>7, <1>8, <1>9, <1>10 DEF TypeOK

\* The invariant holds in every state the station can be in.
THEOREM StationInvariant == Spec => []Whole
<1>1. QED
  BY WholeInit, WholeStep, PTL DEF Spec

\* The bounds are true ones: no more notifications are under way than there were
\* changes, however often the daemons die, and no script has more than one
\* process whose place was taken.
THEOREM TypeCorrect == Spec => []TypeOK
<1>1. QED
  BY StationInvariant, RangesMean, PTL

\* The dropboxes run what DROPBOXES says whenever nothing about them is under
\* way, whenever rdadmin writes and notifies and whichever daemons have ended,
\* unless a notification was lost on its way, came while ripcd was dead, before
\* the pid file was written or during a reload, or a dropbox could not be
\* started: nothing else leaves the old ones running.
THEOREM DropboxesAreCurrent == Spec => []BoxesCurrent
<1>1. QED
  BY StationInvariant, BoxesMean, PTL

\* Each instance of the station runs what its row says, or the row says how it
\* failed, and nothing else runs, whenever nothing is under way: for any
\* instances, changes and faults, whichever scripts start, are killed or fail
\* while the notifications are in the connection.
THEOREM ScriptsAreCurrent == Spec => []PadsCurrent
<1>1. QED
  BY StationInvariant, PadsMean, PTL
=============================================================================
