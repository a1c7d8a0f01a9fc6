------------------------------- MODULE Catchd -------------------------------
(***************************************************************************)
(* rdcatchd, which runs the scheduled recordings, playouts, macros,        *)
(* switches, downloads and uploads of a station.                           *)
(*                                                                         *)
(* The daemon keeps a copy of the station's rows of RECORDINGS in a vector *)
(* (catch_events), a timer for each, and one state per deck.  It gives     *)
(* commands to caed, which answers later: every answer is a handler here.  *)
(* rdcatch edits the rows meanwhile and tells the daemon by notification.  *)
(* What needs long conversions is left to a child process, which finds     *)
(* its event again by id.                                                  *)
(*                                                                         *)
(* There is one record deck and one play deck, on card 0.  Commands take   *)
(* effect in caed at once and its answers wait in order, on one socket.    *)
(***************************************************************************)
EXTENDS Integers, Sequences, SequencesExt, FiniteSets

CONSTANTS
  Ids,        \* ids of rows, in the order of the table
  Schedules,  \* the kinds of event the rows may have
  MaxStarts,  \* bound: timers that run out and RS macros
  MaxEdits,   \* bound: changes made by rdcatch and rdadmin
  MaxCrashes  \* bound: times the daemon dies

AllKinds == {"record", "import", "play", "macro", "switch", "load"}
                       \* "import": a recording that is to be normalised;
                       \* "load": a download or an upload
ASSUME CatchdAssumption ==
  /\ Ids \subseteq Nat \ {0} /\ IsFiniteSet(Ids) /\ Schedules \subseteq [Ids -> AllKinds]
  /\ MaxStarts \in Nat /\ MaxEdits \in Nat /\ MaxCrashes \in Nat

VARIABLES
  kind, once,  \* the rows' TYPE (and NORMALIZE_LEVEL) and ONE_SHOT
  row,         \* a row's version, or "new": to come, "gone": deleted by rdcatch,
               \* "purged": deleted by the daemon
  exit,        \* EXIT_CODE
  mail,        \* ids of notifications under way to the daemon
  up,          \* the daemon runs
  events,      \* catch_events
  there,       \* the decks the table DECKS has
  rdeck,       \* the record deck
  pdeck,       \* the play deck
  pool,        \* the macro event: free, whose it is, or waiting to be deleted
  child,       \* ids of batch processes under way
  port,        \* caed: the recording of the daemon
  play,        \* caed: serials of its playbacks, negative when they have ended
  answers,     \* caed's answers that are not yet read
  starts, edits, crashes,
  done,        \* one-shot events that were carried through (history)
  misfiled,    \* something else was checked in than what was recorded (history)
  overlapped,  \* a recording was started on a deck that was not free (history)
  returned,    \* a deck was given back that caed had not done with (history)
  relevelled,  \* the daemon took in, while an event was recorded, that it is
               \* (or is not) to be normalised (history)
  mute         \* events whose child was none, or ended without writing its exit
               \* code, since the daemon started (history)

rows  == <<kind, once, row, mail, edits>>
decks == <<there, rdeck, pdeck>>
caed  == <<port, play, answers>>
history == <<misfiled, overlapped, returned, relevelled, mute>>
vars  == <<rows, exit, up, events, decks, pool, child, caed, starts, crashes,
           done, history>>

Versions == {"added", "modified", "relevelled"}
                                       \* of a row that is there; "relevelled": a
                                       \* recording that was modified, to be
                                       \* normalised if it was not, and vice versa
Dynamic  == 0                          \* RDCATCHD_DYNAMIC_BASE_ID
Entries  == [id : Ids \cup {Dynamic}, ver : Versions]
Files    == Entries \cup [temp : Ids \cup {Dynamic}]  \* a cut, or a temporary recording
NoFile   == [temp |-> Dynamic]
Nothing  == [file |-> NoFile, st |-> "empty"]
Codes    == {"ok", "active", "playing", "loading", "interrupted", "busy", "error"}

ROff == [st |-> "offline", id |-> -1, cut |-> NoFile, aborting |-> FALSE,
         pending |-> FALSE]
POff == [st |-> "offline", id |-> -1, idx |-> 0, serial |-> 0]

Free == [st |-> "free", id |-> -1]

Rows == {i \in Ids : row[i] \in Versions}

\* GetEvent; 0 when there is none.
IndexOf(id) ==
  IF \E n \in DOMAIN events : events[n].id = id
  THEN CHOOSE n \in DOMAIN events : /\ events[n].id = id
                                   /\ \A m \in 1..n - 1 : events[m].id # id
  ELSE 0

Recorded(k) == k \in {"record", "import"}

\* Mutant of Normalised: an RML recording too, whose row there is not.
NormalisedToo(e) == e.id = Dynamic \/ (kind[e.id] = "import" <=> e.ver # "relevelled")

\* An entry's normalizeLevel() is set.
Normalised(e) == e.id # Dynamic /\ (kind[e.id] = "import" <=> e.ver # "relevelled")
OneShot(id) == id = Dynamic \/ id \in once

\* LoadEngine: the rows in the order of the table.
Listed(es) ==
  /\ {es[n].id : n \in DOMAIN es} = Rows
  /\ \A n \in DOMAIN es : es[n].ver = row[es[n].id]
  /\ \A m, n \in DOMAIN es : m < n => es[m].id < es[n].id
LoadEngine == {es \in [1..Cardinality(Rows) -> Entries] : Listed(es)}

\* WriteExitCode touches only a row that is still there.
Writes(f) == exit' = [i \in Ids |-> IF i \in DOMAIN f /\ i \in Rows THEN f[i]
                                                                 ELSE exit[i]]
Code(id, code) == [i \in {id} |-> code]
NoCode == [i \in {} |-> "ok"]

\* caed has nothing of the record deck, and owes it no answer.
RDeckQuiet(queue) ==
  port = Nothing /\ \A n \in DOMAIN queue : queue[n].tag \notin {"LR", "RS", "UR"}

\* Nor of the playback that the play deck was given last.
PDeckQuiet ==
  /\ pdeck.serial \notin play /\ -pdeck.serial \notin play
  /\ \A n \in DOMAIN answers :
       answers[n].tag \in {"PY", "SP", "UP"} => answers[n].serial # pdeck.serial

Init ==
  /\ kind \in Schedules /\ once \in {{}, Ids}
  /\ row \in [Ids -> {"new", "added"}] /\ Rows # {}
  /\ exit = [i \in Ids |-> "ok"] /\ mail = {}
  /\ up = TRUE /\ events \in LoadEngine
  /\ there = {"record", "play"}
  /\ rdeck = [ROff EXCEPT !.st = "idle"] /\ pdeck = [POff EXCEPT !.st = "idle"]
  /\ pool = Free /\ child = {}
  /\ port = Nothing /\ play = {} /\ answers = <<>>
  /\ starts = 0 /\ edits = 0 /\ crashes = 0
  /\ done = {} /\ misfiled = FALSE /\ overlapped = FALSE
  /\ returned = FALSE /\ relevelled = FALSE /\ mute = {}

-----------------------------------------------------------------------------
(* Events *)

\* UpdateEvent: the entry is removed, and added again at the end if its row
\* is still there.
UpdateEvent(id) ==
  events' = LET n == IndexOf(id)
                rest == IF n = 0 THEN events ELSE RemoveAt(events, n)
            IN  IF id \in Rows THEN Append(rest, [id |-> id, ver |-> row[id]])
                               ELSE rest

\* PurgeEvent, given an index: the row and the entry.
PurgesRow(n) ==
  row' = IF events[n].id \in Rows THEN [row EXCEPT ![events[n].id] = "purged"]
                                  ELSE row

\* An event was carried through: if it is a one-shot, it is purged.
Carried(n) ==
  /\ done' = IF events[n].id \in once THEN done \cup {events[n].id} ELSE done
  /\ IF OneShot(events[n].id) THEN PurgesRow(n) ELSE UNCHANGED row

\* Mutant of Left: the row is purged, the entry stays.
LeftIn(n) == events

\* The entries that are left then.
Left(n) == IF OneShot(events[n].id) THEN RemoveAt(events, n) ELSE events

\* The daemon is gone; caed drops what it had (KillSocket).
Dies ==
  /\ up' = FALSE /\ events' = <<>>
  /\ rdeck' = ROff /\ pdeck' = POff /\ pool' = Free
  /\ port' = Nothing /\ play' = {} /\ answers' = <<>>
  /\ mail' = {}

Crash ==
  /\ up /\ crashes < MaxCrashes
  /\ Dies /\ crashes' = crashes + 1
  /\ UNCHANGED <<kind, once, row, exit, edits, there, child, starts, done,
                 history>>

\* Mutant of AfterRestart: recordings are not looked at.
AfterRestartActive(code) == CASE code = "loading" -> "interrupted"
                              [] code = "playing" -> "ok"
                              [] OTHER            -> code

\* What the startup makes of an exit code.
AfterRestart(code) == CASE code \in {"active", "loading"} -> "interrupted"
                        [] code = "playing"               -> "ok"
                        [] OTHER                          -> code

\* The constructor: decks, events, and the exit codes of what was interrupted.
\* Nothing promises that it comes: rdservice starts the daemon with the others,
\* and does not notice that it died (see Station).
Restart ==
  /\ ~up /\ up' = TRUE
  /\ events' \in LoadEngine
  /\ rdeck' = [ROff EXCEPT !.st = IF "record" \in there THEN "idle" ELSE "offline"]
  /\ pdeck' = [POff EXCEPT !.st = IF "play" \in there THEN "idle" ELSE "offline"]
  /\ Writes([i \in Ids |-> AfterRestart(exit[i])])
  /\ mute' = {}
  /\ UNCHANGED <<rows, there, pool, child, caed, starts, crashes, done, misfiled,
                 overlapped, returned, relevelled>>

-----------------------------------------------------------------------------
(* rdcatch and rdadmin *)

\* rdcatch adds, modifies or deletes a row, and the notification is sent.
Edit(id, to) ==
  /\ edits < MaxEdits /\ edits' = edits + 1
  /\ \/ row[id] = "new" /\ to = "added"
     \/ row[id] = "added" /\ to = "modified"
     \/ row[id] = "added" /\ to = "relevelled" /\ Recorded(kind[id])
     \/ row[id] \in Versions /\ to = "gone"
  /\ row' = [row EXCEPT ![id] = to]
  /\ mail' = IF up THEN mail \cup {id} ELSE mail
  /\ UNCHANGED <<kind, once, exit, up, events, decks, pool, child, caed, starts,
                 crashes, done, history>>

\* notificationReceivedData
Notified(id) ==
  /\ up /\ id \in mail /\ mail' = mail \ {id}
  /\ UpdateEvent(id)
  /\ relevelled' = \/ relevelled
                   \/ /\ rdeck.id = id /\ id \in Rows
                      /\ Normalised([id |-> id, ver |-> row[id]]) # Normalised(rdeck.cut)
  /\ UNCHANGED <<kind, once, row, edits, exit, up, decks, pool, child, caed,
                 starts, crashes, done, misfiled, overlapped, returned, mute>>

\* stopRecord and stopPlay: caed's answer, if the deck was rolling.
StopRecord  == IF port.st = "rolling" THEN <<[tag |-> "SR"]>> ELSE <<>>
StopPlay(s) == IF s \in play THEN <<[tag |-> "SP", serial |-> s]>> ELSE <<>>

Stopped(p) == [p EXCEPT !.st = IF @ = "rolling" THEN "loaded" ELSE @]
Ended(s)   == IF s \in play THEN (play \ {s}) \cup {-s} ELSE play

\* A deck's state after LoadDeckList.
Reloaded(deck, exists) ==
  [deck EXCEPT !.st = IF ~exists THEN "offline"
                      ELSE IF deck.st = "recording" THEN deck.st ELSE "idle"]

\* ReloadDecksOp: LoadDeckList, after rdadmin changed which decks there are.
\* A deck that rolls is stopped if it is no more.
ReloadDecks(new) ==
  /\ up /\ edits < MaxEdits /\ edits' = edits + 1
  /\ LET r == rdeck.st = "recording" /\ "record" \notin new
         p == pdeck.st = "recording" /\ "play" \notin new
     IN  /\ port' = IF r THEN Stopped(port) ELSE port
         /\ play' = IF p THEN Ended(pdeck.serial) ELSE play
         /\ answers' = answers \o (IF r THEN StopRecord ELSE <<>>)
                             \o (IF p THEN StopPlay(pdeck.serial) ELSE <<>>)
  /\ there' = new
  /\ rdeck' = Reloaded(rdeck, "record" \in new)
  /\ pdeck' = Reloaded(pdeck, "play" \in new)
  /\ returned' = \/ returned
                 \/ "record" \in new /\ rdeck.st = "offline" /\ ~RDeckQuiet(answers)
                 \/ "play" \in new /\ pdeck.st = "offline" /\ ~PDeckQuiet
  /\ UNCHANGED <<kind, once, row, mail, exit, up, events, pool, child, starts,
                 crashes, done, misfiled, overlapped, relevelled, mute>>

-----------------------------------------------------------------------------
(* Starting *)

\* StartRecording of an entry, on an idle deck.  caed refuses to load a port
\* that is loaded, and may fail to create the file; it starts what is loaded.
\* The refusal of "RD" is six words long: rdcae takes it for "LP" of serial 0.
StartRecording(e, deck, queue) ==
  /\ \/ /\ port = Nothing
        /\ port' = [st |-> "rolling",
                    file |-> IF Normalised(e) THEN [temp |-> e.id] ELSE e]
        /\ answers' = queue \o <<[tag |-> "LR"], [tag |-> "RS"]>>
     \/ /\ port = Nothing /\ UNCHANGED port
        /\ answers' = Append(queue, [tag |-> "LP", serial |-> 0])
     \/ /\ port # Nothing
        /\ port' = [port EXCEPT !.st = "rolling"]
        /\ answers' = Append(queue, [tag |-> "RS"])
  /\ rdeck' = [deck EXCEPT !.id = e.id, !.cut = e]
  /\ overlapped' = (overlapped \/ ~RDeckQuiet(queue))

\* engineData for a recording: busy, started, or without a cut.
RecordingDue(n) ==
  LET e == events[n] IN
  /\ \/ /\ rdeck.st # "idle" /\ Writes(Code(e.id, "busy"))
        /\ UNCHANGED <<rdeck, port, answers, overlapped>>
     \/ /\ rdeck.st = "idle" /\ "record" \in there
        /\ StartRecording(e, rdeck, answers)
        /\ UNCHANGED exit
     \/ /\ rdeck.st = "idle" /\ Writes(Code(e.id, "error"))
        /\ UNCHANGED <<rdeck, port, answers, overlapped>>
  /\ UNCHANGED <<row, events, pdeck, pool, child, play, done>>

\* engineData for a playout, and StartPlayout: it keeps the entry's index.
PlayoutDue(n) ==
  LET s == pdeck.serial + 1 IN
  /\ \/ /\ pdeck.st # "idle" /\ Writes(Code(events[n].id, "busy"))
        /\ UNCHANGED <<pdeck, play, answers>>
     \/ /\ pdeck.st = "idle" /\ "play" \in there
        /\ pdeck' = [pdeck EXCEPT !.id = events[n].id, !.idx = n, !.serial = s]
        /\ \/ /\ play' = play \cup {s}
              /\ answers' = answers \o <<[tag |-> "LP", serial |-> s],
                                         [tag |-> "PY", serial |-> s]>>
           \/ /\ answers' = Append(answers, [tag |-> "LP", serial |-> s])
              /\ UNCHANGED play
        /\ UNCHANGED exit
  /\ UNCHANGED <<row, events, rdeck, pool, child, port, done, overlapped>>

\* StartMacroEvent: ExecuteMacroCart, if a macro event is free.
MacroDue(n) ==
  /\ pool' = IF pool = Free THEN [st |-> "running", id |-> events[n].id] ELSE pool
  /\ UNCHANGED <<row, exit, events, rdeck, pdeck, child, caed, done, overlapped>>

\* StartSwitchEvent
SwitchDue(n) ==
  /\ Carried(n) /\ events' = Left(n)
  /\ UNCHANGED <<exit, rdeck, pdeck, pool, child, caed, overlapped>>

\* StartDownloadEvent, StartUploadEvent
LoadDue(n) ==
  /\ Writes(Code(events[n].id, "loading"))
  /\ child' = child \cup {events[n].id}
  /\ UNCHANGED <<row, events, rdeck, pdeck, pool, caed, done, overlapped>>

\* The timer of an event runs out.
Due ==
  /\ up /\ starts < MaxStarts /\ starts' = starts + 1
  /\ \E n \in DOMAIN events :
       /\ events[n].id # Dynamic
       /\ LET k == kind[events[n].id]
          IN  \/ Recorded(k) /\ RecordingDue(n)
              \/ k = "play" /\ PlayoutDue(n)
              \/ k = "macro" /\ MacroDue(n)
              \/ k = "switch" /\ SwitchDue(n)
              \/ k = "load" /\ LoadDue(n)
  /\ UNCHANGED <<kind, once, mail, edits, up, there, crashes, misfiled, returned,
                 relevelled, mute>>

\* StartRmlRecording: a new entry at the end.  GetNextDynamicId reads far out of
\* the vector when one with a dynamic id is there already: the daemon dies.
StartRmlRecording(entries, deck, queue) ==
  LET e == [id |-> Dynamic, ver |-> "added"] IN
  IF \E n \in DOMAIN entries : entries[n].id = Dynamic
  THEN Dies /\ UNCHANGED overlapped
  ELSE /\ events' = Append(entries, e)
       /\ StartRecording(e, deck, queue)
       /\ UNCHANGED <<up, mail, pdeck, pool, play>>

\* The RS macro: started, kept for later, or refused.
RS ==
  /\ up /\ starts < MaxStarts /\ starts' = starts + 1 /\ "record" \in there
  /\ \/ /\ rdeck.st = "idle"
        /\ StartRmlRecording(events, rdeck, answers)
     \/ /\ rdeck.st # "idle" /\ rdeck.aborting /\ ~rdeck.pending
        /\ rdeck' = [rdeck EXCEPT !.pending = TRUE]
        /\ UNCHANGED <<mail, up, events, pdeck, pool, caed, overlapped>>
  /\ UNCHANGED <<kind, once, row, edits, exit, there, child, crashes, done,
                 misfiled, returned, relevelled, mute>>

\* The RR macro and StopDeckOp.
StopDeck ==
  /\ up
  /\ \/ /\ rdeck.st = "recording" /\ rdeck' = [rdeck EXCEPT !.aborting = TRUE]
        /\ port' = Stopped(port) /\ answers' = answers \o StopRecord
        /\ UNCHANGED <<pdeck, play>>
     \/ /\ pdeck.st = "recording"
        /\ play' = Ended(pdeck.serial) /\ answers' = answers \o StopPlay(pdeck.serial)
        /\ UNCHANGED <<rdeck, pdeck, port>>
  /\ UNCHANGED <<rows, exit, up, events, there, pool, child, starts, crashes,
                 done, history>>

\* The EX macro and the startup cart.
EX ==
  /\ up /\ starts < MaxStarts /\ starts' = starts + 1
  /\ pool = Free /\ pool' = [st |-> "running", id |-> -1]
  /\ UNCHANGED <<rows, exit, up, events, decks, child, caed, crashes, done,
                 history>>

-----------------------------------------------------------------------------
(* caed's answers *)

Others == <<kind, once, mail, edits, up, there, pool, starts, crashes>>

\* recordLoadedData
RecordLoaded ==
  /\ rdeck' = [rdeck EXCEPT !.st = "ready"]
  /\ answers' = Tail(answers)
  /\ UNCHANGED <<Others, row, exit, events, pdeck, child, port, play, done, history>>

\* recordingData
Recording ==
  /\ rdeck' = [rdeck EXCEPT !.st = "recording"]
  /\ IF IndexOf(rdeck.id) > 0 THEN Writes(Code(rdeck.id, "active")) ELSE UNCHANGED exit
  /\ answers' = Tail(answers)
  /\ UNCHANGED <<Others, row, events, pdeck, child, port, play, done, history>>

\* recordStoppedData: the port is unloaded.
RecordStopped ==
  /\ port' = Nothing
  /\ answers' = IF port = Nothing THEN Tail(answers)
                ELSE Append(Tail(answers), [tag |-> "UR", file |-> port.file])
  /\ UNCHANGED <<Others, row, exit, events, rdeck, pdeck, child, play, done, history>>

\* Mutants of Idle: the status, or the abort, is not reset.
IdleNot(deck) == [deck EXCEPT !.aborting = FALSE, !.pending = FALSE]
IdleAborting(deck) == [deck EXCEPT !.st = "idle", !.pending = FALSE]

Idle(deck) == [deck EXCEPT !.st = "idle", !.aborting = FALSE, !.pending = FALSE]

\* The cached RS macro is run, when the deck is idle again.
RunRmlRecordingCache(entries, deck) ==
  IF deck.pending
  THEN StartRmlRecording(entries, Idle(deck), Tail(answers))
  ELSE /\ rdeck' = Idle(deck) /\ events' = entries /\ answers' = Tail(answers)
       /\ UNCHANGED <<mail, up, pdeck, pool, port, play, overlapped>>

\* Mutant of CheckedIn: the cut of the event as it is now.
CheckedInNow(n) ==
  IF Normalised(events[n]) THEN [temp |-> rdeck.id] ELSE events[n]

\* What is taken for the recording: the temporary one that the child converts,
\* or the cut that CheckInRecording is given, catch_record_name, kept since the
\* start.  Which of the two is up to the entry as it is by now.
CheckedIn(n) ==
  IF Normalised(events[n]) THEN [temp |-> rdeck.id] ELSE rdeck.cut

\* recordUnloadedData: the recording is checked in, or handed to a child, and a
\* one-shot event is purged.  Nothing of this if the event is no more.
RecordUnloaded ==
  LET n == IndexOf(rdeck.id)
      file == Head(answers).file
  IN  /\ IF n = 0
         THEN /\ RunRmlRecordingCache(events, rdeck)
              /\ UNCHANGED <<row, exit, child, done, misfiled>>
         ELSE /\ Writes(Code(rdeck.id, IF rdeck.aborting THEN "interrupted" ELSE "ok"))
              /\ child' = IF Normalised(events[n]) THEN child \cup {rdeck.id} ELSE child
              /\ misfiled' = (misfiled \/ CheckedIn(n) # file)
              /\ Carried(n)
              /\ RunRmlRecordingCache(Left(n), [rdeck EXCEPT !.id = -1])
      /\ UNCHANGED <<kind, once, edits, there, starts, crashes, returned, relevelled, mute>>

\* playLoadedData; the serial 0 is that of every deck that was not used yet.
PlayLoaded(s) ==
  /\ pdeck' = IF pdeck.serial = s THEN [pdeck EXCEPT !.st = "ready"] ELSE pdeck
  /\ answers' = Tail(answers)
  /\ UNCHANGED <<Others, row, exit, events, rdeck, child, port, play, done, history>>

\* playingData.  Without its event, the index -1 is read: this may be the end.
Playing ==
  /\ \/ /\ IndexOf(pdeck.id) = 0 /\ Dies /\ UNCHANGED exit
     \/ /\ pdeck' = [pdeck EXCEPT !.st = "recording"]
        /\ IF IndexOf(pdeck.id) > 0 THEN Writes(Code(pdeck.id, "playing"))
                                    ELSE UNCHANGED exit
        /\ answers' = Tail(answers)
        /\ UNCHANGED <<mail, up, events, rdeck, pool, port, play>>
  /\ UNCHANGED <<kind, once, edits, there, starts, crashes, row, child, done, history>>

\* playStoppedData: the playback is unloaded.
PlayStopped(s) ==
  /\ play' = play \ {-s}
  /\ answers' = Append(Tail(answers), [tag |-> "UP", serial |-> s])
  /\ UNCHANGED <<Others, row, exit, events, rdeck, pdeck, child, port, done, history>>

\* playUnloadedData: the exit code is the event's, but what is purged is at the
\* index it had when it was started.  Past the end, this may be the end.
PlayUnloaded ==
  LET n == IndexOf(pdeck.id)
      i == pdeck.idx
  IN  /\ \/ /\ n = 0 \/ i \notin DOMAIN events
            /\ Dies /\ UNCHANGED <<row, exit, done>>
         \/ /\ IF n = 0 THEN UNCHANGED exit ELSE Writes(Code(pdeck.id, "ok"))
            /\ done' = IF n > 0 /\ pdeck.id \in once THEN done \cup {pdeck.id} ELSE done
            /\ IF i \in DOMAIN events THEN /\ events' = Left(i)
                                         /\ IF OneShot(events[i].id) THEN PurgesRow(i)
                                                                     ELSE UNCHANGED row
                                   ELSE UNCHANGED <<row, events>>
            /\ pdeck' = [pdeck EXCEPT !.st = "idle", !.id = -1, !.idx = 0]
            /\ answers' = Tail(answers)
            /\ UNCHANGED <<mail, up, rdeck, pool, port, play>>
      /\ UNCHANGED <<kind, once, edits, there, starts, crashes, child, history>>

\* GetPlayoutDeck finds no deck with the serial: two playouts were started
\* before caed answered.  The handler uses a deck outside its arrays: this may
\* be the end.
UnknownSerial(a) ==
  \/ Dies /\ UNCHANGED <<kind, once, edits, there, starts, crashes, row, exit,
                         child, done, history>>
  \/ a.tag = "SP" /\ PlayStopped(a.serial)
  \/ /\ a.tag # "SP" /\ answers' = Tail(answers)
     /\ UNCHANGED <<Others, row, exit, events, rdeck, pdeck, child, port, play,
                    done, history>>

\* RDCae::readyData reads one answer.
Answer ==
  /\ up /\ answers # <<>>
  /\ LET a == Head(answers) IN
     \/ a.tag = "LR" /\ RecordLoaded
     \/ a.tag = "RS" /\ Recording
     \/ a.tag = "SR" /\ RecordStopped
     \/ a.tag = "UR" /\ RecordUnloaded
     \/ a.tag = "LP" /\ a.serial \in {0, pdeck.serial} /\ PlayLoaded(a.serial)
     \/ a.tag = "PY" /\ a.serial = pdeck.serial /\ Playing
     \/ a.tag = "SP" /\ a.serial = pdeck.serial /\ PlayStopped(a.serial)
     \/ a.tag = "UP" /\ a.serial = pdeck.serial /\ PlayUnloaded
     \/ /\ a.tag \in {"LP", "PY", "SP", "UP"} /\ a.serial \notin {0, pdeck.serial}
        /\ UnknownSerial(a)

-----------------------------------------------------------------------------
(* caed, macros and children *)

\* A recording has its length, or another client, or a GPI, stops it.
RecordingEnds ==
  /\ port.st = "rolling"
  /\ port' = Stopped(port) /\ answers' = answers \o StopRecord
  /\ UNCHANGED <<rows, exit, up, events, decks, pool, child, play, starts, crashes,
                 done, history>>

\* A playback reaches its end.
PlaybackEnds ==
  /\ \E s \in play : /\ s > 0 /\ play' = Ended(s)
                      /\ answers' = answers \o StopPlay(s)
  /\ UNCHANGED <<rows, exit, up, events, decks, pool, child, port, starts, crashes,
                 done, history>>

\* eventFinishedData.  When the event is no more, the macro event stays taken.
EventFinished ==
  LET n == IndexOf(pool.id) IN
  /\ pool.st = "running"
  /\ pool' = [pool EXCEPT !.st = IF pool.id # -1 /\ n = 0 THEN "leaked" ELSE "done"]
  /\ IF n = 0 THEN UNCHANGED <<row, events, done>>
              ELSE Carried(n) /\ events' = Left(n)
  /\ UNCHANGED <<kind, once, mail, edits, exit, up, decks, child, caed, starts,
                 crashes, history>>

\* freeEventsData
FreeEvents ==
  /\ pool.st = "done" /\ pool' = Free
  /\ UNCHANGED <<rows, exit, up, events, decks, child, caed, starts, crashes,
                 done, history>>

\* What a child comes to; "none": it writes no exit code, for it was not forked,
\* its program was not found, it got no connection to ripcd, or it died.
Endings == {"ok", "error", "none"}

\* A child looks for its row and ends: a download or upload writes its exit
\* code, a recording is converted to the cut the row names.  Nobody looks at how
\* the child ended.
BatchEnds(id, code) ==
  /\ id \in child /\ child' = child \ {id}
  /\ IF kind[id] = "load" /\ code # "none" THEN Writes(Code(id, code)) ELSE UNCHANGED exit
  /\ mute' = IF code = "none" THEN mute \cup {id} ELSE mute
  /\ UNCHANGED <<rows, up, events, decks, pool, caed, starts, crashes, done,
                 misfiled, overlapped, returned, relevelled>>

Next ==
  \/ Crash \/ Restart
  \/ \E id \in Ids : \/ \E to \in Versions \cup {"gone"} : Edit(id, to)
                     \/ Notified(id)
                     \/ \E code \in Endings : BatchEnds(id, code)
  \/ \E new \in SUBSET {"record", "play"} : ReloadDecks(new)
  \/ Due \/ RS \/ EX \/ StopDeck
  \/ Answer
  \/ RecordingEnds \/ PlaybackEnds \/ EventFinished \/ FreeEvents

\* caed answers and ends what it started, and macros end.  Nobody needs to
\* schedule, edit or stop anything, no child needs to end, and nobody needs to
\* start the daemon again.
Fairness ==
  /\ WF_vars(Answer) /\ WF_vars(RecordingEnds) /\ WF_vars(PlaybackEnds)
  /\ WF_vars(EventFinished) /\ WF_vars(FreeEvents)
  /\ \A id \in Ids : WF_vars(Notified(id))

Spec == Init /\ [][Next]_vars
FairSpec == Spec /\ Fairness

-----------------------------------------------------------------------------
(* Properties *)

PlayTags == {"LP", "PY", "SP", "UP"}
Messages == [tag : {"LR", "RS", "SR"}] \cup [tag : {"UR"}, file : Files]
              \cup [tag : PlayTags, serial : Nat]
Waits(tag) == \E n \in DOMAIN answers : answers[n].tag = tag

TypeOK ==
  /\ kind \in Schedules /\ once \subseteq Ids
  /\ row \in [Ids -> Versions \cup {"new", "gone", "purged"}]
  /\ exit \in [Ids -> Codes] /\ mail \subseteq Ids /\ up \in BOOLEAN
  /\ events \in Seq(Entries) /\ there \subseteq {"record", "play"}
  /\ rdeck \in [st : {"offline", "idle", "ready", "recording"},
                id : Ids \cup {Dynamic, -1}, cut : Files, aborting : BOOLEAN,
                pending : BOOLEAN]
  /\ pdeck \in [st : {"offline", "idle", "ready", "recording"},
                id : Ids \cup {-1}, idx : Nat, serial : Nat]
  /\ pool \in [st : {"free", "running", "done", "leaked"}, id : Ids \cup {-1}]
  /\ child \subseteq Ids
  /\ port \in [file : Files, st : {"empty", "loaded", "rolling"}] /\ play \subseteq Int
  /\ answers \in Seq(Messages)
  /\ done \subseteq Ids /\ misfiled \in BOOLEAN
  /\ overlapped \in BOOLEAN /\ returned \in BOOLEAN /\ relevelled \in BOOLEAN
  /\ mute \subseteq Ids

\* A row says that it is being recorded, played, loaded only while this is so:
\* whatever rdcatch, caed and crashes do meanwhile, the code is changed when the
\* recording, the playback or the transfer is over.  Not so when the child that
\* transfers ends without a word: its row says "downloading" or "uploading" until
\* the daemon starts again, but no longer.  Of the decks this is so until rdadmin
\* takes one away that rolls, and gives it back before caed is done with it.
ActiveIsLive ==
  up => \A id \in Rows :
    /\ exit[id] = "loading" => id \in child \cup mute
    /\ ~returned =>
         /\ exit[id] = "active" => rdeck.id = id /\ (port # Nothing \/ Waits("UR"))
         /\ exit[id] = "playing" => pdeck.id = id /\ (play # {} \/ Waits("UP"))

\* What the daemon thinks of its record deck is behind caed by the answers under
\* way: a recording deck is loaded, and an abort or a waiting RS macro ends when
\* it is unloaded, never at a later recording.
DeckTracksPort ==
  /\ rdeck.st = "recording" => port # Nothing \/ Waits("UR")
  /\ rdeck.aborting => port # Nothing \/ Waits("UR")
  /\ rdeck.pending => rdeck.aborting

\* What was recorded is what is checked in as the cut it was recorded for, or is
\* handed to the child that converts it, also when the event got another cut, or
\* others were removed, while it was recorded: unless a start found the deck's
\* state "idle" while caed still had the deck, or the event was given a
\* normalisation level, or lost it, meanwhile.  (The child converts to the cut
\* that the row names by then.)
RightCut == misfiled => overlapped \/ relevelled

\* A one-shot event that was carried through is purged at once, and no
\* notification that was under way, no edit and no restart brings it back to the
\* schedule (playouts: see PurgedWhenDone).
OnceOnly == \A id \in done : kind[id] # "play" => id \notin Rows /\ IndexOf(id) = 0

\* "Such an event will execute just once, and then automatically delete itself":
\* the daemon deletes no event that was not carried through.
PurgedWhenDone == \A id \in Ids : row[id] = "purged" => id \in done

\* A deck that recorded or played is free again, and an RS macro that was
\* acknowledged while its recording was being aborted is run then, if the
\* daemon lives.
DecksComeBack ==
  /\ rdeck.st \in {"ready", "recording"} ~> rdeck.st \in {"idle", "offline"}
  /\ pdeck.st = "recording" ~> pdeck.st \in {"idle", "offline"}
  /\ rdeck.pending ~> (rdeck.id = Dynamic /\ ~rdeck.pending) \/ ~up
=============================================================================
