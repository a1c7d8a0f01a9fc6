# Rivolution in TLA+

Models, model checks and proofs about Rivolution (a radio automation system
descended from Rivendell): the Core Audio Engine that owns the sound cards, the
log playout machine that puts a station's log on the air, the locks that keep
its editors apart, the scheduler of recordings, the service manager with its
daemons, and the step-by-step change of a station's mode.

    cd tla
    tlc -workers 2 -config LogPlayOperator.cfg MCLogPlay    # a model check
    tlapm CaedProofs.tla                                    # the proofs

`PROJECT.json` lists components, runs, mutants, the map from definitions to
source lines, findings, hazards and theorems.

## 1. The system

| part | state it keeps | operations | speaks to | correct when |
|---|---|---|---|---|
| **caed** (`cae/`), the Core Audio Engine | connections, play sessions by (descriptor, serial), streams, capture ports, timers, ring buffers shared with the audio thread | load, unload, position, play, stop, volume, fade; load, unload, start, stop recording | clients over TCP; the sound card through JACK, ALSA or HPI | streams are never shared, lost or used by a session that is gone; a client hears of every stop |
| **RDCae** (`lib/rdcae.cpp`), caed's client library | serial number of the next load, table of channels | one call per command, one signal per answer | caed; play decks, rdcatchd, editors | answers reach the one who asked |
| **RDPlayDeck** (`lib/rdplay_deck.cpp`) | state, serial number, stop and pause flags, marker timers | setCart, play, stop, pause, reset | RDCae below; RDLogPlay, panels, cart slots above | its state is that of its session |
| **RDMacroEvent** (`lib/rdmacro_event.cpp`) | commands, the one that sleeps, sleep timer | load, exec, stop | ripcd below; RDLogPlay above | each macro ends once |
| **RDLogPlay** (`lib/rdlogplay.cpp`) | lines with status and deck, next line, deck pool, macro deck, transition, grace and back-timing timers, mode | play, stop, pause, make next, mode; edit the log | decks and macro deck; rdairplay and rdvairplayd above | lines play once, in order, on a deck of their own; no dead air |
| **RDLogLock** (`lib/rdloglock.cpp`) | GUID and time stamp in a log's row, renewal timer | try, renew, validate, clear | database; rdlogedit, voice tracker, web services, log generator | a writer holds the lock; no update is lost; a dead owner's lock expires |
| **rdcatchd** | copy of the events, one state per deck, playout index, macro event, children | start, stop and abort events at their time, by macro or GPIO; reload events and decks | RDCae, ripcd, child processes, database | exit codes are true; audio goes into its cut; one-shots run once |
| **ripcd** | connections, GPIO state, macro timers, on-air flag, switchers | run and forward macro commands, broadcast notifications | every program; the devices | what is connected is told |
| **rdservice** | table of child processes, pid file, reload flag | start daemons in order, maintenance, restart dropboxes, shut down | every daemon; systemd | the table is that of the processes; the station comes back |
| **rdpadengined**, **rdpadd** | scripts with their processes, the connection to ripcd | start, kill, restart scripts upon notifications | ripcd, scripts, database | each script runs with the configuration in its row |
| **rivapi** (Go) | intended mode, configuration files, tasks | apply a station mode, install, deploy | systemd, files, mounts, database | a mode that is reported as applied is applied |
| rdrepld, rdrssd | little | replicate, publish | database, network | - |
| editors, tools, web services, bindings | none of their own | database accessors and widgets | database | - |

Processes talk over TCP with commands that are answered by an echo ending in
`+` or `-`. Each daemon is a Qt event loop: a slot runs to its end before the
next event. The only shared memory with a second thread is between caed's loop
and the audio callback. Everything else that is shared is in the database,
which the programs use without transactions.

What is hard here, per component (each at its line under "hazards"):

- *caed*: clients die between any two commands; a stream is freed by one
  session and taken by the next while timers and the audio thread still refer
  to it; one driver per card, but `KillSocket` mixes cards up; timers that
  outlive what started them.
- *Log playout*: starting one line finishes another, which starts a third, in
  one call stack; answers of caed arrive after the deck was given to another
  line; four kinds of timers (segue markers, back-timing, hard start, grace)
  and an operator act on the same lines in any order; a fixed pool of decks.
- *Log locks*: a lock expires while its owner is inside a save, since the
  renewal timer needs the event loop; hardly any program looks at its lock
  before it writes; a save is two SQL statements.
- *rdcatchd*: the deck's status follows caed's answers, while starts come from
  timers, macros and the network; indices into a vector from which events are
  purged; an abort, a cached macro and a crash meet a recording at any point.
- *rdservice, ripcd, rdpadengined*: broadcasts to programs that come and go and
  are kept for nobody; children that die, or end while they are replaced; flags
  that are taken back after the work they stand for.
- *rivapi*: a dozen steps that can fail or be cut off half way, and two
  requests at a time that share their temporary files.

## 2. Modules

| module | models | lines |
|---|---|---|
| `Caed` | caed: connections, sessions, streams of a driver, recording | cae.cpp, cae_server.cpp, playsession.cpp, driver_jack.cpp, the serials of rdcae.cpp |
| `Sessions` | abstract: what a client may rely on | implemented by Caed |
| `LogPlay` | RDLogPlay with its decks and macro deck, and caed as they see it | rdlogplay.cpp, rdplay_deck.cpp, rdmacro_event.cpp, fields of rdlog_line.h |
| `Playlist` | abstract: what a log machine promises of its lines | implemented by LogPlay |
| `LogLock` | log locks and the seven programs that change logs | rdloglock.cpp, rdlogmodel.cpp, rdlog.cpp, rdsvc.cpp, edit_log.cpp, rdlogedit.cpp, logs.cpp |
| `Catchd` | rdcatchd, and the part of caed, rdcatch and its children it depends on | rdcatchd.cpp, catch_event.cpp, event_player.cpp, local_macros.cpp, batch.cpp |
| `Service` | rdservice | rdservice.cpp, startup.cpp, shutdown.cpp, maint_routines.cpp |
| `PadEngine` | rdpadengined and its scripts | rdpadengined.cpp, pypad.py |
| `Station` | Service and PadEngine composed with ripcd's notifications, rdpadd and rdadmin | local_notifications.cpp, and the above |
| `Mode` | rivapi's application of a station mode | mode_apply.go, mode.go, handlers_mode.go |
| `CaedProofs` | theorems about Caed; the refinement of Sessions | |
| `LogPlayProofs` | LogPlay's types, and that lines and decks agree | |
| `LogPlayAir` | what LogPlay puts on the air: no cut, no collision, no dead air, hard times | |
| `LogPlayContract` | the refinement of Playlist | |
| `LogLockProofs`, `CatchdProofs`, `StationProofs`, `ModeProofs` | theorems about these modules | |
| `MC*.tla`, `*.cfg` | values for TLC | |

A definition with a comment "Mutant of ..." is a bug that the code does not
have: its name says what would be wrong, and no action uses it. It is there to
see that the properties notice.

"History" variables record what the properties need to tell apart and no action
reads: what a client was told, whether two requests met, whether a
notification was lost.

### Caed and Sessions

Three kinds of actors interleave: the daemon's event loop, the audio callback,
the clients. State and code:

- `conn`, `serial`: `CaeServer`'s connections and the client's own counter. A
  client that connects again starts from 1 (`RDCae::connectHost`).
- `sess`: `play_sessions`, from handles (descriptor, serial) to streams.
- `ring`, `playing`, `stopping`, `eof`, `stopTimer`, `vol`, `fade`: the driver's
  arrays of the same names.
- `cb`: where the callback stands. It tests `jack_playing` (driver_jack.cpp:204),
  reads the ring (207, 222), tests `jack_eof` and the volume (250) and makes its
  two stores, without a lock. `SplitCallback = TRUE` lets the loop run between any
  two of these ("reading", "drained", "flagged"). A ring that `unloadPlayback`
  deletes (790-799) while the callback is "reading" it is read all the same: the
  daemon goes on, or dies (`CallbackCrash`).
- `owner`, `ready`, `recording`, `recTimer`: recording ports.
- `told`, `limited` and the field `by` of a fade are history.

One action per command that the daemon accepts; a refused command changes
nothing, but for `RefusedLoad` (a serial is spent) and `PlayPositionPastEnd`
(the ring is emptied). `Drop` is every way a connection ends, all through
`KillSocket`; `Restart` is a daemon that dies and comes back empty.

The JACK driver stands for all three. Drivers are tried in the order HPI, ALSA,
JACK (cae.cpp:225), so with JACK next to another driver, JACK's card is never
card 0.

Abstractions: volumes are levels 0..MaxLevel; a fade step is of any size;
positions in a file are "at the end" or not (`short`); lengths only matter as
zero or not.

`Sessions` has no streams, timers or callbacks: a session has an output of its
own and is told "playing" and "stopped" in turn. `Caed!Contract` maps its
variables to `sess`, `told` and `serial`. Its one licence, `LateStops`, is what
the split callback needs: the stop of an unloaded session may be told to the
next one on the stream.

### LogPlay and Playlist

RDLogPlay runs in one event loop, so a step is one event and every call it
makes. These calls nest: `FinishEvent` -> `StartEvent` -> a marker finishes at
once -> `FinishEvent` ... Each function is therefore an operator from machine
states (records of the variables that handlers change) to machine states, and
an action is an event's condition and `Become(result)`. `FinishEvent` gives the
cascade it starts in closed form: the lines of a cascade depend only on the
machine it starts from, since each call looks behind the lines already done.

- A line is data: kind (audio; a macro that ends at once, sleeps, or runs
  asynchronously; a marker), transition, hard time and grace, whether it fades
  on a segue, whether the cart has a playable cut (`ok`) and whether caed can
  load its file (`file`).
- A deck is a record: state, line, whether its signals are connected
  (`wired`), `stopCalled`, `pauseCalled`, the place among its segue markers,
  and `audio`, what caed knows of its session. An answer of caed counts if it
  is for the deck's present session: serial numbers are abstracted to that.
- `timer`, `grace`, `backtime` are the three Qt timers; `now` counts the hard
  start times that have passed.
- `died`: a handler reached through a `playDeck()` that is NULL. `Crash` is that
  step, and nothing comes after it: the line of a deck whose session ends has lost
  it to another deck (`CleanupEvent`, rdlogplay.cpp:2356, `Paused`), or a line that
  was started once more found no deck, and `GetNextStop` (2597) asks for it.

Two constants stand for circumstances. `Timed = "Segue"` is a station whose
`play_trans_length` is above 0, which is what the code's `transLength()+1`
makes it. `Prompt = TRUE` says that a hard start that is due is handled before
any other event; with `FALSE` another handler may come first, and can then
cancel it (see hazards).

`Playlist` knows lines and outputs only: each line is played at most once, on
an output it keeps until it is over, and left to itself the machine starts them
in the order of the log. One event of the machine may end several lines and
start several, so a step of Playlist does; its `steered` is TRUE once an
operator or a hard time chooses lines too.

### LogLock

A process is one of seven programs (`kind`) and each of its SQL statements is
an action, so that any two programs interleave between them: the log editor,
the programs that lock before they read (voice tracker, `rdclilogedit`, log
linker), a web client with a lock, a web client without, `generateLog`, the
Delete button and the `DeleteLog` call. `holder` and `age` are the row's
`LOCK_GUID` and `LOCK_DATETIME`; `own` is the `RDLogLock` object's log; `lines`
are the rows of `LOG_LINES`, as the set of saves they come from; `base` is what
the process last read or saved. The unit of time is the renewal timer, half of
`RD_LOG_LOCK_TIMEOUT`, 15 s: `Renew` is the timer, which needs the event loop
and does not come inside a save, nor, in the Delete button and `generateLog`,
between the lock and the end of the deletion (`Blocked`), which removes the voice
tracks first: `SaveTicks` bounds this too. `SaveLog` makes a log that is missing
before it looks at the lock (`Validate`); `generateLog` goes on where the voice
tracks could not be deleted (`TracksStay`). `stray` is history: the logs that were
changed by a process that did not hold their lock.

### Catchd

- `kind`, `once`, `row`, `exit`: the rows of `RECORDINGS`; `events`:
  `catch_events`, a copy in the order of loading and of later changes; `mail`:
  notifications under way.
- `rdeck`, `pdeck`: the status arrays of one record deck and one play deck, with
  the event (`id`), the index a playout remembers (`idx`), the cut name a
  recording remembers (`cut`), the abort and the cached RS macro (`pending`).
- `port`, `play`, `answers`: what caed does and its answers, in order on one
  socket. A command takes effect in caed at once, its answer is read later: all
  races between commands and answers are there.
- `pool`: the one macro event; `child`: batch processes.

`Due`, `RS`, `EX`, `StopDeck` are what starts and stops; `Answer` is
`RDCae::readyData` with the handler of each answer; `Edit`, `Notified`,
`ReloadDecks` what editors change; `Crash` and `Restart` the daemon's end and its
constructor. Where the code reads outside of a vector or an array, the daemon
may die (`Dies`) or go on. An edit leaves a row "modified", or "relevelled": the
recording is now to be normalised where it was not, or the other way round. What
the recording is written to is decided at its start by the one entry, what is
checked in or converted at its unload by the other (896, 1214). A child ends with
an exit code or with none, since it could not be forked, its program was not
found or it died (batch.cpp:57-110); one that converts does so to the cut its row
names by then.

History: a start found the deck idle that caed still had (`overlapped`); something
else was checked in than what was recorded (`misfiled`); `LoadDeckList` made a deck
idle again that was taken away while it rolled and that caed was not done with
(`returned`); the normalisation of an event was edited while it was recorded
(`relevelled`); children that ended without a word since the daemon started
(`mute`).

### Service, PadEngine, Station

`Service` is rdservice's constructor, its maintenance and its reload of the
dropboxes; `PadEngine` is rdpadengined with its scripts; `Station` composes them:
rdadmin, here or at another station, writes a row and sends a notification (two
steps), which ripcd passes on to whoever is there or which is lost, for ripcd is
dead or the multicast datagram of the other station's did not arrive (`Sends`);
systemd starts rdservice again after each end, and everything
of the unit dies with it. A script's process (`proc`) knows the version of the
row it was started with, whether it catches SIGTERM yet, and how it ended;
`strays` counts processes whose entry another has overwritten. History:
`doubled` (maintenance was started while it ran), `early` (a notification was
dealt with before ripcd's first answer), `lostBoxes`, `lostPads` (a notification
was lost or found nobody; or a dropbox could not be started, `ReloadFails`, upon
which the rest are not tried and `boxes` is 0). `MaintFails` is maintenance that
cannot be started. `pid` is TRUE when the pid file names this rdservice: after a
crash a stale one stays, which names nobody.

### Mode

A request stands at a step (`at`) of the list its mode has. rd.conf and fstab
are edited in five actions, since two requests share the staged file and since
"sudo install" is not one step: it takes the old file away, creates it anew and
copies the staged one. So they are read (`Read`, or `ReadFails` where an install
that was cut off left no file), the staged copy is emptied and filled (`Empty`,
`Fill`), and the file is taken away and copied (`Unlink`, `Install`). The comment
at mode_apply.go:299-303 has it that the staged file is "atomically" deployed;
the model follows the program. A file that was copied in part counts as empty. An
empty rd.conf has no keys to change, so that a request over it reports success
and changes nothing there.

mariadb's 50-server.cnf, /etc/exports and autofs' files are read, changed and
staged under shared names too (273-296, 549-564, 723-735). Only the one setting
of each that a mode decides is kept, in `sys`, and each is changed in one action:
requests that meet there, or an install that is cut off there, are not modelled.

`Fail` is a command that fails, a full disk, or rivapi killed with the command it
runs; it ends the request. `Reboot` ends all of them and mounts and starts what
the files say. `conf`, `fstab`, `mounts`, `sys` are the machine; `service` is what
rivendell was last started with; `intent` is mode.json. History: `overlapped`,
`crossed` (the files that two requests were at), `torn` (the files whose install
was cut off), `abroad` (a client was asked for).

## 3. Runs

| run | checks | shows |
|---|---|---|
| `caed_sessions` | TypeOK, SessionsSafe, NoOrphanStream, ImplementsSessions | with two clients, two streams, the callback split: streams are never shared, leaked, or loaded, played or unloaded by a session that is gone, and clients see what Sessions describes, also where the callback reads a deleted ring |
| `caed_ends` | StopPending, OwnersKnown, PlayEnds, LimitedRecordingEnds | what clients start ends, is reported, and dies with them |
| `logplay_any` | TypeOK, HardTimesKept, NoDeadAir, ImplementsPlaylist, NotCutOff | every log of three lines, started once |
| `logplay_operator` | DecksMatch, NoCollision, ImplementsPlaylist | an operator who does anything, four times |
| `logplay_ends` | LogRunsOut, LinesEnd, WaitEnds | every line ends, unless the program dies of a line with two decks; plain logs run on; the waiting hard start starts |
| `logplay_fade` | NeverDeadAir, violated | dead air after a segue into a marker |
| `logplay_restart` | NeverDeadAir, violated | dead air after a song was started ahead of its hard time |
| `loglock` | TypeOK, HolderWrites, OneSave, NoLostUpdate, DeadLocksExpire | two processes of any of the seven programs |
| `catchd` | TypeOK, ActiveIsLive, DeckTracksPort, RightCut, OnceOnly, DecksComeBack | events of all kinds, aborts, edits, a crash |
| `catchd_purge` | PurgedWhenDone, violated | a playout's end deletes another event |
| `mode` | TypeOK, FilesWhole, Agrees, MountedOnce | three requests, two at a time, failures and a reboot, also inside an install |
| `station` | TypeOK, TablesTrue, BoxesCurrent, PadsCurrent, StationComesBack, PadsSettle | the daemons together, with changes and faults |

**Bounds.**
*Caed*: two clients are enough for every property, which relate at most two
sessions, streams or owners; two streams let one be freed and taken again while
the other plays; two loads per process let a stream outlive its session's
successor, and a client that reconnects loads under the same serial again.
`caed_ends` has one stream and one port, contested by two clients: its
properties are about one stream's or port's life. Deadlock is checked in both;
elsewhere the bounds, or the end of a log, stop the system, and it is not.
*LogPlay*: three lines allow a line that plays, one that follows and one that
is started behind it; as many decks as lines, so that a deck that is lost shows
up in `DecksMatch`, or as an output that is taken twice in `Playlist`, long
before the pool is empty. `logplay_any` tries every
kind of line without a hard time in each of the three places, and songs and
markers with all combinations of two hard times. The operator has one command
to start the log, and up to four where the operator is the question.
*LogLock*: two processes, one log and the name of another that can be created
or saved as; `Timeout = 2` and `SaveTicks = 1` are the code's 30 s lock, 15 s
renewal and saves of less than that; two saves are enough for one to
overwrite the other.
*Catchd*: two events with every combination of kinds that meet on a deck, on an
index or on the macro event; two starts, so that one meets the other; one edit
or change of the decks, one crash. The starts of the cached macro are not
counted. A deck that is given back takes two edits, so that `ActiveIsLive` is
checked here without `returned`; the theorem covers any number.
*Mode*: three requests, so that one follows two that met or failed; two at a
time; two failures and one reboot; two servers to be a client of. A third
request is only explored if the first two did not meet (`Explored`): afterwards
only `FilesWhole` and `MountedOnce` say anything, and the theorems cover them.
Tabs are symmetric.
*Station*: the daemons the others talk to (`ripcd`, `rdpadd`, `rdpadengined`),
one instance here and one elsewhere, two changes, one fault, two processes of one
maintenance routine at a time. The other daemons only come between them in `Order`.

**Fairness.**
*Caed*: the callback is called as long as the card runs, files are finite, so
a playing stream that is filled meets its end (`MeetsEnd`), and its ring then
runs dry in one call or another (strong fairness of `CallbackDrain`), the meter timer
calls `processBuffers`, and the periodic record timer fires. Nothing is assumed
of clients.
*LogPlay*: the event loop does not sleep while an answer or a timer is pending;
caed answers and audio comes to its end. This is weak fairness of `Handler \/ Crash`,
with its ENABLED written out as `Pending` (TLC would have to evaluate the
cascades twice otherwise). Nothing is assumed of the operator or the clock.
*LogLock*: time passes, renewal timers fire, a process inside a save goes on.
Nobody needs to begin or to end anything.
*Catchd*: caed answers and ends what it started, macros end, notifications
arrive. No child needs to end, nobody needs to schedule, edit or stop anything,
and nothing starts the daemon again.
*Station*: rdservice's constructor, the reload and the engine's and rdpadd's
event loops go on; systemd has `Restart=always`. Nothing is assumed of rdadmin,
of maintenance or of scripts that end.

**What holds.** Sessions never share a stream; a reconnecting client never
meets its own old session; a stop always reaches the client; recordings never
outlive their owner. In playout, lines and decks agree, whatever cascade
an event sets off, and a line that was started is not started again, as long as
no hard start time starts lines (with hard start times it takes a fourth line
to break this: finding 3); in logs without hard times a line that does not fade
is cut off only by the operator;
fading lines do not play over each other. A log's writer holds its lock though
it never looks, because saves are shorter than locks. What rdcatchd reports as
under way is, also after a crash, where its children write their exit codes. A
mode that was reported as applied is, in all that the mode of a station says of
rd.conf's connection, the mount, fstab, mariadb, the exports and what rivendell
was started with, also when the attempts before it broke off anywhere but inside
an install of rd.conf. rdservice comes back, and scripts and dropboxes run what
the database says, if the notifications arrived.

**Where properties hold only in part**, and say so:

- `SessionsSafe` is about the event loop: the callback may read the ring of a
  stream that was unloaded since it tested `jack_playing`, and the daemon may die
  of it. No property says otherwise.
- `StopPending` holds if the callback's two stores are one; split, the store
  that comes late can hit the next session of the stream. `NoOrphanStream`
  needs one driver for all cards: `KillSocket` asks the driver of card 0.
- `NoDeadAir` and `LogRunsOut` hold in `Plain` logs: nothing fades on a segue,
  or nothing follows by a segue, and no macro runs. `HardTimesKept` holds
  without grace periods and with `Prompt`. A line may still pass over the
  waiting hard start: `WaitEnds` only says that this one starts in the end.
  `LinesEnd` is checked where caed can load every file, and excepts the death of
  the program: a line that waits for its grace timer can be started before by the
  end of what plays, then a second time by the timer; when the operator stops it,
  the first deck's end frees the second and the other's end finds no deck.
  `DecksMatch` says that without hard times that start lines nothing dies.
- `HolderWrites` excepts `DeleteLog` and a Save As, `OneSave` the log generator,
  `NoLostUpdate` the log editor, which reads before it locks.
- `RightCut` excepts recordings that met another start on their deck
  (`overlapped`), and those whose normalisation was edited meanwhile
  (`relevelled`): there a cut is checked in that got no audio, or a child is sent
  to convert a file that is not there. `OnceOnly` excepts playouts, for which the
  opposite is a finding. `ActiveIsLive` excepts children that ended without
  writing their exit code: the row says "downloading" until the daemon starts
  again. It says nothing of the decks once one was given back too early
  (`returned`): its codes then outlive what they are about.
- `FilesWhole`, `Agrees`, `MountedOnce` except requests that met, and the first two
  an install that was cut off, which can leave rd.conf or fstab missing or empty.
  `Agrees` does not say that everything is local again after a client:
  rd.conf keeps the remote database's password, the directories stay links to the
  remote ones, autofs keeps its maps (`abroad`), though store/mode.go:13-14
  promises "everything local".
- `TablesTrue`, `BoxesCurrent`, `PadsCurrent` except overlapping maintenance,
  notifications before ripcd's first answer, notifications that were lost or
  found nobody, and dropboxes that could not be started. These exceptions are
  real losses in the code; nothing repairs them until the next change or restart.

## 4. Findings

Quoted, with lines, in `PROJECT.json`:

1. `logplay_fade`: a song that fades, followed by a segue into a marker: dead
   air. `FinishEvent` trusts the song's "natural completion" to call it again,
   and a song that fades does not complete that way.
2. `catchd_purge`: the end of a one-shot playout purges whatever stands at the
   index it remembered when it started; an event that was edited meanwhile
   moves the indices. The event that was played stays, another is deleted from
   the database.
3. `logplay_restart`: a song with a hard start time, behind a cart without a cut,
   starts early; `FinishEvent` then does not set the transition timer anew, since
   it compares the timer's line with the cart it skipped. When the time comes,
   the song is started a second time on a second deck; the end of the first
   frees the second, the first is lost, and the next song never begins.

## 5. Proofs

All for every value of the constants, from the modules' named assumptions alone
(constants have their types, the "nothing" values are not values) unless said
otherwise.

**CaedProofs.** `TypeCorrect`: `Spec => []TypeOK`. `SessionSafety`:
`Spec => []IInv`, the inductive invariant: `TypeOK`, `SessionsApart`,
`SerialFresh`, `StreamsAllocated`, `OwnersLive` and `RecordingOwned`. They need
each other: two sessions stay apart because a new one takes a free stream, which
no session has because every session's stream is allocated, which stays so
because the session that unloads a stream is the only one on it; a load does not
overwrite a session because serials are fresh, also after a reconnection
because a closed descriptor has no sessions (`OwnersLive`). `SessionsAreSafe`
and `OwnersAreKnown` are its parts. `OneDriverNoOrphan`: if one driver has every
card, `[]NoOrphanStream`. These cover the split callback as well, with its read of a
ring that was deleted and the restart that may follow.

`Implementation`: `Spec => ImplementsSessions`. Initial states map to initial
states; every action maps to a step of Sessions or stutters. The mapping needs
`HeardOf` besides `IInv`: what a client was told is behind what its stream does,
so that a stop is only ever told to a session that was told it plays.
`StopsPend`: `~SplitCallback => (Spec => []StopPending)`.

**LogPlayProofs.** `TypeCorrect`: `Spec => []TypeOK`. Handlers hand machine
states to each other in which the next line may stand behind the end of the log
(`MachineType`), and leave it inside (`Settled`); there is one lemma per
function of the code, so that a cascade is as long as it is. `DecksAgree`:
`NoHardStarts => (Spec => []DecksMatch)`, where `NoHardStarts` says that lines
with a hard start time are only made the next ones. `DecksMatch` is not
inductive: that a line which runs has a deck does not say that the deck's line
is this one for every deck that is connected, which an answer of caed needs to
find the right line. `Sound` adds that: a line with a deck is an audio line that
runs and that the deck plays (`Paired`), a busy deck is the deck of its line and
only busy decks are connected (`Claimed`), a running audio line has a playable cut
and a deck (`Served`), and the sleeping macro is no audio line (`Aside`). It is
preserved by each function where the code calls it: cleaning up a line needs a
deck to free, starting one needs a line that waits. That no handler reaches for a
deck that is not there (`~Crash`) follows from `Served` and `Claimed`. That the line
waits is what `transTimerData` does not look at, and why hard start times are excluded:
`logplay_restart` shows the invariant broken there.

**LogPlayAir.** Four theorems; each has an invariant on top of `Sound`, and a
relation between two machine states that every function of the code keeps and
that is transitive, so that a cascade of any length keeps it.

- `PlaysToItsEnd`: `Spec => NotCutOff`, from no hypothesis. `Plays(w, v)`: a deck
  that a handler tells to stop played a line that fades. It needs that a deck in
  state Playing plays a line in status Playing (`Airing`): what a start
  interrupts is chosen by the lines' status, and stopped by the decks'.
- `NeverCollide`: `NoHardStarts`, no Manual mode (`NoManual`; there lines are
  played over each other on purpose) imply `Spec => []NoCollision`. A start
  leaves no other line playing that fades (`Faded`), and one function starts one
  line (`AtMost`); one after the other, that makes `Single`.
- `GoesOnAir`: `Spec => []NoDeadAir`, from no hypothesis: `NoDeadAir` itself says
  `Plain`, and up to the operator's second command. The invariant `OnAir`: no
  operator's hand is on any line or deck (`Clean`), and as soon as one line was
  played something runs or the log stands where it may (`Live`). That
  `FinishEvent` leaves it so is the longest lemma (`FinishLive`): the lines that
  a cascade starts are found from the set of those that wait, and the last of
  them runs, or there is no line behind it that could.
- `StartsOnTime`: hard starts come first when due (`Prompt`), in Auto
  (`AutoOnly`), no two at the same time and none waiting for what plays
  (`TimesApart`) imply `Spec /\ [](FreeDecks(Machine) # {}) => []HardTimesKept`:
  a start that finds every deck taken is dropped (rdlogplay.cpp:2317), and is
  not what this is about. `InTime` says that the one transition timer runs no
  later than the earliest line that waits (`Armed`), and is for the line whose
  time is now. Each function either leaves the timer or sets it anew (`Later`).
  The hypotheses are those of the run's logs.

**LogPlayContract.** `LogPlayed`: `NoHardStarts => (Spec => ImplementsPlaylist)`.
`Moves(b, w, v)` says what a handler may do to the lines between two machine
states: none goes back, one that runs on keeps its deck, and, where nobody steers
(`b`), the lines that start stand behind all that have started. It is transitive,
so each function of the code has one lemma, and a cascade is a chain of them.
Starting in order is no property of one function: that the line found by
`GetNextPlayable` is behind all that have started follows from `Behind` (no line
behind the next one has started), which each start must re-establish, and from
`Begun` (the line of the sleeping macro has started), without which the end of a
macro could finish a line that never ran. The operator's first command may choose
any line, since before it none has started (`Idle`). A step of LogPlay is then the
event of Playlist that starts and ends the lines whose status says so.

**LogLockProofs.** `HoldersWrite`, `SavesAreWhole`, `UpdatesAreKept`: the three
action properties of the run, for any number of logs, processes and saves, under
`SavesAreShort` (a save takes at most one renewal period, and a lock lives
longer). The invariant says for each process, at each of its places in a save,
that it still holds the lock, because the lock's age is at most the time since
the save began plus one renewal, and that its log's lines are what it read. The
steps of one process are proved against the frame of another's. `TypeCorrect`:
`Spec => []TypeOK`, without `SavesAreShort`; the bounds are part of it, so it
counts the saves under way against `MaxSaves`.

**CatchdProofs.** `DeckBehindCaed`: `Spec => []DeckTracksPort`.
`CheckedInAsItsCut`: `Spec => []RightCut`. Both are about the queue of answers
that are not yet read, so the invariant is too: every start that is reported is
of a port that is loaded, or whose unload is reported behind it (`Follows`); the
deck's flags are only set while the port is loaded or an unload is owed
(`Tracks`); nothing is owed to a dead daemon (`Dropped`); and as long as no
start met a recording, one unload at most is owed, of the file that the deck's
cut calls for (`OneRecording`). What is taken for the recording is then what
caed recorded because the entry that decides at the unload is normalised as the
one it was started for, as long as nobody edited that (`Levelled`). Lemmas say
how each of these survives an answer that is added or read; the actions are then
of four kinds: those that are nothing to the record deck, a start, the end of a
recording, and death.

`TypeCorrect`: `Spec => []TypeOK`. `CarriedOnce`: `Spec => []OnceOnly`.
`CodesAreLive`: `Spec => []ActiveIsLive`. Their invariant `Whole` has a part for
each thing that an exit code may be about. A transfer's code is of a child that
runs or of one that is in `mute` (`Loads`). `Schedule`: no row has two entries, a
row without one is about to be reported (`Unentered`), and what was carried
through has neither row nor entry nor a notification that could make one
(`Finished`). `Recorder`: the record deck rests, opens or rolls; which of these
it is can be read from the queue of answers (`Opens`, `Rolls`, `Closes`), and a
row is "active" only for the entry of a deck that rolls. `Player`: what is told
of starts of playbacks is of serials that caed has, or whose unload is behind
(`Told`), and a row is "playing" only for a playback that flies (`Flies`). Since
answers are read in the order in which caed gave them, an answer that is late
finds the deck in the part that the queue still describes.

**StationProofs.** `TablesAreTrue`: `Spec => []TablesTrue`. The invariant says
that a routine has one process at most until it is doubled (`KidsKnown`), that
ripcd's first answer comes once and before the engine is up (`OneAnswer`), and
that an engine which has not started its scripts has none, because each
rdservice starts it once (`ScriptsKnown`): so none takes another's place.

`StationInvariant`: `Spec => []Whole`, and from it `TypeCorrect`,
`DropboxesAreCurrent` (`[]BoxesCurrent`) and `ScriptsAreCurrent`
(`[]PadsCurrent`). The argument is that a change is always somewhere on its way:
dropboxes that run something else than the table says are in rdadmin's hands
that has yet to notify, or behind a signal that has come and not been served
(`BoxesKnown`); a script that runs something else than its row says is about to
be told of, by rdadmin or by a notification in the connection (`PadKnown`,
`Told`), or has ended and will be started anew or have its row say how. Eight
kinds of steps of one script (`Moves`) stand for the actions there. `Counted` is
what bounds the connection: a notification was a change.

**ModeProofs.** `FilesAreWhole`: `Spec => []FilesWhole`. `OneMount`: `Spec =>
[]MountedOnce`. A file is whole because the staged copy that will be installed
is, unless another request is at the same file, or the file is gone while it is
copied; so the invariant (`ConfWhole`, `FstabWhole`) follows the staged copies
through the five phases of each request, a request that ends while it copies
leaves `torn` behind, `StoreBare` says that who is about to mount has found
nothing mounted, and `Placed` that a request stands at a step of its own mode.

`TypeCorrect`: `Spec => []TypeOK`; that no more is mounted than was asked for
needs the requests that are still to mount (`Room`). `AppliedIsSo`: `Spec =>
[]Agrees`, which says of the password, the directories and autofs only what
holds until a client is asked for (`abroad`). As long as one request is under
way at a time, it has done what its steps so far do, mode by mode (`LocalBy`,
`ClientBy`), and edits copies of the files as they are (`Copies`); nothing that
an earlier request left, where it failed or the machine was rebooted, survives
the steps of the next one, but for a lost rd.conf. What stands after the last
step is what it asked for (`Stands`), and a reboot restores exactly this.

Every invariant that a passing run checks is thus a theorem, and so is every
action property, and both refinements.

Only model-checked:

- liveness, which needs fairness and ENABLED and is out of the prover's reach:
  `PlayEnds`, `LimitedRecordingEnds`, `LogRunsOut`, `LinesEnd`, `WaitEnds`,
  `DeadLocksExpire`, `DecksComeBack`, `StationComesBack`, `PadsSettle`;
- what the theorems' hypotheses leave out and a run does not: the refinement of
  Playlist in logs where a hard start time starts a line (three lines; with four
  it fails, finding 3).

## 6. Not modelled, and the plan

Left out for good: user interfaces, widgets, the database schema and its
versions, file formats, device protocols of switchers, what PAD updates and
feeds contain, documentation, packaging. Together they are nearly all of the
repository's lines: most of its C++ is accessors of database rows, dialogs and
schema changes, each a straight line from one query to the next, without state
that another actor could change between two steps. Each is a component in
`PROJECT.json` with its reason.

Hazards that were met and that no model covers yet, besides those listed in
`PROJECT.json`:

- `cae/driver_jack.cpp:1147`: the fade increment is an integer quotient and is 0
  for a slow fade.
- `lib/rdcae.cpp:506`: a comma in `DispatchCommand()` takes every answer of six
  words for that of a load. (Catchd models what this does to it.)
- `lib/rdripc.cpp:133`: between the loss of the connection to ripcd and the next
  attempt, a program sends its notifications nowhere (Station knows ripcd dead or
  alive only).
- `rdpadengined/rdpadengined.cpp:270`: a script whose program cannot be run leaves
  an entry without a process, and a row whose status `instanceStartedData` never
  set; PadEngine writes the status in the step that starts the script.
- `rdlogedit/edit_log.cpp:961`: the voice tracks of the lines that a save removes
  are deleted before it.
- `lib/rdlogplay.cpp:1607`: a back-timed segue keeps the outgoing line's id for
  seconds; `:1465`: a hard start in its grace period leaves the transition timer
  unarmed; `:1511`: the grace timer can expire between two answers; `:1728`:
  `macroFinishedData` calls `FinishEvent` before its own line is finished.
- `lib/rdplay_deck.cpp:362`: `reset()` leaves the serial number behind.
- `web/rdxport/logs.cpp:75`: `DeleteLog` ignores locks; `lib/rdsvc.cpp:920`:
  `generateLog` locks the log after it has made it. (Both are in LogLock, and
  excepted from its properties.)
- `rdcatchd/rdcatchd.cpp:966`, `:1227`, `:1063`, `:2192` and `batch.cpp:163`:
  answers with unknown serials, several decks, ids that are looked up again.
- `lib/rdlogplay.cpp:889`: the operations that edit a running log. `insert()`
  moves the macro deck's line on wherever it inserts (:860, :914), `move()`
  corrects the lines of decks one short (`id>to_line`, :1049), passes over paused
  lines, and takes every running line for one with a deck (:1042).
- `rivapi/store/mode_apply.go:71`: back in standalone mode, rd.conf keeps the
  remote database's password and the links to the remote staging directories
  stay, though `store/mode.go:14` promises "everything local". Mode does this, and
  `Agrees` excepts it.
- `rivapi/store/mode_apply.go:741`, `:467`, `:418`: links, bind mounts and
  unmounts whose errors are not looked at, so that of the directories a few may
  become links; `ensureVarSndLocal` unmounts whatever is mounted on /var/snd; a
  mode.json that cannot be saved. In Mode these steps do all of their work, and
  saving succeeds.
- `systemd/rivendell.service.in:17`: systemd gives up after too many starts in a
  row; `utils/rdmaint/rdmaint.cpp:118`: two stations do the system maintenance
  at a time; `rdservice/startup.cpp:55`: a daemon that dies is never replaced.

Next, in this order:

1. `LogEdit`: insert, remove, move and refresh under a running log, where line
   numbers shift below decks and timers (rdlogplay.cpp:889).
2. `CaeClient`: the channel table and the reply parser of RDCae, between Caed
   and the decks.
3. `Ripcd`: connections, on-air flag, GPIO distribution, macro forwarding.
4. Several decks of one kind and GPI windows in Catchd.
5. Theorems: LogPlay under hard start times, for logs in which a cart without
   a cut does not come before one; the safety parts of the liveness properties.
