-------------------------------- MODULE Caed --------------------------------
(***************************************************************************)
(* The Core Audio Engine daemon: client connections, play sessions, the    *)
(* pool of playback streams of a sound driver and its recording ports.     *)
(*                                                                         *)
(* Three things run: the daemon's event loop (one command, timer or        *)
(* disconnection at a time), the driver's audio callback in a thread of    *)
(* its own, and the clients.  A command that the daemon refuses ("-")      *)
(* changes nothing here, so it is a stuttering step and has no action.     *)
(* Streams follow the JACK driver; the other drivers keep the same         *)
(* per-stream flags.                                                       *)
(***************************************************************************)
EXTENDS Integers, FiniteSets

CONSTANTS
  Conns,          \* socket descriptors
  Cards,          \* audio adapters
  Drivers,        \* sound drivers
  DriverOf,       \* the driver that owns each card (Driver::hasCard)
  FirstCard,      \* card 0
  NStreams,       \* RD_MAX_STREAMS
  Ports,          \* capture ports of a card
  MaxSerial,      \* bound: loads by one client process
  MaxLevel,       \* volumes are 0 (muted, -100 dB) .. MaxLevel (full)
  FadeTargets,    \* levels a client may fade to
  Lengths,        \* play and record lengths in use: 0 is "no limit"
  SplitCallback,  \* TRUE: the event loop may run between the callback's accesses
  NoStream, NoOwner, NoFade

ASSUME CaedAssumption ==
  /\ FirstCard \in Cards
  /\ DriverOf \in [Cards -> Drivers]
  /\ NStreams \in Nat
  /\ MaxSerial \in Nat
  /\ MaxLevel \in Nat \ {0}
  /\ FadeTargets \subseteq 0..MaxLevel
  /\ Lengths \subseteq Nat
  /\ SplitCallback \in BOOLEAN
  /\ NoStream \notin Cards \X (0..NStreams - 1)
  /\ NoOwner \notin Conns
  /\ NoFade \notin [up : BOOLEAN, to : 0..MaxLevel,
                 by : Conns \X (1..MaxSerial)]

Levels  == 0..MaxLevel
Streams == Cards \X (0..NStreams - 1)   \* an output stream of a card
Inputs  == Cards \X Ports               \* a capture port of a card
Handles == Conns \X (1..MaxSerial)      \* PlaySession::makeHandle(fd, serial)
Fades   == [up : BOOLEAN, to : Levels, by : Handles]

VARIABLES
  conn,       \* each descriptor: "closed", "open" or "auth"
  serial,     \* the next serial number of the client on that descriptor
  sess,       \* play_sessions: the stream of each handle, or NoStream
  told,       \* what the client last heard of each handle (history)
  ring,       \* jack_play_ring # NULL: the stream is allocated
  playing,    \* jack_playing
  stopping,   \* jack_stopping
  eof,        \* jack_eof
  stopTimer,  \* jack_stop_timer is running
  vol,        \* jack_output_volume on the session's port
  fade,       \* jack_fade_timer: NoFade, or the fade under way (by: history)
  cb,         \* the audio callback's place in the stream: idle, reading, drained,
              \* flagged
  owner,      \* record_owner
  ready,      \* jack_ready
  recording,  \* jack_recording
  limited,    \* the length of the recording under way is not zero (history)
  recTimer    \* jack_record_timer is running

connVars   == <<conn, serial>>
sessVars   == <<sess, told>>
streamVars == <<ring, playing, stopping, eof, stopTimer, cb>>
volVars    == <<vol, fade>>
recVars    == <<owner, ready, recording, limited, recTimer>>
playVars   == <<sessVars, streamVars, volVars>>
vars       == <<connVars, playVars, recVars>>

Live(c)    == conn[c] = "auth"
Loaded(h)  == sess[h] # NoStream
SameDriver(a, b) == DriverOf[a] = DriverOf[b]

\* playStateChanged -> statePlayUpdate: the session on stream o hears of it.
Report(o, what) == [h \in Handles |-> IF sess[h] = o THEN what ELSE told[h]]

-----------------------------------------------------------------------------
Closed == [c \in Conns |-> "closed"]
Ones   == [c \in Conns |-> 1]
NoSess == [h \in Handles |-> NoStream]
Untold == [h \in Handles |-> "none"]
Off    == [o \in Streams |-> FALSE]
Muted  == [o \in Streams |-> 0]
Steady == [o \in Streams |-> NoFade]
AllIdle == [o \in Streams |-> "idle"]
Unowned == [i \in Inputs |-> NoOwner]
OffIn  == [i \in Inputs |-> FALSE]

Init ==
  /\ conn = Closed /\ serial = Ones /\ sess = NoSess /\ told = Untold
  /\ ring = Off /\ playing = Off /\ stopping = Off /\ eof = Off /\ stopTimer = Off
  /\ vol = Muted /\ fade = Steady /\ cb = AllIdle
  /\ owner = Unowned /\ ready = OffIn /\ recording = OffIn
  /\ limited = OffIn /\ recTimer = OffIn

\* The daemon dies and is started again with nothing: Init, in the next state.
Restart ==
  /\ conn' = Closed /\ serial' = Ones /\ sess' = NoSess /\ told' = Untold
  /\ ring' = Off /\ playing' = Off /\ stopping' = Off /\ eof' = Off /\ stopTimer' = Off
  /\ vol' = Muted /\ fade' = Steady /\ cb' = AllIdle
  /\ owner' = Unowned /\ ready' = OffIn /\ recording' = OffIn
  /\ limited' = OffIn /\ recTimer' = OffIn

-----------------------------------------------------------------------------
(* Connections *)

\* Mutant of Connect: serial numbers from 0.
ConnectFromZero(c) ==
  /\ conn[c] = "closed"
  /\ conn' = [conn EXCEPT ![c] = "open"]
  /\ serial' = [serial EXCEPT ![c] = 0]
  /\ UNCHANGED <<playVars, recVars>>

\* A client process connects; its RDCae numbers its loads from 1.
Connect(c) ==
  /\ conn[c] = "closed"
  /\ conn' = [conn EXCEPT ![c] = "open"]
  /\ serial' = [serial EXCEPT ![c] = 1]
  /\ UNCHANGED <<playVars, recVars>>

\* "PW" with the right password.
Authenticate(c) ==
  /\ conn[c] # "closed"
  /\ conn' = [conn EXCEPT ![c] = "auth"]
  /\ UNCHANGED <<serial, playVars, recVars>>

\* Mutant of KillFrees: sessions are erased, their streams never unloaded.
KillFreesNothing(c) == {}

\* The streams KillSocket really gives back: it asks the driver of the card
\* its outer loop stands on, card 0, to unload every session it finds.
KillFrees(c) ==
  {o \in Streams : /\ \E h \in Handles : h[1] = c /\ sess[h] = o
                   /\ SameDriver(o[1], FirstCard)}

\* Mutant of Drop: the connection is removed without KillSocket.
DropQuietly(c) ==
  /\ conn[c] # "closed"
  /\ conn' = [conn EXCEPT ![c] = "closed"]
  /\ UNCHANGED <<serial, playVars, recVars>>

\* The connection goes away: "DC", a wrong password, a command before "PW",
\* or the client's death.  All of them reach KillSocket.
Drop(c) ==
  /\ conn[c] # "closed"
  /\ conn' = [conn EXCEPT ![c] = "closed"]
  /\ sess' = [h \in Handles |-> IF h[1] = c THEN NoStream ELSE sess[h]]
  /\ told' = [h \in Handles |-> IF h[1] = c THEN "none" ELSE told[h]]
  /\ ring' = [o \in Streams |-> ring[o] /\ o \notin KillFrees(c)]
  /\ playing' = [o \in Streams |-> playing[o] /\ o \notin KillFrees(c)]
  /\ owner' = [i \in Inputs |-> IF owner[i] = c THEN NoOwner ELSE owner[i]]
  /\ ready' = [i \in Inputs |-> ready[i] /\ owner[i] # c]
  /\ recording' = [i \in Inputs |-> recording[i] /\ owner[i] # c]
  /\ UNCHANGED <<serial, stopping, eof, stopTimer, cb, volVars, limited, recTimer>>

-----------------------------------------------------------------------------
(* Playback commands *)

\* FillJackOutputStream came to the end of the file: it also stops the timer.
Fill(o, ended) ==
  /\ eof' = [eof EXCEPT ![o] = ended]
  /\ stopTimer' = [stopTimer EXCEPT ![o] = @ /\ ~ended]

\* Mutant of FreeStream: the search does not look whether a stream is taken.
AnyStream(k, o) == o \in Streams /\ o[1] = k

\* GetJackOutputStream: the lowest free stream of the card.
FreeStream(k, o) ==
  /\ o \in Streams /\ o[1] = k /\ ~ring[o]
  /\ \A p \in Streams : p[1] = k /\ ~ring[p] => o[2] <= p[2]

\* "LP" succeeds.  (When the pool is exhausted or the file does not open, the
\* stream is given back and the daemon answers "-".)
LoadPlayback(c, k) ==
  LET h == <<c, serial[c]>> IN
  /\ Live(c) /\ serial[c] <= MaxSerial
  /\ serial' = [serial EXCEPT ![c] = @ + 1]
  /\ \E o \in Streams, short \in BOOLEAN :
       /\ FreeStream(k, o)
       /\ ring' = [ring EXCEPT ![o] = TRUE]
       /\ stopping' = [stopping EXCEPT ![o] = FALSE]
       /\ Fill(o, short)
       /\ sess' = [sess EXCEPT ![h] = o]
       /\ vol' = [vol EXCEPT ![o] = 0]
  /\ told' = [told EXCEPT ![h] = "loaded"]
  /\ UNCHANGED <<conn, playing, cb, fade, recVars>>

\* The client sends "LP" and is refused: its serial number is spent.
RefusedLoad(c) ==
  /\ Live(c) /\ serial[c] <= MaxSerial
  /\ serial' = [serial EXCEPT ![c] = @ + 1]
  /\ UNCHANGED <<conn, playVars, recVars>>

\* "UP": the session goes even if the driver refuses to unload the stream.
UnloadPlayback(h) ==
  /\ Live(h[1]) /\ Loaded(h)
  /\ LET o == sess[h] IN
       /\ ring' = [ring EXCEPT ![o] = FALSE]
       /\ playing' = [playing EXCEPT ![o] = @ /\ ~ring[o]]
       /\ vol' = [vol EXCEPT ![o] = IF ring[o] THEN 0 ELSE @]
  /\ sess' = [sess EXCEPT ![h] = NoStream]
  /\ told' = [told EXCEPT ![h] = "none"]
  /\ UNCHANGED <<connVars, stopping, eof, stopTimer, cb, fade, recVars>>

\* "PP" to a place in the file: the ring is emptied and filled again, and the
\* stop timer of a playing stream restarts for the rest of the file.
PlayPosition(h) ==
  /\ Live(h[1]) /\ Loaded(h)
  /\ LET o == sess[h] IN
       \E short \in BOOLEAN :
         /\ eof' = [eof EXCEPT ![o] = short]
         /\ stopTimer' = [stopTimer EXCEPT ![o] = playing[o] \/ (@ /\ ~short)]
  /\ UNCHANGED <<connVars, sessVars, ring, playing, stopping, cb, volVars, recVars>>

\* "PP" beyond the end of the file is refused after the ring was emptied.
PlayPositionPastEnd(h) ==
  /\ Live(h[1]) /\ Loaded(h)
  /\ eof' = [eof EXCEPT ![sess[h]] = FALSE]
  /\ UNCHANGED <<connVars, sessVars, ring, playing, stopping, stopTimer, cb,
                 volVars, recVars>>

\* "PY": refused while the stream is playing.
Play(h, length) ==
  /\ Live(h[1]) /\ Loaded(h)
  /\ LET o == sess[h] IN
       /\ ring[o] /\ ~playing[o]
       /\ playing' = [playing EXCEPT ![o] = TRUE]
       /\ stopTimer' = [stopTimer EXCEPT ![o] = @ \/ length > 0]
       /\ told' = Report(o, "playing")
  /\ UNCHANGED <<connVars, sess, ring, stopping, eof, cb, volVars, recVars>>

\* Mutant of StopStream: no state update is emitted.
StopUnreported(o) ==
  /\ ring[o] /\ playing[o]
  /\ playing' = [playing EXCEPT ![o] = FALSE]
  /\ stopTimer' = [stopTimer EXCEPT ![o] = FALSE]
  /\ UNCHANGED <<connVars, sessVars, ring, stopping, eof, cb, volVars, recVars>>

\* DriverJack::stopPlayback, from "SP" and from the stop timer.
StopStream(o) ==
  /\ ring[o] /\ playing[o]
  /\ playing' = [playing EXCEPT ![o] = FALSE]
  /\ stopTimer' = [stopTimer EXCEPT ![o] = FALSE]
  /\ told' = Report(o, "stopped")
  /\ UNCHANGED <<connVars, sess, ring, stopping, eof, cb, volVars, recVars>>

StopPlayback(h) == Live(h[1]) /\ Loaded(h) /\ StopStream(sess[h])

\* "OV"
SetOutputVolume(h) ==
  /\ Live(h[1]) /\ Loaded(h)
  /\ \E v \in Levels : vol' = [vol EXCEPT ![sess[h]] = v]
  /\ UNCHANGED <<connVars, sessVars, streamVars, fade, recVars>>

\* "FV": any fade under way on the stream is replaced.
FadeOutputVolume(h, to) ==
  /\ Live(h[1]) /\ Loaded(h)
  /\ fade' = [fade EXCEPT ![sess[h]] =
                [up |-> to > vol[sess[h]], to |-> to, by |-> h]]
  /\ UNCHANGED <<connVars, sessVars, streamVars, vol, recVars>>

-----------------------------------------------------------------------------
(* Timers and buffers of the playback streams, in the event loop *)

\* The single shot stop timer fires; on an idle stream it does nothing more.
StopTimer(o) ==
  /\ stopTimer[o]
  /\ \/ StopStream(o)
     \/ /\ ~(ring[o] /\ playing[o])
        /\ stopTimer' = [stopTimer EXCEPT ![o] = FALSE]
        /\ UNCHANGED <<connVars, sessVars, ring, playing, stopping, eof, cb,
                       volVars, recVars>>

\* One tick of the fade timer: a step of any size towards the target, which
\* ends the fade when the target is reached or passed.
FadeTick(o) ==
  /\ fade[o] # NoFade
  /\ LET f == fade[o] IN
       \E level \in Levels :
         /\ IF f.up THEN level >= vol[o] ELSE level <= vol[o]
         /\ \/ /\ IF f.up THEN level < f.to ELSE level > f.to
               /\ vol' = [vol EXCEPT ![o] = level]
               /\ UNCHANGED fade
            \/ /\ IF f.up THEN level >= f.to ELSE level <= f.to
               /\ vol' = [vol EXCEPT ![o] = f.to]
               /\ fade' = [fade EXCEPT ![o] = NoFade]
  /\ UNCHANGED <<connVars, sessVars, streamVars, recVars>>

\* DriverJack::processBuffers for the streams of card k: every stream the
\* callback finished is reported, and playing streams are filled; those in
\* "ended" come to the end of their file.
ProcessBuffers(k, ended) ==
  /\ ended \subseteq {o \in Streams : o[1] = k /\ playing[o]}
  /\ \E o \in Streams : o[1] = k /\ (playing[o] \/ stopping[o])
  /\ stopping' = [o \in Streams |-> stopping[o] /\ o[1] # k]
  /\ told' = [h \in Handles |->
                IF Loaded(h) /\ sess[h][1] = k /\ stopping[sess[h]]
                THEN "stopped" ELSE told[h]]
  /\ eof' = [o \in Streams |-> eof[o] \/ o \in ended]
  /\ stopTimer' = [o \in Streams |->
                     stopTimer[o] /\ ~(o \in ended /\ ~eof[o])]
  /\ UNCHANGED <<connVars, sess, ring, playing, cb, volVars, recVars>>

-----------------------------------------------------------------------------
(* The audio callback: it reads the ring of every playing stream; a stream
   whose ring runs dry at the end of the file is marked stopping, then no longer
   playing.  Only an audible stream gets there.  There is no lock: the test of
   jack_playing, the read of the ring and the two stores all race with the event
   loop. *)

CallbackIdle(k) == \A p \in Streams : p[1] = k => cb[p] = "idle"

Drained(o) == playing[o] /\ eof[o] /\ vol[o] > 0

\* Mutant of CallbackWhole: the stream is not marked stopping.
CallbackForgets(o) ==
  /\ ~SplitCallback
  /\ Drained(o)
  /\ playing' = [playing EXCEPT ![o] = FALSE]
  /\ UNCHANGED <<connVars, sessVars, ring, stopping, eof, stopTimer, cb, volVars, recVars>>

CallbackWhole(o) ==
  /\ ~SplitCallback
  /\ Drained(o)
  /\ stopping' = [stopping EXCEPT ![o] = TRUE]
  /\ playing' = [playing EXCEPT ![o] = FALSE]
  /\ UNCHANGED <<connVars, sessVars, ring, eof, stopTimer, cb, volVars, recVars>>

\* It has seen that the stream plays, and turns to its ring.
CallbackEnter(o) ==
  /\ SplitCallback
  /\ CallbackIdle(o[1]) /\ playing[o]
  /\ cb' = [cb EXCEPT ![o] = "reading"]
  /\ UNCHANGED <<connVars, sessVars, ring, playing, stopping, eof, stopTimer,
                 volVars, recVars>>

\* The ring held enough, or the stream has more to come or is muted.
CallbackPass(o) ==
  /\ cb[o] = "reading"
  /\ cb' = [cb EXCEPT ![o] = "idle"]
  /\ UNCHANGED <<connVars, sessVars, ring, playing, stopping, eof, stopTimer,
                 volVars, recVars>>

\* The ring ran dry.  jack_playing is not looked at again.
CallbackDrain(o) ==
  /\ cb[o] = "reading"
  /\ eof[o] /\ vol[o] > 0
  /\ cb' = [cb EXCEPT ![o] = "drained"]
  /\ UNCHANGED <<connVars, sessVars, ring, playing, stopping, eof, stopTimer,
                 volVars, recVars>>

\* The stream was unloaded since the callback saw it play: it reads a ring that
\* was deleted.  That is undefined; the daemon goes on (CallbackPass,
\* CallbackDrain), or dies and starts again with nothing.
CallbackCrash(o) ==
  /\ cb[o] = "reading" /\ ~ring[o]
  /\ Restart

CallbackFlag(o) ==
  /\ cb[o] = "drained"
  /\ cb' = [cb EXCEPT ![o] = "flagged"]
  /\ stopping' = [stopping EXCEPT ![o] = TRUE]
  /\ UNCHANGED <<connVars, sessVars, ring, playing, eof, stopTimer, volVars, recVars>>

CallbackStop(o) ==
  /\ cb[o] = "flagged"
  /\ cb' = [cb EXCEPT ![o] = "idle"]
  /\ playing' = [playing EXCEPT ![o] = FALSE]
  /\ UNCHANGED <<connVars, sessVars, ring, stopping, eof, stopTimer, volVars, recVars>>

-----------------------------------------------------------------------------
(* Recording commands *)

\* "LR" succeeds.
LoadRecording(c, i) ==
  /\ Live(c) /\ owner[i] = NoOwner
  /\ owner' = [owner EXCEPT ![i] = c]
  /\ ready' = [ready EXCEPT ![i] = TRUE]
  /\ UNCHANGED <<connVars, playVars, recording, limited, recTimer>>

\* Mutant of UnloadRecording: the driver goes on recording.
UnloadStillRecording(c, i) ==
  /\ Live(c) /\ owner[i] = c
  /\ owner' = [owner EXCEPT ![i] = NoOwner]
  /\ ready' = [ready EXCEPT ![i] = FALSE]
  /\ UNCHANGED <<connVars, playVars, recording, limited, recTimer>>

\* "UR" from the owner.
UnloadRecording(c, i) ==
  /\ Live(c) /\ owner[i] = c
  /\ owner' = [owner EXCEPT ![i] = NoOwner]
  /\ ready' = [ready EXCEPT ![i] = FALSE]
  /\ recording' = [recording EXCEPT ![i] = FALSE]
  /\ UNCHANGED <<connVars, playVars, limited, recTimer>>

\* "UR" on a port nobody loaded is let through to the driver, which reads its
\* NULL ring: the daemon dies and starts again with nothing.
UnloadRecordingCrash(c, i) ==
  /\ Live(c) /\ owner[i] = NoOwner /\ ~ready[i]
  /\ Restart

\* Mutant of Record: the timer is not started.
RecordUntimed(c, i, length) ==
  /\ Live(c) /\ owner[i] = c /\ ready[i]
  /\ recording' = [recording EXCEPT ![i] = TRUE]
  /\ limited' = [limited EXCEPT ![i] = length > 0]
  /\ UNCHANGED <<connVars, playVars, owner, ready, recTimer>>

\* "RD" from the owner.  A zero length starts no timer and stops none.
Record(c, i, length) ==
  /\ Live(c) /\ owner[i] = c /\ ready[i]
  /\ recording' = [recording EXCEPT ![i] = TRUE]
  /\ limited' = [limited EXCEPT ![i] = length > 0]
  /\ recTimer' = [recTimer EXCEPT ![i] = @ \/ length > 0]
  /\ UNCHANGED <<connVars, playVars, owner, ready>>

\* "SR": any client may stop any recording.
StopRecording(c, i) ==
  /\ Live(c) /\ recording[i]
  /\ recording' = [recording EXCEPT ![i] = FALSE]
  /\ UNCHANGED <<connVars, playVars, owner, ready, limited, recTimer>>

\* The record timer is periodic and nothing ever stops it.
RecordTimer(i) ==
  /\ recTimer[i] /\ recording[i]
  /\ recording' = [recording EXCEPT ![i] = FALSE]
  /\ UNCHANGED <<connVars, playVars, owner, ready, limited, recTimer>>

-----------------------------------------------------------------------------
Connection == \E c \in Conns : Connect(c) \/ Authenticate(c) \/ Drop(c)

PlayCommand ==
  \/ \E c \in Conns : RefusedLoad(c) \/ \E k \in Cards : LoadPlayback(c, k)
  \/ \E h \in Handles :
       \/ UnloadPlayback(h)
       \/ PlayPosition(h)
       \/ PlayPositionPastEnd(h)
       \/ \E length \in Lengths : Play(h, length)
       \/ StopPlayback(h)
       \/ SetOutputVolume(h)
       \/ \E to \in FadeTargets : FadeOutputVolume(h, to)

Engine ==
  \/ \E o \in Streams : StopTimer(o) \/ FadeTick(o)
  \/ \E k \in Cards, ended \in SUBSET Streams : ProcessBuffers(k, ended)

Callback ==
  \E o \in Streams :
    \/ CallbackWhole(o)
    \/ CallbackEnter(o) \/ CallbackPass(o) \/ CallbackDrain(o) \/ CallbackCrash(o)
    \/ CallbackFlag(o) \/ CallbackStop(o)

RecordCommand ==
  \E i \in Inputs :
    \/ \E c \in Conns :
         \/ LoadRecording(c, i)
         \/ UnloadRecording(c, i)
         \/ UnloadRecordingCrash(c, i)
         \/ \E length \in Lengths : Record(c, i, length)
         \/ StopRecording(c, i)
    \/ RecordTimer(i)

Next == Connection \/ PlayCommand \/ Engine \/ Callback \/ RecordCommand

Spec == Init /\ [][Next]_vars

\* What the daemon's own timers and the sound card's callback deliver.  Files
\* are finite, so a playing stream meets the end of its file, and then its ring
\* runs dry.
MeetsEnd(o) ==
  \E ended \in SUBSET Streams : o \in ended /\ ~eof[o] /\ ProcessBuffers(o[1], ended)

Fairness ==
  /\ \A o \in Streams :
       /\ WF_vars(MeetsEnd(o))
       /\ WF_vars(CallbackWhole(o))
       /\ WF_vars(CallbackEnter(o))
       /\ WF_vars(CallbackPass(o) \/ CallbackDrain(o))
       /\ SF_vars(CallbackDrain(o))
       /\ WF_vars(CallbackFlag(o))
       /\ WF_vars(CallbackStop(o))
  /\ \A k \in Cards : WF_vars(ProcessBuffers(k, {}))
  /\ \A i \in Inputs : WF_vars(RecordTimer(i))

FairSpec == Spec /\ Fairness

-----------------------------------------------------------------------------
(* Properties *)

\* Every variable has its type.
TypeOK ==
  /\ conn \in [Conns -> {"closed", "open", "auth"}]
  /\ serial \in [Conns -> 1..MaxSerial + 1]
  /\ sess \in [Handles -> Streams \union {NoStream}]
  /\ told \in [Handles -> {"none", "loaded", "playing", "stopped"}]
  /\ ring \in [Streams -> BOOLEAN]
  /\ playing \in [Streams -> BOOLEAN]
  /\ stopping \in [Streams -> BOOLEAN]
  /\ eof \in [Streams -> BOOLEAN]
  /\ stopTimer \in [Streams -> BOOLEAN]
  /\ vol \in [Streams -> Levels]
  /\ fade \in [Streams -> Fades \union {NoFade}]
  /\ cb \in [Streams -> {"idle", "reading", "drained", "flagged"}]
  /\ owner \in [Inputs -> Conns \union {NoOwner}]
  /\ ready \in [Inputs -> BOOLEAN]
  /\ recording \in [Inputs -> BOOLEAN]
  /\ limited \in [Inputs -> BOOLEAN]
  /\ recTimer \in [Inputs -> BOOLEAN]

\* No two play sessions share a stream, so GetPlayHandle's search has one
\* answer and no client hears of another client's audio.
SessionsApart ==
  \A g, h \in Handles : Loaded(g) /\ sess[g] = sess[h] => g = h

\* The serial number a client will use next names no session of the connection:
\* a load can never overwrite a session, whose stream nobody could give back.
SerialFresh ==
  \A h \in Handles : Loaded(h) => h[2] < serial[h[1]]

\* A session's stream is allocated (playbackPosition uses its ring and its
\* file without a check), and so is every stream that is marked as playing
\* (processBuffers fills its ring without a check).  The callback's own read is
\* not part of it: it comes after its test of the mark, and the stream may have
\* been deleted in between (CallbackCrash).
StreamsAllocated ==
  /\ \A h \in Handles : Loaded(h) => ring[sess[h]]
  /\ \A o \in Streams : playing[o] => ring[o]

\* Sessions are apart, none is overwritten, and each has its stream in the event
\* loop's eyes, whatever order clients connect, command and vanish in and the
\* callback runs in, the deaths that its late read may cause included.
SessionsSafe == SessionsApart /\ SerialFresh /\ StreamsAllocated

\* Every session and every recording belongs to an authenticated connection
\* that is still there: sendCommand() writes to the descriptor's socket
\* without asking whether the descriptor still has one.
OwnersLive ==
  /\ \A h \in Handles : Loaded(h) => Live(h[1])
  /\ \A i \in Inputs : owner[i] # NoOwner => Live(owner[i])

\* A stream taken from the pool always has a session that can give it back,
\* whichever way clients leave (KillSocket's "Clear Active Playout Events").
NoOrphanStream ==
  \A o \in Streams : ring[o] => \E h \in Handles : sess[h] = o

\* A client that was told its session plays will be told that it stopped: the
\* stream plays on, or the stop is on its way through the callback.
StopPending ==
  \A h \in Handles :
    told[h] = "playing" =>
      LET o == sess[h] IN playing[o] \/ stopping[o] \/ cb[o] \in {"drained", "flagged"}

\* A port that is recording is loaded by somebody, and the driver's state
\* agrees with record_owner (a disagreement is a file nobody closes).
RecordingOwned ==
  \A i \in Inputs : /\ ready[i] <=> owner[i] # NoOwner
                    /\ recording[i] => ready[i]

\* What a client leaves behind is nobody's: sessions, loaded ports and running
\* recordings all have an owner that is there.
OwnersKnown == OwnersLive /\ RecordingOwned

\* No audible session plays for ever, unless its client moves it for ever:
\* the end of the file reaches the client as a stop.
PlayEnds ==
  \A h \in Handles :
    \/ ~<>[](told[h] = "playing" /\ vol[sess[h]] > 0)
    \/ []<><<PlayPosition(h) \/ PlayPositionPastEnd(h)>>_vars

\* A recording with a length ends by itself.
LimitedRecordingEnds ==
  \A i \in Inputs : recording[i] /\ limited[i] ~> ~(recording[i] /\ limited[i])

\* Each client sees sessions as Sessions describes them: an output of its own,
\* told that it plays and that it stopped in turn, however the callback, the
\* timers, other clients and lost connections interleave.  Only when the event
\* loop runs in the middle of the callback, the stop of an unloaded session
\* may be told to the next one on the stream.
Contract == INSTANCE Sessions WITH
  Clients <- Conns, Slots <- Streams, NoSlot <- NoStream, LateStops <- SplitCallback,
  slot <- sess, heard <- told, next <- serial

ImplementsSessions == Contract!Spec

=============================================================================
