----------------------------- MODULE CaedProofs -----------------------------
(***************************************************************************)
(* Theorems about Caed, for every number of clients, cards, streams, ports *)
(* and loads: its types, the safety of play sessions and recordings, that  *)
(* no stream is ever lost on a station with one sound driver, and that     *)
(* caed implements Sessions.                                               *)
(***************************************************************************)
EXTENDS Caed, TLAPS

\* The initial state is well typed.
LEMMA TypeInit == Init => TypeOK
  BY CaedAssumption DEF Init, TypeOK, Closed, Ones, NoSess, Untold, Off, Muted, Steady,
     AllIdle, Unowned, OffIn, Levels

\* No command, timer or callback of caed writes a stream, session or port that
\* does not exist, or a value out of range.
LEMMA TypeStep == ASSUME TypeOK, [Next]_vars PROVE TypeOK'
<1> USE CaedAssumption DEF TypeOK, vars, connVars, playVars, sessVars, streamVars,
    volVars, recVars, Live, Loaded
<1>1. ASSUME NEW c \in Conns, Connect(c) PROVE TypeOK'
  BY <1>1 DEF Connect
<1>2. ASSUME NEW c \in Conns, Authenticate(c) PROVE TypeOK'
  BY <1>2 DEF Authenticate
<1>3. ASSUME NEW c \in Conns, Drop(c) PROVE TypeOK'
  BY <1>3 DEF Drop
<1>4. ASSUME NEW c \in Conns, NEW k \in Cards, LoadPlayback(c, k) PROVE TypeOK'
  BY <1>4 DEF LoadPlayback, FreeStream, Fill, Handles, Levels
<1>5. ASSUME NEW c \in Conns, RefusedLoad(c) PROVE TypeOK'
  BY <1>5 DEF RefusedLoad
<1>6. ASSUME NEW h \in Handles, UnloadPlayback(h) PROVE TypeOK'
  BY <1>6 DEF UnloadPlayback, Levels
<1>7. ASSUME NEW h \in Handles, PlayPosition(h) PROVE TypeOK'
  BY <1>7 DEF PlayPosition
<1>8. ASSUME NEW h \in Handles, PlayPositionPastEnd(h) PROVE TypeOK'
  BY <1>8 DEF PlayPositionPastEnd
<1>9. ASSUME NEW h \in Handles, NEW l \in Lengths, Play(h, l) PROVE TypeOK'
  BY <1>9 DEF Play, Report
<1>10. ASSUME NEW o \in Streams, StopStream(o) PROVE TypeOK'
  BY <1>10 DEF StopStream, Report
<1>11. ASSUME NEW h \in Handles, StopPlayback(h) PROVE TypeOK'
  BY <1>11, <1>10 DEF StopPlayback
<1>12. ASSUME NEW h \in Handles, SetOutputVolume(h) PROVE TypeOK'
  BY <1>12 DEF SetOutputVolume
<1>13. ASSUME NEW h \in Handles, NEW to \in FadeTargets, FadeOutputVolume(h, to)
       PROVE TypeOK'
  BY <1>13 DEF FadeOutputVolume, Fades, Levels
<1>14. ASSUME NEW o \in Streams, StopTimer(o) PROVE TypeOK'
  <2>1. CASE StopStream(o)
    BY <2>1 DEF StopStream, Report
  <2>2. CASE /\ stopTimer' = [stopTimer EXCEPT ![o] = FALSE]
             /\ UNCHANGED <<connVars, sessVars, ring, playing, stopping, eof, cb,
                            volVars, recVars>>
    BY <2>2
  <2>3. QED
    BY ONLY <1>14, <2>1, <2>2 DEF StopTimer
<1>15. ASSUME NEW o \in Streams, FadeTick(o) PROVE TypeOK'
  BY <1>15 DEF FadeTick, Fades
<1>16. ASSUME NEW k \in Cards, NEW e \in SUBSET Streams, ProcessBuffers(k, e)
       PROVE TypeOK'
  BY <1>16 DEF ProcessBuffers
<1>17. ASSUME NEW o \in Streams, CallbackWhole(o) PROVE TypeOK'
  BY <1>17 DEF CallbackWhole
<1>18. ASSUME NEW o \in Streams, CallbackEnter(o) \/ CallbackPass(o) \/ CallbackDrain(o)
       PROVE TypeOK'
  BY <1>18 DEF CallbackEnter, CallbackPass, CallbackDrain
<1>19. ASSUME NEW o \in Streams, CallbackFlag(o) PROVE TypeOK'
  BY <1>19 DEF CallbackFlag
<1>20. ASSUME NEW o \in Streams, CallbackStop(o) PROVE TypeOK'
  BY <1>20 DEF CallbackStop
<1>21. ASSUME NEW c \in Conns, NEW i \in Inputs, LoadRecording(c, i) PROVE TypeOK'
  BY <1>21 DEF LoadRecording
<1>22. ASSUME NEW c \in Conns, NEW i \in Inputs, UnloadRecording(c, i) PROVE TypeOK'
  BY <1>22 DEF UnloadRecording
<1>23. CASE Restart
  BY <1>23 DEF Restart, Closed, Ones, NoSess, Untold, Off, Muted, Steady, AllIdle,
     Unowned, OffIn, Levels
<1>24. ASSUME NEW c \in Conns, NEW i \in Inputs, NEW l \in Lengths, Record(c, i, l)
       PROVE TypeOK'
  BY <1>24 DEF Record
<1>25. ASSUME NEW c \in Conns, NEW i \in Inputs, StopRecording(c, i) PROVE TypeOK'
  BY <1>25 DEF StopRecording
<1>26. ASSUME NEW i \in Inputs, RecordTimer(i) PROVE TypeOK'
  BY <1>26 DEF RecordTimer
<1>27. CASE UNCHANGED vars
  BY <1>27
<1>28. QED
  BY [Next]_vars, <1>1, <1>2, <1>3, <1>4, <1>5, <1>6, <1>7, <1>8, <1>9, <1>11, <1>12, <1>13,
     <1>14, <1>15, <1>16, <1>17, <1>18, <1>19, <1>20, <1>21, <1>22, <1>23, <1>24,
     <1>25, <1>26, <1>27
     DEF Next, Connection, PlayCommand, Engine, Callback, RecordCommand,
         UnloadRecordingCrash, CallbackCrash

\* Every variable keeps its type in every behaviour of caed.
THEOREM TypeCorrect == Spec => []TypeOK
  BY TypeInit, TypeStep, PTL DEF Spec

\* What makes caed's sessions and recordings safe is inductive only together:
\* a load is fresh because serial numbers run ahead of the sessions, a closed
\* connection has no sessions, and a session's stream is taken, so that the
\* search for a free one cannot return it.
IInv ==
  /\ TypeOK
  /\ SerialFresh
  /\ SessionsApart
  /\ StreamsAllocated
  /\ OwnersLive
  /\ RecordingOwned

\* Whatever clients, timers and the sound card do, in any order: sessions never
\* share a stream, their streams are allocated, a serial number is never used
\* twice, and sessions and recordings belong to connections that exist.
THEOREM SessionSafety == Spec => []IInv
<1>1. Init => IInv
  <2> SUFFICES ASSUME Init PROVE IInv
    OBVIOUS
  <2>1. TypeOK
    BY TypeInit
  <2>2. QED
    BY <2>1 DEF Init, IInv, SerialFresh, SessionsApart, StreamsAllocated, OwnersLive,
       RecordingOwned, NoSess, Off, Unowned, OffIn, Loaded
<1>2. IInv /\ [Next]_vars => IInv'
  <2> SUFFICES ASSUME IInv, [Next]_vars PROVE IInv'
    OBVIOUS
  <2>0. TypeOK /\ TypeOK'
    BY TypeStep DEF IInv
  <2> DEFINE Safe == /\ SerialFresh
                     /\ SessionsApart
                     /\ StreamsAllocated
                     /\ OwnersLive
                     /\ RecordingOwned
  <2>s. Safe
    BY DEF IInv
  <2> SUFFICES Safe'
    BY <2>0 DEF IInv
  <2> USE <2>0, <2>s, CaedAssumption
      DEF SerialFresh, SessionsApart, StreamsAllocated, OwnersLive, RecordingOwned,
          TypeOK, vars, connVars, playVars, sessVars, streamVars, volVars, recVars,
          Live, Loaded
  <2>1. ASSUME NEW c \in Conns, Connect(c) PROVE Safe'
    BY <2>1 DEF Connect, Handles
  <2>2. ASSUME NEW c \in Conns, Authenticate(c) PROVE Safe'
    BY <2>2 DEF Authenticate, Handles
  <2>3. ASSUME NEW c \in Conns, Drop(c) PROVE Safe'
    <3>1. \A h \in Handles : sess'[h] # NoStream => h[1] # c /\ sess'[h] = sess[h]
      BY <2>3 DEF Drop
    <3>2. SerialFresh' /\ SessionsApart'
      BY <2>3, <3>1 DEF Drop
    <3>3. ASSUME NEW h \in Handles, sess'[h] # NoStream PROVE ring'[sess'[h]]
      <4>1. sess[h] \notin KillFrees(c)
        BY <3>1, <3>3 DEF KillFrees
      <4>2. QED
        BY <2>3, <3>1, <3>3, <4>1 DEF Drop
    <3>4. StreamsAllocated'
      BY <2>3, <3>3 DEF Drop
    <3>5. OwnersLive'
      BY <2>3, <3>1 DEF Drop, Handles
    <3>6. RecordingOwned'
      BY <2>3 DEF Drop
    <3>7. QED
      BY ONLY <3>2, <3>4, <3>5, <3>6
  <2>4. ASSUME NEW c \in Conns, NEW k \in Cards, LoadPlayback(c, k) PROVE Safe'
    <3> DEFINE new == <<c, serial[c]>>
    <3>1. PICK o \in Streams : /\ ~ring[o]
                             /\ ring' = [ring EXCEPT ![o] = TRUE]
                             /\ sess' = [sess EXCEPT ![new] = o]
      BY <2>4 DEF LoadPlayback, FreeStream
    <3>2. /\ Live(c) /\ conn' = conn /\ playing' = playing
          /\ serial' = [serial EXCEPT ![c] = @ + 1]
          /\ new \in Handles
      BY <2>4 DEF LoadPlayback, Handles
    <3>3. ~Loaded(new)
      BY <3>2 DEF Handles
    <3>4. \A h \in Handles : sess'[h] = IF h = new THEN o ELSE sess[h]
      BY <3>1
    <3>5. SerialFresh'
      BY <3>1, <3>2, <3>4 DEF Handles
    <3>6. SessionsApart'
      <4>1. \A h \in Handles : Loaded(h) => sess[h] # o
        BY <3>1
      <4>2. SUFFICES ASSUME NEW g \in Handles, NEW h \in Handles,
                            sess'[g] # NoStream, sess'[g] = sess'[h]
                     PROVE  g = h
        BY ONLY <4>2 DEF SessionsApart, Loaded
      <4>3. o # NoStream
        BY <3>1 DEF Streams
      <4>4. CASE g = new \/ h = new
        BY ONLY <3>4, <4>1, <4>2, <4>3, <4>4 DEF Loaded
      <4>5. CASE g # new /\ h # new
        BY ONLY SessionsApart, <3>4, <4>2, <4>5 DEF SessionsApart, Loaded
      <4>6. QED
        BY ONLY <4>4, <4>5
    <3>7. StreamsAllocated'
      BY <3>1, <3>2, <3>4
    <3>8. OwnersLive'
      <4>1. UNCHANGED owner
        BY <2>4 DEF LoadPlayback
      <4>2. QED
        BY <3>2, <3>4, <4>1
    <3>9. RecordingOwned'
      BY <2>4 DEF LoadPlayback
    <3>10. QED
      BY ONLY <3>5, <3>6, <3>7, <3>8, <3>9
  <2>5. ASSUME NEW c \in Conns, RefusedLoad(c) PROVE Safe'
    BY <2>5 DEF RefusedLoad, Handles
  <2>6. ASSUME NEW h \in Handles, UnloadPlayback(h) PROVE Safe'
    <3>1. \A g \in Handles : sess'[g] # NoStream => g # h /\ sess'[g] = sess[g]
      BY <2>6 DEF UnloadPlayback
    <3>2. ASSUME NEW g \in Handles, sess'[g] # NoStream PROVE ring'[sess'[g]]
      <4>1. sess[g] # sess[h]
        BY <2>6, <3>1, <3>2 DEF UnloadPlayback
      <4>2. QED
        BY <2>6, <3>1, <3>2, <4>1 DEF UnloadPlayback
    <3>3. StreamsAllocated'
      <4>1. sess[h] \in Streams /\ ring[sess[h]]
        BY <2>6 DEF UnloadPlayback
      <4>2. playing' = [playing EXCEPT ![sess[h]] = FALSE]
        BY <2>6, <4>1 DEF UnloadPlayback
      <4>3. ring' = [ring EXCEPT ![sess[h]] = FALSE]
        BY <2>6 DEF UnloadPlayback
      <4>4. \A o \in Streams : playing'[o] => ring'[o]
        BY <4>1, <4>2, <4>3
      <4>5. QED
        BY <3>2, <4>4
    <3>4. SerialFresh' /\ SessionsApart'
      BY <2>6, <3>1 DEF UnloadPlayback
    <3>5. OwnersLive' /\ RecordingOwned'
      BY <2>6, <3>1 DEF UnloadPlayback
    <3>6. QED
      BY ONLY <3>3, <3>4, <3>5
  <2>7. ASSUME NEW h \in Handles, PlayPosition(h) PROVE Safe'
    BY <2>7 DEF PlayPosition
  <2>8. ASSUME NEW h \in Handles, PlayPositionPastEnd(h) PROVE Safe'
    BY <2>8 DEF PlayPositionPastEnd
  <2>9. ASSUME NEW h \in Handles, NEW l \in Lengths, Play(h, l) PROVE Safe'
    BY <2>9 DEF Play
  <2>10. ASSUME NEW o \in Streams, StopStream(o) PROVE Safe'
    BY <2>10 DEF StopStream
  <2>11. ASSUME NEW h \in Handles, StopPlayback(h) PROVE Safe'
    BY <2>11 DEF StopPlayback, StopStream
  <2>12. ASSUME NEW h \in Handles, SetOutputVolume(h) PROVE Safe'
    BY <2>12 DEF SetOutputVolume
  <2>13. ASSUME NEW h \in Handles, NEW to \in FadeTargets, FadeOutputVolume(h, to)
         PROVE Safe'
    BY <2>13 DEF FadeOutputVolume
  <2>14. ASSUME NEW o \in Streams, StopTimer(o) PROVE Safe'
    BY <2>14 DEF StopTimer, StopStream
  <2>15. ASSUME NEW o \in Streams, FadeTick(o) PROVE Safe'
    BY <2>15 DEF FadeTick
  <2>16. ASSUME NEW k \in Cards, NEW e \in SUBSET Streams, ProcessBuffers(k, e)
         PROVE Safe'
    BY <2>16 DEF ProcessBuffers
  <2>17. ASSUME NEW o \in Streams, CallbackWhole(o) PROVE Safe'
    BY <2>17 DEF CallbackWhole
  <2>18. ASSUME NEW o \in Streams, CallbackEnter(o) \/ CallbackPass(o) \/ CallbackDrain(o)
         PROVE Safe'
    BY <2>18 DEF CallbackEnter, CallbackPass, CallbackDrain
  <2>19. ASSUME NEW o \in Streams, CallbackFlag(o) PROVE Safe'
    BY <2>19 DEF CallbackFlag
  <2>20. ASSUME NEW o \in Streams, CallbackStop(o) PROVE Safe'
    BY <2>20 DEF CallbackStop
  <2>21. ASSUME NEW c \in Conns, NEW i \in Inputs, LoadRecording(c, i) PROVE Safe'
    BY <2>21 DEF LoadRecording
  <2>22. ASSUME NEW c \in Conns, NEW i \in Inputs, UnloadRecording(c, i) PROVE Safe'
    BY <2>22 DEF UnloadRecording
  <2>23. CASE Restart
    BY <2>23 DEF Restart, NoSess, Off, Unowned, OffIn
  <2>24. ASSUME NEW c \in Conns, NEW i \in Inputs, NEW l \in Lengths, Record(c, i, l)
         PROVE Safe'
    BY <2>24 DEF Record
  <2>25. ASSUME NEW c \in Conns, NEW i \in Inputs, StopRecording(c, i) PROVE Safe'
    BY <2>25 DEF StopRecording
  <2>26. ASSUME NEW i \in Inputs, RecordTimer(i) PROVE Safe'
    BY <2>26 DEF RecordTimer
  <2>27. CASE UNCHANGED vars
    BY <2>27
  <2>28. QED
    BY ONLY <2>1, <2>2, <2>3, <2>4, <2>5, <2>6, <2>7, <2>8, <2>9, <2>11, <2>12, <2>13,
       <2>14, <2>15, <2>16, <2>17, <2>18, <2>19, <2>20, <2>21, <2>22, <2>23, <2>24,
       <2>25, <2>26, <2>27, [Next]_vars
       DEF Next, Connection, PlayCommand, Engine, Callback, RecordCommand,
           UnloadRecordingCrash, CallbackCrash
<1>3. QED
  BY <1>1, <1>2, PTL DEF Spec

\* Sessions never share a stream, are never overwritten, and have their stream.
COROLLARY SessionsAreSafe == Spec => []SessionsSafe
<1>1. IInv => SessionsSafe
  BY DEF IInv, SessionsSafe
<1>2. QED
  BY <1>1, SessionSafety, PTL

\* Every session and recording has a live owner, and the driver's flags of a
\* capture port follow record_owner.
COROLLARY OwnersAreKnown == Spec => []OwnersKnown
<1>1. IInv => OwnersKnown
  BY DEF IInv, OwnersKnown
<1>2. QED
  BY <1>1, SessionSafety, PTL

\* On a station whose cards all belong to one sound driver, KillSocket gives
\* back every stream of a dead client: no stream is ever taken from the pool
\* without a session that can return it.  (With two drivers it is not so.)
THEOREM OneDriverNoOrphan ==
  ASSUME \A a, b \in Cards : SameDriver(a, b)
  PROVE  Spec => []NoOrphanStream
<1>1. Init => NoOrphanStream
  BY DEF Init, NoOrphanStream, Off
<1>2. IInv /\ NoOrphanStream /\ [Next]_vars => NoOrphanStream'
  <2> SUFFICES ASSUME IInv, NoOrphanStream, [Next]_vars PROVE NoOrphanStream'
    OBVIOUS
  <2>1. TypeOK /\ SessionsApart /\ SerialFresh
    BY DEF IInv
  <2> USE CaedAssumption, <2>1
      DEF NoOrphanStream, TypeOK, vars, connVars, playVars, sessVars, streamVars,
          volVars, recVars, Live, Loaded
  <2>2. CASE UNCHANGED <<sess, ring>>
    BY <2>2
  <2>3. ASSUME NEW c \in Conns, Drop(c) PROVE NoOrphanStream'
    <3> SUFFICES ASSUME NEW o \in Streams, ring'[o]
                 PROVE  \E h \in Handles : sess'[h] = o
      OBVIOUS
    <3>1. ring[o] /\ o \notin KillFrees(c)
      BY <2>3 DEF Drop
    <3>2. PICK h \in Handles : sess[h] = o
      BY <3>1
    <3>3. SameDriver(o[1], FirstCard)
      BY DEF Streams
    <3>4. h[1] # c
      BY <3>1, <3>2, <3>3 DEF KillFrees
    <3>5. QED
      BY <2>3, <3>2, <3>4 DEF Drop
  <2>4. ASSUME NEW c \in Conns, NEW k \in Cards, LoadPlayback(c, k)
        PROVE  NoOrphanStream'
    <3>1. PICK o \in Streams : /\ ring' = [ring EXCEPT ![o] = TRUE]
                               /\ sess' = [sess EXCEPT ![<<c, serial[c]>>] = o]
      BY <2>4 DEF LoadPlayback
    <3>2. <<c, serial[c]>> \in Handles
      BY <2>4 DEF LoadPlayback, Handles
    <3>3. sess[<<c, serial[c]>>] = NoStream
      BY <3>2 DEF SerialFresh
    <3>4. ASSUME NEW p \in Streams, ring'[p] PROVE \E h \in Handles : sess'[h] = p
      <4>1. CASE p = o
        BY <3>1, <3>2, <4>1
      <4>2. CASE p # o
        <5>1. PICK h \in Handles : sess[h] = p
          BY <3>1, <3>4, <4>2
        <5>2. h # <<c, serial[c]>>
          BY <3>3, <5>1 DEF Streams
        <5>3. QED
          BY <3>1, <5>1, <5>2
      <4>3. QED
        BY <4>1, <4>2
    <3>5. QED
      BY <3>4
  <2>5. ASSUME NEW h \in Handles, UnloadPlayback(h) PROVE NoOrphanStream'
    BY <2>5 DEF UnloadPlayback, SessionsApart
  <2>6. CASE Restart
    BY <2>6 DEF Restart, Off
  <2>7. CASE Next
    <3> USE DEF vars, connVars, playVars, sessVars, streamVars, volVars, recVars
    <3>1. CASE Connection
      <4>1. UNCHANGED <<sess, ring>> \/ \E c \in Conns : Drop(c)
        BY ONLY <3>1 DEF Connection, Connect, Authenticate
      <4>2. QED
        BY ONLY <4>1, <2>2, <2>3
    <3>2. CASE PlayCommand
      <4>1. \/ UNCHANGED <<sess, ring>>
            \/ \E c \in Conns, k \in Cards : LoadPlayback(c, k)
            \/ \E h \in Handles : UnloadPlayback(h)
        BY ONLY <3>2
           DEF PlayCommand, RefusedLoad, PlayPosition, PlayPositionPastEnd, Play,
               StopPlayback, StopStream, SetOutputVolume, FadeOutputVolume
      <4>2. QED
        BY ONLY <4>1, <2>2, <2>4, <2>5
    <3>3. CASE Engine \/ Callback
      <4>1. UNCHANGED <<sess, ring>> \/ Restart
        BY ONLY <3>3
           DEF Engine, StopTimer, FadeTick, StopStream, ProcessBuffers, Callback,
               CallbackWhole, CallbackEnter, CallbackPass, CallbackDrain, CallbackCrash,
               CallbackFlag, CallbackStop
      <4>2. QED
        BY ONLY <4>1, <2>2, <2>6
    <3>4. CASE RecordCommand
      <4>1. UNCHANGED <<sess, ring>> \/ Restart
        BY ONLY <3>4
           DEF RecordCommand, LoadRecording, UnloadRecording, UnloadRecordingCrash,
               Record, StopRecording, RecordTimer
      <4>2. QED
        BY ONLY <4>1, <2>2, <2>6
    <3>5. QED
      BY ONLY <2>7, <3>1, <3>2, <3>3, <3>4 DEF Next
  <2>8. QED
    BY <2>2, <2>7
<1>3. QED
  BY <1>1, <1>2, SessionSafety, PTL DEF Spec

-----------------------------------------------------------------------------
(* Caed implements Sessions, whether or not the event loop runs between the *)
(* accesses of the audio callback                                           *)

\* What the clients have heard is true enough: of a session that is there they
\* have heard something, and a stream plays only for a client that was told so.
\* A stop that is still to be told is of the session that has the stream, unless
\* the callback was interrupted.
HeardOf ==
  /\ \A h \in Handles : told[h] = "none" <=> ~Loaded(h)
  /\ \A h \in Handles : Loaded(h) /\ playing[sess[h]] => told[h] \in {"playing", "stopped"}
  /\ ~SplitCallback =>
       /\ \A h \in Handles : Loaded(h) /\ stopping[sess[h]] => told[h] \in {"playing", "stopped"}
       /\ \A o \in Streams : cb[o] = "idle"

\* What the refinement needs to know of a state.
CInv == IInv /\ HeardOf

\* Both modules speak of the same handles.
LEMMA SameHandles == Contract!Handles = Handles
  BY DEF Contract!Handles, Handles

\* At first nobody was told of anything.
LEMMA HeardInit == Init => HeardOf
  BY DEF Init, HeardOf, Off, NoSess, Untold, Loaded, AllIdle

\* A session is asked for by its handle; NoStream is no stream.
LEMMA LoadedStream ==
  ASSUME CInv, NEW h \in Handles, Loaded(h)
  PROVE  sess[h] \in Streams
  BY DEF CInv, IInv, TypeOK, Loaded

-----------------------------------------------------------------------------
\* What clients were told stays behind what happened, whatever caed does.
LEMMA HeardStep == ASSUME CInv, [Next]_vars PROVE HeardOf'
<1> USE CaedAssumption
    DEF CInv, IInv, HeardOf, TypeOK, vars, connVars, playVars, sessVars, streamVars, volVars,
        recVars, Live, Loaded
<1>0. NoStream \notin Streams
  BY DEF Streams
\* Steps that leave the sessions, the streams and the callback alone.
<1>a. ASSUME UNCHANGED <<sess, told, playing, stopping, cb>> PROVE HeardOf'
  BY <1>a
<1>1. ASSUME NEW c \in Conns, Drop(c) PROVE HeardOf'
  <2>1. /\ sess' = [h \in Handles |-> IF h[1] = c THEN NoStream ELSE sess[h]]
        /\ told' = [h \in Handles |-> IF h[1] = c THEN "none" ELSE told[h]]
        /\ playing' = [o \in Streams |-> playing[o] /\ o \notin KillFrees(c)]
        /\ UNCHANGED <<stopping, cb>>
    BY <1>1 DEF Drop
  <2>2. QED
    BY <2>1
<1>2. ASSUME NEW c \in Conns, NEW k \in Cards, LoadPlayback(c, k) PROVE HeardOf'
  <2> DEFINE new == <<c, serial[c]>>
  <2>1. PICK o \in Streams : /\ ~ring[o]
                             /\ sess' = [sess EXCEPT ![new] = o]
                             /\ stopping' = [stopping EXCEPT ![o] = FALSE]
    BY <1>2 DEF LoadPlayback, FreeStream
  <2>2. told' = [told EXCEPT ![new] = "loaded"] /\ UNCHANGED <<playing, cb>> /\ new \in Handles
    BY <1>2 DEF LoadPlayback, Handles
  <2>3. ~playing[o]
    BY <2>1 DEF StreamsAllocated
  <2>4. ASSUME NEW h \in Handles
        PROVE  /\ told'[h] = "none" <=> sess'[h] = NoStream
               /\ sess'[h] # NoStream /\ playing'[sess'[h]]
                    => told'[h] \in {"playing", "stopped"}
               /\ ~SplitCallback /\ sess'[h] # NoStream /\ stopping'[sess'[h]]
                    => told'[h] \in {"playing", "stopped"}
    <3>1. CASE h = new
      <4>1. sess'[h] = o /\ told'[h] = "loaded" /\ ~playing'[o] /\ ~stopping'[o]
        BY <2>1, <2>2, <2>3, <3>1
      <4>2. QED
        BY <4>1, <1>0
    <3>2. CASE h # new
      <4>1. sess'[h] = sess[h] /\ told'[h] = told[h]
        BY <2>1, <2>2, <3>2
      <4>2. ASSUME sess[h] # NoStream PROVE stopping'[sess[h]] => stopping[sess[h]]
        BY <2>1, <4>2
      <4>3. QED
        BY <2>2, <4>1, <4>2
    <3>3. QED
      BY <3>1, <3>2
  <2>5. ~SplitCallback => \A p \in Streams : cb'[p] = "idle"
    BY <2>2
  <2>6. QED
    BY ONLY <2>4, <2>5 DEF HeardOf, Loaded
<1>3. ASSUME NEW h \in Handles, UnloadPlayback(h) PROVE HeardOf'
  <2>1. /\ sess' = [sess EXCEPT ![h] = NoStream] /\ told' = [told EXCEPT ![h] = "none"]
        /\ UNCHANGED <<stopping, cb>> /\ sess[h] \in Streams
        /\ playing' = [playing EXCEPT ![sess[h]] = @ /\ ~ring[sess[h]]]
    BY <1>3 DEF UnloadPlayback
  <2>2. \A g \in Handles : sess'[g] # NoStream =>
          g # h /\ sess'[g] = sess[g] /\ (playing'[sess[g]] => playing[sess[g]])
    BY <2>1
  <2>3. QED
    BY <2>1, <2>2
<1>4. ASSUME NEW h \in Handles, NEW l \in Lengths, Play(h, l) PROVE HeardOf'
  <2>1. /\ sess[h] \in Streams /\ Loaded(h)
        /\ playing' = [playing EXCEPT ![sess[h]] = TRUE]
        /\ told' = [g \in Handles |-> IF sess[g] = sess[h] THEN "playing" ELSE told[g]]
        /\ UNCHANGED <<sess, stopping, cb>>
    BY <1>4 DEF Play, Report
  <2>2. QED
    BY <2>1
<1>5. ASSUME NEW o \in Streams, StopStream(o) PROVE HeardOf'
  <2>1. /\ playing[o] /\ playing' = [playing EXCEPT ![o] = FALSE]
        /\ told' = [g \in Handles |-> IF sess[g] = o THEN "stopped" ELSE told[g]]
        /\ UNCHANGED <<sess, stopping, cb>>
    BY <1>5 DEF StopStream, Report
  <2>2. QED
    BY <2>1, <1>0
<1>6. ASSUME NEW k \in Cards, NEW e \in SUBSET Streams, ProcessBuffers(k, e) PROVE HeardOf'
  <2>1. /\ stopping' = [o \in Streams |-> stopping[o] /\ o[1] # k]
        /\ told' = [h \in Handles |->
                      IF Loaded(h) /\ sess[h][1] = k /\ stopping[sess[h]]
                      THEN "stopped" ELSE told[h]]
        /\ UNCHANGED <<sess, playing, cb>>
    BY <1>6 DEF ProcessBuffers
  <2>2. QED
    BY <2>1
<1>7. ASSUME NEW o \in Streams, CallbackWhole(o) PROVE HeardOf'
  <2>1. /\ playing[o] /\ playing' = [playing EXCEPT ![o] = FALSE]
        /\ stopping' = [stopping EXCEPT ![o] = TRUE] /\ UNCHANGED <<sess, told, cb>>
    BY <1>7 DEF CallbackWhole, Drained
  <2>2. QED
    BY <2>1
<1>8. ASSUME NEW o \in Streams,
             \/ CallbackEnter(o) \/ CallbackPass(o) \/ CallbackDrain(o)
             \/ CallbackFlag(o) \/ CallbackStop(o)
      PROVE HeardOf'
  <2>1. SplitCallback
    BY <1>8 DEF CallbackEnter, CallbackPass, CallbackDrain, CallbackFlag, CallbackStop
  <2>2. UNCHANGED <<sess, told>> /\ \A p \in Streams : playing'[p] => playing[p]
    BY <1>8 DEF CallbackEnter, CallbackPass, CallbackDrain, CallbackFlag, CallbackStop
  <2>3. QED
    BY <2>1, <2>2
<1>9. CASE Restart
  BY <1>9 DEF Restart, Off, NoSess, Untold, AllIdle
<1>10. CASE UNCHANGED vars
  BY <1>10, <1>a
<1>11. CASE Connection
  <2>1. UNCHANGED <<sess, told, playing, stopping, cb>> \/ \E c \in Conns : Drop(c)
    BY ONLY <1>11 DEF Connection, Connect, Authenticate, playVars, sessVars, streamVars
  <2>2. QED
    BY ONLY <2>1, <1>1, <1>a
<1>12. CASE PlayCommand
  <2>1. \/ UNCHANGED <<sess, told, playing, stopping, cb>>
        \/ \E c \in Conns, k \in Cards : LoadPlayback(c, k)
        \/ \E h \in Handles : UnloadPlayback(h) \/ \E l \in Lengths : Play(h, l)
        \/ \E h \in Handles : sess[h] \in Streams /\ StopStream(sess[h])
    <3>1. \A h \in Handles : StopPlayback(h) => sess[h] \in Streams /\ StopStream(sess[h])
      BY DEF StopPlayback
    <3>2. QED
      BY ONLY <1>12, <3>1
         DEF PlayCommand, RefusedLoad, PlayPosition, PlayPositionPastEnd, SetOutputVolume,
             FadeOutputVolume, playVars, sessVars, streamVars
  <2>2. QED
    BY ONLY <2>1, <1>2, <1>3, <1>4, <1>5, <1>a
<1>13. CASE Engine
  <2>1. \/ UNCHANGED <<sess, told, playing, stopping, cb>>
        \/ \E o \in Streams : StopStream(o)
        \/ \E k \in Cards, e \in SUBSET Streams : ProcessBuffers(k, e)
    BY ONLY <1>13 DEF Engine, StopTimer, FadeTick, sessVars, streamVars
  <2>2. QED
    BY ONLY <2>1, <1>5, <1>6, <1>a
<1>14. CASE Callback
  BY ONLY <1>14, <1>7, <1>8, <1>9 DEF Callback, CallbackCrash
<1>15. CASE RecordCommand
  <2>1. UNCHANGED <<sess, told, playing, stopping, cb>> \/ Restart
    BY ONLY <1>15
       DEF RecordCommand, LoadRecording, UnloadRecording, UnloadRecordingCrash, Record,
           StopRecording, RecordTimer, playVars, sessVars, streamVars
  <2>2. QED
    BY ONLY <2>1, <1>9, <1>a
<1>16. QED
  BY ONLY [Next]_vars, <1>10, <1>11, <1>12, <1>13, <1>14, <1>15 DEF Next
-----------------------------------------------------------------------------
\* The initial states of caed are initial states of Sessions.
LEMMA ContractInit == Init => Contract!Init
  BY DEF Init, Contract!Init, Contract!Handles, Handles, NoSess, Untold, Ones

\* Every step of caed is a step of Sessions, or none.
LEMMA ContractStep == ASSUME CInv, [Next]_vars PROVE [Contract!Next]_(Contract!vars)
<1> USE CaedAssumption, SameHandles
    DEF CInv, IInv, HeardOf, TypeOK, vars, connVars, playVars, sessVars, streamVars, volVars,
        recVars, Live, Loaded
<1>0. NoStream \notin Streams
  BY DEF Streams
<1>a. ASSUME UNCHANGED <<sess, told, serial>> PROVE [Contract!Next]_(Contract!vars)
  BY ONLY <1>a DEF Contract!vars
<1>1. ASSUME NEW c \in Conns, Connect(c) PROVE Contract!Next
  <2>1. Contract!Connect(c)
    BY <1>1 DEF Connect, Contract!Connect, OwnersLive
  <2>2. QED
    BY <2>1 DEF Contract!Next
<1>2. ASSUME NEW c \in Conns, Drop(c) PROVE Contract!Next
  <2>1. Contract!Lose({c})
    BY <1>2 DEF Drop, Contract!Lose
  <2>2. QED
    BY <2>1 DEF Contract!Next
<1>3. ASSUME NEW c \in Conns, NEW k \in Cards, LoadPlayback(c, k) PROVE Contract!Next
  <2>1. PICK o \in Streams : ~ring[o] /\ sess' = [sess EXCEPT ![<<c, serial[c]>>] = o]
    BY <1>3 DEF LoadPlayback, FreeStream
  <2>2. \A h \in Handles : sess[h] # o
    BY <2>1, <1>0 DEF StreamsAllocated
  <2>3. Contract!Load(c)
    BY <1>3, <2>1, <2>2 DEF LoadPlayback, Contract!Load
  <2>4. QED
    BY <2>3 DEF Contract!Next
<1>4. ASSUME NEW c \in Conns, RefusedLoad(c) PROVE Contract!Next
  <2>1. Contract!Refuse(c)
    BY <1>4 DEF RefusedLoad, Contract!Refuse
  <2>2. QED
    BY <2>1 DEF Contract!Next
<1>5. ASSUME NEW h \in Handles, UnloadPlayback(h) PROVE Contract!Next
  <2>1. Contract!Unload(h)
    BY <1>5 DEF UnloadPlayback, Contract!Unload
  <2>2. QED
    BY <2>1 DEF Contract!Next
\* "PY" is a start, or the client has not heard of the end of the last one yet.
<1>6. ASSUME NEW h \in Handles, NEW l \in Lengths, Play(h, l)
      PROVE  [Contract!Next]_(Contract!vars)
  <2>1. /\ Loaded(h) /\ UNCHANGED <<sess, serial>>
        /\ told' = [g \in Handles |-> IF sess[g] = sess[h] THEN "playing" ELSE told[g]]
    BY <1>6 DEF Play, Report
  <2>2. \A g \in Handles : sess[g] = sess[h] <=> g = h
    BY <2>1 DEF SessionsApart
  <2>3. told' = [told EXCEPT ![h] = "playing"]
    BY <2>1, <2>2
  <2>4. CASE told[h] = "playing"
    BY <2>1, <2>3, <2>4, <1>a
  <2>5. CASE told[h] # "playing"
    <3>1. told[h] \in {"loaded", "stopped"}
      BY <2>1, <2>5
    <3>2. Contract!Start(h)
      BY <2>1, <2>3, <3>1 DEF Contract!Start
    <3>3. QED
      BY <3>2 DEF Contract!Next
  <2>6. QED
    BY <2>4, <2>5
\* Those of E hear that they stopped; a few of them had heard it already.
<1>7. ASSUME NEW E \in SUBSET Handles, UNCHANGED <<sess, serial>>,
             told' = [h \in Handles |-> IF h \in E THEN "stopped" ELSE told[h]],
             \A h \in E : \/ told[h] \in {"playing", "stopped"}
                          \/ SplitCallback /\ told[h] = "loaded"
      PROVE  Contract!Next
  <2> DEFINE ended == {h \in E : told[h] # "stopped"}
  <2>1. ended \in SUBSET {h \in Handles : \/ told[h] = "playing"
                                          \/ SplitCallback /\ told[h] = "loaded"}
    BY <1>7
  <2>2. told' = [h \in Handles |-> IF h \in ended THEN "stopped" ELSE told[h]]
    BY <1>7
  <2>3. Contract!Stop
    BY <1>7, <2>1, <2>2 DEF Contract!Stop
  <2>4. QED
    BY <2>3 DEF Contract!Next
<1>8. ASSUME NEW o \in Streams, StopStream(o) PROVE Contract!Next
  <2> DEFINE E == {h \in Handles : sess[h] = o}
  <2>1. /\ playing[o] /\ UNCHANGED <<sess, serial>>
        /\ told' = [h \in Handles |-> IF sess[h] = o THEN "stopped" ELSE told[h]]
    BY <1>8 DEF StopStream, Report
  <2>2. told' = [h \in Handles |-> IF h \in E THEN "stopped" ELSE told[h]]
    BY <2>1
  <2>3. \A h \in E : told[h] \in {"playing", "stopped"}
    BY <2>1, <1>0
  <2>4. QED
    BY <2>1, <2>2, <2>3, <1>7
<1>9. ASSUME NEW k \in Cards, NEW e \in SUBSET Streams, ProcessBuffers(k, e)
      PROVE Contract!Next
  <2> DEFINE E == {h \in Handles : Loaded(h) /\ sess[h][1] = k /\ stopping[sess[h]]}
  <2>1. /\ UNCHANGED <<sess, serial>>
        /\ told' = [h \in Handles |->
                      IF Loaded(h) /\ sess[h][1] = k /\ stopping[sess[h]]
                      THEN "stopped" ELSE told[h]]
    BY <1>9 DEF ProcessBuffers
  <2>2. told' = [h \in Handles |-> IF h \in E THEN "stopped" ELSE told[h]]
    BY <2>1
  <2>3. \A h \in E : \/ told[h] \in {"playing", "stopped"}
                     \/ SplitCallback /\ told[h] = "loaded"
    BY SMT
  <2>4. QED
    BY <2>1, <2>2, <2>3, <1>7
<1>10. CASE Restart
  <2>1. Contract!Lose(Conns)
    <3>1. \A h \in Handles : h[1] \in Conns
      BY DEF Handles
    <3>2. QED
      BY <1>10, <3>1 DEF Restart, Contract!Lose, NoSess, Untold, Ones
  <2>2. QED
    BY <2>1 DEF Contract!Next
<1>11. CASE UNCHANGED vars
  BY <1>11, <1>a
<1>12. CASE Connection
  <2>1. \/ UNCHANGED <<sess, told, serial>>
        \/ \E c \in Conns : Connect(c) \/ Drop(c)
    BY ONLY <1>12 DEF Connection, Authenticate, playVars, sessVars
  <2>2. QED
    BY ONLY <2>1, <1>1, <1>2, <1>a
<1>13. CASE PlayCommand
  <2>1. \/ UNCHANGED <<sess, told, serial>>
        \/ \E c \in Conns : RefusedLoad(c) \/ \E k \in Cards : LoadPlayback(c, k)
        \/ \E h \in Handles : UnloadPlayback(h) \/ \E l \in Lengths : Play(h, l)
        \/ \E h \in Handles : sess[h] \in Streams /\ StopStream(sess[h])
    <3>1. \A h \in Handles : StopPlayback(h) => sess[h] \in Streams /\ StopStream(sess[h])
      BY DEF StopPlayback
    <3>2. QED
      BY ONLY <1>13, <3>1
         DEF PlayCommand, PlayPosition, PlayPositionPastEnd, SetOutputVolume,
             FadeOutputVolume, connVars, sessVars
  <2>2. QED
    BY ONLY <2>1, <1>3, <1>4, <1>5, <1>6, <1>8, <1>a
<1>14. CASE Engine \/ Callback
  <2>1. \/ UNCHANGED <<sess, told, serial>>
        \/ \E o \in Streams : StopStream(o)
        \/ \E k \in Cards, e \in SUBSET Streams : ProcessBuffers(k, e)
        \/ Restart
    BY ONLY <1>14
       DEF Engine, StopTimer, FadeTick, Callback, CallbackWhole, CallbackEnter, CallbackPass,
           CallbackDrain, CallbackCrash, CallbackFlag, CallbackStop, connVars, sessVars
  <2>2. QED
    BY ONLY <2>1, <1>8, <1>9, <1>10, <1>a
<1>15. CASE RecordCommand
  <2>1. UNCHANGED <<sess, told, serial>> \/ Restart
    BY ONLY <1>15
       DEF RecordCommand, LoadRecording, UnloadRecording, UnloadRecordingCrash, Record,
           StopRecording, RecordTimer, connVars, playVars, sessVars
  <2>2. QED
    BY ONLY <2>1, <1>10, <1>a
<1>16. QED
  BY ONLY [Next]_vars, <1>11, <1>12, <1>13, <1>14, <1>15 DEF Next

\* Each client sees its sessions as Sessions describes them, whatever the number
\* of clients, cards, drivers and streams, and however other clients, the timers
\* and the callback interleave with its commands.
THEOREM Implementation == Spec => ImplementsSessions
<1>1. CInv /\ [Next]_vars => HeardOf'
  BY HeardStep
<1>2. CInv /\ [Next]_vars => [Contract!Next]_(Contract!vars)
  BY ContractStep
<1>3. QED
  BY HeardInit, ContractInit, SessionSafety, <1>1, <1>2, PTL
     DEF Spec, CInv, ImplementsSessions, Contract!Spec
-----------------------------------------------------------------------------
\* A session that plays for its client keeps a stop to come, if the callback is not split.
LEMMA StopPendingStep ==
  ASSUME CInv, StopPending, ~SplitCallback, [Next]_vars
  PROVE  StopPending'
<1> USE DEF CInv, IInv, HeardOf, TypeOK, StopPending, vars, connVars, playVars, sessVars,
        streamVars, volVars, recVars, Live, Loaded
<1>0. /\ NoStream \notin Streams
      /\ \A h \in Handles : told[h] = "playing" => /\ sess[h] \in Streams
                                                   /\ playing[sess[h]] \/ stopping[sess[h]]
  BY CaedAssumption DEF Streams
<1>a. ASSUME UNCHANGED <<sess, told, playing, stopping, cb>> PROVE StopPending'
  BY <1>a
<1>1. ASSUME NEW c \in Conns, Drop(c) PROVE StopPending'
  <2>1. /\ sess' = [h \in Handles |-> IF h[1] = c THEN NoStream ELSE sess[h]]
        /\ told' = [h \in Handles |-> IF h[1] = c THEN "none" ELSE told[h]]
        /\ playing' = [o \in Streams |-> playing[o] /\ o \notin KillFrees(c)]
        /\ UNCHANGED stopping
    BY <1>1 DEF Drop
  <2>2. SUFFICES ASSUME NEW h \in Handles, told'[h] = "playing"
                 PROVE  playing'[sess'[h]] \/ stopping'[sess'[h]]
    BY <2>2
  <2>3. h[1] # c /\ sess'[h] = sess[h] /\ told[h] = "playing"
    BY <2>1, <2>2
  <2>4. sess[h] \notin KillFrees(c)
    BY <2>3, <1>0 DEF KillFrees, SessionsApart
  <2>5. QED
    BY <2>1, <2>3, <2>4, <1>0
<1>2. ASSUME NEW c \in Conns, NEW k \in Cards, LoadPlayback(c, k) PROVE StopPending'
  <2> DEFINE new == <<c, serial[c]>>
  <2>1. PICK o \in Streams : /\ ~ring[o]
                             /\ sess' = [sess EXCEPT ![new] = o]
                             /\ stopping' = [stopping EXCEPT ![o] = FALSE]
    BY <1>2 DEF LoadPlayback, FreeStream
  <2>2. told' = [told EXCEPT ![new] = "loaded"] /\ UNCHANGED playing /\ new \in Handles
    BY <1>2 DEF LoadPlayback, Handles
  <2>3. SUFFICES ASSUME NEW h \in Handles, told'[h] = "playing"
                 PROVE  playing'[sess'[h]] \/ stopping'[sess'[h]]
    BY <2>3
  <2>4. h # new /\ sess'[h] = sess[h] /\ told[h] = "playing"
    BY <2>1, <2>2, <2>3
  <2>5. sess[h] # o
    BY <2>1, <2>4, <1>0 DEF StreamsAllocated
  <2>6. QED
    BY <2>1, <2>2, <2>4, <2>5, <1>0
<1>3. ASSUME NEW g \in Handles, UnloadPlayback(g) PROVE StopPending'
  <2>1. /\ sess' = [sess EXCEPT ![g] = NoStream] /\ told' = [told EXCEPT ![g] = "none"]
        /\ UNCHANGED stopping /\ sess[g] \in Streams
        /\ playing' = [playing EXCEPT ![sess[g]] = @ /\ ~ring[sess[g]]]
    BY <1>3 DEF UnloadPlayback
  <2>2. SUFFICES ASSUME NEW h \in Handles, told'[h] = "playing"
                 PROVE  playing'[sess'[h]] \/ stopping'[sess'[h]]
    BY <2>2
  <2>3. h # g /\ sess'[h] = sess[h] /\ told[h] = "playing"
    BY <2>1, <2>2
  <2>4. sess[h] # sess[g]
    BY <2>3, <1>0 DEF SessionsApart
  <2>5. QED
    BY <2>1, <2>3, <2>4, <1>0
<1>4. ASSUME NEW h \in Handles, NEW l \in Lengths, Play(h, l) PROVE StopPending'
  <2>1. /\ sess[h] \in Streams
        /\ playing' = [playing EXCEPT ![sess[h]] = TRUE]
        /\ told' = [g \in Handles |-> IF sess[g] = sess[h] THEN "playing" ELSE told[g]]
        /\ UNCHANGED <<sess, stopping, cb>>
    BY <1>4, <1>0 DEF Play, Report
  <2>2. QED
    BY <2>1
<1>5. ASSUME NEW o \in Streams, StopStream(o) PROVE StopPending'
  <2>1. /\ playing' = [playing EXCEPT ![o] = FALSE]
        /\ told' = [g \in Handles |-> IF sess[g] = o THEN "stopped" ELSE told[g]]
        /\ UNCHANGED <<sess, stopping, cb>>
    BY <1>5 DEF StopStream, Report
  <2>2. QED
    BY <2>1, <1>0
<1>6. ASSUME NEW k \in Cards, NEW e \in SUBSET Streams, ProcessBuffers(k, e)
      PROVE  StopPending'
  <2>1. /\ stopping' = [o \in Streams |-> stopping[o] /\ o[1] # k]
        /\ told' = [h \in Handles |->
                      IF Loaded(h) /\ sess[h][1] = k /\ stopping[sess[h]]
                      THEN "stopped" ELSE told[h]]
        /\ UNCHANGED <<sess, playing, cb>>
    BY <1>6 DEF ProcessBuffers
  <2>2. QED
    BY <2>1, <1>0
<1>7. ASSUME NEW o \in Streams, CallbackWhole(o) PROVE StopPending'
  <2>1. /\ playing' = [playing EXCEPT ![o] = FALSE]
        /\ stopping' = [stopping EXCEPT ![o] = TRUE] /\ UNCHANGED <<sess, told, cb>>
    BY <1>7 DEF CallbackWhole
  <2>2. QED
    BY <2>1, <1>0
<1>8. CASE Restart
  BY <1>8 DEF Restart, Untold
<1>9. CASE UNCHANGED vars
  BY <1>9, <1>a
<1>10. CASE Connection
  <2>1. UNCHANGED <<sess, told, playing, stopping, cb>> \/ \E c \in Conns : Drop(c)
    BY ONLY <1>10 DEF Connection, Connect, Authenticate, playVars, sessVars, streamVars
  <2>2. QED
    BY ONLY <2>1, <1>1, <1>a
<1>11. CASE PlayCommand
  <2>1. \/ UNCHANGED <<sess, told, playing, stopping, cb>>
        \/ \E c \in Conns, k \in Cards : LoadPlayback(c, k)
        \/ \E h \in Handles : UnloadPlayback(h) \/ \E l \in Lengths : Play(h, l)
        \/ \E h \in Handles : sess[h] \in Streams /\ StopStream(sess[h])
    <3>1. \A h \in Handles : StopPlayback(h) => sess[h] \in Streams /\ StopStream(sess[h])
      BY DEF StopPlayback
    <3>2. QED
      BY ONLY <1>11, <3>1
         DEF PlayCommand, RefusedLoad, PlayPosition, PlayPositionPastEnd, SetOutputVolume,
             FadeOutputVolume, playVars, sessVars, streamVars
  <2>2. QED
    BY ONLY <2>1, <1>2, <1>3, <1>4, <1>5, <1>a
<1>12. CASE Engine
  <2>1. \/ UNCHANGED <<sess, told, playing, stopping, cb>>
        \/ \E o \in Streams : StopStream(o)
        \/ \E k \in Cards, e \in SUBSET Streams : ProcessBuffers(k, e)
    BY ONLY <1>12 DEF Engine, StopTimer, FadeTick, sessVars, streamVars
  <2>2. QED
    BY ONLY <2>1, <1>5, <1>6, <1>a
<1>13. CASE Callback
  <2>1. \E o \in Streams : CallbackWhole(o)
    BY <1>13 DEF Callback, CallbackEnter, CallbackPass, CallbackDrain, CallbackCrash,
       CallbackFlag, CallbackStop
  <2>2. QED
    BY ONLY <2>1, <1>7
<1>14. CASE RecordCommand
  <2>1. UNCHANGED <<sess, told, playing, stopping, cb>> \/ Restart
    BY ONLY <1>14
       DEF RecordCommand, LoadRecording, UnloadRecording, UnloadRecordingCrash, Record,
           StopRecording, RecordTimer, playVars, sessVars, streamVars
  <2>2. QED
    BY ONLY <2>1, <1>8, <1>a
<1>15. QED
  BY ONLY [Next]_vars, <1>9, <1>10, <1>11, <1>12, <1>13, <1>14 DEF Next

\* A client that was told its session plays has a stop coming, in every
\* behaviour in which the event loop does not run in the middle of the
\* callback.  (Where it does, a session stopped and started again just there is
\* silenced without a word.)
THEOREM StopsPend == ~SplitCallback => (Spec => []StopPending)
<1> SUFFICES ASSUME ~SplitCallback PROVE Spec => []StopPending
  OBVIOUS
<1>1. Init => StopPending
  BY DEF Init, StopPending, Untold
<1>2. CInv /\ [Next]_vars => HeardOf'
  BY HeardStep
<1>3. CInv /\ StopPending /\ [Next]_vars => StopPending'
  BY StopPendingStep
<1>4. QED
  BY HeardInit, SessionSafety, <1>1, <1>2, <1>3, PTL DEF Spec, CInv
=============================================================================
