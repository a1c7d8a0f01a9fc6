------------------------------ MODULE LogPlay ------------------------------
(***************************************************************************)
(* RDLogPlay, the log playout machine of rdairplay and rdvairplayd, with   *)
(* its pool of RDPlayDecks and its macro deck.  It runs in one Qt event    *)
(* loop: each action is one event (an operator command, an answer of caed, *)
(* a timer) with every call it makes before the loop runs again.           *)
(*                                                                         *)
(* Those calls nest (a marker finishes, which starts the next line, ...),  *)
(* so handlers are operators from machine states to machine states: w is a *)
(* record of the variables they change, and Become(w) makes it the next    *)
(* state.  Lines are numbered from 1; 0 is "no line" or "no deck".         *)
(***************************************************************************)
EXTENDS Integers, FiniteSets

CONSTANTS
  NLines,       \* lines of the log
  Logs,         \* the logs to play
  NDecks,       \* RD_MAX_STREAMS
  MaxPlays,     \* LOGPLAY_MAX_PLAYS
  Modes,        \* the operation modes the operator may choose
  Commands,     \* the commands the operator may give
  MaxCommands,  \* bound: commands in a behaviour
  Timed,        \* how a hard start interrupts: "Segue" if play_trans_length > 0
  MaxTime,      \* bound: the wall clock, in hard start times
  Prompt        \* FALSE: other events may be handled before a hard start that
                \* is due, as when it falls due while a handler runs

Lines == 1..NLines
Decks == 1..NDecks
Times == 0..MaxTime

LineTypes ==
  [kind  : {"audio", "macro", "sleeper", "async", "marker"},
   trans : {"Play", "Segue", "Stop"},
   hard  : Times,                     \* hard start time, or 0
   grace : {"now", "next", "wait"},   \* grace time 0, -1 or positive
   fade  : BOOLEAN,                   \* segueGain() # 0
   ok    : BOOLEAN,                   \* the cart has a playable cut
   file  : BOOLEAN]                   \* caed can load the cut's file

ASSUME LogPlayAssumption ==
  /\ NLines \in Nat \ {0} /\ NDecks \in Nat \ {0} /\ MaxPlays \in Nat
  /\ MaxCommands \in Nat /\ MaxTime \in Nat
  /\ Logs \subseteq [Lines -> LineTypes]
  /\ Timed \in {"Play", "Segue"}
  /\ Prompt \in BOOLEAN
  /\ Modes \subseteq {"Auto", "LiveAssist", "Manual"}
  /\ Commands \subseteq {"play", "stop", "pause", "next", "mode"}

VARIABLES
  log,       \* the lines
  status,    \* of each line
  trans,     \* its transition type, which can be changed while it waits
  next,      \* play_next_line
  deck,      \* the decks
  deckOf,    \* each line's playDeck()
  macro,     \* the line whose macro sleeps in play_macro_deck
  timer,     \* play_trans_line while play_trans_timer runs
  grace,     \* play_grace_line while play_grace_timer runs
  backtime,  \* play_segue_backtime_id while its timer runs
  mode,      \* play_op_mode
  now,       \* the wall clock
  used,      \* commands given
  died       \* the program reached through a playDeck() that was NULL

machine == <<status, trans, next, deck, deckOf, macro, timer, grace>>
vars == <<log, machine, backtime, mode, now, used, died>>

Audio(k)   == log[k].kind = "audio"
Instant(k) == log[k].kind \in {"async", "marker"}  \* done as soon as started
Macro(k)   == log[k].kind \in {"macro", "sleeper"}

\* A deck's state, the line it plays (play_id), whether its signals reach
\* RDLogPlay, stop_called, pause_called, the place of the playing position
\* among the segue markers and what caed knows of its play session:
\*   none     no session (play_serial = 0)
\*   asked    loaded and told to play
\*   sounding caed said that it plays
\*   parked   stopped, still loaded
\*   refused  caed cannot play it and the client ignores the "-"
\*   leaving  unloaded, "SP" still to come
\*   gone     unloaded, its serial number still in the deck
DeckTypes ==
  [busy : BOOLEAN, line : 0..NLines, wired : BOOLEAN,
   state : {"Stopped", "Playing", "Stopping", "Paused"},
   stopCalled : BOOLEAN, pauseCalled : BOOLEAN,
   segue : {"ahead", "inside", "off"},
   audio : {"none", "asked", "sounding", "parked", "refused", "leaving", "gone"}]

IdleDeck == [busy |-> FALSE, line |-> 0, wired |-> FALSE, state |-> "Stopped",
             stopCalled |-> FALSE, pauseCalled |-> FALSE, segue |-> "off",
             audio |-> "none"]

-----------------------------------------------------------------------------
(* Machine states *)

Machine == [status |-> status, trans |-> trans, next |-> next, deck |-> deck,
            deckOf |-> deckOf, macro |-> macro, timer |-> timer, grace |-> grace]

Become(w) ==
  /\ status' = w.status /\ trans' = w.trans /\ next' = w.next
  /\ deck' = w.deck /\ deckOf' = w.deckOf /\ macro' = w.macro
  /\ timer' = w.timer /\ grace' = w.grace

Is(w, k, s) == k \in Lines /\ w.status[k] \in s

\* runningEvents(): paused lines count.
Running(w) == {k \in Lines : w.status[k] \in {"Playing", "Finishing", "Paused"}}

SetStatus(w, k, s) == [w EXCEPT !.status[k] = s]

\* Mutants of Soonest: it takes the last of the hard times; it takes lines that
\* were started already.
SoonestLatest(w) ==
  LET due == {k \in Lines : w.status[k] = "Scheduled" /\ log[k].hard > now} IN
  IF due = {} THEN 0
  ELSE CHOOSE k \in due : \A j \in due : log[j].hard <= log[k].hard

SoonestAny(w) ==
  LET due == {k \in Lines : log[k].hard > now} IN
  IF due = {} THEN 0
  ELSE CHOOSE k \in due : \A j \in due : log[k].hard <= log[j].hard

\* The line SetTransTimer waits for: the earliest hard time still to come; of
\* two lines with the same time the last.
Soonest(w) ==
  LET due == {k \in Lines : w.status[k] = "Scheduled" /\ log[k].hard > now} IN
  IF due = {} THEN 0
  ELSE CHOOSE k \in due : \A j \in due : \/ log[k].hard < log[j].hard
                                         \/ log[k].hard = log[j].hard /\ j <= k

SetTransTimer(w) == [w EXCEPT !.timer = Soonest(w)]

\* SetTransTimer(QTime(), prev_next_line == play_trans_line), after every
\* start of a cascade: prevs holds each prev_next_line.
RearmTransTimer(w, prevs) ==
  IF w.timer = 0 \/ w.timer \in prevs THEN SetTransTimer(w) ELSE w

makeNext(w, k) == SetTransTimer([w EXCEPT !.next = k])

\* Mutant of Within: the loop does not know the end of the log.
Beyond(w) == w

\* The loop at the end of StartEvent: no next line beyond the end of the log.
Within(w) == IF w.next \in Lines THEN w ELSE [w EXCEPT !.next = 0]

-----------------------------------------------------------------------------
(* GetNextPlayable *)

First(S) == IF S = {} THEN 0 ELSE CHOOSE k \in S : \A j \in S : k <= j

\* From line p on: the line to play, or the line it makes next instead.
Look(w, p, forced) ==
  LET waiting == {k \in Lines : p # 0 /\ k >= p /\ Is(w, k, {"Scheduled", "Paused"})}
      halts   == {k \in waiting : k # p /\ (w.trans[k] = "Stop" \/ mode = "LiveAssist")}
      plays   == {k \in waiting : log[k].ok \/ (w.trans[k] = "Stop" /\ ~forced)}
      k       == First(halts \union plays)
  IN  IF k \in halts THEN [line |-> 0, halt |-> k] ELSE [line |-> k, halt |-> 0]

\* GetNextPlayable(&play_next_line, false): the machine after it.
Advance(w) ==
  LET look == Look(w, w.next, FALSE) IN
  CASE look.halt # 0 -> makeNext(w, look.halt)
    [] look.line # 0 -> [w EXCEPT !.next = look.line]
    [] OTHER         -> w

-----------------------------------------------------------------------------
(* Decks *)

\* RDPlayDeck::stop(), at once or after a fade; caed's "SP" comes later.
StopDeck(w, d) ==
  IF w.deck[d].state \notin {"Playing", "Stopping"} THEN w
  ELSE [w EXCEPT !.deck[d] = [@ EXCEPT !.state = "Stopping", !.stopCalled = TRUE]]

\* FreePlayDeck with RDPlayDeck::reset(), which leaves play_serial alone.
FreeDeck(w, k) ==
  LET d == w.deckOf[k]
      audio == w.deck[d].audio
  IN [w EXCEPT !.deckOf[k] = 0,
               !.deck[d] = [@ EXCEPT
                 !.busy = FALSE, !.wired = FALSE, !.state = "Stopped", !.segue = "off",
                 !.audio = IF w.deck[d].state = "Stopped" THEN audio
                           ELSE IF audio \in {"asked", "sounding", "leaving"}
                           THEN "leaving" ELSE "gone"]]

\* CleanupEvent
Cleanup(w, k) == SetStatus(FreeDeck(w, k), k, "Finished")

\* GetPlayDeck: the lowest deck that is not active.
FreeDecks(w) == {d \in Decks : ~w.deck[d].busy}

\* Deck x taken for line k: setId, connect, setCart and play.  A deck that
\* believes it is paused does not load the cut.
Load(x, k) ==
  [x EXCEPT !.busy = TRUE, !.line = k, !.wired = TRUE, !.state = "Playing",
            !.stopCalled = FALSE, !.pauseCalled = FALSE, !.segue = "ahead",
            !.audio = IF x.state = "Paused"
                      THEN IF @ = "leaving" THEN @ ELSE "refused"
                      ELSE IF log[k].file THEN "asked" ELSE "refused"]

\* The deck of a paused line plays on from where it was.
Resume(x) ==
  [x EXCEPT !.wired = TRUE, !.state = "Playing", !.stopCalled = FALSE,
            !.pauseCalled = FALSE, !.audio = IF @ = "parked" THEN "asked" ELSE @]

-----------------------------------------------------------------------------
(* StartEvent and FinishEvent *)

\* Mutant of StopMacro: the stopped macro does not finish its line.
StopMacroSilently(w) == [w EXCEPT !.macro = 0]

\* play_macro_deck->stop(): only a sleeping macro can be stopped.
StopMacro(w) ==
  IF w.macro = 0 THEN w
  ELSE [w EXCEPT !.status[w.macro] = "Finished", !.macro = 0]

\* The next line after k, where there is one at all.
AssignNext(w, k) == [w EXCEPT !.next = IF @ = 0 THEN 0 ELSE k + 1]

\* Mutant of PlayAudio: a paused line takes a deck like any other.
PlayAudioAfresh(w, k) ==
  IF FreeDecks(w) = {} THEN w
  ELSE LET d == First(FreeDecks(w)) IN
       AssignNext(SetStatus([w EXCEPT !.deck[d] = Load(@, k), !.deckOf[k] = d],
                            k, "Playing"), k)

\* Line k starts to play on a deck of its own, if there is one: if not, a line
\* that is started once more loses the deck it has.
PlayAudio(w, k) ==
  CASE w.status[k] = "Paused" ->
         SetStatus([w EXCEPT !.deck[w.deckOf[k]] = Resume(@)], k, "Playing")
    [] w.status[k] # "Paused" /\ FreeDecks(w) # {} ->
         LET d == First(FreeDecks(w)) IN
         AssignNext(SetStatus([w EXCEPT !.deck[d] = Load(@, k), !.deckOf[k] = d],
                              k, "Playing"), k)
    [] OTHER -> [w EXCEPT !.deckOf[k] = 0]

\* play_macro_deck executes the cart of line k.  Without a sleep it finishes
\* at once, inside exec(): FinishEvent still finds line k itself Playing, so it
\* only looks for the next line.  A macro loaded behind a sleeping one runs
\* the sleep again.
RunMacro(w, k) ==
  IF log[k].kind = "sleeper" \/ w.macro # 0
  THEN [AssignNext(SetStatus(w, k, "Playing"), k) EXCEPT !.macro = k]
  ELSE SetStatus(Advance(AssignNext(SetStatus(w, k, "Playing"), k)), k, "Finished")

PlayLine(w, k) == IF Audio(k) THEN PlayAudio(w, k) ELSE RunMacro(w, k)

\* Mutant of Interrupted: a segue stops what does not fade.
InterruptedWrong(w, how) ==
  {k \in Lines : /\ Audio(k) /\ w.deckOf[k] # 0
                 /\ \/ how = "Play" /\ Is(w, k, {"Playing", "Finishing"})
                    \/ how = "Segue" /\ Is(w, k, {"Playing"}) /\ ~log[k].fade}

\* A line that starts stops what runs, unless the mode is Manual: all of it
\* ("Play"), or what is not already finishing and fades on a segue ("Segue").
Interrupted(w, how) ==
  {k \in Lines : /\ Audio(k) /\ w.deckOf[k] # 0
                 /\ \/ how = "Play" /\ Is(w, k, {"Playing", "Finishing"})
                    \/ how = "Segue" /\ Is(w, k, {"Playing"}) /\ log[k].fade}

Transition(w, how) ==
  LET out == Interrupted(w, how) IN
  IF mode = "Manual" THEN w
  ELSE StopMacro([w EXCEPT
         !.deck = [d \in Decks |->
                     IF d \in {w.deckOf[k] : k \in out} THEN StopDeck(w, d).deck[d]
                     ELSE w.deck[d]],
         !.status = [k \in Lines |->
                       IF how = "Segue" /\ k \in out THEN "Finishing" ELSE w.status[k]]])

\* Mutant of FinishEvent: it starts the next line whatever still runs.
FinishEventAtOnce(w) ==
  LET f == Look(w, w.next, FALSE).line IN
  IF mode = "Auto" /\ f # 0 /\ w.trans[f] # "Stop" /\ ~Instant(f)
  THEN Within(PlayLine(Transition([w EXCEPT !.next = f], "Play"), f))
  ELSE Advance(w)

\* FinishEvent, with all it starts.  In Auto, and when nothing runs, it starts
\* the next playable line; a line that is done at once finishes in turn, which
\* starts the line after it.
FinishEvent(w) ==
  LET waiting == {k \in Lines : /\ w.next # 0 /\ k >= w.next
                                /\ w.status[k] = "Scheduled"}
      started == {k \in waiting :
                    /\ mode = "Auto" /\ Running(w) = {}
                    /\ log[k].ok /\ w.trans[k] # "Stop"
                    /\ \A j \in waiting : j < k => /\ w.trans[j] # "Stop"
                                                   /\ log[j].ok => Instant(j)}
      last    == CHOOSE k \in started : \A j \in started : j <= k
      done    == {k \in started : Instant(k)}
      past    == [w EXCEPT !.status = [k \in Lines |-> IF k \in done THEN "Finished"
                                                       ELSE w.status[k]]]
  IN IF started = {} THEN Advance(w)
     ELSE RearmTransTimer(
            Within(IF last \in done THEN Advance([past EXCEPT !.next = last + 1])
                   ELSE PlayLine([past EXCEPT !.next = last], last)),
            {w.next} \union {k + 1 : k \in started \ {last}})

\* A cart without a playable cut is faked: it takes a deck, plays and finishes
\* in no time.
Fake(w, k) ==
  LET d == First(FreeDecks(w))
      z == Cleanup([w EXCEPT !.deckOf[k] = d, !.deck[d].line = k,
                             !.grace = IF log[k].hard # 0 THEN 0 ELSE @], k)
  IN IF Is(z, k + 1, {"Playing", "Finishing"}) THEN z ELSE FinishEvent(z)

StartEvent(w, k, how) ==
  LET z == Transition(w, how) IN
  CASE Instant(k) -> Within(FinishEvent(AssignNext(SetStatus(z, k, "Finished"), k)))
    [] Audio(k) /\ ~log[k].ok /\ FreeDecks(z) # {} -> Fake(z, k)
    [] Audio(k) /\ ~log[k].ok /\ FreeDecks(z) = {} -> z
    [] OTHER -> Within(PlayLine(z, k))

-----------------------------------------------------------------------------
Init ==
  /\ log \in Logs
  /\ status = [k \in Lines |-> "Scheduled"]
  /\ trans = [k \in Lines |-> log[k].trans]
  /\ next = 1
  /\ deck = [d \in Decks |-> IdleDeck]
  /\ deckOf = [k \in Lines |-> 0]
  /\ macro = 0 /\ grace = 0 /\ backtime = 0
  /\ mode = "Auto" /\ now = 0 /\ used = 0 /\ died = FALSE
  /\ timer = Soonest([status |-> status])

-----------------------------------------------------------------------------
(* The operator *)

Command(c) ==
  /\ c \in Commands /\ used < MaxCommands
  /\ used' = used + 1
  /\ UNCHANGED <<log, backtime, now>>

\* RDLogPlay::play
Play(k) ==
  LET w == Machine
      look == Look(w, k, TRUE) IN
  /\ Command("play") /\ UNCHANGED mode
  /\ Cardinality(Running(w)) < MaxPlays \/ status[k] = "Paused"
  /\ \/ look.halt # 0 /\ Become(makeNext(w, look.halt))
     \/ look.line # 0 /\ Become(SetTransTimer(StartEvent(w, look.line, "Segue")))

\* RDLogPlay::stop of a line, with or without a fade.
Stop(k) ==
  /\ Command("stop") /\ UNCHANGED mode
  /\ \/ Audio(k) /\ deckOf[k] # 0 /\ Become(StopDeck(Machine, deckOf[k]))
     \/ Macro(k) /\ Become(StopMacro(Machine))

\* RDLogPlay::pause, whatever the deck does.
Pause(k) ==
  /\ Command("pause") /\ UNCHANGED mode
  /\ Audio(k) /\ deckOf[k] # 0
  /\ LET d == deckOf[k] IN
       Become([Machine EXCEPT
                 !.deck[d] = [@ EXCEPT !.state = "Paused", !.pauseCalled = TRUE]])

MakeNext(k) ==
  /\ Command("next") /\ UNCHANGED mode
  /\ Become(makeNext(Machine, k))

SetOpMode(m) ==
  /\ Command("mode") /\ m # mode
  /\ mode' = m
  /\ UNCHANGED machine

Operator ==
  \/ \E k \in Lines : Play(k) \/ Stop(k) \/ Pause(k) \/ MakeNext(k)
  \/ \E m \in Modes : SetOpMode(m)

-----------------------------------------------------------------------------
(* The answers of caed *)

outside == <<log, backtime, mode, now, used>>

\* Mutant of Confirmed: any line that starts ends the grace period.
ConfirmedAny(d) ==
  /\ deck[d].audio = "asked"
  /\ Become([Machine EXCEPT !.deck[d].audio = "sounding",
                            !.grace = IF deck[d].wired THEN 0 ELSE @])
  /\ UNCHANGED outside

\* "PY": playingData, and RDLogPlay::Playing of the deck's line.
Confirmed(d) ==
  /\ deck[d].audio = "asked"
  /\ Become([Machine EXCEPT
       !.deck[d].audio = "sounding",
       !.grace = IF deck[d].wired /\ log[deck[d].line].hard # 0 THEN 0 ELSE @])
  /\ UNCHANGED outside

\* Mutants of Finished: it leaves the next line to the segue it expects; it
\* looks for the next line before the old one is cleaned up.
FinishedOnSegue(w, k) ==
  IF w.status[k] # "Playing" THEN w
  ELSE LET z == Cleanup(w, k) IN
       IF k + 1 \in Lines /\ w.trans[k + 1] = "Segue" THEN z ELSE FinishEvent(z)

FinishedEarly(w, k) ==
  IF w.status[k] # "Playing" THEN w ELSE Cleanup(FinishEvent(w), k)

\* RDLogPlay::Finished
Finished(w, k) ==
  IF w.status[k] # "Playing" THEN w
  ELSE LET z == Cleanup(w, k) IN
       IF Is(z, k + 1, {"Playing", "Finishing"}) THEN z ELSE FinishEvent(z)

\* Mutant of Paused: the signals of the paused deck stay connected.
PausedWired(w, k) == SetStatus(w, k, "Paused")

\* RDLogPlay::Paused
Paused(w, k) == SetStatus([w EXCEPT !.deck[w.deckOf[k]].wired = FALSE], k, "Paused")

\* CleanupEvent or Paused, at the end of deck d's session, reach through its
\* line's playDeck().
Reaches(d) ==
  LET x == deck[d] IN
  /\ x.wired /\ x.audio \in {"sounding", "leaving"}
  /\ x.pauseCalled \/ x.stopCalled \/ status[x.line] = "Playing"

\* "SP", asked for or at the end of the audio: playStoppedData.
SessionEnds(d) ==
  LET x == deck[d]
      k == x.line
      held == [Machine EXCEPT !.deck[d] = [@ EXCEPT
                 !.state = "Paused",
                 !.audio = IF x.audio = "leaving" THEN "gone" ELSE "parked"]]
      over == [Machine EXCEPT !.deck[d] = [@ EXCEPT
                 !.state = "Stopped", !.audio = "none", !.segue = "off"]]
  IN /\ x.audio \in {"sounding", "leaving"}
     /\ Reaches(d) => deckOf[k] # 0   \* or else Crash
     /\ Become(CASE x.pauseCalled /\ ~x.wired                -> held
                 [] x.pauseCalled /\ x.wired                 -> Paused(held, k)
                 [] ~x.pauseCalled /\ ~x.wired               -> over
                 [] ~x.pauseCalled /\ x.wired /\ x.stopCalled  -> Cleanup(over, k)
                 [] ~x.pauseCalled /\ x.wired /\ ~x.stopCalled -> Finished(over, k))
     /\ UNCHANGED outside

-----------------------------------------------------------------------------
(* The timers *)

\* The time that play_trans_timer waits for has come.
Due == timer # 0 /\ log[timer].hard = now

\* What makes a segue from line k still a segue when it is due.
SegueDue(k) ==
  /\ mode = "Auto" /\ next # 0 /\ trans[next] = "Segue" /\ status[k] = "Playing"

\* The rest of segueStartData and of segueBacktimeData.
SegueToNext(w) ==
  LET z == Advance(w)
      f == Look(w, w.next, FALSE).line
  IN IF f = 0 THEN z ELSE SetTransTimer(StartEvent(z, f, "Segue"))

Marks(d, from) ==
  deck[d].segue = from /\ deck[d].audio \in {"asked", "sounding", "refused"}

\* The deck's segue start marker: segueStartData.  A line that does not fade
\* may have a tail longer than the next line's intro, and then waits.
SegueStart(d) ==
  LET k == deck[d].line
      w == [Machine EXCEPT !.deck[d].segue = "inside"] IN
  /\ Marks(d, "ahead")
  /\ UNCHANGED <<log, mode, now, used>>
  /\ IF ~deck[d].wired \/ ~SegueDue(k)
     THEN Become(w) /\ UNCHANGED backtime
     ELSE \/ Become(SegueToNext(w)) /\ UNCHANGED backtime
          \/ /\ ~log[k].fade
             /\ backtime' = k
             /\ Become(w)

\* segueBacktimeData: it asks again whether the segue is due.
SegueBacktime ==
  /\ backtime # 0
  /\ backtime' = 0
  /\ Become(IF SegueDue(backtime) THEN SegueToNext(Machine) ELSE Machine)
  /\ UNCHANGED <<log, mode, now, used>>

\* The segue end marker: pointTimerData asks caed to stop a line that fades,
\* segueEndData cleans it up without waiting for the answer.
SegueEnd(d) ==
  LET k == deck[d].line
      w == [Machine EXCEPT !.deck[d].segue = "off"] IN
  /\ Marks(d, "inside")
  /\ deck[d].wired /\ mode = "Auto" /\ status[k] = "Finishing" => deckOf[k] # 0
                                                         \* or else Crash
  /\ Become(IF deck[d].wired /\ mode = "Auto" /\ status[k] = "Finishing"
            THEN Cleanup(StopDeck(w, deckOf[k]), k)
            ELSE w)
  /\ UNCHANGED outside

\* The sleep of a macro is over: macroFinishedData.
SleepTimer ==
  /\ macro # 0
  /\ Become(SetStatus(FinishEvent([Machine EXCEPT !.macro = 0]), macro, "Finished"))
  /\ UNCHANGED outside

\* A hard start time has come: transTimerData.
TransTimer ==
  LET k == timer
      w == [Machine EXCEPT !.timer = 0, !.grace = 0]
      look == Look(w, k, FALSE)
      f == look.line IN
  /\ Due
  /\ Become(
       CASE mode # "Auto" -> SetTransTimer(w)
         [] mode = "Auto" /\ log[k].grace = "next" -> makeNext(w, k)
         [] mode = "Auto" /\ log[k].grace = "wait" /\ Running(w) # {} ->
              [w EXCEPT !.grace = k, !.trans[k] = IF @ = "Stop" THEN "Play" ELSE @]
         [] OTHER ->
              CASE f = 0 -> SetTransTimer(IF look.halt = 0 THEN w ELSE makeNext(w, look.halt))
                [] f # 0 /\ trans[f] = "Stop" /\ log[f].grace = "next" -> makeNext(w, f)
                [] OTHER -> SetTransTimer(StartEvent(makeNext(w, f), k, Timed)))
  /\ UNCHANGED outside

\* The grace period of a hard start is over: graceTimerData.
GraceTimer ==
  LET k == grace
      w == [Machine EXCEPT !.grace = 0]
      look == Look(w, k, FALSE) IN
  /\ grace # 0
  /\ Become(
       CASE mode # "Auto" -> w
         [] mode = "Auto" /\ look.line = 0 ->
              SetTransTimer(IF look.halt = 0 THEN w ELSE makeNext(w, look.halt))
         [] mode = "Auto" /\ look.line # 0 ->
              StartEvent(makeNext(w, k), k, IF Running(w) = {} THEN "Play" ELSE Timed))
  /\ UNCHANGED outside

Tick ==
  /\ now < MaxTime
  /\ ~Due
  /\ now' = now + 1
  /\ UNCHANGED <<log, machine, backtime, mode, used>>

Deck(d) == Confirmed(d) \/ SessionEnds(d) \/ SegueStart(d) \/ SegueEnd(d)

Handler ==
  \/ TransTimer
  \/ /\ Prompt => ~Due
     /\ (\E d \in Decks : Deck(d)) \/ SegueBacktime \/ SleepTimer \/ GraceTimer

\* A handler reaches through a playDeck() that is NULL, which none of them asks:
\* that of a line whose other deck came to its end, or, working out when the log
\* will stop, that of a line which was started anew and found no deck.
Crash ==
  /\ Prompt => ~Due
  /\ \E k \in Lines :
       /\ Audio(k) /\ deckOf[k] = 0
       /\ \/ status[k] \in {"Playing", "Finishing"}
          \/ \E d \in Decks : deck[d].line = k /\ Reaches(d)
  /\ ~died /\ died' = TRUE
  /\ UNCHANGED <<log, machine, backtime, mode, now, used>>

Alive == ~died /\ UNCHANGED died

Next ==
  \/ Alive /\ Handler
  \/ Alive /\ (Prompt => ~Due) /\ Operator
  \/ Alive /\ Tick
  \/ Crash

Spec == Init /\ [][Next]_vars

\* An answer of caed, the end of audio or a timer that the event loop will have
\* to handle: Handler or Crash is enabled.
Pending ==
  /\ ~died
  /\ \/ Due \/ backtime # 0 \/ macro # 0 \/ grace # 0
     \/ \E d \in Decks : \/ deck[d].audio \in {"asked", "sounding", "leaving"}
                         \/ Marks(d, "ahead") \/ Marks(d, "inside")

\* WF_vars(Handler \/ Crash), its ENABLED spelled out: the event loop does not
\* sleep while something is pending.  caed answers, and audio comes to its end.
Fairness == []<>~Pending \/ []<><<Handler \/ Crash>>_vars

FairSpec == Spec /\ Fairness

-----------------------------------------------------------------------------
(* Properties *)

\* Every variable has its type.
TypeOK ==
  /\ log \in Logs
  /\ status \in [Lines -> {"Scheduled", "Playing", "Finishing", "Paused", "Finished"}]
  /\ trans \in [Lines -> {"Play", "Segue", "Stop"}]
  /\ next \in 0..NLines /\ macro \in 0..NLines /\ timer \in 0..NLines
  /\ grace \in 0..NLines /\ backtime \in 0..NLines
  /\ deck \in [Decks -> DeckTypes]
  /\ deckOf \in [Lines -> 0..NDecks]
  /\ mode \in {"Auto", "LiveAssist", "Manual"}
  /\ now \in Times /\ used \in 0..MaxCommands /\ died \in BOOLEAN

\* A machine state whose lines and decks agree.
Matched(w) ==
  /\ \A k \in Lines : Audio(k) =>
       /\ w.deckOf[k] # 0 <=> w.status[k] \in {"Playing", "Finishing", "Paused"}
       /\ w.deckOf[k] # 0 => /\ w.deck[w.deckOf[k]].busy
                             /\ w.deck[w.deckOf[k]].line = k
                             /\ w.deck[w.deckOf[k]].wired <=> w.status[k] # "Paused"
  /\ \A d \in Decks : w.deck[d].busy => \E k \in Lines : w.deckOf[k] = d

\* Lines and decks agree: a line that runs has a deck that plays it, whose
\* signals reach it unless it is paused, and a deck is taken only for such a
\* line.  Decks lost otherwise are lost until the program restarts.  So no
\* handler that reaches for the deck of a line finds none, and dies of it.
DecksMatch == Matched(Machine) /\ ~died

\* FinishEvent never has to wait for what ends too late or too early for it: a
\* line that fades, with a segue to come, or a macro.
Plain ==
  /\ \A k \in Lines : log[k].hard = 0 /\ ~Macro(k) /\ (Audio(k) => log[k].file)
  /\ \/ \A k \in Lines : Audio(k) /\ log[k].ok => ~log[k].fade
     \/ \A k \in Lines : log[k].trans # "Segue"

\* Dead air: in Auto nothing runs, though the log has run and stands neither at
\* its end nor before a line with a STOP transition.
DeadAir ==
  /\ mode = "Auto" /\ Running(Machine) = {} /\ \E k \in Lines : status[k] = "Finished"
  /\ LET f == Look(Machine, next, FALSE).line IN f # 0 /\ trans[f] # "Stop"

\* What FinishEvent leaves to "that line's own natural completion" does happen,
\* in a log without macros, and without a segue out of a line that fades.
NoDeadAir == Plain /\ used <= 1 => ~DeadAir

\* It does happen in every log.
NeverDeadAir == ~DeadAir

\* The lines are played as Playlist says: once, each on a deck of its own, and
\* in the order of the log once the operator has started one, whichever way cues,
\* macros, lines without a cut and the answers of caed come together.
Contract == INSTANCE Playlist WITH
  NVoices <- NDecks,
  state <- [k \in Lines |-> CASE status[k] = "Scheduled" -> "waiting"
                              [] status[k] = "Finished"  -> "over"
                              [] OTHER                   -> "running"],
  voice <- deckOf,
  steered <- used > 1 \/ \E k \in Lines : log[k].hard # 0

ImplementsPlaylist == Contract!Spec

\* Lines that fade on a segue never play over one another: all decks but one
\* that play them have been told to stop.
NoCollision ==
  Cardinality({d \in Decks : /\ deck[d].state = "Playing"
                             /\ log[deck[d].line].fade}) <= 1

\* Where no hard start time interferes, a line that does not fade is never
\* told to stop but by the operator: neither a segue out of it nor a marker
\* behind it cuts it off (docs/specs/0016).
NotCutOff ==
  [][used' = used /\ (\A k \in Lines : log[k].hard = 0) =>
       \A d \in Decks : deck[d].state = "Playing" /\ deck'[d].state = "Stopping"
                          => log[deck[d].line].fade]_vars

\* A line with a hard start time and "start immediately", and with a playable
\* cut, has been started when its time is past (docs/opsguide/rdlogedit.xml:446
\* "it will be started as soon as the hard time is reached").
HardTimesKept ==
  \A k \in Lines :
    log[k].hard # 0 /\ log[k].hard < now /\ log[k].grace = "now" /\ log[k].ok
      => status[k] # "Scheduled"

\* Once a line of such a log was started, it plays on to its end or to the next
\* line with a STOP transition, but for the lines that have no playable cut,
\* unless the operator does something more.
LogRunsOut ==
  LET Led(k) == \E j \in 1..k - 1 : /\ status[j] # "Scheduled"
                                    /\ \A i \in j + 1..k : log[i].trans # "Stop"
  IN \A k \in Lines :
       Plain /\ log[k].ok /\ Led(k) ~> status[k] # "Scheduled" \/ used > 1

\* A line that waits to start at the end of its grace period does start, unless
\* the operator leaves Auto.
WaitEnds ==
  \A k \in Lines :
    grace = k /\ status[k] = "Scheduled" ~> status[k] # "Scheduled" \/ mode # "Auto"

\* Every line that starts comes to its end, unless it is paused, or the program
\* dies: a line with a hard start time can be started a second time while it
\* plays, and the end of one of its decks leaves the other without a line.
\* (DecksMatch says that nothing else makes the program die.)
LinesEnd ==
  \A k \in Lines :
    status[k] = "Playing" ~> status[k] \in {"Finished", "Paused"} \/ died
=============================================================================
