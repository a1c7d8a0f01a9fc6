-------------------------- MODULE LogPlayContract --------------------------
(***************************************************************************)
(* LogPlay implements Playlist where no hard start time starts a line by   *)
(* itself: a line is played once, on a deck that it keeps, and the machine *)
(* left to itself starts the lines in the order of the log.                *)
(***************************************************************************)
EXTENDS LogPlayProofs

\* From w to v no line goes back, and a line that runs on keeps its deck.
Goes(w, v) ==
  \A k \in Lines :
    /\ w.status[k] = "Finished" => v.status[k] = "Finished"
    /\ w.status[k] \in Runs =>
         \/ v.status[k] = "Finished"
         \/ v.status[k] \in Runs /\ v.deckOf[k] = w.deckOf[k]

\* The lines that start stand behind all that have started before.
Ordered(w, v) ==
  \A j, k \in Lines :
    w.status[j] = "Scheduled" /\ v.status[j] # "Scheduled" /\ w.status[k] # "Scheduled"
      => k < j

\* No line behind the next one has started.
Behind(w) == \A k \in Lines : w.status[k] # "Scheduled" => w.next = 0 \/ k <= w.next

\* The line of the sleeping macro has started.
Begun(w) == w.macro # 0 => w.status[w.macro] \notin {"Scheduled", "Paused"}

\* What handlers do to the lines; b says that nobody steers.
Moves(b, w, v) ==
  /\ Goes(w, v)
  /\ Begun(v)
  /\ b => Ordered(w, v) /\ Behind(v)

\* Line k stands behind all that have started, or is the last of them.
Foremost(w, k) == \A j \in Lines : w.status[j] # "Scheduled" => j <= k

\* Handlers can follow each other.
LEMMA MovesOn ==
  ASSUME NEW w \in MachineType, NEW u \in MachineType, NEW v \in MachineType,
         NEW b \in BOOLEAN, Moves(b, w, u), Moves(b, u, v)
  PROVE  Moves(b, w, v)
<1>1. \A k \in Lines : /\ w.status[k] \in Statuses /\ u.status[k] \in Statuses
                       /\ v.status[k] \in Statuses
  BY Parts
<1>2. Goes(w, v)
  BY DEF Moves, Goes
<1>3. b => Ordered(w, v)
  <2> SUFFICES ASSUME b, NEW j \in Lines, NEW k \in Lines, w.status[j] = "Scheduled",
                      v.status[j] # "Scheduled", w.status[k] # "Scheduled"
               PROVE  k < j
    BY DEF Ordered
  <2>1. u.status[k] # "Scheduled"
    BY <1>1 DEF Moves, Goes, Runs, Statuses
  <2>2. QED
    BY <2>1 DEF Moves, Ordered
<1>4. QED
  BY <1>2, <1>3 DEF Moves

\* No line has started.
Idle(w) == \A k \in Lines : w.status[k] = "Scheduled"

\* What a handler may rely on.
Ready(b, w) == Sound(w) /\ Begun(w) /\ (b => Behind(w))

\* No line starts: lines run on or end, and the next line may only go on.
LEMMA MovesKeep ==
  ASSUME NEW w, NEW v, NEW b \in BOOLEAN, Ready(b, w), v \in MachineType,
         \A k \in Lines :
           \/ v.status[k] = w.status[k] /\ v.deckOf[k] = w.deckOf[k]
           \/ /\ Audio(k) /\ w.status[k] \in Runs /\ v.status[k] \in Runs
              /\ v.deckOf[k] = w.deckOf[k]
           \/ w.status[k] # "Scheduled" /\ v.status[k] = "Finished",
         v.macro = w.macro \/ v.macro = 0,
         b => v.next = 0 \/ (w.next # 0 /\ v.next >= w.next) \/ Idle(w)
  PROVE  Moves(b, w, v)
<1>0. w \in MachineType /\ (w.macro # 0 => ~Audio(w.macro))
  BY DEF Ready, Sound, Aside
<1>1. Goes(w, v)
  BY DEF Goes, Runs
<1>2. w.macro # 0 => w.macro \in Lines
  BY <1>0, LogPlayAssumption, Parts DEF Lines
<1>3. Begun(v)
  BY <1>0, <1>2 DEF Ready, Begun
<1>4. \A k \in Lines : v.status[k] = "Scheduled" <=> w.status[k] = "Scheduled"
  BY DEF Runs
<1>5. Ordered(w, v)
  BY <1>4 DEF Ordered
<1>6. b => Behind(v)
  <2>1. w.next \in Nat /\ v.next \in Nat
    BY <1>0, LogPlayAssumption DEF MachineType
  <2>2. CASE Idle(w)
    BY <1>4, <2>2 DEF Idle, Behind
  <2>3. CASE ~Idle(w)
    BY <1>4, <2>1, <2>3, LogPlayAssumption DEF Ready, Behind, Lines
  <2>4. QED
    BY <2>2, <2>3
<1>7. QED
  BY <1>1, <1>3, <1>5, <1>6 DEF Moves

\* A line that waits starts.
LEMMA MovesStart ==
  ASSUME NEW w, NEW v, NEW b \in BOOLEAN, Ready(b, w), v \in MachineType,
         NEW k \in Lines,
         w.status[k] \in {"Scheduled", "Paused"}, v.status[k] \in {"Playing", "Finished"},
         w.status[k] = "Paused" => v.deckOf[k] = w.deckOf[k],
         Others(w, v, k), v.macro \in {0, w.macro, k},
         \/ v.next = IF w.next = 0 THEN 0 ELSE k + 1
         \/ w.status[k] = "Paused" /\ v.next = w.next,
         b => Foremost(w, k)
  PROVE  Moves(b, w, v)
<1>0. w \in MachineType /\ Begun(w) /\ (b => Behind(w))
  BY DEF Ready, Sound
<1>1. Goes(w, v)
  BY DEF Goes, Runs, Others
<1>2. w.macro # 0 => w.macro \in Lines
  BY <1>0, LogPlayAssumption, Parts DEF Lines
<1>3. Begun(v)
  BY <1>0, <1>2 DEF Begun, Others
<1>4. b => Ordered(w, v)
  BY LogPlayAssumption DEF Ordered, Others, Foremost, Lines
<1>5. b => Behind(v)
  <2>1. SUFFICES ASSUME b, NEW j \in Lines, v.status[j] # "Scheduled", v.next # 0
                 PROVE  j <= v.next
    BY DEF Behind
  <2>2. j = k \/ w.status[j] # "Scheduled"
    BY <2>1 DEF Others
  <2>3. CASE w.status[k] = "Paused" /\ v.next = w.next
    BY <1>0, <2>1, <2>2, <2>3 DEF Behind
  <2>4. CASE v.next = IF w.next = 0 THEN 0 ELSE k + 1
    <3>1. j <= k
      BY <2>1, <2>2, LogPlayAssumption DEF Foremost, Lines
    <3>2. QED
      BY <2>1, <2>4, <3>1, LogPlayAssumption DEF Lines
  <2>5. QED
    BY <2>3, <2>4
<1>6. QED
  BY <1>1, <1>3, <1>4, <1>5 DEF Moves

-----------------------------------------------------------------------------
(* Each handler moves so *)

\* A handler leaves behind what the next one may rely on.
Leads(b, w, v) == Sound(v) /\ Moves(b, w, v)

\* One handler after the other.
LEMMA LeadsOn ==
  ASSUME NEW w, NEW b \in BOOLEAN, Ready(b, w)
  PROVE  /\ \A u : Leads(b, w, u) => Ready(b, u)
         /\ \A u, v : Leads(b, w, u) /\ Leads(b, u, v) => Leads(b, w, v)
<1>1. w \in MachineType
  BY DEF Ready, Sound
<1>2. \A u : Leads(b, w, u) => Ready(b, u) /\ u \in MachineType
  BY DEF Leads, Moves, Ready, Sound
<1>3. ASSUME NEW u, NEW v, Leads(b, w, u), Leads(b, u, v)
      PROVE  Leads(b, w, v)
  <2>1. u \in MachineType /\ v \in MachineType
    BY <1>2, <1>3 DEF Leads, Sound
  <2>2. QED
    BY <1>1, <1>3, <2>1, MovesOn DEF Leads
<1>4. QED
  BY <1>2, <1>3

\* GetNextPlayable looks no further back than it is told, and for a cart that
\* has no playable cut only where the line itself says STOP.
LEMMA LookPlays ==
  ASSUME NEW w, NEW p, NEW forced \in BOOLEAN
  PROVE  LET look == Look(w, p, forced)
             f == look.line
         IN  /\ look.halt # 0 => look.halt >= p /\ p # 0
             /\ f # 0 => f >= p /\ p # 0
             /\ f # 0 => log[f].ok \/ (f = p /\ w.trans[f] = "Stop" /\ ~forced)
<1> DEFINE waiting == {k \in Lines : p # 0 /\ k >= p /\ Is(w, k, {"Scheduled", "Paused"})}
<1> DEFINE halts == {k \in waiting : k # p /\ (w.trans[k] = "Stop" \/ mode = "LiveAssist")}
<1> DEFINE plays == {k \in waiting : log[k].ok \/ (w.trans[k] = "Stop" /\ ~forced)}
<1> DEFINE k == First(halts \union plays)
<1>0. halts \union plays \in SUBSET Lines
  OBVIOUS
<1>1. k = 0 \/ k \in halts \union plays
  BY <1>0, FirstOfThem
<1>2. \A j \in waiting : j >= p /\ p # 0
  OBVIOUS
<1>3. \A j \in plays \ halts : log[j].ok \/ (j = p /\ w.trans[j] = "Stop" /\ ~forced)
  OBVIOUS
<1>4. Look(w, p, forced) = IF k \in halts THEN [line |-> 0, halt |-> k] ELSE [line |-> k, halt |-> 0]
  BY DEF Look
<1>5. halts \subseteq waiting /\ plays \subseteq waiting
  OBVIOUS
<1> HIDE DEF k, halts, plays, waiting
<1>6. CASE k \in halts
  <2>1. Look(w, p, forced) = [line |-> 0, halt |-> k]
    BY <1>4, <1>6
  <2>2. QED
    BY <1>2, <1>5, <1>6, <2>1
<1>7. CASE k \notin halts
  <2>1. Look(w, p, forced) = [line |-> k, halt |-> 0]
    BY <1>4, <1>7
  <2>2. k # 0 => k \in plays \ halts
    BY <1>1, <1>7
  <2>3. k # 0 => /\ k >= p /\ p # 0
                 /\ log[k].ok \/ (k = p /\ w.trans[k] = "Stop" /\ ~forced)
    BY <1>2, <1>3, <1>5, <2>2
  <2>4. QED
    BY <2>1, <2>3
<1>8. QED
  BY <1>6, <1>7

\* What sets only the transition timer and the next line.
LEMMA NextLeads ==
  ASSUME NEW w, NEW b \in BOOLEAN, Ready(b, w), Setting
  PROVE  /\ Leads(b, w, w)
         /\ Leads(b, w, SetTransTimer(w))
         /\ \A S : Leads(b, w, RearmTransTimer(w, S))
         /\ Leads(b, w, Advance(w)) /\ Leads(b, w, Within(w))
         /\ \A k \in Lines : (b => (w.next # 0 /\ k >= w.next) \/ Idle(w))
                             => Leads(b, w, makeNext(w, k))
<1>1. Sound(w) /\ w \in MachineType /\ w.next \in Nat
  BY LogPlayAssumption DEF Ready, Sound, MachineType
<1>2. Leads(b, w, w)
  BY <1>1, MovesKeep DEF Leads
<1>3. Leads(b, w, SetTransTimer(w))
  <2> DEFINE v == SetTransTimer(w)
  <2>1. Sound(v)
    BY <1>1, TimerSound
  <2>2. v.status = w.status /\ v.deckOf = w.deckOf /\ v.macro = w.macro /\ v.next = w.next
    BY <1>1 DEF SetTransTimer, MachineType
  <2> HIDE DEF v
  <2>3. Leads(b, w, v)
    BY <1>1, <2>1, <2>2, MovesKeep DEF Leads, Sound
  <2>4. QED
    BY <2>3 DEF v
<1>4. \A S : Leads(b, w, RearmTransTimer(w, S))
  BY <1>2, <1>3 DEF RearmTransTimer
<1>5. ASSUME NEW n \in 0..NLines + 1,
             b => n = 0 \/ (w.next # 0 /\ n >= w.next) \/ Idle(w)
      PROVE  Leads(b, w, [w EXCEPT !.next = n])
  <2> DEFINE v == [w EXCEPT !.next = n]
  <2>1. Sound(v)
    BY <1>1, NextSound
  <2>2. v.status = w.status /\ v.deckOf = w.deckOf /\ v.macro = w.macro /\ v.next = n
    BY <1>1 DEF MachineType
  <2> HIDE DEF v
  <2>3. Leads(b, w, v)
    BY <1>5, <2>1, <2>2, MovesKeep DEF Leads, Sound
  <2>4. QED
    BY <2>3 DEF v
<1>6. ASSUME NEW k \in Lines, b => (w.next # 0 /\ k >= w.next) \/ Idle(w)
      PROVE  Leads(b, w, makeNext(w, k))
  <2> DEFINE v == makeNext(w, k)
  <2>1. Sound(v)
    BY <1>1, NextSound
  <2>2. v.status = w.status /\ v.deckOf = w.deckOf /\ v.macro = w.macro /\ v.next = k
    BY <1>1 DEF makeNext, SetTransTimer, MachineType
  <2> HIDE DEF v
  <2>3. Leads(b, w, v)
    BY <1>6, <2>1, <2>2, MovesKeep DEF Leads, Sound
  <2>4. QED
    BY <2>3 DEF v
<1>7. Leads(b, w, Advance(w))
  <2> DEFINE look == Look(w, w.next, FALSE)
  <2>1. CASE look.halt # 0
    <3>0. look.halt \in Lines
      BY <2>1, LookFinds
    <3>1. look.halt \in Lines /\ w.next # 0 /\ look.halt >= w.next
      BY <2>1, <3>0, LookPlays
    <3>2. Advance(w) = makeNext(w, look.halt)
      BY <2>1, LookFinds DEF Advance
    <3>3. QED
      BY <3>1, <3>2, <1>6
  <2>2. CASE look.halt = 0 /\ look.line # 0
    <3>0. look.line \in Lines
      BY <2>2, LookFinds
    <3>1. look.line \in Lines /\ w.next # 0 /\ look.line >= w.next
      BY <2>2, <3>0, LookPlays
    <3>2. Advance(w) = [w EXCEPT !.next = look.line]
      BY <2>2 DEF Advance
    <3>3. QED
      BY <3>1, <3>2, <1>5, Numbers
  <2>3. CASE look.halt = 0 /\ look.line = 0
    BY <2>3, <1>2 DEF Advance
  <2>4. QED
    BY <2>1, <2>2, <2>3
<1>8. Leads(b, w, Within(w))
  <2>1. Leads(b, w, [w EXCEPT !.next = 0])
    BY <1>5, Numbers
  <2>2. QED
    BY <1>2, <2>1 DEF Within
<1>9. QED
  BY <1>2, <1>3, <1>4, <1>6, <1>7, <1>8

\* A sleeping macro is stopped: its line ends.
LEMMA StopMacroLeads ==
  ASSUME NEW w, NEW b \in BOOLEAN, Ready(b, w)
  PROVE  Leads(b, w, StopMacro(w))
<1> DEFINE v == StopMacro(w)
<1>1. Sound(w) /\ w \in MachineType /\ w.next \in Nat
  BY LogPlayAssumption DEF Ready, Sound, MachineType
<1>2. Sound(v)
  BY <1>1, StopMacroSound
<1>3. /\ v.deckOf = w.deckOf /\ v.macro = 0 /\ v.next = w.next
      /\ w.macro = 0 => v.status = w.status
      /\ w.macro # 0 => v.status = [w.status EXCEPT ![w.macro] = "Finished"]
  BY <1>1 DEF StopMacro, MachineType
<1> HIDE DEF v
<1>4. w.macro # 0 => w.macro \in Lines /\ w.status[w.macro] # "Scheduled"
  BY <1>1, LogPlayAssumption, Parts DEF Ready, Begun, Lines
<1>5. \A k \in Lines : \/ v.status[k] = w.status[k]
                       \/ w.status[k] # "Scheduled" /\ v.status[k] = "Finished"
  BY <1>1, <1>3, <1>4, Parts
<1>6. Leads(b, w, v)
  BY <1>1, <1>2, <1>3, <1>5, MovesKeep DEF Leads, Sound
<1>7. QED
  BY <1>6 DEF v

\* A deck is told to stop.
LEMMA StopDeckLeads ==
  ASSUME NEW w, NEW b \in BOOLEAN, Ready(b, w), NEW d
  PROVE  Leads(b, w, StopDeck(w, d))
<1> DEFINE v == StopDeck(w, d)
<1>1. Sound(w) /\ w \in MachineType /\ w.next \in Nat
  BY LogPlayAssumption DEF Ready, Sound, MachineType
<1>2. Sound(v)
  BY <1>1, StopDeckSound
<1>3. v.status = w.status /\ v.deckOf = w.deckOf /\ v.macro = w.macro /\ v.next = w.next
  BY <1>1, StopDeckKeeps DEF StopDeck, MachineType
<1> HIDE DEF v
<1>4. Leads(b, w, v)
  BY <1>1, <1>2, <1>3, MovesKeep DEF Leads, Sound
<1>5. QED
  BY <1>4 DEF v

\* What runs is stopped by a line that starts; the lines that wait are left
\* alone.
LEMMA TransitionLeads ==
  ASSUME NEW w, NEW b \in BOOLEAN, Ready(b, w), NEW how
  PROVE  /\ Leads(b, w, Transition(w, how))
         /\ \A k \in Lines : w.status[k] \in {"Scheduled", "Paused"}
                             => Transition(w, how).status[k] = w.status[k]
<1> DEFINE v == Transition(w, how)
<1> DEFINE out == Interrupted(w, how)
<1> DEFINE e == [d \in Decks |-> IF d \in {w.deckOf[k] : k \in out}
                                 THEN StopDeck(w, d).deck[d] ELSE w.deck[d]]
<1> DEFINE s == [k \in Lines |-> IF how = "Segue" /\ k \in out
                                 THEN "Finishing" ELSE w.status[k]]
<1> DEFINE z == [w EXCEPT !.deck = e, !.status = s]
<1>1. Sound(w) /\ w \in MachineType /\ w.next \in Nat
  BY LogPlayAssumption DEF Ready, Sound, MachineType
<1>2. v = w \/ v = StopMacro(z)
  BY DEF Transition
<1>3. Sound(v)
  BY <1>1, TransitionSound
<1>4. \A k \in Lines : \/ s[k] = w.status[k]
                       \/ Audio(k) /\ w.status[k] = "Playing" /\ s[k] = "Finishing"
  <2>1. \A k \in Interrupted(w, "Segue") : w.status[k] = "Playing" /\ Audio(k)
    BY DEF Interrupted, Is
  <2>2. \A k \in Lines : how = "Segue" /\ k \in out => w.status[k] = "Playing" /\ Audio(k)
    BY <2>1
  <2>3. \A k \in Lines : s[k] = IF how = "Segue" /\ k \in out THEN "Finishing"
                                ELSE w.status[k]
    OBVIOUS
  <2> HIDE DEF out, s
  <2>4. QED
    BY <2>2, <2>3
<1>5. s \in [Lines -> Statuses]
  BY <1>1, Parts DEF Statuses
<1> HIDE DEF e, s
<1>6. /\ z.status = s /\ z.deckOf = w.deckOf /\ z.macro = w.macro /\ z.next = w.next
  BY <1>1 DEF MachineType
<1>7. w.macro # 0 => w.macro \in Lines /\ w.status[w.macro] \notin {"Scheduled", "Paused"}
  BY <1>1, LogPlayAssumption, Parts DEF Ready, Begun, Lines
<1>8. \/ v = w
      \/ /\ v.deckOf = w.deckOf /\ v.macro = 0 /\ v.next = w.next
         /\ w.macro = 0 => v.status = s
         /\ w.macro # 0 => v.status = [s EXCEPT ![w.macro] = "Finished"]
  <2>1. v = StopMacro(z) => v \in MachineType
    BY <1>3 DEF Sound
  <2>2. /\ StopMacro(z).deckOf = w.deckOf /\ StopMacro(z).next = w.next
        /\ StopMacro(z).macro = 0
        /\ w.macro = 0 => StopMacro(z).status = s
        /\ w.macro # 0 => StopMacro(z).status = [s EXCEPT ![w.macro] = "Finished"]
    BY <1>1, <1>6 DEF StopMacro, MachineType
  <2> HIDE DEF v, z
  <2>3. QED
    BY <1>2, <2>2
<1> HIDE DEF v, z, out
<1>9. /\ v.deckOf = w.deckOf /\ v.macro \in {0, w.macro} /\ v.next = w.next
      /\ \A k \in Lines : \/ v.status[k] = w.status[k]
                          \/ Audio(k) /\ w.status[k] = "Playing" /\ v.status[k] = "Finishing"
                          \/ /\ w.status[k] \notin {"Scheduled", "Paused"}
                             /\ v.status[k] = "Finished"
  BY <1>4, <1>5, <1>7, <1>8
<1>10. Leads(b, w, v)
  BY <1>1, <1>3, <1>9, MovesKeep DEF Leads, Sound, Runs
<1>11. QED
  BY <1>9, <1>10 DEF v

\* A line that waits, and stands behind all that have started, takes a deck.
LEMMA PlayAudioLeads ==
  ASSUME NEW w, NEW b \in BOOLEAN, Ready(b, w), Setting, NEW k \in Lines,
         Audio(k), log[k].ok, w.status[k] \in {"Scheduled", "Paused"},
         b => Foremost(w, k)
  PROVE  Leads(b, w, PlayAudio(w, k))
<1> DEFINE v == PlayAudio(w, k)
<1>1. Sound(w) /\ w \in MachineType
  BY DEF Ready, Sound
<1>2. Sound(v)
  BY <1>1, PlayAudioSound
<1>3. CASE w.status[k] = "Paused"
  <2>1. /\ v.deckOf = w.deckOf /\ v.macro = w.macro /\ v.next = w.next
        /\ v.status = [w.status EXCEPT ![k] = "Playing"]
    BY <1>1, <1>3 DEF PlayAudio, SetStatus, MachineType
  <2> HIDE DEF v
  <2>2. v.status[k] = "Playing" /\ Others(w, v, k)
    BY <1>1, <2>1, Parts DEF Others
  <2>3. Leads(b, w, v)
    BY <1>2, <1>3, <2>1, <2>2, MovesStart DEF Leads, Sound
  <2>4. QED
    BY <2>3 DEF v
<1>4. CASE w.status[k] = "Scheduled" /\ FreeDecks(w) # {}
  <2> DEFINE d == First(FreeDecks(w))
  <2>1. v = AssignNext(SetStatus([w EXCEPT !.deck[d] = Load(@, k), !.deckOf[k] = d],
                                 k, "Playing"), k)
    BY <1>4 DEF PlayAudio
  <2> HIDE DEF d
  <2>2. /\ v.deckOf = [w.deckOf EXCEPT ![k] = d] /\ v.macro = w.macro
        /\ v.next = IF w.next = 0 THEN 0 ELSE k + 1
        /\ v.status = [w.status EXCEPT ![k] = "Playing"]
    BY <1>1, <2>1 DEF AssignNext, SetStatus, MachineType
  <2> HIDE DEF v
  <2>3. v.status[k] = "Playing" /\ Others(w, v, k)
    BY <1>1, <2>2, Parts DEF Others
  <2>4. Leads(b, w, v)
    BY <1>2, <1>4, <2>2, <2>3, MovesStart DEF Leads, Sound
  <2>5. QED
    BY <2>4 DEF v
<1>5. CASE w.status[k] = "Scheduled" /\ FreeDecks(w) = {}
  <2>1. v = w
    BY <1>1, <1>5, PlayAudioNone
  <2>2. QED
    BY <2>1, NextLeads
<1>6. QED
  BY <1>3, <1>4, <1>5

\* Such a line runs its macro, which may be over at once.
LEMMA RunMacroLeads ==
  ASSUME NEW w, NEW b \in BOOLEAN, Ready(b, w), Setting, NEW k \in Lines,
         ~Audio(k), w.status[k] \in {"Scheduled", "Paused"}, b => Foremost(w, k)
  PROVE  Leads(b, w, RunMacro(w, k))
<1> DEFINE z == AssignNext(SetStatus(w, k, "Playing"), k)
<1> DEFINE m == [z EXCEPT !.macro = k]
<1>1. Sound(w) /\ w \in MachineType
  BY DEF Ready, Sound
<1>2. Sound(z) /\ z \in MachineType
  BY <1>1, StatusSound, NextSound DEF Statuses, Sound
<1>3. /\ z.deckOf = w.deckOf /\ z.macro = w.macro
      /\ z.next = IF w.next = 0 THEN 0 ELSE k + 1
      /\ z.status = [w.status EXCEPT ![k] = "Playing"]
  BY <1>1 DEF AssignNext, SetStatus, MachineType
<1>4. RunMacro(w, k) = m \/ RunMacro(w, k) = SetStatus(Advance(z), k, "Finished")
  BY DEF RunMacro
<1>5. RunMacro(w, k) = m => Sound(m)
  BY <1>1, RunMacroSound
<1> HIDE DEF z
<1>6. z.status[k] = "Playing" /\ Others(w, z, k)
  BY <1>1, <1>3, Parts DEF Others
<1>7. CASE RunMacro(w, k) = m
  <2>1. /\ m.deckOf = z.deckOf /\ m.status = z.status /\ m.next = z.next
        /\ m.macro = k
    BY <1>2 DEF MachineType
  <2>2. Sound(m)
    BY <1>5, <1>7
  <2> HIDE DEF m
  <2>3. m.status[k] = "Playing" /\ Others(w, m, k)
    BY <1>6, <2>1 DEF Others
  <2>4. Leads(b, w, m)
    BY <1>3, <2>1, <2>2, <2>3, MovesStart DEF Leads, Sound
  <2>5. QED
    BY <1>7, <2>4
<1>8. CASE RunMacro(w, k) = SetStatus(Advance(z), k, "Finished")
  <2> DEFINE y == Advance(z)
  <2> DEFINE v == SetStatus(y, k, "Finished")
  <2>1. Leads(b, w, z)
    BY <1>2, <1>3, <1>6, MovesStart DEF Leads
  <2>2. Ready(b, z)
    BY <2>1, LeadsOn
  <2>3. Leads(b, z, y) /\ y.status = z.status
    BY <1>2, <2>2, NextLeads, NextSound
  <2> HIDE DEF y
  <2>4. Ready(b, y) /\ y \in MachineType /\ y.next \in Nat
    BY <2>2, <2>3, LeadsOn, LogPlayAssumption DEF Leads, Sound, MachineType
  <2>5. Sound(v)
    BY <2>3, StatusSound DEF Leads, Statuses
  <2>6. /\ v.deckOf = y.deckOf /\ v.macro = y.macro /\ v.next = y.next
        /\ v.status = [y.status EXCEPT ![k] = "Finished"]
    BY <2>4 DEF SetStatus, MachineType
  <2>7. y.status[k] # "Scheduled"
    BY <1>6, <2>3
  <2> HIDE DEF v
  <2>8. \A j \in Lines : \/ v.status[j] = y.status[j]
                         \/ y.status[j] # "Scheduled" /\ v.status[j] = "Finished"
    BY <2>4, <2>6, <2>7, Parts
  <2>9. Leads(b, y, v)
    <3>1. v \in MachineType
      BY <2>5 DEF Sound
    <3>2. Moves(b, y, v)
      <4>1. \A j \in Lines :
              \/ v.status[j] = y.status[j] /\ v.deckOf[j] = y.deckOf[j]
              \/ y.status[j] # "Scheduled" /\ v.status[j] = "Finished"
        BY <2>6, <2>8
      <4>2. v.next = 0 \/ (y.next # 0 /\ v.next >= y.next)
        BY <2>4, <2>6
      <4>3. Ready(b, y) /\ v.macro = y.macro
        BY <2>4, <2>6
      <4>4. QED
        BY <3>1, <4>1, <4>2, <4>3, MovesKeep
    <3>3. QED
      BY <2>5, <3>2 DEF Leads
  <2>10. Leads(b, w, v)
    BY <2>1, <2>2, <2>3, <2>9, LeadsOn
  <2>11. QED
    BY <1>8, <2>10 DEF v, y
<1>9. QED
  BY <1>4, <1>7, <1>8

\* A line of any kind.
LEMMA PlayLineLeads ==
  ASSUME NEW w, NEW b \in BOOLEAN, Ready(b, w), Setting, NEW k \in Lines,
         log[k].ok \/ ~Audio(k), w.status[k] \in {"Scheduled", "Paused"},
         b => Foremost(w, k)
  PROVE  Leads(b, w, PlayLine(w, k))
BY PlayAudioLeads, RunMacroLeads DEF PlayLine

\* The lines that FinishEvent starts stand behind all that have started.
LEMMA PastLeads ==
  ASSUME NEW w, NEW b \in BOOLEAN, Ready(b, w), Setting, Started(w) # {}
  PROVE  LET last == Last(Started(w))
             v == [Past(w) EXCEPT !.next = last + 1]
             x == [Past(w) EXCEPT !.next = last]
         IN  /\ Instant(last) => Leads(b, w, v)
             /\ ~Instant(last) => /\ Leads(b, w, x) /\ (b => Foremost(x, last))
                                  /\ x.status[last] = "Scheduled"
<1> DEFINE last == Last(Started(w))
<1> DEFINE s == [k \in Lines |-> IF k \in Started(w) /\ Instant(k)
                                 THEN "Finished" ELSE w.status[k]]
<1>1. Sound(w) /\ w \in MachineType /\ Begun(w) /\ (b => Behind(w)) /\ w.next \in Nat
  BY LogPlayAssumption DEF Ready, Sound, MachineType
<1>2. last \in Lines /\ last \in Started(w) /\ \A k \in Started(w) : k <= last
  <2>1. Started(w) \in SUBSET Lines
    BY DEF Started, Waiting
  <2>2. QED
    BY <2>1, LastLine DEF Last
<1>3. \A k \in Started(w) : /\ k \in Lines /\ w.status[k] = "Scheduled"
                            /\ w.next # 0 /\ k >= w.next
  BY DEF Started, Waiting
<1>4. Past(w) = [w EXCEPT !.status = s] /\ Sound(Past(w))
  BY <1>1, PastSound DEF Past
<1>5. Past(w) \in MachineType /\ Past(w).deckOf = w.deckOf
      /\ Past(w).macro = w.macro /\ Past(w).status = s
  BY <1>1, <1>4 DEF Sound, MachineType
<1>6. w.macro # 0 => w.macro \in Lines
  BY <1>1, LogPlayAssumption, Parts DEF Lines
<1>7. \A k \in Lines : \/ s[k] = w.status[k]
                       \/ k \in Started(w) /\ s[k] = "Finished"
  OBVIOUS
<1>8. ~Instant(last) => s[last] = "Scheduled"
  BY <1>2, <1>3
<1>9. ASSUME NEW v \in MachineType, v.status = s, v.deckOf = w.deckOf,
             v.macro = w.macro, v.next >= last
      PROVE  Moves(b, w, v)
  <2> HIDE DEF s, last
  <2>1. Goes(w, v)
    BY <1>3, <1>7, <1>9 DEF Goes, Runs
  <2>2. Begun(v)
    BY <1>1, <1>3, <1>6, <1>7, <1>9 DEF Begun
  <2>3. b => Ordered(w, v)
    BY <1>1, <1>3, <1>7, <1>9, LogPlayAssumption DEF Ordered, Behind, Lines
  <2>4. b => Behind(v)
    <3>1. ASSUME b, NEW k \in Lines, s[k] # "Scheduled" PROVE k <= last
      <4>1. CASE k \in Started(w)
        BY <1>2, <4>1
      <4>2. CASE k \notin Started(w)
        BY <1>1, <1>2, <1>3, <1>7, <3>1, <4>2, LogPlayAssumption DEF Behind, Lines
      <4>3. QED
        BY <4>1, <4>2
    <3>2. v.next \in Nat
      BY <1>9, LogPlayAssumption DEF MachineType
    <3>3. QED
      BY <1>2, <1>9, <3>1, <3>2, LogPlayAssumption DEF Behind, Lines
  <2>5. QED
    BY <2>1, <2>2, <2>3, <2>4 DEF Moves
<1>10. last # 0 /\ last \in Nat /\ last \in 0..NLines + 1 /\ last + 1 \in 0..NLines + 1
  BY <1>2, LogPlayAssumption DEF Lines
<1> HIDE DEF s, last
<1>11. ASSUME NEW n \in 0..NLines + 1, n >= last
       PROVE  Leads(b, w, [Past(w) EXCEPT !.next = n])
  <2> DEFINE v == [Past(w) EXCEPT !.next = n]
  <2>1. Sound(v)
    BY <1>4, NextSound
  <2>2. v.status = s /\ v.deckOf = w.deckOf /\ v.macro = w.macro /\ v.next = n
    BY <1>5 DEF MachineType
  <2> HIDE DEF v
  <2>3. Leads(b, w, v)
    BY <1>9, <1>11, <2>1, <2>2 DEF Leads, Sound
  <2>4. QED
    BY <2>3 DEF v
<1>12. Leads(b, w, [Past(w) EXCEPT !.next = last + 1])
  BY <1>10, <1>11
<1>13. Leads(b, w, [Past(w) EXCEPT !.next = last])
  BY <1>10, <1>11
<1>14. LET x == [Past(w) EXCEPT !.next = last] IN
       x.status = s /\ x.next = last
  BY <1>5 DEF MachineType
<1>15. b => Foremost([Past(w) EXCEPT !.next = last], last)
  BY <1>10, <1>13, <1>14 DEF Leads, Moves, Behind, Foremost
<1>16. QED
  BY <1>8, <1>12, <1>13, <1>14, <1>15 DEF last

\* FinishEvent.
LEMMA FinishLeads ==
  ASSUME NEW w, NEW b \in BOOLEAN, Ready(b, w), Setting
  PROVE  Leads(b, w, FinishEvent(w))
<1> DEFINE last == Last(Started(w))
<1> DEFINE v == [Past(w) EXCEPT !.next = last + 1]
<1> DEFINE x == [Past(w) EXCEPT !.next = last]
<1> DEFINE z == IF Instant(last) THEN Advance(v) ELSE PlayLine(x, last)
<1>1. CASE Started(w) = {}
  BY <1>1, FinishCases, NextLeads
<1>2. CASE Started(w) # {}
  <2>1. last \in Lines /\ last \in Started(w)
    BY <1>2, FinishCases
  <2>2. PICK S : FinishEvent(w) = RearmTransTimer(Within(z), S)
    BY <1>2, FinishCases
  <2>3. log[last].ok
    BY <2>1 DEF Started
  <2>4. /\ Instant(last) => Leads(b, w, v)
        /\ ~Instant(last) => /\ Leads(b, w, x) /\ (b => Foremost(x, last))
                             /\ x.status[last] = "Scheduled"
    BY <1>2, PastLeads
  <2> HIDE DEF last, v, x
  <2>5. Leads(b, w, z)
    <3>1. CASE Instant(last)
      <4>1. Leads(b, w, v) /\ Ready(b, v)
        BY <2>4, <3>1, LeadsOn
      <4>2. Leads(b, v, Advance(v))
        BY <4>1, NextLeads
      <4>3. QED
        BY <3>1, <4>1, <4>2, LeadsOn
    <3>2. CASE ~Instant(last)
      <4>1. Leads(b, w, x) /\ Ready(b, x)
        BY <2>4, <3>2, LeadsOn
      <4>2. Leads(b, x, PlayLine(x, last))
        BY <2>1, <2>3, <2>4, <3>2, <4>1, PlayLineLeads
      <4>3. QED
        BY <3>2, <4>1, <4>2, LeadsOn
    <3>3. QED
      BY <3>1, <3>2
  <2> HIDE DEF z
  <2>6. Leads(b, w, Within(z))
    <3>1. Leads(b, z, Within(z))
      BY <2>5, LeadsOn, NextLeads
    <3>2. QED
      BY <2>5, <3>1, LeadsOn
  <2>7. Leads(b, Within(z), RearmTransTimer(Within(z), S))
    BY <2>6, LeadsOn, NextLeads
  <2>8. QED
    BY <2>2, <2>6, <2>7, LeadsOn
<1>3. QED
  BY <1>1, <1>2

\* StartEvent, of a line that waits, has a playable cut and stands behind all
\* that have started.
LEMMA StartLeads ==
  ASSUME NEW w, NEW b \in BOOLEAN, Ready(b, w), Setting, NEW k \in Lines, NEW how,
         log[k].ok, w.status[k] \in {"Scheduled", "Paused"}, b => Foremost(w, k)
  PROVE  Leads(b, w, StartEvent(w, k, how))
<1> DEFINE z == Transition(w, how)
<1> DEFINE i == AssignNext(SetStatus(z, k, "Finished"), k)
<1>1. Leads(b, w, z) /\ z.status[k] = w.status[k]
  BY TransitionLeads
<1>2. Ready(b, z) /\ Sound(z) /\ z \in MachineType
  BY <1>1, LeadsOn DEF Leads, Sound
<1>3. b => Foremost(z, k)
  <2>1. w.status \in [Lines -> Statuses] /\ z.status \in [Lines -> Statuses]
    BY <1>2, Parts DEF Ready, Sound
  <2>2. \A j \in Lines : w.status[j] = "Scheduled" => z.status[j] = "Scheduled"
    BY TransitionLeads
  <2> HIDE DEF z
  <2>3. QED
    BY <2>2 DEF Foremost
<1>4. \/ Instant(k) /\ StartEvent(w, k, how) = Within(FinishEvent(i))
      \/ StartEvent(w, k, how) = Within(PlayLine(z, k))
  BY DEF StartEvent, Audio, Instant
<1> HIDE DEF z
<1>5. Leads(b, w, Within(PlayLine(z, k)))
  <2>1. Leads(b, z, PlayLine(z, k))
    BY <1>1, <1>2, <1>3, PlayLineLeads
  <2>2. Leads(b, w, PlayLine(z, k))
    BY <1>1, <2>1, LeadsOn
  <2>3. Leads(b, PlayLine(z, k), Within(PlayLine(z, k)))
    BY <2>2, LeadsOn, NextLeads
  <2>4. QED
    BY <2>2, <2>3, LeadsOn
<1>6. Instant(k) => Leads(b, w, Within(FinishEvent(i)))
  <2>1. Instant(k) => ~Audio(k)
    BY DEF Instant, Audio
  <2>2. Instant(k) => Sound(i)
    BY <1>2, <2>1, StatusSound, NextSound DEF Statuses
  <2>3. /\ i.deckOf = z.deckOf /\ i.macro = z.macro
        /\ i.next = IF z.next = 0 THEN 0 ELSE k + 1
        /\ i.status = [z.status EXCEPT ![k] = "Finished"]
    BY <1>2 DEF AssignNext, SetStatus, MachineType
  <2> HIDE DEF i
  <2>4. i.status[k] = "Finished" /\ Others(z, i, k)
    BY <1>2, <2>3, Parts DEF Others
  <2>5. Instant(k) => Leads(b, z, i)
    BY <1>1, <1>2, <1>3, <2>2, <2>3, <2>4, MovesStart DEF Leads, Sound
  <2>6. Instant(k) => Leads(b, w, i)
    BY <1>1, <2>5, LeadsOn
  <2>7. Instant(k) => Leads(b, i, FinishEvent(i))
    BY <2>6, LeadsOn, FinishLeads
  <2>8. Instant(k) => Leads(b, w, FinishEvent(i))
    BY <2>6, <2>7, LeadsOn
  <2>9. Instant(k) => Leads(b, FinishEvent(i), Within(FinishEvent(i)))
    BY <2>8, LeadsOn, NextLeads
  <2>10. QED
    BY <2>8, <2>9, LeadsOn
<1>7. QED
  BY <1>4, <1>5, <1>6

\* A line is cleaned up.
LEMMA CleanupLeads ==
  ASSUME NEW w, NEW b \in BOOLEAN, Ready(b, w), NEW k \in Lines, w.deckOf[k] # 0
  PROVE  Leads(b, w, Cleanup(w, k))
<1> DEFINE v == Cleanup(w, k)
<1>1. Sound(w) /\ w \in MachineType /\ w.next \in Nat
  BY LogPlayAssumption DEF Ready, Sound, MachineType
<1>2. Sound(v)
  BY <1>1, CleanupSound
<1>3. w.deckOf[k] \in Decks
  BY <1>1, Parts, LogPlayAssumption DEF Decks
<1>4. v.status[k] = "Finished" /\ Others(w, v, k) /\ v.macro = w.macro
  BY <1>1, <1>3, CleanupGives
<1>5. v.next = w.next
  BY <1>1, CleanupType
<1>6. w.status[k] # "Scheduled"
  BY <1>1 DEF Sound, Paired, Runs
<1> HIDE DEF v
<1>7. \A j \in Lines : \/ v.status[j] = w.status[j] /\ v.deckOf[j] = w.deckOf[j]
                       \/ w.status[j] # "Scheduled" /\ v.status[j] = "Finished"
  BY <1>4, <1>6 DEF Others
<1>8. Leads(b, w, v)
  BY <1>1, <1>2, <1>4, <1>5, <1>7, MovesKeep DEF Leads, Sound
<1>9. QED
  BY <1>8 DEF v

\* The end of a line's audio.
LEMMA FinishedLeads ==
  ASSUME NEW w, NEW b \in BOOLEAN, Ready(b, w), Setting, NEW k \in Lines,
         w.deckOf[k] # 0
  PROVE  Leads(b, w, Finished(w, k))
<1> DEFINE z == Cleanup(w, k)
<1>1. Finished(w, k) \in {w, z, FinishEvent(z)}
  BY DEF Finished
<1>2. Leads(b, w, w)
  BY NextLeads
<1>3. Leads(b, w, z)
  BY CleanupLeads
<1> HIDE DEF z
<1>4. Leads(b, z, FinishEvent(z))
  BY <1>3, LeadsOn, FinishLeads
<1>5. Leads(b, w, FinishEvent(z))
  BY <1>3, <1>4, LeadsOn
<1>6. QED
  BY <1>1, <1>2, <1>3, <1>5

\* A pause.
LEMMA PausedLeads ==
  ASSUME NEW w, NEW b \in BOOLEAN, Ready(b, w), Setting, NEW k \in Lines,
         w.deckOf[k] # 0
  PROVE  Leads(b, w, Paused(w, k))
<1> DEFINE v == Paused(w, k)
<1>1. Sound(w) /\ w \in MachineType /\ w.next \in Nat
  BY LogPlayAssumption DEF Ready, Sound, MachineType
<1>2. Sound(v)
  BY <1>1, PausedSound
<1>3. /\ v.deckOf = w.deckOf /\ v.macro = w.macro /\ v.next = w.next
      /\ v.status = [w.status EXCEPT ![k] = "Paused"]
  BY <1>1 DEF Paused, SetStatus, MachineType
<1>4. Audio(k) /\ w.status[k] \in Runs
  BY <1>1 DEF Sound, Paired
<1> HIDE DEF v
<1>5. \A j \in Lines : \/ v.status[j] = w.status[j]
                       \/ Audio(j) /\ w.status[j] \in Runs /\ v.status[j] \in Runs
  <2>1. v.status[k] = "Paused" /\ \A j \in Lines \ {k} : v.status[j] = w.status[j]
    BY <1>1, <1>3, Parts
  <2>2. QED
    BY <1>4, <2>1 DEF Runs
<1>6. v \in MachineType
  BY <1>2 DEF Sound
<1>7. Moves(b, w, v)
  <2>1. \A j \in Lines :
          \/ v.status[j] = w.status[j] /\ v.deckOf[j] = w.deckOf[j]
          \/ /\ Audio(j) /\ w.status[j] \in Runs /\ v.status[j] \in Runs
             /\ v.deckOf[j] = w.deckOf[j]
    BY <1>3, <1>5
  <2>2. v.next = 0 \/ (w.next # 0 /\ v.next >= w.next)
    BY <1>1, <1>3
  <2>3. v.macro = w.macro
    BY <1>3
  <2>4. QED
    BY <1>6, <2>1, <2>2, <2>3, MovesKeep
<1>8. QED
  BY <1>2, <1>7 DEF Leads, v

\* A segue, where the next line says so.
LEMMA SegueLeads ==
  ASSUME NEW w, NEW b \in BOOLEAN, Ready(b, w), Setting,
         w.next # 0 /\ w.trans[w.next] = "Segue"
  PROVE  Leads(b, w, SegueToNext(w))
<1> DEFINE z == Advance(w)
<1> DEFINE f == Look(w, w.next, FALSE).line
<1>1. Leads(b, w, z) /\ z.status = w.status
  BY NextLeads, NextSound DEF Ready
<1>2. SegueToNext(w) = IF f = 0 THEN z ELSE SetTransTimer(StartEvent(z, f, "Segue"))
  BY DEF SegueToNext
<1>3. f # 0 => f \in Lines /\ w.status[f] \in {"Scheduled", "Paused"}
  BY LookFinds
<1>4. f # 0 => f >= w.next /\ (log[f].ok \/ (f = w.next /\ w.trans[f] = "Stop"))
  BY LookPlays
<1>5. f # 0 => log[f].ok
  BY <1>4
<1> HIDE DEF z, f
<1>6. f # 0 /\ b => Foremost(z, f)
  <2>1. w.next \in Nat
    BY LogPlayAssumption DEF Ready, Sound, MachineType
  <2>2. QED
    BY <1>1, <1>3, <1>4, <2>1, LogPlayAssumption DEF Ready, Behind, Foremost, Lines
<1>7. f # 0 => Leads(b, w, StartEvent(z, f, "Segue"))
  <2>1. f # 0 => Leads(b, z, StartEvent(z, f, "Segue"))
    BY <1>1, <1>3, <1>5, <1>6, LeadsOn, StartLeads
  <2>2. QED
    BY <1>1, <2>1, LeadsOn
<1>8. f # 0 => Leads(b, w, SetTransTimer(StartEvent(z, f, "Segue")))
  BY <1>7, LeadsOn, NextLeads
<1>9. QED
  BY <1>1, <1>2, <1>8

-----------------------------------------------------------------------------
(* Each step moves so *)

\* The step to the machine state that a handler hands over.
LEMMA Done ==
  ASSUME NEW b \in BOOLEAN, NEW v, Leads(b, Machine, v), Become(v)
  PROVE  Moves(b, Machine, Machine')
<1>1. Machine' = v
  BY DEF Become, Machine, Leads, Sound, MachineType
<1>2. QED
  BY <1>1 DEF Leads

\* One deck replaced by one that is as busy, for the same line.
LEMMA ReplaceLeads ==
  ASSUME NEW w, NEW b \in BOOLEAN, Ready(b, w), NEW d \in Decks, NEW x \in DeckTypes,
         x.busy = w.deck[d].busy, x.line = w.deck[d].line, x.wired = w.deck[d].wired
  PROVE  LET v == [w EXCEPT !.deck[d] = x] IN
         /\ Leads(b, w, v) /\ v.deckOf = w.deckOf
         /\ v.next = w.next /\ v.trans = w.trans
<1> DEFINE v == [w EXCEPT !.deck[d] = x]
<1>1. Sound(w) /\ w \in MachineType /\ w.next \in Nat
  BY LogPlayAssumption DEF Ready, Sound, MachineType
<1>2. Sound(v)
  BY <1>1, SoundDeck
<1>3. /\ v.status = w.status /\ v.deckOf = w.deckOf /\ v.macro = w.macro
      /\ v.next = w.next /\ v.trans = w.trans
  BY <1>1 DEF MachineType
<1> HIDE DEF v
<1>4. Leads(b, w, v)
  BY <1>1, <1>2, <1>3, MovesKeep DEF Leads, Sound
<1>5. QED
  BY <1>3, <1>4 DEF v

\* The operator's commands; nobody steers as long as the first one is given.
LEMMA OperatorMoves ==
  ASSUME TypeOK, NEW b \in BOOLEAN, Ready(b, Machine), b => Idle(Machine), Operator
  PROVE  Moves(b, Machine, Machine')
<1> DEFINE w == Machine
<1>1. Setting
  BY MachineTyped
<1>2. ASSUME NEW k \in Lines, Play(k) PROVE Moves(b, Machine, Machine')
  <2> DEFINE look == Look(w, k, TRUE)
  <2> DEFINE f == look.line
  <2>1. CASE look.halt # 0 /\ Become(makeNext(w, look.halt))
    <3>1. look.halt \in Lines
      BY <2>1, LookFinds
    <3>2. Leads(b, w, makeNext(w, look.halt))
      BY <1>1, <3>1, NextLeads
    <3>3. QED
      BY <2>1, <3>2, Done
  <2>2. CASE f # 0 /\ Become(SetTransTimer(StartEvent(w, f, "Segue")))
    <3>1. f \in Lines /\ w.status[f] \in {"Scheduled", "Paused"}
      BY <2>2, LookFinds
    <3>2. log[f].ok
      BY <2>2, LookPlays
    <3> HIDE DEF f, w
    <3>3. b => Foremost(w, f)
      BY DEF Idle, Foremost, w
    <3>4. Leads(b, w, StartEvent(w, f, "Segue"))
      BY <1>1, <3>1, <3>2, <3>3, StartLeads DEF w
    <3>5. Leads(b, StartEvent(w, f, "Segue"), SetTransTimer(StartEvent(w, f, "Segue")))
      BY <1>1, <3>4, LeadsOn, NextLeads DEF w
    <3>6. Leads(b, w, SetTransTimer(StartEvent(w, f, "Segue")))
      BY <3>4, <3>5, LeadsOn DEF w
    <3>7. QED
      BY <2>2, <3>6, Done DEF w
  <2>3. QED
    BY <1>2, <2>1, <2>2 DEF Play
<1>3. ASSUME NEW k \in Lines, Stop(k) PROVE Moves(b, Machine, Machine')
  <2>1. CASE Become(StopDeck(w, deckOf[k]))
    BY <2>1, StopDeckLeads, Done
  <2>2. CASE Become(StopMacro(w))
    BY <2>2, StopMacroLeads, Done
  <2>3. QED
    BY <1>3, <2>1, <2>2 DEF Stop
<1>4. ASSUME NEW k \in Lines, Pause(k) PROVE Moves(b, Machine, Machine')
  <2> DEFINE d == deckOf[k]
  <2> DEFINE x == [deck[d] EXCEPT !.state = "Paused", !.pauseCalled = TRUE]
  <2>1. d \in Decks
    BY <1>4, LogPlayAssumption DEF Pause, TypeOK, Decks
  <2>2. deck[d] \in DeckTypes /\ deck[d] = w.deck[d]
    BY <2>1 DEF TypeOK, Machine
  <2>3. Become([w EXCEPT !.deck[d] = x])
    BY <1>4 DEF Pause, Machine
  <2> HIDE DEF d
  <2>4. /\ x \in DeckTypes /\ x.busy = w.deck[d].busy /\ x.line = w.deck[d].line
        /\ x.wired = w.deck[d].wired
    BY <2>2 DEF DeckTypes
  <2> HIDE DEF x, w
  <2>5. Leads(b, w, [w EXCEPT !.deck[d] = x])
    BY <2>1, <2>4, ReplaceLeads DEF w
  <2>6. QED
    BY <2>3, <2>5, Done DEF w
<1>5. ASSUME NEW k \in Lines, MakeNext(k) PROVE Moves(b, Machine, Machine')
  <2>1. Leads(b, w, makeNext(w, k))
    BY <1>1, NextLeads
  <2>2. QED
    BY <1>5, <2>1, Done DEF MakeNext
<1>6. ASSUME NEW m \in Modes, SetOpMode(m) PROVE Moves(b, Machine, Machine')
  <2>1. Become(Machine)
    BY <1>6 DEF SetOpMode, machine, Become, Machine
  <2>2. QED
    BY <1>1, <2>1, NextLeads, Done
<1>7. QED
  BY <1>2, <1>3, <1>4, <1>5, <1>6 DEF Operator

\* The answers of caed and the markers of the decks.
LEMMA DeckMoves ==
  ASSUME TypeOK, NEW b \in BOOLEAN, Ready(b, Machine), NEW d \in Decks, Deck(d)
  PROVE  Moves(b, Machine, Machine')
<1> DEFINE w == Machine
<1> DEFINE x == deck[d]
<1> DEFINE k == x.line
<1>1. Setting /\ Sound(w)
  BY MachineTyped DEF Ready
<1>2. x \in DeckTypes /\ x = w.deck[d]
  BY DEF TypeOK, Machine
<1>3. x.wired => k \in Lines /\ deckOf[k] = d /\ w.deckOf[k] = d /\ w.deckOf[k] # 0
  BY <1>1, Numbers DEF Sound, Claimed, Machine
<1>4. CASE Confirmed(d)
  <2> DEFINE y == [x EXCEPT !.audio = "sounding"]
  <2> DEFINE v == [w EXCEPT !.deck[d] = y]
  <2>1. y \in DeckTypes /\ y.busy = x.busy /\ y.line = x.line /\ y.wired = x.wired
    BY <1>2 DEF DeckTypes
  <2>2. w.grace = 0 /\ w \in MachineType
    BY <1>1 DEF Sound, Aside
  <2>3. Become([v EXCEPT !.grace = 0])
    BY <1>4, <2>2 DEF Confirmed, Machine
  <2>4. v.grace = 0
    BY <2>2 DEF MachineType
  <2> HIDE DEF y, w
  <2>5. Leads(b, w, v)
    BY <1>2, <2>1, ReplaceLeads DEF w
  <2> HIDE DEF v
  <2>6. [v EXCEPT !.grace = 0] = v
    BY <2>4, <2>5 DEF Leads, Sound, MachineType
  <2>7. QED
    BY <2>3, <2>5, <2>6, Done DEF w
<1>5. CASE SessionEnds(d)
  <2> DEFINE p == [x EXCEPT !.state = "Paused",
                            !.audio = IF x.audio = "leaving" THEN "gone" ELSE "parked"]
  <2> DEFINE q == [x EXCEPT !.state = "Stopped", !.audio = "none", !.segue = "off"]
  <2> DEFINE held == [w EXCEPT !.deck[d] = p]
  <2> DEFINE over == [w EXCEPT !.deck[d] = q]
  <2>1. /\ p \in DeckTypes /\ p.busy = x.busy /\ p.line = x.line /\ p.wired = x.wired
        /\ q \in DeckTypes /\ q.busy = x.busy /\ q.line = x.line /\ q.wired = x.wired
    BY <1>2 DEF DeckTypes
  <2>2. \/ Become(held) \/ Become(over)
        \/ x.wired /\ Become(Paused(held, k))
        \/ x.wired /\ Become(Cleanup(over, k))
        \/ x.wired /\ Become(Finished(over, k))
    BY <1>5, Zenon DEF SessionEnds, Machine
  <2> HIDE DEF p, q, w
  <2>3. /\ Leads(b, w, held) /\ held.deckOf = w.deckOf
        /\ Leads(b, w, over) /\ over.deckOf = w.deckOf
    BY <1>2, <2>1, ReplaceLeads DEF w
  <2> HIDE DEF held, over
  <2>4. Ready(b, held) /\ Ready(b, over)
    BY <2>3, LeadsOn DEF w
  <2>5. x.wired => /\ Leads(b, held, Paused(held, k)) /\ Leads(b, over, Cleanup(over, k))
                   /\ Leads(b, over, Finished(over, k))
    BY <1>1, <1>3, <2>3, <2>4, PausedLeads, CleanupLeads, FinishedLeads
  <2>6. x.wired => /\ Leads(b, w, Paused(held, k)) /\ Leads(b, w, Cleanup(over, k))
                   /\ Leads(b, w, Finished(over, k))
    BY <2>3, <2>5, LeadsOn DEF w
  <2>7. QED
    BY <2>2, <2>3, <2>6, Done DEF w
<1>6. CASE SegueStart(d)
  <2> DEFINE y == [x EXCEPT !.segue = "inside"]
  <2> DEFINE z == [w EXCEPT !.deck[d] = y]
  <2>1. y \in DeckTypes /\ y.busy = x.busy /\ y.line = x.line /\ y.wired = x.wired
    BY <1>2 DEF DeckTypes
  <2>2. [w EXCEPT !.deck[d].segue = "inside"] = z
    BY DEF Machine
  <2>3. Become(z) \/ (SegueDue(k) /\ Become(SegueToNext(z)))
    BY <1>6, <2>2 DEF SegueStart
  <2>4. SegueDue(k) => w.next # 0 /\ w.trans[w.next] = "Segue"
    BY DEF SegueDue, Machine
  <2> HIDE DEF y, w
  <2>5. Leads(b, w, z) /\ z.next = w.next /\ z.trans = w.trans
    BY <1>2, <2>1, ReplaceLeads DEF w
  <2> HIDE DEF z
  <2>6. Ready(b, z)
    BY <2>5, LeadsOn DEF w
  <2>7. SegueDue(k) => Leads(b, z, SegueToNext(z))
    BY <1>1, <2>4, <2>5, <2>6, SegueLeads
  <2>8. SegueDue(k) => Leads(b, w, SegueToNext(z))
    BY <2>5, <2>7, LeadsOn DEF w
  <2>9. QED
    BY <2>3, <2>5, <2>8, Done DEF w
<1>7. CASE SegueEnd(d)
  <2> DEFINE y == [x EXCEPT !.segue = "off"]
  <2> DEFINE z == [w EXCEPT !.deck[d] = y]
  <2> DEFINE s == StopDeck(z, deckOf[k])
  <2>1. y \in DeckTypes /\ y.busy = x.busy /\ y.line = x.line /\ y.wired = x.wired
    BY <1>2 DEF DeckTypes
  <2>2. [w EXCEPT !.deck[d].segue = "off"] = z
    BY DEF Machine
  <2>3. Become(z) \/ (x.wired /\ Become(Cleanup(s, k)))
    <3>1. Become(IF x.wired /\ mode = "Auto" /\ status[k] = "Finishing"
                 THEN Cleanup(s, k) ELSE z)
      BY <1>7, <2>2 DEF SegueEnd
    <3> HIDE DEF z, x, s
    <3>2. QED
      BY <3>1
  <2> HIDE DEF y, w
  <2>4. Leads(b, w, z) /\ z.deckOf = w.deckOf
    BY <1>2, <2>1, ReplaceLeads DEF w
  <2> HIDE DEF z
  <2>5. Ready(b, z) /\ z \in MachineType
    BY <2>4, LeadsOn DEF w, Leads, Sound
  <2>6. Leads(b, z, s) /\ s.deckOf = z.deckOf
    BY <2>5, StopDeckLeads, StopDeckKeeps
  <2> HIDE DEF s
  <2>7. Leads(b, w, s) /\ Ready(b, s)
    BY <2>4, <2>5, <2>6, LeadsOn DEF w
  <2>8. x.wired => Leads(b, s, Cleanup(s, k))
    BY <1>3, <2>4, <2>6, <2>7, CleanupLeads
  <2>9. x.wired => Leads(b, w, Cleanup(s, k))
    BY <2>7, <2>8, LeadsOn DEF w
  <2>10. QED
    BY <2>3, <2>4, <2>9, Done DEF w
<1>8. QED
  BY <1>4, <1>5, <1>6, <1>7 DEF Deck

\* The timers, where the transition timer only makes a line the next; that
\* steers.
LEMMA TimersMove ==
  ASSUME TypeOK, NEW b \in BOOLEAN, Ready(b, Machine), NoHardStarts,
         b => \A k \in Lines : log[k].hard = 0,
         SegueBacktime \/ SleepTimer \/ TransTimer \/ GraceTimer
  PROVE  Moves(b, Machine, Machine')
<1>1. Setting /\ Sound(Machine) /\ Machine \in MachineType
  BY MachineTyped DEF Settled, Ready
<1>2. CASE SegueBacktime
  <2>1. Become(Machine) \/ (SegueDue(backtime) /\ Become(SegueToNext(Machine)))
    BY <1>2 DEF SegueBacktime
  <2>2. SegueDue(backtime) => Machine.next # 0 /\ Machine.trans[Machine.next] = "Segue"
    BY DEF SegueDue, Machine
  <2>3. SegueDue(backtime) => Leads(b, Machine, SegueToNext(Machine))
    BY <1>1, <2>2, SegueLeads
  <2>4. Leads(b, Machine, Machine)
    BY <1>1, NextLeads
  <2>5. QED
    BY <2>1, <2>3, <2>4, Done
<1>3. CASE SleepTimer
  <2> DEFINE x == [Machine EXCEPT !.macro = 0]
  <2> DEFINE z == FinishEvent(x)
  <2> DEFINE v == SetStatus(z, macro, "Finished")
  <2>1. Become(v)
    BY <1>3 DEF SleepTimer
  <2>2. /\ x \in MachineType /\ x.deckOf = Machine.deckOf /\ x.macro = 0
        /\ x.grace = Machine.grace /\ x.timer = Machine.timer
        /\ x.deck = Machine.deck /\ x.status = Machine.status /\ x.next = Machine.next
    BY <1>1, Numbers DEF MachineType
  <2> HIDE DEF x
  <2>3. Sound(x)
    BY <1>1, <2>2, SoundSame
  <2>4. Leads(b, Machine, x)
    <3>1. Machine.next \in Nat
      BY <1>1, LogPlayAssumption DEF MachineType
    <3>2. Moves(b, Machine, x)
      BY <2>2, <3>1, MovesKeep
    <3>3. QED
      BY <2>3, <3>2 DEF Leads
  <2>5. Ready(b, x)
    BY <2>4, LeadsOn
  <2>6. Leads(b, x, z)
    BY <1>1, <2>5, FinishLeads
  <2> HIDE DEF z
  <2>7. Leads(b, Machine, z) /\ Ready(b, z) /\ z \in MachineType
    BY <2>4, <2>5, <2>6, LeadsOn DEF Leads, Sound
  <2>8. macro \in Lines /\ Machine.macro = macro /\ ~Audio(macro)
    BY <1>1, <1>3, LogPlayAssumption DEF SleepTimer, TypeOK, Lines, Sound, Aside, Machine
  <2>9. Machine.status[macro] \in Statuses \ {"Scheduled", "Paused"}
    BY <1>1, <1>3, <2>8, Parts DEF Ready, Begun, SleepTimer
  <2>10. z.status[macro] # "Scheduled"
    <3>1. Goes(Machine, z)
      BY <2>7 DEF Leads, Moves
    <3>2. QED
      BY <2>8, <2>9, <3>1 DEF Goes, Statuses, Runs
  <2>11. /\ v.deckOf = z.deckOf /\ v.macro = z.macro /\ v.next = z.next
         /\ v.status = [z.status EXCEPT ![macro] = "Finished"]
    BY <2>7 DEF SetStatus, MachineType
  <2>12. Sound(v)
    BY <2>7, <2>8, StatusSound DEF Leads, Statuses
  <2> HIDE DEF v
  <2>13. \A j \in Lines : \/ v.status[j] = z.status[j] /\ v.deckOf[j] = z.deckOf[j]
                          \/ z.status[j] # "Scheduled" /\ v.status[j] = "Finished"
    BY <2>7, <2>10, <2>11, Parts
  <2>14. Leads(b, z, v)
    <3>1. v \in MachineType /\ v.macro = z.macro
      BY <2>11, <2>12 DEF Sound
    <3>2. v.next = 0 \/ (z.next # 0 /\ v.next >= z.next)
      BY <2>7, <2>11, LogPlayAssumption DEF MachineType
    <3>3. Moves(b, z, v)
      BY <2>7, <2>13, <3>1, <3>2, MovesKeep
    <3>4. QED
      BY <2>12, <3>3 DEF Leads
  <2>15. QED
    BY <2>1, <2>7, <2>14, LeadsOn, Done
<1>4. CASE TransTimer
  <2> DEFINE k == timer
  <2> DEFINE w == [Machine EXCEPT !.timer = 0, !.grace = 0]
  <2>1. k # 0 /\ k \in Lines
    BY <1>4, LogPlayAssumption DEF TransTimer, Due, TypeOK, Lines
  <2>2. log[k].hard # 0
    BY <1>1, <2>1 DEF Sound, Aside, Machine
  <2>3. ~b /\ log[k].grace = "next"
    BY <2>1, <2>2 DEF NoHardStarts, TypeOK
  <2>4. Become(SetTransTimer(w)) \/ Become(makeNext(w, k))
    BY <1>4, <2>3 DEF TransTimer
  <2>5. /\ w \in MachineType /\ w.status = Machine.status /\ w.deck = Machine.deck
        /\ w.deckOf = Machine.deckOf /\ w.macro = Machine.macro
        /\ w.grace = Machine.grace /\ w.timer = 0
    BY <1>1, Numbers DEF MachineType, Sound, Aside
  <2> HIDE DEF w
  <2>6. Sound(w)
    BY <1>1, <2>5, SoundFrame
  <2>7. Moves(b, Machine, w)
    BY <2>3, <2>5, MovesKeep
  <2>8. Leads(b, Machine, w) /\ Ready(b, w)
    BY <2>6, <2>7, LeadsOn DEF Leads
  <2>9. Leads(b, w, SetTransTimer(w)) /\ Leads(b, w, makeNext(w, k))
    BY <1>1, <2>1, <2>3, <2>8, NextLeads
  <2>10. Leads(b, Machine, SetTransTimer(w)) /\ Leads(b, Machine, makeNext(w, k))
    BY <2>8, <2>9, LeadsOn
  <2>11. QED
    BY <2>4, <2>10, Done
<1>5. CASE GraceTimer
  BY <1>1, <1>5 DEF GraceTimer, Sound, Aside, Machine
<1>6. QED
  BY <1>2, <1>3, <1>4, <1>5

\* Before the first command, where there are no hard start times, no line
\* starts.
LEMMA IdleStays ==
  ASSUME TypeOK, Sound(Machine), Begun(Machine), Idle(Machine),
         \A k \in Lines : log[k].hard = 0, Handler
  PROVE  status' = status
<1>1. \A d \in Decks : ~deck[d].wired
  <2> DEFINE w == Machine
  <2>1. w.deck = deck
    BY DEF Machine
  <2> HIDE DEF w
  <2>2. \A d \in Decks : ~w.deck[d].wired
    <3> SUFFICES ASSUME NEW d \in Decks, w.deck[d].wired PROVE FALSE
      OBVIOUS
    <3>1. w.deck[d].line \in Lines /\ w.deckOf[w.deck[d].line] = d
      BY DEF Sound, Claimed, w
    <3>2. w.status[w.deck[d].line] \in Runs
      BY <3>1, Numbers DEF Sound, Paired, w
    <3>3. QED
      BY <3>1, <3>2 DEF Idle, Runs, w
  <2>3. QED
    BY <2>1, <2>2
<1>2. macro = 0
  BY LogPlayAssumption DEF Begun, Idle, Machine, TypeOK, Lines
<1>3. timer = 0 /\ grace = 0
  BY LogPlayAssumption DEF Sound, Aside, Machine, TypeOK, Lines
<1>4. backtime # 0 => ~SegueDue(backtime)
  BY LogPlayAssumption DEF SegueDue, Idle, Machine, TypeOK, Lines
<1>5. ASSUME NEW d \in Decks, Confirmed(d) PROVE status' = status
  BY <1>5 DEF Confirmed, Become, Machine
<1>6. ASSUME NEW d \in Decks, SessionEnds(d) PROVE status' = status
  <2>1. ~deck[d].wired
    BY <1>1
  <2>2. QED
    BY <1>6, <2>1 DEF SessionEnds, Become, Machine
<1>7. ASSUME NEW d \in Decks, SegueStart(d) PROVE status' = status
  <2>1. ~deck[d].wired
    BY <1>1
  <2>2. QED
    BY <1>7, <2>1 DEF SegueStart, Become, Machine
<1>8. ASSUME NEW d \in Decks, SegueEnd(d) PROVE status' = status
  <2>1. ~deck[d].wired
    BY <1>1
  <2>2. QED
    BY <1>8, <2>1 DEF SegueEnd, Become, Machine
<1>9. CASE SegueBacktime
  BY <1>4, <1>9 DEF SegueBacktime, Become, Machine
<1>10. QED
  BY <1>2, <1>3, <1>5, <1>6, <1>7, <1>8, <1>9
     DEF Handler, Deck, TransTimer, Due, GraceTimer, SleepTimer

-----------------------------------------------------------------------------
(* LogPlay implements Playlist *)

\* Playlist's steered.
Steered == used > 1 \/ \E k \in Lines : log[k].hard # 0

\* What every state knows of the lines that have started.
Led ==
  /\ TypeOK /\ Sound(Machine) /\ Begun(Machine)
  /\ ~Steered => Behind(Machine)
  /\ ~Steered /\ used = 0 => Idle(Machine)

\* At first no line has started.
LEMMA InitLed == Init => Led
<1> SUFFICES ASSUME Init PROVE Led
  OBVIOUS
<1>1. TypeOK /\ Sound(Machine)
  BY InitTyped, InitSound
<1>2. Begun(Machine) /\ Behind(Machine) /\ Idle(Machine)
  BY DEF Init, Machine, Begun, Behind, Idle
<1>3. QED
  BY <1>1, <1>2 DEF Led

\* Only the operator's commands are counted, and the log stays the same.
LEMMA Counted ==
  /\ Operator => used' = used + 1
  /\ Handler \/ Tick \/ Crash => used' = used
  /\ Next => UNCHANGED log
<1>1. Operator => used' = used + 1 /\ UNCHANGED log
  BY DEF Operator, Play, Stop, Pause, MakeNext, SetOpMode, Command
<1>2. Handler \/ Tick => used' = used /\ UNCHANGED log
  BY DEF Handler, Deck, Confirmed, SessionEnds, SegueStart, SegueEnd, SegueBacktime,
         SleepTimer, TransTimer, GraceTimer, Tick, outside
<1>3. Crash => used' = used /\ UNCHANGED log
  BY DEF Crash
<1>4. QED
  BY <1>1, <1>2, <1>3 DEF Next

\* Each step moves as Playlist says; b says that nobody steers.
LEMMA StepMoves ==
  ASSUME Led, NoHardStarts, Next, NEW b \in BOOLEAN, b => ~Steered'
  PROVE  Moves(b, Machine, Machine') /\ UNCHANGED log
<1>1. UNCHANGED log
  BY Counted
<1>2. used \in Nat /\ used' \in Nat /\ used' >= used
  <2>1. used \in Nat
    BY LogPlayAssumption DEF Led, TypeOK
  <2>2. QED
    BY <2>1, Counted DEF Next
<1>3. b => ~Steered
  BY <1>1, <1>2 DEF Steered
<1>4. Ready(b, Machine) /\ TypeOK
  BY <1>3 DEF Led, Ready
<1>5. CASE Operator
  <2>1. used' = used + 1
    BY <1>5, Counted
  <2>2. b => Idle(Machine)
    BY <1>2, <1>3, <2>1 DEF Led, Steered
  <2>3. QED
    BY <1>1, <1>4, <1>5, <2>2, OperatorMoves
<1>6. CASE Handler
  <2>1. b => \A k \in Lines : log[k].hard = 0
    BY <1>3 DEF Steered
  <2>2. QED
    BY <1>1, <1>4, <1>6, <2>1, DeckMoves, TimersMove DEF Handler
<1>7. CASE Tick
  <2>1. Become(Machine)
    BY <1>7 DEF Tick, machine, Become, Machine
  <2>2. Leads(b, Machine, Machine)
    BY <1>4, MachineTyped, NextLeads
  <2>3. QED
    BY <1>1, <2>1, <2>2, Done
<1>8. ~Crash
  BY SoundLives DEF Led
<1>9. QED
  BY <1>5, <1>6, <1>7, <1>8 DEF Next

\* Every state knows it.
LEMMA NextLed ==
  ASSUME Led, NoHardStarts, TypeOK', Sound(Machine)', [Next]_vars
  PROVE  Led'
<1>1. CASE UNCHANGED vars
  BY <1>1 DEF vars, machine, Led, Machine, Begun, Behind, Idle, Steered
<1>2. CASE Next
  <2>1. Moves(FALSE, Machine, Machine') /\ UNCHANGED log
    BY <1>2, StepMoves
  <2>2. ASSUME ~Steered' PROVE Behind(Machine)'
    <3>1. Moves(TRUE, Machine, Machine')
      BY <1>2, <2>2, StepMoves
    <3>2. QED
      BY <3>1 DEF Moves
  <2>3. ASSUME ~Steered', used' = 0 PROVE Idle(Machine)'
    <3>1. used \in Nat
      BY LogPlayAssumption DEF Led, TypeOK
    <3>2. ~Operator
      BY <2>3, <3>1, Counted
    <3>3. (Handler \/ Tick) /\ used' = used
      BY <1>2, <3>2, Counted, SoundLives DEF Next, Led
    <3>4. \A k \in Lines : log[k].hard = 0
      BY <2>1, <2>3 DEF Steered
    <3>5. used = 0 /\ ~Steered
      BY <2>3, <3>3, <3>4 DEF Steered
    <3>6. Idle(Machine) /\ TypeOK /\ Sound(Machine) /\ Begun(Machine)
      BY <3>5 DEF Led
    <3>7. status' = status
      BY <3>3, <3>4, <3>6, IdleStays DEF Tick, machine
    <3>8. QED
      BY <3>6, <3>7 DEF Idle, Machine
  <2>4. Begun(Machine)'
    BY <2>1 DEF Moves
  <2>5. QED
    BY <2>2, <2>3, <2>4 DEF Led
<1>3. QED
  BY <1>1, <1>2

\* A step of LogPlay is an event of Playlist: lines start, lines end, and the
\* others keep their decks.
LEMMA StepContract ==
  ASSUME Led, Led', NoHardStarts, Next
  PROVE  Contract!Next
<1>s. PICK start : start = {k \in Lines : status[k] = "Scheduled" /\ status'[k] # "Scheduled"}
  OBVIOUS
<1>e. PICK end : end = {k \in Lines : status[k] # "Finished" /\ status'[k] = "Finished"}
  OBVIOUS
<1> DEFINE state == [k \in Lines |-> CASE status[k] = "Scheduled" -> "waiting"
                                       [] status[k] = "Finished"  -> "over"
                                       [] OTHER                   -> "running"]
<1>1. /\ status \in [Lines -> Statuses] /\ status' \in [Lines -> Statuses]
      /\ deckOf \in [Lines -> 0..NDecks] /\ deckOf' \in [Lines -> 0..NDecks]
  BY DEF Led, TypeOK, Statuses
<1>2. Moves(FALSE, Machine, Machine') /\ UNCHANGED log
  BY StepMoves
<1>3. \A k \in Lines :
        /\ status[k] = "Finished" => status'[k] = "Finished"
        /\ status[k] \in Runs =>
             \/ status'[k] = "Finished"
             \/ status'[k] \in Runs /\ deckOf'[k] = deckOf[k]
  BY <1>2 DEF Moves, Goes, Machine
<1>4. start \subseteq Contract!Waiting
  BY <1>s DEF Contract!Waiting, Contract!Lines, Lines
<1>5. end \subseteq Contract!Runs \union start
  BY <1>1, <1>s, <1>e DEF Contract!Runs, Contract!Lines, Lines, Statuses
<1>6. state' = [k \in Lines |-> CASE k \in end         -> "over"
                                  [] k \in start \ end -> "running"
                                  [] OTHER             -> state[k]]
  BY <1>1, <1>3, <1>s, <1>e DEF Statuses, Runs
<1>7. \A k \in Lines : deckOf'[k] # 0 =>
        /\ status'[k] \in Runs
        /\ \A j \in Lines : deckOf'[j] = deckOf'[k] => j = k
  BY DEF Led, Sound, Paired, Machine
<1>8. Contract!Keeps(start, end)
  <2>1. \A k \in Lines : deckOf'[k] # 0 => state'[k] = "running"
    BY <1>7 DEF Runs
  <2>2. \A k \in Lines : state[k] = "running" /\ k \notin end => deckOf'[k] = deckOf[k]
    BY <1>1, <1>3, <1>e DEF Statuses, Runs
  <2>3. QED
    BY <1>1, <1>7, <2>1, <2>2 DEF Contract!Keeps, Contract!Runs, Contract!Lines, Lines
<1>9. ~Steered' => Contract!InOrder(start)
  <2>1. SUFFICES ASSUME ~Steered' PROVE Contract!InOrder(start)
    OBVIOUS
  <2>2. Moves(TRUE, Machine, Machine')
    BY <2>1, StepMoves
  <2>3. \A j, k \in Lines : /\ status[j] = "Scheduled" /\ status'[j] # "Scheduled"
                           /\ status[k] # "Scheduled" => k < j
    BY <2>2 DEF Moves, Ordered, Machine
  <2>4. QED
    BY <1>s, <2>3 DEF Contract!InOrder, Contract!Waiting, Contract!Lines, Lines
<1>10. Steered => Steered'
  <2>1. used \in Nat
    BY LogPlayAssumption DEF Led, TypeOK
  <2>2. used' = used + 1 \/ used' = used
    BY Counted DEF Next
  <2>3. QED
    BY <1>2, <2>1, <2>2 DEF Steered
<1>11. Contract!Event(start, end)
  BY <1>6, <1>8, <1>9, <1>10 DEF Contract!Event, Contract!Lines, Lines, Steered
<1>12. QED
  BY <1>4, <1>5, <1>11 DEF Contract!Next

\* Whatever the log, the operator and caed do, where no hard start time starts a
\* line by itself: each line is played once, on a deck that it keeps for itself,
\* and from the first command on the machine starts the lines in the order of
\* the log, however cues, segues, macros and lines without audio nest.
THEOREM LogPlayed ==
  ASSUME NoHardStarts
  PROVE  Spec => ImplementsPlaylist
<1>1. Init => Contract!Init
  BY DEF Init, Contract!Init, Contract!Lines, Lines
<1>2. Led /\ Led' /\ [Next]_vars => [Contract!Next]_(Contract!vars)
  <2>1. UNCHANGED vars => UNCHANGED Contract!vars
    BY DEF vars, machine, Contract!vars
  <2>2. QED
    BY <2>1, StepContract
<1>3. Led /\ TypeOK' /\ Sound(Machine)' /\ [Next]_vars => Led'
  BY NextLed
<1>4. Led => TypeOK /\ Sound(Machine)
  BY DEF Led
<1>5. TypeOK /\ Sound(Machine) /\ [Next]_vars => Sound(Machine)'
  BY SoundKept DEF NoHardStarts, Unstarted, TypeOK
<1>6. QED
  BY <1>1, <1>2, <1>3, <1>4, <1>5, InitLed, TypeCorrect, PTL
     DEF Spec, ImplementsPlaylist, Contract!Spec

=============================================================================
