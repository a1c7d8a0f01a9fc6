--------------------------- MODULE LogPlayProofs ---------------------------
(***************************************************************************)
(* Theorems about LogPlay: its variables have their types, and where no    *)
(* hard start time starts a line by itself, lines and decks agree.         *)
(***************************************************************************)
EXTENDS LogPlay, TLAPS, WellFoundedInduction

Statuses == {"Scheduled", "Playing", "Finishing", "Paused", "Finished"}
Transitions == {"Play", "Segue", "Stop"}

\* The machine states that handlers pass to each other: next may stand behind
\* the end of the log.
MachineType ==
  [status : [Lines -> Statuses], trans : [Lines -> Transitions],
   next : 0..NLines + 1, deck : [Decks -> DeckTypes],
   deckOf : [Lines -> 0..NDecks], macro : 0..NLines,
   timer : 0..NLines, grace : 0..NLines]

\* The ones that they leave behind.
Settled(w) == w \in MachineType /\ w.next \in 0..NLines

\* What does not change while a handler runs.
Setting == log \in [Lines -> LineTypes] /\ now \in Times

-----------------------------------------------------------------------------
(* The choices that handlers make *)

\* A set of natural numbers has a least element.
LEMMA LeastNatural ==
  ASSUME NEW S \in SUBSET Nat, S # {}
  PROVE  \E m \in S : \A j \in S : m <= j
<1> DEFINE R == OpToRel(<, Nat)
<1>1. IsWellFoundedOn(R, Nat)
  BY NatLessThanWellFounded
<1> HIDE DEF R
<1>2. PICK m \in S : \A j \in S : ~(<<j, m>> \in R)
  BY <1>1, WFMin
<1>3. \A j \in S : ~(j < m)
  BY <1>2 DEF R, OpToRel
<1>4. QED
  BY <1>3

\* A set of lines has a last one.
LEMMA LastLine ==
  ASSUME NEW S \in SUBSET Lines, S # {}
  PROVE  \E m \in S : \A j \in S : j <= m
<1> DEFINE T == {NLines - j : j \in S}
<1>1. T \in SUBSET Nat /\ T # {}
  <2>1. \A j \in S : NLines - j \in Nat
    BY LogPlayAssumption DEF Lines
  <2>2. QED
    BY <2>1
<1>2. PICK t \in T : \A j \in T : t <= j
  BY <1>1, LeastNatural
<1>3. PICK m \in S : t = NLines - m
  OBVIOUS
<1>4. \A j \in S : NLines - m <= NLines - j
  BY <1>2, <1>3
<1>5. QED
  BY <1>4, LogPlayAssumption DEF Lines

\* First takes a line of the set, or none if there is none.
LEMMA FirstOfThem ==
  ASSUME NEW S \in SUBSET Lines
  PROVE  /\ S = {} => First(S) = 0
         /\ S # {} => First(S) \in S
<1>1. S \in SUBSET Nat
  BY LogPlayAssumption DEF Lines
<1>2. QED
  BY <1>1, LeastNatural DEF First

\* A free deck is found where there is one.
LEMMA FirstDeck ==
  ASSUME NEW S \in SUBSET Decks, S # {}
  PROVE  First(S) \in S
<1>1. S \in SUBSET Nat
  BY LogPlayAssumption DEF Decks
<1>2. QED
  BY <1>1, LeastNatural DEF First

\* The transition timer waits for a line with a hard start time, the earliest
\* that is still to come.
LEMMA TimedLine ==
  ASSUME NEW w, Setting
  PROVE  /\ Soonest(w) \in 0..NLines
         /\ Soonest(w) # 0 => log[Soonest(w)].hard > now
         /\ \A k \in Lines : w.status[k] = "Scheduled" /\ log[k].hard > now =>
              Soonest(w) \in Lines /\ log[Soonest(w)].hard <= log[k].hard
<1> DEFINE due == {k \in Lines : w.status[k] = "Scheduled" /\ log[k].hard > now}
<1> DEFINE best(k) == \A j \in due : \/ log[k].hard < log[j].hard
                                     \/ log[k].hard = log[j].hard /\ j <= k
<1>0. Lines \subseteq 0..NLines
  BY LogPlayAssumption DEF Lines
<1>1. CASE due = {}
  BY <1>1, LogPlayAssumption DEF Soonest
<1>2. CASE due # {}
  <2> DEFINE T == {log[k].hard : k \in due}
  <2>1. \A k \in Lines : log[k].hard \in Nat
    BY LogPlayAssumption DEF Setting, LineTypes, Times
  <2>2. T \in SUBSET Nat /\ T # {}
    BY <1>2, <2>1
  <2>3. PICK h \in T : \A t \in T : h <= t
    BY <2>2, LeastNatural
  <2> DEFINE U == {k \in due : log[k].hard = h}
  <2>4. U \in SUBSET Lines /\ U # {}
    BY <2>3
  <2>5. PICK m \in U : \A j \in U : j <= m
    BY <2>4, LastLine
  <2>6. m \in due /\ best(m)
    <3>1. \A j \in due : h <= log[j].hard
      BY <2>3
    <3>2. log[m].hard = h
      BY <2>5
    <3>3. \A j \in due : log[j].hard = h => j <= m
      BY <2>5
    <3>4. \A j \in due : log[j].hard \in Nat /\ h \in Nat
      BY <2>1, <2>2
    <3>5. QED
      BY <3>1, <3>2, <3>3, <3>4
  <2>7. Soonest(w) = CHOOSE k \in due : best(k)
    BY <1>2 DEF Soonest
  <2> DEFINE s == Soonest(w)
  <2> HIDE DEF best, s
  <2>8. s \in due /\ best(s)
    BY <2>6, <2>7 DEF s
  <2>9. \A j \in due : log[s].hard <= log[j].hard
    BY <2>1, <2>8 DEF best
  <2>10. QED
    BY <2>8, <2>9, <1>0 DEF s
<1>3. QED
  BY <1>1, <1>2

\* GetNextPlayable finds lines that wait; the one to play has a playable cut or
\* a STOP transition.
LEMMA LookFinds ==
  ASSUME NEW w, NEW p, NEW forced
  PROVE  /\ Look(w, p, forced).line \in 0..NLines
         /\ Look(w, p, forced).halt \in 0..NLines
         /\ Look(w, p, forced).line = 0 \/ Look(w, p, forced).halt = 0
         /\ Look(w, p, forced).halt # 0 => Look(w, p, forced).halt \in Lines
         /\ Look(w, p, forced).line # 0 =>
              LET f == Look(w, p, forced).line IN
              /\ f \in Lines
              /\ w.status[f] \in {"Scheduled", "Paused"}
              /\ log[f].ok \/ w.trans[f] = "Stop"
<1> DEFINE waiting == {k \in Lines : p # 0 /\ k >= p /\ Is(w, k, {"Scheduled", "Paused"})}
<1> DEFINE halts == {k \in waiting : k # p /\ (w.trans[k] = "Stop" \/ mode = "LiveAssist")}
<1> DEFINE plays == {k \in waiting : log[k].ok \/ (w.trans[k] = "Stop" /\ ~forced)}
<1> DEFINE k == First(halts \union plays)
<1>0. halts \union plays \in SUBSET Lines
  OBVIOUS
<1>1. k = 0 \/ k \in halts \union plays
  BY <1>0, FirstOfThem
<1>2. \A j \in waiting : j \in Lines /\ w.status[j] \in {"Scheduled", "Paused"}
  BY DEF Is
<1>3. 0 \notin Lines /\ Lines \subseteq 0..NLines /\ 0 \in 0..NLines
  BY LogPlayAssumption DEF Lines
<1>4. Look(w, p, forced) = IF k \in halts THEN [line |-> 0, halt |-> k] ELSE [line |-> k, halt |-> 0]
  BY DEF Look
<1> HIDE DEF k
<1>5. CASE k \in halts
  <2>1. Look(w, p, forced) = [line |-> 0, halt |-> k]
    BY <1>4, <1>5
  <2>2. k \in Lines
    BY <1>5
  <2>3. QED
    BY <2>1, <2>2, <1>3
<1>6. CASE k \notin halts
  <2>1. Look(w, p, forced) = [line |-> k, halt |-> 0]
    BY <1>4, <1>6
  <2>2. k # 0 => k \in plays
    BY <1>1, <1>6
  <2>3. k # 0 => /\ k \in Lines /\ w.status[k] \in {"Scheduled", "Paused"}
                 /\ log[k].ok \/ w.trans[k] = "Stop"
    BY <1>2, <2>2
  <2>4. Look(w, p, forced).line = k /\ Look(w, p, forced).halt = 0
    BY <2>1
  <2>5. k \in 0..NLines
    BY <2>3, <1>3
  <2>6. QED
    BY <2>3, <2>4, <2>5, <1>3, Zenon
<1>7. QED
  BY <1>5, <1>6

-----------------------------------------------------------------------------
(* Handlers make machine states of machine states *)

\* How lines and decks are numbered.
LEMMA Numbers ==
  /\ Lines \subseteq 0..NLines /\ Lines \subseteq 0..NLines + 1
  /\ 0 \in 0..NLines /\ 0..NLines \subseteq 0..NLines + 1
  /\ 0 \in 0..NDecks /\ Decks \subseteq 0..NDecks
  /\ 0 \notin Lines /\ 0 \notin Decks
  /\ \A k \in Lines : k + 1 \in 0..NLines + 1
BY LogPlayAssumption DEF Lines, Decks

\* What a machine state is made of.
LEMMA Parts ==
  ASSUME NEW w \in MachineType
  PROVE  /\ w.status \in [Lines -> Statuses] /\ w.trans \in [Lines -> Transitions]
         /\ w.next \in 0..NLines + 1
         /\ w.deck \in [Decks -> DeckTypes] /\ w.deckOf \in [Lines -> 0..NDecks]
         /\ w.macro \in 0..NLines /\ w.timer \in 0..NLines /\ w.grace \in 0..NLines
BY DEF MachineType

\* Parts of it replaced.
LEMMA Replaced ==
  ASSUME NEW w \in MachineType
  PROVE  /\ \A s \in [Lines -> Statuses] : [w EXCEPT !.status = s] \in MachineType
         /\ \A t \in [Lines -> Transitions] : [w EXCEPT !.trans = t] \in MachineType
         /\ \A n \in 0..NLines + 1 : [w EXCEPT !.next = n] \in MachineType
         /\ \A e \in [Decks -> DeckTypes] : [w EXCEPT !.deck = e] \in MachineType
         /\ \A e \in [Lines -> 0..NDecks] : [w EXCEPT !.deckOf = e] \in MachineType
         /\ \A k \in 0..NLines : /\ [w EXCEPT !.macro = k] \in MachineType
                                 /\ [w EXCEPT !.timer = k] \in MachineType
                                 /\ [w EXCEPT !.grace = k] \in MachineType
BY DEF MachineType

\* Parts of a deck replaced.
LEMMA DeckReplaced ==
  ASSUME NEW x \in DeckTypes
  PROVE  /\ [x EXCEPT !.state = "Stopping", !.stopCalled = TRUE] \in DeckTypes
         /\ \A a \in {"none", "asked", "sounding", "parked", "refused", "leaving", "gone"} :
              [x EXCEPT !.busy = FALSE, !.wired = FALSE, !.state = "Stopped",
                        !.segue = "off", !.audio = a] \in DeckTypes
BY DEF DeckTypes

\* A deck that is told to stop.
LEMMA StopDeckType ==
  ASSUME NEW w \in MachineType, NEW d
  PROVE  /\ StopDeck(w, d) \in MachineType
         /\ StopDeck(w, d).next = w.next
         /\ StopDeck(w, d).deck \in [Decks -> DeckTypes]
<1> DEFINE x == [w.deck[d] EXCEPT !.state = "Stopping", !.stopCalled = TRUE]
<1> DEFINE e == [w.deck EXCEPT ![d] = x]
<1>1. d \in Decks => x \in DeckTypes
  BY Parts, DeckReplaced
<1>2. e \in [Decks -> DeckTypes]
  <2> HIDE DEF x
  <2>1. QED
    BY <1>1, Parts
<1>3. StopDeck(w, d) = w \/ StopDeck(w, d) = [w EXCEPT !.deck = e]
  BY DEF StopDeck
<1> HIDE DEF e
<1>4. QED
  BY <1>2, <1>3, Parts, Replaced DEF MachineType

\* A line that is given a status.
LEMMA StatusType ==
  ASSUME NEW w \in MachineType, NEW k, NEW s \in Statuses
  PROVE  SetStatus(w, k, s) \in MachineType /\ SetStatus(w, k, s).next = w.next
BY DEF SetStatus, MachineType

\* A deck that is given back.
LEMMA FreeDeckType ==
  ASSUME NEW w \in MachineType, NEW k
  PROVE  FreeDeck(w, k) \in MachineType /\ FreeDeck(w, k).next = w.next
<1> DEFINE d == w.deckOf[k]
<1> DEFINE a == w.deck[d].audio
<1> DEFINE b == IF w.deck[d].state = "Stopped" THEN a
                ELSE IF a \in {"asked", "sounding", "leaving"} THEN "leaving" ELSE "gone"
<1> DEFINE x == [w.deck[d] EXCEPT !.busy = FALSE, !.wired = FALSE,
                   !.state = "Stopped", !.segue = "off", !.audio = b]
<1> DEFINE e == [w.deck EXCEPT ![d] = x]
<1> DEFINE f == [w.deckOf EXCEPT ![k] = 0]
<1>1. d \in Decks => x \in DeckTypes
  <2>1. d \in Decks => w.deck[d] \in DeckTypes
    BY Parts
  <2>2. d \in Decks => b \in {"none", "asked", "sounding", "parked", "refused", "leaving", "gone"}
    BY <2>1 DEF DeckTypes
  <2> HIDE DEF b
  <2>3. QED
    BY <2>1, <2>2, DeckReplaced
<1>2. e \in [Decks -> DeckTypes] /\ f \in [Lines -> 0..NDecks]
  <2> HIDE DEF x
  <2>1. e \in [Decks -> DeckTypes]
    BY <1>1, Parts
  <2>2. f \in [Lines -> 0..NDecks]
    BY Parts, Numbers
  <2>3. QED
    BY <2>1, <2>2
<1>3. FreeDeck(w, k) = [w EXCEPT !.deckOf = f, !.deck = e]
  BY DEF FreeDeck
<1> HIDE DEF e, f
<1>4. [w EXCEPT !.deckOf = f, !.deck = e] \in MachineType
  BY <1>2, Replaced DEF MachineType
<1>5. QED
  BY <1>3, <1>4 DEF MachineType

\* CleanupEvent makes a machine state, and leaves next alone.
LEMMA CleanupType ==
  ASSUME NEW w \in MachineType, NEW k
  PROVE  Cleanup(w, k) \in MachineType /\ Cleanup(w, k).next = w.next
BY FreeDeckType, StatusType DEF Cleanup, Statuses

\* The transition timer armed again.
LEMMA TimerType ==
  ASSUME NEW w \in MachineType, Setting
  PROVE  /\ SetTransTimer(w) \in MachineType
         /\ SetTransTimer(w).next = w.next
         /\ \A S : /\ RearmTransTimer(w, S) \in MachineType
                   /\ RearmTransTimer(w, S).next = w.next
<1>1. SetTransTimer(w) \in MachineType /\ SetTransTimer(w).next = w.next
  BY TimedLine DEF SetTransTimer, MachineType
<1>2. QED
  BY <1>1 DEF RearmTransTimer

\* The next line set, advanced, and kept within the log.
LEMMA NextType ==
  ASSUME NEW w \in MachineType, Setting
  PROVE  /\ \A k \in Lines : Settled(makeNext(w, k))
         /\ Advance(w) \in MachineType
         /\ w.next \in 0..NLines => Settled(Advance(w))
         /\ Settled(Within(w))
<1>1. ASSUME NEW k \in Lines PROVE Settled(makeNext(w, k))
  <2>1. [w EXCEPT !.next = k] \in MachineType /\ k \in 0..NLines
    BY Replaced, Numbers
  <2>2. QED
    BY <2>1, TimerType DEF makeNext, Settled, MachineType
<1>2. \A k \in Lines : Settled([w EXCEPT !.next = k])
  BY Replaced, Numbers DEF Settled, MachineType
<1>3. Advance(w) = w \/ Settled(Advance(w))
  <2> DEFINE look == Look(w, w.next, FALSE)
  <2>1. CASE look.halt # 0
    <3>1. look.halt \in Lines
      BY <2>1, LookFinds
    <3>2. Advance(w) = makeNext(w, look.halt)
      BY <2>1, LookFinds DEF Advance
    <3>3. QED
      BY <3>1, <3>2, <1>1
  <2>2. CASE look.halt = 0 /\ look.line # 0
    <3>1. look.line \in Lines
      BY <2>2, LookFinds
    <3>2. QED
      BY <2>2, <3>1, <1>2 DEF Advance
  <2>3. CASE look.halt = 0 /\ look.line = 0
    BY <2>3 DEF Advance
  <2>4. QED
    BY <2>1, <2>2, <2>3
<1>4. Settled(Within(w))
  <2>1. Settled([w EXCEPT !.next = 0])
    BY LogPlayAssumption DEF MachineType, Settled
  <2>2. Lines \subseteq 0..NLines
    BY LogPlayAssumption DEF Lines
  <2>3. QED
    BY <2>1, <2>2 DEF Within, Settled
<1>5. QED
  BY <1>1, <1>3, <1>4 DEF Settled

\* The decks that lines take.
LEMMA LoadType ==
  ASSUME NEW x \in DeckTypes, NEW k \in Lines
  PROVE  Load(x, k) \in DeckTypes /\ Resume(x) \in DeckTypes
<1>1. k \in 0..NLines
  BY LogPlayAssumption DEF Lines
<1>2. QED
  BY <1>1 DEF Load, Resume, DeckTypes

\* The line after k becomes the next.
LEMMA AssignType ==
  ASSUME NEW w \in MachineType, NEW k \in Lines
  PROVE  AssignNext(w, k) \in MachineType
<1> DEFINE n == IF w.next = 0 THEN 0 ELSE k + 1
<1>1. n \in 0..NLines + 1
  BY Numbers
<1>2. AssignNext(w, k) = [w EXCEPT !.next = n]
  BY DEF AssignNext
<1>3. QED
  BY <1>1, <1>2, Replaced

\* The macro that sleeps is stopped.
LEMMA StopMacroType ==
  ASSUME NEW w \in MachineType
  PROVE  StopMacro(w) \in MachineType /\ StopMacro(w).next = w.next
<1> DEFINE s == [w.status EXCEPT ![w.macro] = "Finished"]
<1>1. s \in [Lines -> Statuses] /\ 0 \in 0..NLines
  BY Parts, Numbers DEF Statuses
<1>2. StopMacro(w) = w \/ StopMacro(w) = [w EXCEPT !.status = s, !.macro = 0]
  BY DEF StopMacro
<1> HIDE DEF s
<1>3. QED
  BY <1>1, <1>2 DEF MachineType

\* A line that starts to play.
LEMMA PlayAudioType ==
  ASSUME NEW w \in MachineType, NEW k \in Lines
  PROVE  PlayAudio(w, k) \in MachineType
<1> DEFINE d == First(FreeDecks(w))
<1>1. CASE w.status[k] = "Paused"
  <2> DEFINE x == Resume(w.deck[w.deckOf[k]])
  <2> DEFINE e == [w.deck EXCEPT ![w.deckOf[k]] = x]
  <2>1. w.deckOf[k] \in Decks => x \in DeckTypes
    BY Parts, LoadType
  <2> HIDE DEF x
  <2>2. e \in [Decks -> DeckTypes]
    BY <2>1, Parts
  <2>3. PlayAudio(w, k) = SetStatus([w EXCEPT !.deck = e], k, "Playing")
    BY <1>1 DEF PlayAudio, x
  <2> HIDE DEF e
  <2>4. QED
    BY <2>2, <2>3, Replaced, StatusType DEF Statuses
<1>2. CASE w.status[k] # "Paused" /\ FreeDecks(w) # {}
  <2> DEFINE x == Load(w.deck[d], k)
  <2> DEFINE e == [w.deck EXCEPT ![d] = x]
  <2> DEFINE f == [w.deckOf EXCEPT ![k] = d]
  <2> DEFINE z == [w EXCEPT !.deck = e, !.deckOf = f]
  <2>1. d \in Decks
    <3>1. FreeDecks(w) \in SUBSET Decks
      BY DEF FreeDecks
    <3>2. QED
      BY <1>2, <3>1, FirstDeck
  <2>2. PlayAudio(w, k) = AssignNext(SetStatus(z, k, "Playing"), k)
    BY <1>2 DEF PlayAudio
  <2> HIDE DEF d
  <2>3. x \in DeckTypes
    BY <2>1, Parts, LoadType
  <2>4. e \in [Decks -> DeckTypes] /\ f \in [Lines -> 0..NDecks]
    <3> HIDE DEF x
    <3>1. QED
      BY <2>1, <2>3, Parts, Numbers
  <2>5. z \in MachineType
    <3> HIDE DEF e, f
    <3>1. QED
      BY <2>4 DEF MachineType
  <2> HIDE DEF z
  <2>6. SetStatus(z, k, "Playing") \in MachineType
    BY <2>5, StatusType DEF Statuses
  <2>7. QED
    BY <2>2, <2>6, AssignType
<1>3. CASE w.status[k] # "Paused" /\ FreeDecks(w) = {}
  <2> DEFINE f == [w.deckOf EXCEPT ![k] = 0]
  <2>1. f \in [Lines -> 0..NDecks]
    BY Parts, Numbers
  <2>2. PlayAudio(w, k) = [w EXCEPT !.deckOf = f]
    BY <1>3 DEF PlayAudio
  <2> HIDE DEF f
  <2>3. QED
    BY <2>1, <2>2 DEF MachineType
<1>4. QED
  BY <1>1, <1>2, <1>3

\* A macro that is executed.
LEMMA RunMacroType ==
  ASSUME NEW w \in MachineType, NEW k \in Lines, Setting
  PROVE  RunMacro(w, k) \in MachineType
<1> DEFINE z == AssignNext(SetStatus(w, k, "Playing"), k)
<1>1. z \in MachineType
  BY StatusType, AssignType DEF Statuses
<1>2. [z EXCEPT !.macro = k] \in MachineType
  BY <1>1, Replaced, Numbers
<1>3. SetStatus(Advance(z), k, "Finished") \in MachineType
  BY <1>1, NextType, StatusType DEF Statuses
<1>4. RunMacro(w, k) \in {[z EXCEPT !.macro = k], SetStatus(Advance(z), k, "Finished")}
  BY DEF RunMacro
<1>5. QED
  BY <1>2, <1>3, <1>4

\* So does starting a line of any kind.
LEMMA PlayLineType ==
  ASSUME NEW w \in MachineType, NEW k \in Lines, Setting
  PROVE  PlayLine(w, k) \in MachineType
BY PlayAudioType, RunMacroType DEF PlayLine

\* What runs, stopped by a line that starts.
LEMMA TransitionType ==
  ASSUME NEW w \in MachineType, NEW how
  PROVE  Transition(w, how) \in MachineType /\ Transition(w, how).next = w.next
<1> DEFINE out == Interrupted(w, how)
<1> DEFINE e == [d \in Decks |-> IF d \in {w.deckOf[k] : k \in out}
                                 THEN StopDeck(w, d).deck[d] ELSE w.deck[d]]
<1> DEFINE s == [k \in Lines |-> IF how = "Segue" /\ k \in out
                                 THEN "Finishing" ELSE w.status[k]]
<1> DEFINE z == [w EXCEPT !.deck = e, !.status = s]
<1>1. e \in [Decks -> DeckTypes]
  <2>1. \A d \in Decks : StopDeck(w, d).deck[d] \in DeckTypes
    BY StopDeckType
  <2> HIDE DEF out
  <2>2. QED
    BY <2>1, Parts
<1>2. s \in [Lines -> Statuses]
  BY Parts DEF Statuses
<1>3. z \in MachineType /\ z.next = w.next
  <2> HIDE DEF e, s
  <2>1. QED
    BY <1>1, <1>2 DEF MachineType
<1>4. Transition(w, how) = w \/ Transition(w, how) = StopMacro(z)
  BY DEF Transition
<1> HIDE DEF z
<1>5. QED
  BY <1>3, <1>4, StopMacroType

-----------------------------------------------------------------------------
(* FinishEvent and StartEvent *)

\* The lines that FinishEvent starts; it plays the last of them if that is not
\* done at once.
Waiting(w) == {k \in Lines : /\ w.next # 0 /\ k >= w.next
                             /\ w.status[k] = "Scheduled"}
Started(w) ==
  {k \in Waiting(w) :
     /\ mode = "Auto" /\ Running(w) = {}
     /\ log[k].ok /\ w.trans[k] # "Stop"
     /\ \A j \in Waiting(w) : j < k => /\ w.trans[j] # "Stop"
                                       /\ log[j].ok => Instant(j)}
Last(S) == CHOOSE k \in S : \A j \in S : j <= k
Past(w) ==
  [w EXCEPT !.status = [k \in Lines |-> IF k \in Started(w) /\ Instant(k)
                                        THEN "Finished" ELSE w.status[k]]]

\* FinishEvent by these names.
LEMMA FinishCases ==
  ASSUME NEW w
  PROVE  LET last == Last(Started(w))
             z == IF Instant(last) THEN Advance([Past(w) EXCEPT !.next = last + 1])
                  ELSE PlayLine([Past(w) EXCEPT !.next = last], last)
         IN /\ Started(w) = {} => FinishEvent(w) = Advance(w)
            /\ Started(w) # {} =>
                 /\ last \in Lines
                 /\ last \in Started(w)
                 /\ \E S : FinishEvent(w) = RearmTransTimer(Within(z), S)
<1> DEFINE last == Last(Started(w))
<1> DEFINE done == {k \in Started(w) : Instant(k)}
<1> DEFINE past == [w EXCEPT !.status = [k \in Lines |-> IF k \in done THEN "Finished"
                                                        ELSE w.status[k]]]
<1> DEFINE y == IF last \in done THEN Advance([past EXCEPT !.next = last + 1])
                ELSE PlayLine([past EXCEPT !.next = last], last)
<1> DEFINE P == {w.next} \union {k + 1 : k \in Started(w) \ {last}}
<1>1. FinishEvent(w) = IF Started(w) = {} THEN Advance(w)
                       ELSE RearmTransTimer(Within(y), P)
  BY Zenon DEF FinishEvent, Started, Waiting, Last
<1>2. past = Past(w)
  BY DEF Past
<1>3. Started(w) # {} => last \in Started(w) /\ last \in Lines
  <2>1. Started(w) \in SUBSET Lines
    BY DEF Started, Waiting
  <2>2. QED
    BY <2>1, LastLine DEF Last
<1>4. Started(w) # {} => (last \in done <=> Instant(last))
  BY <1>3
<1> DEFINE z == IF Instant(last) THEN Advance([Past(w) EXCEPT !.next = last + 1])
                ELSE PlayLine([Past(w) EXCEPT !.next = last], last)
<1>5. Started(w) # {} => y = z
  BY <1>2, <1>4
<1> HIDE DEF y, z, P, last
<1>6. QED
  BY <1>1, <1>3, <1>5 DEF z, last

\* FinishEvent leaves a settled state behind.
LEMMA FinishType ==
  ASSUME NEW w \in MachineType, Setting
  PROVE  /\ FinishEvent(w) \in MachineType
         /\ w.next \in 0..NLines => Settled(FinishEvent(w))
<1> DEFINE last == Last(Started(w))
<1> DEFINE y == Advance([Past(w) EXCEPT !.next = last + 1])
<1> DEFINE p == PlayLine([Past(w) EXCEPT !.next = last], last)
<1>1. CASE Started(w) = {}
  BY <1>1, FinishCases, NextType
<1>2. CASE Started(w) # {}
  <2>1. last \in Lines
    BY <1>2, FinishCases
  <2>2. PICK S : \/ FinishEvent(w) = RearmTransTimer(Within(y), S)
                 \/ FinishEvent(w) = RearmTransTimer(Within(p), S)
    BY <1>2, FinishCases
  <2>3. Past(w) \in MachineType
    <3> DEFINE s == [k \in Lines |-> IF k \in Started(w) /\ Instant(k)
                                     THEN "Finished" ELSE w.status[k]]
    <3>1. s \in [Lines -> Statuses]
      BY Parts DEF Statuses
    <3>2. Past(w) = [w EXCEPT !.status = s]
      BY DEF Past
    <3> HIDE DEF s
    <3>3. QED
      BY <3>1, <3>2, Replaced
  <2> HIDE DEF last
  <2>4. y \in MachineType
    BY <2>1, <2>3, Replaced, Numbers, NextType
  <2>5. p \in MachineType
    <3>1. [Past(w) EXCEPT !.next = last] \in MachineType
      BY <2>1, <2>3, Replaced, Numbers
    <3>2. QED
      BY <2>1, <3>1, PlayLineType
  <2> HIDE DEF y, p
  <2>6. Settled(Within(y)) /\ Settled(Within(p))
    BY <2>4, <2>5, NextType
  <2>7. QED
    BY <2>2, <2>6, TimerType DEF Settled
<1>3. QED
  BY <1>1, <1>2

\* A cart that is only pretended to play.
LEMMA FakeType ==
  ASSUME NEW w \in MachineType, NEW k \in Lines, Setting, FreeDecks(w) # {}
  PROVE  /\ Fake(w, k) \in MachineType
         /\ w.next \in 0..NLines => Settled(Fake(w, k))
<1> DEFINE d == First(FreeDecks(w))
<1> DEFINE f == [w.deckOf EXCEPT ![k] = d]
<1> DEFINE e == [w.deck EXCEPT ![d] = [@ EXCEPT !.line = k]]
<1> DEFINE g == IF log[k].hard # 0 THEN 0 ELSE w.grace
<1> DEFINE x == [w EXCEPT !.deckOf = f, !.deck = e, !.grace = g]
<1> DEFINE z == Cleanup(x, k)
<1>1. d \in Decks
  <2>1. FreeDecks(w) \in SUBSET Decks
    BY DEF FreeDecks
  <2>2. QED
    BY <2>1, FirstDeck
<1>2. Fake(w, k) = z \/ Fake(w, k) = FinishEvent(z)
  BY DEF Fake
<1> HIDE DEF d
<1>3. f \in [Lines -> 0..NDecks] /\ g \in 0..NLines
  BY <1>1, Parts, Numbers
<1>4. e \in [Decks -> DeckTypes]
  <2>1. w.deck[d] \in DeckTypes
    BY <1>1, Parts
  <2>2. [w.deck[d] EXCEPT !.line = k] \in DeckTypes
    BY <2>1, Numbers DEF DeckTypes
  <2>3. QED
    BY <2>2, Parts
<1> HIDE DEF e, f, g
<1>5. x \in MachineType /\ x.next = w.next
  BY <1>3, <1>4 DEF MachineType
<1> HIDE DEF x
<1>6. z \in MachineType /\ z.next = w.next
  BY <1>5, CleanupType
<1> HIDE DEF z
<1>7. QED
  BY <1>2, <1>6, FinishType DEF Settled

\* So does StartEvent.
LEMMA StartType ==
  ASSUME NEW w \in MachineType, NEW k \in Lines, NEW how, Setting
  PROVE  /\ StartEvent(w, k, how) \in MachineType
         /\ w.next \in 0..NLines => Settled(StartEvent(w, k, how))
<1> DEFINE z == Transition(w, how)
<1> DEFINE i == AssignNext(SetStatus(z, k, "Finished"), k)
<1>1. z \in MachineType /\ z.next = w.next
  BY TransitionType
<1>2. \/ StartEvent(w, k, how) = Within(FinishEvent(i))
      \/ FreeDecks(z) # {} /\ StartEvent(w, k, how) = Fake(z, k)
      \/ StartEvent(w, k, how) = z
      \/ StartEvent(w, k, how) = Within(PlayLine(z, k))
  BY DEF StartEvent, Audio, Instant
<1> HIDE DEF z
<1>3. Settled(Within(FinishEvent(i)))
  <2>1. SetStatus(z, k, "Finished") \in MachineType
    BY <1>1, StatusType DEF Statuses
  <2>2. i \in MachineType
    BY <2>1, AssignType
  <2> HIDE DEF i
  <2>3. QED
    BY <2>2, FinishType, NextType
<1>4. Settled(Within(PlayLine(z, k)))
  BY <1>1, PlayLineType, NextType
<1>5. FreeDecks(z) # {} => /\ Fake(z, k) \in MachineType
                           /\ w.next \in 0..NLines => Settled(Fake(z, k))
  BY <1>1, FakeType
<1> HIDE DEF i
<1>6. QED
  BY <1>1, <1>2, <1>3, <1>4, <1>5 DEF Settled

-----------------------------------------------------------------------------
(* Type correctness *)

\* The machine state of a typed state.
LEMMA MachineTyped ==
  ASSUME TypeOK
  PROVE  Settled(Machine) /\ Setting
<1>1. Machine \in MachineType
  BY Numbers DEF TypeOK, Machine, MachineType, Statuses, Transitions
<1>2. Setting
  BY LogPlayAssumption DEF TypeOK, Setting
<1>3. QED
  BY <1>1, <1>2 DEF Settled, TypeOK, Machine

\* What is not a machine state stays typed.
OutsideOK == /\ log \in Logs /\ mode \in {"Auto", "LiveAssist", "Manual"}
             /\ now \in Times /\ used \in 0..MaxCommands /\ backtime \in 0..NLines

\* A settled state is a typed next state.
LEMMA BecomeTyped ==
  ASSUME NEW w, Settled(w), Become(w), OutsideOK', died' \in BOOLEAN
  PROVE  TypeOK'
<1>1. w \in MachineType /\ w.next \in 0..NLines
  BY DEF Settled
<1>2. /\ w.status \in [Lines -> Statuses] /\ w.trans \in [Lines -> Transitions]
      /\ w.deck \in [Decks -> DeckTypes] /\ w.deckOf \in [Lines -> 0..NDecks]
      /\ w.macro \in 0..NLines /\ w.timer \in 0..NLines /\ w.grace \in 0..NLines
  BY <1>1, Parts
<1>3. QED
  BY <1>1, <1>2 DEF Become, TypeOK, OutsideOK, Statuses, Transitions

\* The operator's commands.
LEMMA OperatorTyped ==
  ASSUME TypeOK, Operator, died' \in BOOLEAN
  PROVE  TypeOK'
<1> DEFINE w == Machine
<1>1. w \in MachineType /\ w.next \in 0..NLines /\ Settled(w) /\ Setting
  BY MachineTyped DEF Settled
<1>2. ASSUME NEW c, Command(c), mode' = mode PROVE OutsideOK'
  BY <1>2, LogPlayAssumption DEF Command, TypeOK, OutsideOK
<1>3. ASSUME NEW k \in Lines, Play(k) PROVE TypeOK'
  <2> DEFINE look == Look(w, k, TRUE)
  <2>2. OutsideOK'
    BY <1>2, <1>3 DEF Play
  <2>3. CASE look.halt # 0 /\ Become(makeNext(w, look.halt))
    <3>1. look.halt \in Lines
      BY <2>3, LookFinds
    <3>2. Settled(makeNext(w, look.halt))
      BY <1>1, <3>1, NextType
    <3>3. QED
      BY <2>2, <2>3, <3>2, BecomeTyped
  <2>4. CASE look.line # 0 /\ Become(SetTransTimer(StartEvent(w, look.line, "Segue")))
    <3>1. look.line \in Lines
      BY <2>4, LookFinds
    <3>2. Settled(StartEvent(w, look.line, "Segue"))
      BY <1>1, <3>1, StartType
    <3>3. Settled(SetTransTimer(StartEvent(w, look.line, "Segue")))
      BY <1>1, <3>2, TimerType DEF Settled
    <3>4. QED
      BY <2>2, <2>4, <3>3, BecomeTyped
  <2>5. QED
    BY <1>3, <2>3, <2>4 DEF Play
<1>4. ASSUME NEW k \in Lines, Stop(k) PROVE TypeOK'
  <2>1. OutsideOK'
    BY <1>2, <1>4 DEF Stop
  <2>2. CASE deckOf[k] # 0 /\ Become(StopDeck(w, deckOf[k]))
    <3>1. Settled(StopDeck(w, deckOf[k]))
      BY <1>1, StopDeckType DEF Settled
    <3>2. QED
      BY <2>1, <2>2, <3>1, BecomeTyped
  <2>3. CASE Become(StopMacro(w))
    <3>1. Settled(StopMacro(w))
      BY <1>1, StopMacroType DEF Settled
    <3>2. QED
      BY <2>1, <2>3, <3>1, BecomeTyped
  <2>4. QED
    BY <1>4, <2>2, <2>3 DEF Stop
<1>5. ASSUME NEW k \in Lines, Pause(k) PROVE TypeOK'
  <2> DEFINE d == deckOf[k]
  <2> DEFINE x == [deck[d] EXCEPT !.state = "Paused", !.pauseCalled = TRUE]
  <2> DEFINE e == [deck EXCEPT ![d] = x]
  <2>1. OutsideOK'
    BY <1>2, <1>5 DEF Pause
  <2>2. d \in Decks => deck[d] \in DeckTypes
    BY DEF TypeOK
  <2>3. d \in Decks => x \in DeckTypes
    BY <2>2 DEF DeckTypes
  <2>4. Become([w EXCEPT !.deck = e])
    BY <1>5 DEF Pause, Machine
  <2> HIDE DEF x
  <2>5. e \in [Decks -> DeckTypes]
    BY <2>3 DEF TypeOK
  <2> HIDE DEF e
  <2>6. Settled([w EXCEPT !.deck = e])
    BY <1>1, <2>5, Replaced DEF Settled, MachineType
  <2>7. QED
    BY <2>1, <2>4, <2>6, BecomeTyped
<1>6. ASSUME NEW k \in Lines, MakeNext(k) PROVE TypeOK'
  <2>1. Settled(makeNext(w, k))
    BY <1>1, NextType
  <2>2. OutsideOK'
    BY <1>2, <1>6 DEF MakeNext
  <2>3. QED
    BY <1>6, <2>1, <2>2, BecomeTyped DEF MakeNext
<1>7. ASSUME NEW m \in Modes, SetOpMode(m) PROVE TypeOK'
  BY <1>7, LogPlayAssumption DEF SetOpMode, Command, TypeOK, machine
<1>8. QED
  BY <1>3, <1>4, <1>5, <1>6, <1>7 DEF Operator

\* A line whose audio is over, or is paused.
LEMMA EndType ==
  ASSUME NEW w, Settled(w), NEW k, Setting
  PROVE  Settled(Finished(w, k)) /\ Settled(Paused(w, k)) /\ Settled(Cleanup(w, k))
<1> DEFINE z == Cleanup(w, k)
<1>0. w \in MachineType
  BY DEF Settled
<1>1. z \in MachineType /\ z.next = w.next
  BY <1>0, CleanupType
<1>2. Finished(w, k) \in {w, z, FinishEvent(z)}
  BY DEF Finished
<1> HIDE DEF z
<1>3. Settled(z) /\ Settled(FinishEvent(z))
  BY <1>1, FinishType DEF Settled
<1>4. Settled(Paused(w, k))
  <2> DEFINE x == [w.deck[w.deckOf[k]] EXCEPT !.wired = FALSE]
  <2> DEFINE e == [w.deck EXCEPT ![w.deckOf[k]] = x]
  <2>1. w.deckOf[k] \in Decks => w.deck[w.deckOf[k]] \in DeckTypes
    BY <1>0, Parts
  <2>2. w.deckOf[k] \in Decks => x \in DeckTypes
    BY <2>1 DEF DeckTypes
  <2>3. Paused(w, k) = SetStatus([w EXCEPT !.deck = e], k, "Paused")
    BY DEF Paused
  <2> HIDE DEF x
  <2>4. e \in [Decks -> DeckTypes]
    BY <1>0, <2>2, Parts
  <2> HIDE DEF e
  <2>5. [w EXCEPT !.deck = e] \in MachineType /\ [w EXCEPT !.deck = e].next = w.next
    BY <1>0, <2>4 DEF MachineType
  <2>6. SetStatus([w EXCEPT !.deck = e], k, "Paused") \in MachineType
        /\ SetStatus([w EXCEPT !.deck = e], k, "Paused").next = w.next
    BY <2>5, StatusType DEF Statuses
  <2>7. QED
    BY <2>3, <2>6 DEF Settled
<1>5. QED
  BY <1>2, <1>3, <1>4 DEF z

\* A segue into the next line.
LEMMA SegueType ==
  ASSUME NEW w, Settled(w), Setting
  PROVE  Settled(SegueToNext(w))
<1> DEFINE z == Advance(w)
<1> DEFINE f == Look(w, w.next, FALSE).line
<1>1. w \in MachineType /\ w.next \in 0..NLines
  BY DEF Settled
<1>2. Settled(z)
  BY <1>1, NextType
<1>3. SegueToNext(w) = IF f = 0 THEN z ELSE SetTransTimer(StartEvent(z, f, "Segue"))
  BY DEF SegueToNext
<1>4. f # 0 => f \in Lines
  BY LookFinds
<1> HIDE DEF z, f
<1>5. f # 0 => Settled(StartEvent(z, f, "Segue"))
  BY <1>2, <1>4, StartType DEF Settled
<1>6. f # 0 => Settled(SetTransTimer(StartEvent(z, f, "Segue")))
  BY <1>5, TimerType DEF Settled
<1>7. QED
  BY <1>2, <1>3, <1>6

\* One deck replaced.
LEMMA OneDeck ==
  ASSUME NEW w, Settled(w), NEW d, NEW x, d \in Decks => x \in DeckTypes
  PROVE  Settled([w EXCEPT !.deck[d] = x])
<1> DEFINE e == [w.deck EXCEPT ![d] = x]
<1>1. w \in MachineType
  BY DEF Settled
<1>2. e \in [Decks -> DeckTypes]
  BY <1>1, Parts
<1> HIDE DEF e
<1>3. Settled([w EXCEPT !.deck = e])
  BY <1>1, <1>2 DEF Settled, MachineType
<1>4. QED
  BY <1>3 DEF e

\* The answers of caed and the markers of the decks.
LEMMA DeckTyped ==
  ASSUME TypeOK, NEW d \in Decks, Deck(d), died' \in BOOLEAN
  PROVE  TypeOK'
<1> DEFINE w == Machine
<1> DEFINE x == deck[d]
<1> DEFINE k == x.line
<1>1. w \in MachineType /\ w.next \in 0..NLines /\ Settled(w) /\ Setting
  BY MachineTyped DEF Settled
<1>2. x \in DeckTypes /\ k \in 0..NLines
  BY DEF TypeOK, DeckTypes
<1>3. UNCHANGED outside => OutsideOK'
  BY DEF TypeOK, OutsideOK, outside
<1>4. CASE Confirmed(d)
  <2> DEFINE g == IF x.wired /\ log[k].hard # 0 THEN 0 ELSE grace
  <2> DEFINE y == [x EXCEPT !.audio = "sounding"]
  <2>1. y \in DeckTypes
    BY <1>2 DEF DeckTypes
  <2>2. g \in 0..NLines
    BY Numbers DEF TypeOK
  <2>3. Become([[w EXCEPT !.deck[d] = y] EXCEPT !.grace = g])
    BY <1>4 DEF Confirmed, Machine
  <2> HIDE DEF y, g
  <2>4. Settled([w EXCEPT !.deck[d] = y])
    BY <1>1, <2>1, OneDeck
  <2>5. Settled([[w EXCEPT !.deck[d] = y] EXCEPT !.grace = g])
    BY <2>2, <2>4 DEF Settled, MachineType
  <2>6. QED
    BY <1>3, <1>4, <2>3, <2>5, BecomeTyped DEF Confirmed
<1>5. CASE SessionEnds(d)
  <2> DEFINE p == [x EXCEPT !.state = "Paused",
                            !.audio = IF x.audio = "leaving" THEN "gone" ELSE "parked"]
  <2> DEFINE q == [x EXCEPT !.state = "Stopped", !.audio = "none", !.segue = "off"]
  <2> DEFINE held == [w EXCEPT !.deck[d] = p]
  <2> DEFINE over == [w EXCEPT !.deck[d] = q]
  <2>1. p \in DeckTypes /\ q \in DeckTypes
    BY <1>2 DEF DeckTypes
  <2>2. \/ Become(held) \/ Become(Paused(held, k)) \/ Become(over)
        \/ Become(Cleanup(over, k)) \/ Become(Finished(over, k))
    BY <1>5, Zenon DEF SessionEnds, Machine
  <2> HIDE DEF p, q
  <2>3. Settled(held) /\ Settled(over)
    BY <1>1, <2>1, OneDeck
  <2> HIDE DEF held, over
  <2>4. /\ Settled(Paused(held, k)) /\ Settled(Cleanup(over, k))
        /\ Settled(Finished(over, k))
    BY <1>1, <2>3, EndType
  <2>5. OutsideOK'
    BY <1>3, <1>5 DEF SessionEnds
  <2>6. QED
    BY <2>2, <2>3, <2>4, <2>5, BecomeTyped
<1>6. CASE SegueStart(d)
  <2> DEFINE z == [w EXCEPT !.deck[d].segue = "inside"]
  <2> DEFINE y == [x EXCEPT !.segue = "inside"]
  <2>1. y \in DeckTypes
    BY <1>2 DEF DeckTypes
  <2>2. z = [w EXCEPT !.deck[d] = y]
    BY DEF Machine
  <2>3. Become(z) \/ Become(SegueToNext(z))
    BY <1>6 DEF SegueStart
  <2>4. OutsideOK'
    BY <1>2, <1>6 DEF SegueStart, TypeOK, OutsideOK
  <2> HIDE DEF z, y
  <2>5. Settled(z) /\ Settled(SegueToNext(z))
    BY <1>1, <2>1, <2>2, OneDeck, SegueType
  <2>6. QED
    BY <2>3, <2>4, <2>5, BecomeTyped
<1>7. CASE SegueEnd(d)
  <2> DEFINE z == [w EXCEPT !.deck[d].segue = "off"]
  <2> DEFINE y == [x EXCEPT !.segue = "off"]
  <2>1. y \in DeckTypes
    BY <1>2 DEF DeckTypes
  <2>2. z = [w EXCEPT !.deck[d] = y]
    BY DEF Machine
  <2>3. Become(z) \/ Become(Cleanup(StopDeck(z, deckOf[k]), k))
    BY <1>7 DEF SegueEnd
  <2>4. OutsideOK'
    BY <1>3, <1>7 DEF SegueEnd
  <2> HIDE DEF z, y
  <2>5. Settled(z)
    BY <1>1, <2>1, <2>2, OneDeck
  <2>6. Settled(StopDeck(z, deckOf[k]))
    BY <2>5, StopDeckType DEF Settled
  <2>7. Settled(Cleanup(StopDeck(z, deckOf[k]), k))
    BY <1>1, <2>6, EndType
  <2>8. QED
    BY <2>3, <2>4, <2>5, <2>7, BecomeTyped
<1>8. QED
  BY <1>4, <1>5, <1>6, <1>7 DEF Deck

\* The timers of the machine.
LEMMA SleepTyped ==
  ASSUME TypeOK, SleepTimer, died' \in BOOLEAN
  PROVE  TypeOK'
<1> DEFINE x == [Machine EXCEPT !.macro = 0]
<1>1. Machine \in MachineType /\ Machine.next \in 0..NLines /\ Setting
  BY MachineTyped DEF Settled
<1>2. x \in MachineType /\ x.next \in 0..NLines
  BY <1>1, Numbers DEF MachineType
<1>3. Become(SetStatus(FinishEvent(x), macro, "Finished"))
  BY DEF SleepTimer
<1> HIDE DEF x
<1>4. Settled(FinishEvent(x))
  BY <1>1, <1>2, FinishType
<1>5. Settled(SetStatus(FinishEvent(x), macro, "Finished"))
  BY <1>4, StatusType DEF Settled, Statuses
<1>6. OutsideOK'
  BY DEF SleepTimer, TypeOK, OutsideOK, outside
<1>7. QED
  BY <1>3, <1>5, <1>6, BecomeTyped

\* The timer of a back-timed segue.
LEMMA BacktimeTyped ==
  ASSUME TypeOK, SegueBacktime, died' \in BOOLEAN
  PROVE  TypeOK'
<1>1. Settled(Machine) /\ Setting
  BY MachineTyped
<1>2. Settled(SegueToNext(Machine))
  BY <1>1, SegueType
<1>3. Become(SegueToNext(Machine)) \/ Become(Machine)
  BY DEF SegueBacktime
<1>4. OutsideOK'
  BY Numbers DEF SegueBacktime, TypeOK, OutsideOK
<1>5. QED
  BY <1>1, <1>2, <1>3, <1>4, BecomeTyped

\* The transition timer.
LEMMA TransTyped ==
  ASSUME TypeOK, TransTimer, died' \in BOOLEAN
  PROVE  TypeOK'
<1> DEFINE k == timer
<1> DEFINE w == [Machine EXCEPT !.timer = 0, !.grace = 0]
<1> DEFINE look == Look(w, k, FALSE)
<1> DEFINE f == look.line
<1> DEFINE g == [w EXCEPT !.grace = k,
                          !.trans[k] = IF w.trans[k] = "Stop" THEN "Play" ELSE w.trans[k]]
<1>0. OutsideOK'
  BY DEF TransTimer, TypeOK, OutsideOK, outside
<1>1. Machine \in MachineType /\ Machine.next \in 0..NLines /\ Setting
  BY MachineTyped DEF Settled
<1>2. w \in MachineType /\ w.next \in 0..NLines
  BY <1>1, Numbers DEF MachineType
<1>3. k \in Lines
  BY LogPlayAssumption DEF TransTimer, Due, TypeOK, Lines
<1>4. \/ Become(SetTransTimer(w))
      \/ Become(makeNext(w, k))
      \/ Become(g)
      \/ look.halt # 0 /\ Become(SetTransTimer(makeNext(w, look.halt)))
      \/ f # 0 /\ Become(makeNext(w, f))
      \/ f # 0 /\ Become(SetTransTimer(StartEvent(makeNext(w, f), k, Timed)))
  BY DEF TransTimer
<1>5. Settled(g)
  <2> DEFINE t == [w.trans EXCEPT ![k] = IF w.trans[k] = "Stop" THEN "Play" ELSE w.trans[k]]
  <2>1. t \in [Lines -> Transitions]
    BY <1>2, <1>3, Parts DEF Transitions
  <2>2. g = [w EXCEPT !.grace = k, !.trans = t]
    OBVIOUS
  <2> HIDE DEF w, t
  <2>3. QED
    BY <1>2, <1>3, <2>1, <2>2, Numbers DEF Settled, MachineType
<1>6. look.halt # 0 => look.halt \in Lines
  BY LookFinds
<1>7. f # 0 => f \in Lines
  BY LookFinds
<1> HIDE DEF w, g, look, k
<1>8. \A j \in Lines : Settled(makeNext(w, j))
  BY <1>1, <1>2, NextType
<1>9. Settled(SetTransTimer(w))
  BY <1>1, <1>2, TimerType DEF Settled
<1>10. \A j \in Lines : Settled(SetTransTimer(makeNext(w, j)))
  BY <1>1, <1>8, TimerType DEF Settled
<1>11. \A j \in Lines : Settled(StartEvent(makeNext(w, j), k, Timed))
  BY <1>1, <1>3, <1>8, StartType DEF Settled
<1>12. \A j \in Lines : Settled(SetTransTimer(StartEvent(makeNext(w, j), k, Timed)))
  BY <1>1, <1>11, TimerType DEF Settled
<1>13. QED
  BY <1>0, <1>3, <1>4, <1>5, <1>6, <1>7, <1>8, <1>9, <1>10, <1>12, BecomeTyped

\* The grace timer.
LEMMA GraceTyped ==
  ASSUME TypeOK, GraceTimer, died' \in BOOLEAN
  PROVE  TypeOK'
<1> DEFINE k == grace
<1> DEFINE w == [Machine EXCEPT !.grace = 0]
<1> DEFINE look == Look(w, k, FALSE)
<1>0. OutsideOK'
  BY DEF GraceTimer, TypeOK, OutsideOK, outside
<1>1. Machine \in MachineType /\ Machine.next \in 0..NLines /\ Setting
  BY MachineTyped DEF Settled
<1>2. w \in MachineType /\ w.next \in 0..NLines
  BY <1>1, Numbers DEF MachineType
<1>3. k \in Lines
  BY LogPlayAssumption DEF GraceTimer, TypeOK, Lines
<1>4. \/ Become(w)
      \/ Become(SetTransTimer(w))
      \/ look.halt # 0 /\ Become(SetTransTimer(makeNext(w, look.halt)))
      \/ \E how : Become(StartEvent(makeNext(w, k), k, how))
  BY DEF GraceTimer
<1>5. look.halt # 0 => look.halt \in Lines
  BY LookFinds
<1> HIDE DEF w, look, k
<1>6. \A j \in Lines : Settled(makeNext(w, j))
  BY <1>1, <1>2, NextType
<1>7. Settled(w) /\ Settled(SetTransTimer(w))
  BY <1>1, <1>2, TimerType DEF Settled
<1>8. \A j \in Lines : Settled(SetTransTimer(makeNext(w, j)))
  BY <1>1, <1>6, TimerType DEF Settled
<1>9. \A how : Settled(StartEvent(makeNext(w, k), k, how))
  BY <1>1, <1>3, <1>6, StartType DEF Settled
<1>10. QED
  BY <1>0, <1>3, <1>4, <1>5, <1>7, <1>8, <1>9, BecomeTyped

\* At first nothing plays.
LEMMA InitTyped == Init => TypeOK
<1> SUFFICES ASSUME Init PROVE TypeOK
  OBVIOUS
<1>1. Setting
  BY LogPlayAssumption DEF Init, Setting, Times
<1>2. timer \in 0..NLines
  BY <1>1, TimedLine DEF Init
<1>3. deck \in [Decks -> DeckTypes]
  <2>1. IdleDeck \in DeckTypes
    BY Numbers DEF IdleDeck, DeckTypes
  <2>2. QED
    BY <2>1 DEF Init
<1>4. trans \in [Lines -> {"Play", "Segue", "Stop"}]
  BY <1>1 DEF Init, Setting, LineTypes
<1>5. died \in BOOLEAN
  BY DEF Init
<1>6. QED
  BY <1>2, <1>3, <1>4, <1>5, Numbers, LogPlayAssumption DEF Init, TypeOK, Times

\* Nothing changes but whether the program has died.
Standing == UNCHANGED <<log, machine, backtime, mode, now, used>>

\* Whoever steps.
LEMMA WhoSteps ==
  ASSUME [Next]_vars
  PROVE  \/ ~died /\ died' = died /\ Handler
         \/ ~died /\ died' = died /\ (Prompt => ~Due) /\ Operator
         \/ ~died /\ died' = died /\ Tick
         \/ Standing /\ (Crash \/ died' = died)
<1>1. CASE Crash
  BY <1>1 DEF Crash, Standing
<1>2. CASE UNCHANGED vars
  BY <1>2 DEF vars, Standing
<1>3. QED
  BY <1>1, <1>2 DEF Next, Alive

\* The variables of LogPlay have their types, whatever the log, the decks and
\* the operator.
THEOREM TypeCorrect == Spec => []TypeOK
<1>1. TypeOK /\ [Next]_vars => TypeOK'
  <2> SUFFICES ASSUME TypeOK, [Next]_vars PROVE TypeOK'
    OBVIOUS
  <2>0. died' \in BOOLEAN
    BY DEF Next, Alive, Crash, vars, TypeOK
  <2>1. CASE Operator
    BY <2>0, <2>1, OperatorTyped
  <2>2. CASE Tick
    BY <2>0, <2>2, LogPlayAssumption DEF Tick, TypeOK, machine, Times
  <2>3. CASE Handler
    BY <2>0, <2>3, DeckTyped, BacktimeTyped, SleepTyped, GraceTyped, TransTyped DEF Handler
  <2>4. CASE Standing
    BY <2>0, <2>4 DEF Standing, machine, TypeOK
  <2>5. QED
    BY <2>1, <2>2, <2>3, <2>4, WhoSteps
<1>2. QED
  BY <1>1, InitTyped, PTL DEF Spec

-----------------------------------------------------------------------------
(* Lines and decks agree *)

Runs == {"Playing", "Finishing", "Paused"}

\* No hard start time starts a line by itself: the line that is due is only
\* made the next one.
NoHardStarts == \A l \in Logs, k \in Lines : l[k].hard = 0 \/ l[k].grace = "next"

\* So it is with the log that is played.
Unstarted == \A k \in Lines : log[k].hard = 0 \/ log[k].grace = "next"

\* A line that has a deck is an audio line that runs and that the deck plays.
Paired(w) ==
  \A k \in Lines : w.deckOf[k] # 0 =>
    LET x == w.deck[w.deckOf[k]] IN
    /\ Audio(k) /\ w.status[k] \in Runs
    /\ x.busy /\ x.line = k /\ (x.wired <=> w.status[k] # "Paused")

\* A busy deck is the deck of its line; a deck that is not busy sends no signal.
Claimed(w) ==
  \A d \in Decks :
    /\ w.deck[d].busy => w.deck[d].line \in Lines /\ w.deckOf[w.deck[d].line] = d
    /\ w.deck[d].wired => w.deck[d].busy

\* An audio line that runs has a deck and a playable cut.
Served(w) ==
  \A k \in Lines : Audio(k) /\ w.status[k] \in Runs => w.deckOf[k] # 0 /\ log[k].ok

\* The macro that sleeps is no audio line; the timer waits for a hard start
\* time, and no hard start waits.
Aside(w) ==
  /\ w.macro # 0 => ~Audio(w.macro)
  /\ w.timer # 0 => log[w.timer].hard # 0
  /\ w.grace = 0

Sound(w) == w \in MachineType /\ Paired(w) /\ Claimed(w) /\ Served(w) /\ Aside(w)

\* In a sound state lines and decks agree.
LEMMA SoundMatched ==
  ASSUME NEW w, Sound(w)
  PROVE  Matched(w)
<1>1. w \in MachineType /\ w.deckOf \in [Lines -> 0..NDecks]
  BY Parts DEF Sound
<1>2. \A k \in Lines : Audio(k) =>
        (w.deckOf[k] # 0 <=> w.status[k] \in {"Playing", "Finishing", "Paused"})
  BY DEF Sound, Paired, Served, Runs
<1>3. \A k \in Lines : w.deckOf[k] # 0 =>
        /\ w.deck[w.deckOf[k]].busy /\ w.deck[w.deckOf[k]].line = k
        /\ w.deck[w.deckOf[k]].wired <=> w.status[k] # "Paused"
  BY DEF Sound, Paired
<1>4. \A d \in Decks : w.deck[d].busy => \E k \in Lines : w.deckOf[k] = d
  BY DEF Sound, Claimed
<1>5. QED
  BY <1>2, <1>3, <1>4 DEF Matched

\* What changes neither lines nor decks keeps them in agreement.
LEMMA SoundFrame ==
  ASSUME NEW w, Sound(w), NEW v \in MachineType,
         v.status = w.status, v.deck = w.deck, v.deckOf = w.deckOf,
         v.macro = w.macro, v.grace = w.grace,
         v.timer # 0 => v.timer = w.timer \/ log[v.timer].hard # 0
  PROVE  Sound(v)
BY DEF Sound, Paired, Claimed, Served, Aside

\* The transition timer can be set.
LEMMA TimerSound ==
  ASSUME NEW w, Sound(w), Setting
  PROVE  /\ Sound(SetTransTimer(w)) /\ SetTransTimer(w).status = w.status
         /\ \A S : Sound(RearmTransTimer(w, S))
<1>1. w \in MachineType
  BY DEF Sound
<1> DEFINE v == SetTransTimer(w)
<1>2. /\ v.status = w.status /\ v.deck = w.deck /\ v.deckOf = w.deckOf
      /\ v.macro = w.macro /\ v.grace = w.grace /\ v.timer = Soonest(w)
  BY <1>1 DEF SetTransTimer, MachineType
<1>3. v \in MachineType
  BY <1>1, TimerType
<1> HIDE DEF v
<1>4. v.timer # 0 => log[v.timer].hard # 0
  <2>1. \A k \in Lines : log[k].hard \in Nat
    BY LogPlayAssumption DEF Setting, LineTypes, Times
  <2>2. now \in Nat
    BY LogPlayAssumption DEF Setting, Times
  <2>3. v.timer # 0 => v.timer \in Lines /\ log[v.timer].hard > now
    BY <1>2, TimedLine, LogPlayAssumption DEF Lines
  <2>4. QED
    BY <2>1, <2>2, <2>3
<1>5. Sound(v)
  BY <1>2, <1>3, <1>4, SoundFrame
<1>6. QED
  BY <1>2, <1>5 DEF RearmTransTimer, v

\* Another line can be made the next.
LEMMA NextSound ==
  ASSUME NEW w, Sound(w), Setting
  PROVE  /\ \A n \in 0..NLines + 1 : Sound([w EXCEPT !.next = n])
         /\ \A k \in Lines : /\ Sound(makeNext(w, k))
                             /\ makeNext(w, k).status = w.status
                             /\ Sound(AssignNext(w, k))
         /\ Sound(Advance(w)) /\ Advance(w).status = w.status
         /\ Sound(Within(w))
<1>1. w \in MachineType
  BY DEF Sound
<1>2. ASSUME NEW n \in 0..NLines + 1
      PROVE  Sound([w EXCEPT !.next = n]) /\ [w EXCEPT !.next = n].status = w.status
  <2> DEFINE v == [w EXCEPT !.next = n]
  <2>1. v \in MachineType
    BY <1>1, Replaced
  <2>2. /\ v.status = w.status /\ v.deck = w.deck /\ v.deckOf = w.deckOf
        /\ v.macro = w.macro /\ v.grace = w.grace /\ v.timer = w.timer
    BY <1>1 DEF MachineType
  <2> HIDE DEF v
  <2>3. Sound(v)
    BY <2>1, <2>2, SoundFrame
  <2>4. QED
    BY <2>2, <2>3 DEF v
<1>3. ASSUME NEW k \in Lines
      PROVE  Sound(makeNext(w, k)) /\ makeNext(w, k).status = w.status
  <2> DEFINE v == [w EXCEPT !.next = k]
  <2>1. Sound(v) /\ v.status = w.status
    BY <1>2, Numbers
  <2>2. makeNext(w, k) = SetTransTimer(v)
    BY DEF makeNext
  <2> HIDE DEF v
  <2>3. QED
    BY <2>1, <2>2, TimerSound
<1>4. ASSUME NEW k \in Lines PROVE Sound(AssignNext(w, k))
  <2> DEFINE n == IF w.next = 0 THEN 0 ELSE k + 1
  <2>1. n \in 0..NLines + 1 /\ AssignNext(w, k) = [w EXCEPT !.next = n]
    BY Numbers DEF AssignNext
  <2>2. QED
    BY <1>2, <2>1
<1>5. Sound(Advance(w)) /\ Advance(w).status = w.status
  <2> DEFINE look == Look(w, w.next, FALSE)
  <2>1. CASE look.halt # 0
    <3>1. look.halt \in Lines /\ Advance(w) = makeNext(w, look.halt)
      BY <2>1, LookFinds DEF Advance
    <3> HIDE DEF look
    <3>2. QED
      BY <3>1, <1>3
  <2>2. CASE look.halt = 0 /\ look.line # 0
    <3>1. look.line \in Lines /\ Advance(w) = [w EXCEPT !.next = look.line]
      BY <2>2, LookFinds DEF Advance
    <3> DEFINE n == look.line
    <3> HIDE DEF n
    <3>2. n \in 0..NLines + 1 /\ Advance(w) = [w EXCEPT !.next = n]
      BY <3>1, Numbers DEF n
    <3>3. QED
      BY <3>2, <1>2
  <2>3. CASE look.halt = 0 /\ look.line = 0
    BY <2>3 DEF Advance
  <2>4. QED
    BY <2>1, <2>2, <2>3
<1>6. Sound(Within(w))
  BY <1>2, Numbers DEF Within
<1>7. QED
  BY <1>2, <1>3, <1>4, <1>5, <1>6

\* Neither does what leaves the audio lines alone, or only lets those that play
\* finish, and changes no deck's line.
LEMMA SoundSame ==
  ASSUME NEW w, Sound(w), NEW v \in MachineType,
         v.deckOf = w.deckOf, v.macro = w.macro \/ v.macro = 0,
         v.grace = w.grace, v.timer = w.timer,
         \A d \in Decks : /\ v.deck[d].busy = w.deck[d].busy
                          /\ v.deck[d].line = w.deck[d].line
                          /\ v.deck[d].wired = w.deck[d].wired,
         \A k \in Lines : Audio(k) =>
            \/ v.status[k] = w.status[k]
            \/ w.status[k] = "Playing" /\ v.status[k] = "Finishing"
  PROVE  Sound(v)
<1>1. \A k \in Lines : w.deckOf[k] # 0 => w.deckOf[k] \in Decks
  <2>1. w.deckOf \in [Lines -> 0..NDecks]
    BY Parts DEF Sound
  <2>2. QED
    BY <2>1, LogPlayAssumption DEF Decks
<1>2. Paired(v)
  BY <1>1 DEF Sound, Paired, Runs
<1>3. Claimed(v)
  BY DEF Sound, Claimed
<1>4. Served(v)
  BY DEF Sound, Served, Runs
<1>5. Aside(v)
  BY DEF Sound, Aside
<1>6. QED
  BY <1>2, <1>3, <1>4, <1>5 DEF Sound

\* A status for a line that is no audio line.
LEMMA StatusSound ==
  ASSUME NEW w, Sound(w), NEW k, k \in Lines => ~Audio(k), NEW s \in Statuses
  PROVE  Sound(SetStatus(w, k, s))
<1> DEFINE v == SetStatus(w, k, s)
<1>1. w \in MachineType
  BY DEF Sound
<1>2. v \in MachineType
  BY <1>1, StatusType
<1>3. /\ v.deckOf = w.deckOf /\ v.macro = w.macro /\ v.grace = w.grace
      /\ v.timer = w.timer /\ v.deck = w.deck /\ v.status = [w.status EXCEPT ![k] = s]
  BY <1>1 DEF SetStatus, MachineType
<1>4. \A j \in Lines : Audio(j) => v.status[j] = w.status[j]
  BY <1>1, <1>3, Parts
<1> HIDE DEF v
<1>5. Sound(v)
  BY <1>2, <1>3, <1>4, SoundSame
<1>6. QED
  BY <1>5 DEF v

\* A sleeping macro is stopped; it is no audio line.
LEMMA StopMacroSound ==
  ASSUME NEW w, Sound(w)
  PROVE  /\ Sound(StopMacro(w))
         /\ \A k \in Lines : Audio(k) => StopMacro(w).status[k] = w.status[k]
<1>1. w \in MachineType
  BY DEF Sound
<1>2. CASE w.macro = 0
  BY <1>2 DEF StopMacro
<1>3. CASE w.macro # 0
  <2> DEFINE v == StopMacro(w)
  <2>1. v \in MachineType
    BY <1>1, StopMacroType
  <2>2. /\ v.deckOf = w.deckOf /\ v.macro = 0 /\ v.grace = w.grace
        /\ v.timer = w.timer /\ v.deck = w.deck
        /\ v.status = [w.status EXCEPT ![w.macro] = "Finished"]
    BY <1>1, <1>3 DEF StopMacro, MachineType
  <2>3. \A k \in Lines : Audio(k) => v.status[k] = w.status[k]
    BY <1>1, <1>3, <2>2, Parts DEF Sound, Aside
  <2> HIDE DEF v
  <2>4. Sound(v)
    BY <2>1, <2>2, <2>3, SoundSame
  <2>5. QED
    BY <2>3, <2>4 DEF v
<1>4. QED
  BY <1>2, <1>3

\* A deck that is told to stop is still its line's.
LEMMA StopDeckKeeps ==
  ASSUME NEW w \in MachineType, NEW d
  PROVE  LET v == StopDeck(w, d) IN
         /\ v.deckOf = w.deckOf /\ v.macro = w.macro /\ v.grace = w.grace
         /\ v.timer = w.timer /\ v.status = w.status
         /\ \A c \in Decks : /\ v.deck[c].busy = w.deck[c].busy
                             /\ v.deck[c].line = w.deck[c].line
                             /\ v.deck[c].wired = w.deck[c].wired
<1> DEFINE x == [w.deck[d] EXCEPT !.state = "Stopping", !.stopCalled = TRUE]
<1> DEFINE e == [w.deck EXCEPT ![d] = x]
<1>1. d \in Decks => x.busy = w.deck[d].busy /\ x.line = w.deck[d].line
                     /\ x.wired = w.deck[d].wired
  BY Parts DEF DeckTypes
<1> HIDE DEF x
<1>2. \A c \in Decks : /\ e[c].busy = w.deck[c].busy /\ e[c].line = w.deck[c].line
                       /\ e[c].wired = w.deck[c].wired
  BY <1>1, Parts
<1>3. StopDeck(w, d) = w \/ StopDeck(w, d) = [w EXCEPT !.deck = e]
  BY DEF StopDeck, x
<1> HIDE DEF e
<1>4. QED
  BY <1>2, <1>3 DEF MachineType

\* A deck is told to stop.
LEMMA StopDeckSound ==
  ASSUME NEW w, Sound(w), NEW d
  PROVE  Sound(StopDeck(w, d))
<1>1. w \in MachineType /\ StopDeck(w, d) \in MachineType
  BY StopDeckType DEF Sound
<1>2. QED
  BY <1>1, StopDeckKeeps, SoundSame

\* What runs is stopped by a line that starts; the audio lines that wait or
\* are over are left alone.
LEMMA TransitionSound ==
  ASSUME NEW w, Sound(w), NEW how
  PROVE  /\ Sound(Transition(w, how))
         /\ \A k \in Lines : Audio(k) /\ w.status[k] # "Playing"
                               => Transition(w, how).status[k] = w.status[k]
<1> DEFINE out == Interrupted(w, how)
<1> DEFINE e == [d \in Decks |-> IF d \in {w.deckOf[k] : k \in out}
                                 THEN StopDeck(w, d).deck[d] ELSE w.deck[d]]
<1> DEFINE s == [k \in Lines |-> IF how = "Segue" /\ k \in out
                                 THEN "Finishing" ELSE w.status[k]]
<1> DEFINE z == [w EXCEPT !.deck = e, !.status = s]
<1>1. w \in MachineType
  BY DEF Sound
<1>2. \A d \in Decks : /\ e[d].busy = w.deck[d].busy /\ e[d].line = w.deck[d].line
                       /\ e[d].wired = w.deck[d].wired
  <2> HIDE DEF out
  <2>1. QED
    BY <1>1, StopDeckKeeps
<1>3. e \in [Decks -> DeckTypes]
  <2>1. \A d \in Decks : StopDeck(w, d).deck[d] \in DeckTypes
    BY <1>1, StopDeckType
  <2> HIDE DEF out
  <2>2. QED
    BY <1>1, <2>1, Parts
<1>4. s \in [Lines -> Statuses]
  BY <1>1, Parts DEF Statuses
<1>5. \A k \in Lines : \/ s[k] = w.status[k]
                       \/ w.status[k] = "Playing" /\ s[k] = "Finishing"
  <2>1. \A k \in Interrupted(w, "Segue") : w.status[k] = "Playing"
    BY DEF Interrupted, Is
  <2>2. \A k \in Lines : how = "Segue" /\ k \in out => w.status[k] = "Playing"
    BY <2>1
  <2>3. \A k \in Lines : s[k] = IF how = "Segue" /\ k \in out THEN "Finishing"
                                ELSE w.status[k]
    OBVIOUS
  <2> HIDE DEF out, s
  <2>4. QED
    BY <2>2, <2>3
<1> HIDE DEF e, s
<1>6. /\ z \in MachineType /\ z.deckOf = w.deckOf /\ z.macro = w.macro
      /\ z.grace = w.grace /\ z.timer = w.timer /\ z.deck = e /\ z.status = s
  BY <1>1, <1>3, <1>4 DEF MachineType
<1>7. Transition(w, how) = w \/ Transition(w, how) = StopMacro(z)
  BY DEF Transition, e, s
<1> HIDE DEF z
<1>8. Sound(z)
  BY <1>2, <1>5, <1>6, SoundSame
<1>9. QED
  BY <1>5, <1>6, <1>7, <1>8, StopMacroSound

\* A deck that is loaded.
LEMMA LoadGives ==
  ASSUME NEW x, NEW k, x \in DeckTypes
  PROVE  Load(x, k).busy = TRUE /\ Load(x, k).line = k /\ Load(x, k).wired = TRUE
BY DEF Load, DeckTypes

\* A deck that is given back.
LEMMA FreeGives ==
  ASSUME NEW x \in DeckTypes, NEW a
  PROVE  LET y == [x EXCEPT !.busy = FALSE, !.wired = FALSE, !.state = "Stopped",
                            !.segue = "off", !.audio = a]
         IN  y.busy = FALSE /\ y.wired = FALSE
BY DEF DeckTypes

\* The lines but k are left alone.
Others(w, v, k) ==
  \A j \in Lines \ {k} : v.deckOf[j] = w.deckOf[j] /\ v.status[j] = w.status[j]

\* A line is over and its deck is free.
LEMMA Freed ==
  ASSUME NEW w, Sound(w), NEW v \in MachineType, NEW k \in Lines, NEW d \in Decks,
         w.deckOf[k] = d \/ (w.deckOf[k] = 0 /\ ~w.deck[d].busy),
         v.deckOf[k] = 0, v.status[k] = "Finished", Others(w, v, k),
         ~v.deck[d].busy, ~v.deck[d].wired,
         \A c \in Decks \ {d} : v.deck[c] = w.deck[c],
         v.macro = w.macro, v.grace = 0, v.timer = w.timer
  PROVE  Sound(v)
<1>1. w.deckOf \in [Lines -> 0..NDecks]
  BY Parts DEF Sound
<1>2. \A j \in Lines : w.deckOf[j] # 0 => w.deckOf[j] \in Decks
  BY <1>1, LogPlayAssumption DEF Decks
<1>3. \A j \in Lines \ {k} : v.deckOf[j] = w.deckOf[j] /\ v.status[j] = w.status[j]
  BY DEF Others
<1>4. v.deckOf[k] = 0 /\ v.status[k] = "Finished"
  OBVIOUS
<1>5. \A j \in Lines \ {k} : w.deckOf[j] # 0 => w.deckOf[j] # d
  BY DEF Sound, Paired
<1>6. Paired(v)
  BY <1>2, <1>3, <1>4, <1>5 DEF Sound, Paired
<1>7. Claimed(v)
  BY <1>3, <1>4 DEF Sound, Claimed
<1>8. Served(v)
  BY <1>3, <1>4 DEF Sound, Served, Runs
<1>9. Aside(v)
  BY DEF Sound, Aside
<1>10. QED
  BY <1>6, <1>7, <1>8, <1>9 DEF Sound

\* A line that waits takes a free deck.
LEMMA Taken ==
  ASSUME NEW w, Sound(w), NEW v \in MachineType, NEW k \in Lines, NEW d \in Decks,
         Audio(k), log[k].ok, w.deckOf[k] = 0, ~w.deck[d].busy,
         v.deckOf[k] = d, v.status[k] = "Playing", Others(w, v, k),
         v.deck[d].busy, v.deck[d].line = k, v.deck[d].wired,
         \A c \in Decks \ {d} : v.deck[c] = w.deck[c],
         v.macro = w.macro, v.grace = w.grace, v.timer = w.timer
  PROVE  Sound(v)
<1>1. w.deckOf \in [Lines -> 0..NDecks]
  BY Parts DEF Sound
<1>2. \A j \in Lines : w.deckOf[j] # 0 => w.deckOf[j] \in Decks
  BY <1>1, LogPlayAssumption DEF Decks
<1>3. \A j \in Lines \ {k} : v.deckOf[j] = w.deckOf[j] /\ v.status[j] = w.status[j]
  BY DEF Others
<1>4. v.deckOf[k] = d /\ v.status[k] = "Playing"
  OBVIOUS
<1>5. \A j \in Lines \ {k} : w.deckOf[j] # d
  BY <1>2, Numbers DEF Sound, Paired
<1>6. Paired(v)
  BY <1>2, <1>3, <1>4, <1>5 DEF Sound, Paired, Runs
<1>7. Claimed(v)
  <2>1. \A c \in Decks \ {d} : w.deck[c].busy => w.deck[c].line # k
    BY Numbers DEF Sound, Claimed
  <2>2. QED
    BY <1>3, <1>4, <2>1 DEF Sound, Claimed
<1>8. Served(v)
  BY <1>3, <1>4, Numbers DEF Sound, Served, Runs
<1>9. Aside(v)
  BY DEF Sound, Aside
<1>10. QED
  BY <1>6, <1>7, <1>8, <1>9 DEF Sound

\* A line keeps its deck and is connected to it or not.
LEMMA Wired ==
  ASSUME NEW w, Sound(w), NEW v \in MachineType, NEW k \in Lines, NEW s \in Runs,
         NEW d \in Decks, w.deckOf[k] = d, v.deckOf[k] = d, v.status[k] = s,
         Others(w, v, k),
         v.deck[d].busy, v.deck[d].line = k, v.deck[d].wired <=> s # "Paused",
         \A c \in Decks \ {d} : v.deck[c] = w.deck[c],
         v.macro = w.macro, v.grace = w.grace, v.timer = w.timer
  PROVE  Sound(v)
<1>1. w.deckOf \in [Lines -> 0..NDecks]
  BY Parts DEF Sound
<1>2. \A j \in Lines : w.deckOf[j] # 0 => w.deckOf[j] \in Decks
  BY <1>1, LogPlayAssumption DEF Decks
<1>3. \A j \in Lines \ {k} :
        /\ v.status[j] = w.status[j] /\ v.deckOf[j] = w.deckOf[j]
        /\ w.deckOf[j] # 0 => w.deckOf[j] # d
  BY DEF Sound, Paired, Others
<1>4. v.status[k] = s /\ v.deckOf[k] = w.deckOf[k]
  OBVIOUS
<1>5. w.deck[d].busy /\ w.deck[d].line = k /\ Audio(k) /\ w.status[k] \in Runs
  BY Numbers DEF Sound, Paired
<1>6. Paired(v)
  <2>1. ASSUME NEW j \in Lines, j # k, v.deckOf[j] # 0
        PROVE  LET x == v.deck[v.deckOf[j]] IN
               /\ Audio(j) /\ v.status[j] \in Runs
               /\ x.busy /\ x.line = j /\ (x.wired <=> v.status[j] # "Paused")
    <3>1. v.deck[v.deckOf[j]] = w.deck[w.deckOf[j]]
      BY <1>2, <1>3, <2>1
    <3>2. QED
      BY <1>3, <2>1, <3>1 DEF Sound, Paired
  <2>2. LET x == v.deck[v.deckOf[k]] IN
        /\ Audio(k) /\ v.status[k] \in Runs
        /\ x.busy /\ x.line = k /\ (x.wired <=> v.status[k] # "Paused")
    BY <1>4, <1>5
  <2>3. QED
    BY <2>1, <2>2 DEF Paired
<1>7. Claimed(v)
  <2>1. ASSUME NEW c \in Decks, c # d
        PROVE  /\ v.deck[c].busy => v.deck[c].line \in Lines /\ v.deckOf[v.deck[c].line] = c
               /\ v.deck[c].wired => v.deck[c].busy
    BY <1>3, <2>1 DEF Sound, Claimed
  <2>2. QED
    BY <1>4, <2>1 DEF Claimed
<1>8. Served(v)
  BY <1>3, <1>5, Numbers DEF Sound, Served
<1>9. Aside(v)
  BY DEF Sound, Aside
<1>10. QED
  BY <1>6, <1>7, <1>8, <1>9 DEF Sound

\* What cleaning up a line does.
LEMMA CleanupGives ==
  ASSUME NEW w \in MachineType, NEW k \in Lines, NEW d \in Decks, w.deckOf[k] = d
  PROVE  LET v == Cleanup(w, k) IN
         /\ v \in MachineType
         /\ v.deckOf[k] = 0 /\ v.status[k] = "Finished" /\ Others(w, v, k)
         /\ ~v.deck[d].busy /\ ~v.deck[d].wired
         /\ \A c \in Decks \ {d} : v.deck[c] = w.deck[c]
         /\ v.macro = w.macro /\ v.grace = w.grace /\ v.timer = w.timer
<1> DEFINE v == Cleanup(w, k)
<1> DEFINE a == w.deck[d].audio
<1> DEFINE b == IF w.deck[d].state = "Stopped" THEN a
                ELSE IF a \in {"asked", "sounding", "leaving"} THEN "leaving" ELSE "gone"
<1> DEFINE y == [w.deck[d] EXCEPT !.busy = FALSE, !.wired = FALSE,
                   !.state = "Stopped", !.segue = "off", !.audio = b]
<1>1. v \in MachineType
  BY CleanupType
<1>2. /\ v.deckOf = [w.deckOf EXCEPT ![k] = 0]
      /\ v.status = [w.status EXCEPT ![k] = "Finished"]
      /\ v.macro = w.macro /\ v.grace = w.grace /\ v.timer = w.timer
      /\ v.deck = [w.deck EXCEPT ![d] = y]
  BY DEF Cleanup, FreeDeck, SetStatus, MachineType
<1>3. w.deck \in [Decks -> DeckTypes] /\ w.status \in [Lines -> Statuses]
      /\ w.deckOf \in [Lines -> 0..NDecks]
  BY Parts
<1>4. y.busy = FALSE /\ y.wired = FALSE
  <2> HIDE DEF b
  <2>1. QED
    BY <1>3, FreeGives
<1> HIDE DEF y, v
<1>5. v.deckOf[k] = 0 /\ v.status[k] = "Finished" /\ Others(w, v, k)
  BY <1>2, <1>3 DEF Others
<1>6. /\ ~v.deck[d].busy /\ ~v.deck[d].wired
      /\ \A c \in Decks \ {d} : v.deck[c] = w.deck[c]
  BY <1>2, <1>3, <1>4
<1>7. QED
  BY <1>1, <1>2, <1>5, <1>6 DEF v

\* A line is cleaned up.
LEMMA CleanupSound ==
  ASSUME NEW w, Sound(w), NEW k \in Lines, w.deckOf[k] # 0
  PROVE  Sound(Cleanup(w, k))
<1> DEFINE d == w.deckOf[k]
<1> DEFINE v == Cleanup(w, k)
<1>1. w \in MachineType
  BY DEF Sound
<1>2. d \in Decks
  BY <1>1, Parts, LogPlayAssumption DEF Decks
<1>3. w.deckOf[k] = d
  OBVIOUS
<1> HIDE DEF d
<1>4. /\ v \in MachineType
      /\ v.deckOf[k] = 0 /\ v.status[k] = "Finished" /\ Others(w, v, k)
      /\ ~v.deck[d].busy /\ ~v.deck[d].wired
      /\ \A c \in Decks \ {d} : v.deck[c] = w.deck[c]
      /\ v.macro = w.macro /\ v.grace = w.grace /\ v.timer = w.timer
  BY <1>1, <1>2, <1>3, CleanupGives
<1>5. v.grace = 0
  BY <1>4 DEF Sound, Aside
<1> HIDE DEF v
<1>6. Sound(v)
  BY <1>2, <1>3, <1>4, <1>5, Freed
<1>7. QED
  BY <1>6 DEF v

\* A line that waits stays as it is where no deck is free.
LEMMA PlayAudioNone ==
  ASSUME NEW w, Sound(w), NEW k \in Lines, w.status[k] = "Scheduled", FreeDecks(w) = {}
  PROVE  PlayAudio(w, k) = w
<1>1. w \in MachineType /\ w.deckOf \in [Lines -> 0..NDecks]
  BY Parts DEF Sound
<1>2. w.deckOf[k] = 0
  BY DEF Sound, Paired, Runs
<1>3. [w.deckOf EXCEPT ![k] = 0] = w.deckOf
  BY <1>1, <1>2
<1>4. PlayAudio(w, k) = [w EXCEPT !.deckOf = w.deckOf]
  BY <1>3 DEF PlayAudio
<1>5. QED
  BY <1>1, <1>4 DEF MachineType

\* A line that waits starts to play.
LEMMA PlayAudioSound ==
  ASSUME NEW w, Sound(w), Setting, NEW k \in Lines, Audio(k), log[k].ok,
         w.status[k] \in {"Scheduled", "Paused"}
  PROVE  Sound(PlayAudio(w, k))
<1>0. w \in MachineType /\ w.deck \in [Decks -> DeckTypes]
      /\ w.status \in [Lines -> Statuses] /\ w.deckOf \in [Lines -> 0..NDecks]
  BY Parts DEF Sound
<1>1. CASE w.status[k] = "Paused"
  <2> DEFINE v == PlayAudio(w, k)
  <2> DEFINE d == w.deckOf[k]
  <2>1. d # 0
    BY <1>1 DEF Sound, Served, Runs
  <2>2. d \in Decks
    BY <1>0, <2>1, LogPlayAssumption DEF Decks
  <2>3. v \in MachineType
    BY <1>0, PlayAudioType
  <2>4. /\ v.deckOf = w.deckOf /\ v.status = [w.status EXCEPT ![k] = "Playing"]
        /\ v.macro = w.macro /\ v.grace = w.grace /\ v.timer = w.timer
        /\ v.deck = [w.deck EXCEPT ![d] = Resume(w.deck[d])]
    BY <1>0, <1>1 DEF PlayAudio, SetStatus, MachineType
  <2>5. LET x == Resume(w.deck[d]) IN
        x.busy = w.deck[d].busy /\ x.line = w.deck[d].line /\ x.wired
    BY <1>0, <2>2 DEF Resume, DeckTypes
  <2>9. w.deck[d].busy /\ w.deck[d].line = k
    BY <2>1 DEF Sound, Paired
  <2> HIDE DEF v
  <2>6. /\ v.deck[d].busy /\ v.deck[d].line = k /\ v.deck[d].wired
        /\ \A c \in Decks \ {d} : v.deck[c] = w.deck[c]
    BY <1>0, <2>2, <2>4, <2>5, <2>9
  <2> HIDE DEF d
  <2>7. Sound(v)
    <3>1. w.deckOf[k] = d /\ "Playing" \in Runs
      BY DEF d, Runs
    <3>2. v.deckOf[k] = d /\ v.status[k] = "Playing" /\ Others(w, v, k)
      BY <1>0, <2>4, <3>1 DEF Others
    <3>3. v.macro = w.macro /\ v.grace = w.grace /\ v.timer = w.timer
      BY <2>4
    <3>4. QED
      BY <2>2, <2>3, <2>6, <3>1, <3>2, <3>3, Wired
  <2>8. QED
    BY <2>7 DEF v
<1>2. CASE w.status[k] = "Scheduled" /\ FreeDecks(w) # {}
  <2> DEFINE d == First(FreeDecks(w))
  <2> DEFINE v == SetStatus([w EXCEPT !.deck[d] = Load(@, k), !.deckOf[k] = d],
                            k, "Playing")
  <2>1. d \in Decks /\ ~w.deck[d].busy
    <3>1. FreeDecks(w) \in SUBSET Decks
      BY DEF FreeDecks
    <3>2. d \in FreeDecks(w)
      BY <1>2, <3>1, FirstDeck
    <3>3. QED
      BY <3>2 DEF FreeDecks
  <2>2. PlayAudio(w, k) = AssignNext(v, k)
    BY <1>2 DEF PlayAudio
  <2> HIDE DEF d
  <2>3. w.deck[d] \in DeckTypes /\ Load(w.deck[d], k) \in DeckTypes
    BY <1>0, <2>1, LoadType
  <2>4. /\ v.deckOf = [w.deckOf EXCEPT ![k] = d]
        /\ v.status = [w.status EXCEPT ![k] = "Playing"]
        /\ v.macro = w.macro /\ v.grace = w.grace /\ v.timer = w.timer
        /\ v.deck = [w.deck EXCEPT ![d] = Load(w.deck[d], k)]
        /\ v.trans = w.trans /\ v.next = w.next
    BY <1>0 DEF SetStatus, MachineType
  <2>5. v \in MachineType
    <3> DEFINE e == [w.deck EXCEPT ![d] = Load(w.deck[d], k)]
    <3> DEFINE f == [w.deckOf EXCEPT ![k] = d]
    <3>1. e \in [Decks -> DeckTypes] /\ f \in [Lines -> 0..NDecks]
      BY <1>0, <2>1, <2>3, Numbers
    <3>2. v = SetStatus([w EXCEPT !.deck = e, !.deckOf = f], k, "Playing")
      OBVIOUS
    <3> HIDE DEF e, f, v
    <3>3. [w EXCEPT !.deck = e, !.deckOf = f] \in MachineType
      BY <1>0, <3>1 DEF MachineType
    <3>4. QED
      BY <3>2, <3>3, StatusType DEF Statuses
  <2>6. LET x == Load(w.deck[d], k) IN x.busy /\ x.line = k /\ x.wired
    BY LoadGives, <2>3
  <2> HIDE DEF v
  <2>7. /\ v.deck[d].busy /\ v.deck[d].line = k /\ v.deck[d].wired
        /\ \A c \in Decks \ {d} : v.deck[c] = w.deck[c]
    BY <1>0, <2>1, <2>4, <2>6
  <2>8. w.deckOf[k] = 0
    BY <1>2 DEF Sound, Paired, Runs
  <2>9. Sound(v)
    <3>1. v.deckOf[k] = d /\ v.status[k] = "Playing" /\ Others(w, v, k)
      BY <1>0, <2>4 DEF Others
    <3>2. v.macro = w.macro /\ v.grace = w.grace /\ v.timer = w.timer
      BY <2>4
    <3>3. QED
      BY <2>1, <2>5, <2>7, <2>8, <3>1, <3>2, Taken
  <2>10. QED
    BY <2>2, <2>9, NextSound
<1>3. CASE w.status[k] = "Scheduled" /\ FreeDecks(w) = {}
  BY <1>3, PlayAudioNone
<1>4. QED
  BY <1>1, <1>2, <1>3

\* A macro runs; no audio line is a macro.
LEMMA RunMacroSound ==
  ASSUME NEW w, Sound(w), Setting, NEW k \in Lines, ~Audio(k)
  PROVE  Sound(RunMacro(w, k))
<1> DEFINE z == AssignNext(SetStatus(w, k, "Playing"), k)
<1>1. Sound(z)
  BY StatusSound, NextSound DEF Statuses
<1>2. RunMacro(w, k) = [z EXCEPT !.macro = k]
      \/ RunMacro(w, k) = SetStatus(Advance(z), k, "Finished")
  BY DEF RunMacro
<1> HIDE DEF z
<1>3. Sound([z EXCEPT !.macro = k])
  <2> DEFINE v == [z EXCEPT !.macro = k]
  <2>1. z \in MachineType
    BY <1>1 DEF Sound
  <2>2. /\ v \in MachineType /\ v.status = z.status /\ v.deck = z.deck
        /\ v.deckOf = z.deckOf /\ v.grace = z.grace /\ v.timer = z.timer /\ v.macro = k
    BY <2>1, Numbers DEF MachineType
  <2> HIDE DEF v
  <2>3. Sound(v)
    BY <1>1, <2>2 DEF Sound, Paired, Claimed, Served, Aside
  <2>4. QED
    BY <2>3 DEF v
<1>4. Sound(SetStatus(Advance(z), k, "Finished"))
  BY <1>1, NextSound, StatusSound DEF Statuses
<1>5. QED
  BY <1>2, <1>3, <1>4

\* A line that waits can be started.
Startable(w, k) == Audio(k) => log[k].ok /\ w.status[k] \in {"Scheduled", "Paused"}

\* Such a line starts.
LEMMA PlayLineSound ==
  ASSUME NEW w, Sound(w), Setting, NEW k \in Lines, Startable(w, k)
  PROVE  Sound(PlayLine(w, k))
BY PlayAudioSound, RunMacroSound DEF PlayLine, Startable

\* The lines that are done as soon as started are no audio lines.
LEMMA PastSound ==
  ASSUME NEW w, Sound(w)
  PROVE  /\ Sound(Past(w))
         /\ \A k \in Lines : ~Instant(k) => Past(w).status[k] = w.status[k]
<1> DEFINE s == [k \in Lines |-> IF k \in Started(w) /\ Instant(k)
                                THEN "Finished" ELSE w.status[k]]
<1> DEFINE v == [w EXCEPT !.status = s]
<1>1. w \in MachineType
  BY DEF Sound
<1>2. Past(w) = v
  BY DEF Past
<1>3. \A k \in Lines : ~Instant(k) => s[k] = w.status[k]
  OBVIOUS
<1>4. \A k \in Lines : Audio(k) => ~Instant(k)
  BY DEF Audio, Instant
<1>5. s \in [Lines -> Statuses]
  BY <1>1, Parts DEF Statuses
<1> HIDE DEF s
<1>6. /\ v \in MachineType /\ v.deckOf = w.deckOf /\ v.macro = w.macro
      /\ v.grace = w.grace /\ v.timer = w.timer /\ v.deck = w.deck /\ v.status = s
  BY <1>1, <1>5 DEF MachineType
<1> HIDE DEF v
<1>7. Sound(v)
  BY <1>3, <1>4, <1>6, SoundSame
<1>8. QED
  BY <1>2, <1>3, <1>6, <1>7

\* FinishEvent keeps lines and decks in agreement.
LEMMA FinishSound ==
  ASSUME NEW w, Sound(w), Setting
  PROVE  Sound(FinishEvent(w))
<1> DEFINE last == Last(Started(w))
<1> DEFINE y == Advance([Past(w) EXCEPT !.next = last + 1])
<1> DEFINE x == [Past(w) EXCEPT !.next = last]
<1> DEFINE p == PlayLine(x, last)
<1>1. CASE Started(w) = {}
  BY <1>1, FinishCases, NextSound
<1>2. CASE Started(w) # {}
  <2>1. last \in Lines /\ last \in Started(w)
    BY <1>2, FinishCases
  <2>2. PICK S : FinishEvent(w) = RearmTransTimer(Within(IF Instant(last) THEN y ELSE p), S)
    BY <1>2, FinishCases
  <2>3. log[last].ok /\ w.status[last] = "Scheduled"
    BY <2>1 DEF Started, Waiting
  <2> HIDE DEF last
  <2>4. Sound(y)
    BY <2>1, PastSound, NextSound, Numbers
  <2>5. Sound(x) /\ x.status = Past(w).status
    <3>1. Sound(Past(w)) /\ Past(w) \in MachineType
      BY PastSound DEF Sound
    <3>2. QED
      BY <2>1, <3>1, NextSound, Numbers DEF MachineType
  <2>6. ~Instant(last) => Startable(x, last)
    BY <2>1, <2>3, <2>5, PastSound DEF Startable
  <2> HIDE DEF x
  <2>7. ~Instant(last) => Sound(p)
    BY <2>1, <2>5, <2>6, PlayLineSound
  <2> HIDE DEF y, p
  <2>8. Sound(Within(IF Instant(last) THEN y ELSE p))
    BY <2>4, <2>7, NextSound
  <2>9. QED
    BY <2>2, <2>8, TimerSound
<1>3. QED
  BY <1>1, <1>2

\* A cart without a playable cut takes a deck and gives it back.
LEMMA FakeSound ==
  ASSUME NEW w, Sound(w), Setting, NEW k \in Lines, Audio(k), ~log[k].ok,
         FreeDecks(w) # {}
  PROVE  Sound(Fake(w, k))
<1> DEFINE d == First(FreeDecks(w))
<1> DEFINE e == [w.deck EXCEPT ![d] = [@ EXCEPT !.line = k]]
<1> DEFINE g == IF log[k].hard # 0 THEN 0 ELSE w.grace
<1> DEFINE f == [w.deckOf EXCEPT ![k] = d]
<1> DEFINE x == [w EXCEPT !.deckOf = f, !.deck = e, !.grace = g]
<1> DEFINE z == Cleanup(x, k)
<1>1. d \in Decks /\ ~w.deck[d].busy
  <2>1. FreeDecks(w) \in SUBSET Decks
    BY DEF FreeDecks
  <2>2. d \in FreeDecks(w)
    BY <2>1, FirstDeck
  <2>3. QED
    BY <2>2 DEF FreeDecks
<1>2. Fake(w, k) = z \/ Fake(w, k) = FinishEvent(z)
  BY DEF Fake
<1> HIDE DEF d
<1>3. w \in MachineType /\ w.deck \in [Decks -> DeckTypes]
      /\ w.status \in [Lines -> Statuses] /\ w.deckOf \in [Lines -> 0..NDecks]
  BY Parts DEF Sound
<1>4. e \in [Decks -> DeckTypes] /\ f \in [Lines -> 0..NDecks] /\ f[k] = d
      /\ \A j \in Lines \ {k} : f[j] = w.deckOf[j]
  <2>1. w.deck[d] \in DeckTypes
    BY <1>1, <1>3
  <2>2. [w.deck[d] EXCEPT !.line = k] \in DeckTypes
    BY <2>1, Numbers DEF DeckTypes
  <2>3. QED
    BY <1>1, <1>3, <2>2, Numbers
<1>5. \A c \in Decks \ {d} : e[c] = w.deck[c]
  BY <1>3
<1>6. g = 0
  BY DEF Sound, Aside
<1> HIDE DEF e, f, g
<1>7. /\ x \in MachineType /\ x.deckOf = f /\ x.deck = e /\ x.grace = 0
      /\ x.status = w.status /\ x.macro = w.macro /\ x.timer = w.timer
  BY <1>3, <1>4, <1>6, Numbers DEF MachineType
<1> HIDE DEF x
<1>8. /\ z \in MachineType
      /\ z.deckOf[k] = 0 /\ z.status[k] = "Finished" /\ Others(x, z, k)
      /\ ~z.deck[d].busy /\ ~z.deck[d].wired
      /\ \A c \in Decks \ {d} : z.deck[c] = x.deck[c]
      /\ z.macro = x.macro /\ z.grace = x.grace /\ z.timer = x.timer
  BY <1>1, <1>4, <1>7, CleanupGives
<1>9. Others(w, z, k)
  BY <1>4, <1>7, <1>8 DEF Others
<1>10. w.deckOf[k] = 0
  BY DEF Sound, Paired, Served
<1> HIDE DEF z
<1>11. Sound(z)
  BY <1>1, <1>5, <1>7, <1>8, <1>9, <1>10, Freed
<1>12. QED
  BY <1>2, <1>11, FinishSound

\* StartEvent keeps lines and decks in agreement, if it starts no audio that
\* plays already.
LEMMA StartSound ==
  ASSUME NEW w, Sound(w), Setting, NEW k \in Lines, NEW how,
         w.status[k] \in {"Scheduled", "Paused"}
  PROVE  Sound(StartEvent(w, k, how))
<1> DEFINE z == Transition(w, how)
<1> DEFINE i == AssignNext(SetStatus(z, k, "Finished"), k)
<1>1. Sound(z) /\ (Audio(k) => z.status[k] = w.status[k])
  BY TransitionSound
<1>2. \/ Instant(k) /\ StartEvent(w, k, how) = Within(FinishEvent(i))
      \/ /\ Audio(k) /\ ~log[k].ok /\ FreeDecks(z) # {}
         /\ StartEvent(w, k, how) = Fake(z, k)
      \/ StartEvent(w, k, how) = z
      \/ /\ Audio(k) => log[k].ok
         /\ StartEvent(w, k, how) = Within(PlayLine(z, k))
  BY DEF StartEvent, Audio, Instant
<1> HIDE DEF z
<1>3. Instant(k) => Sound(Within(FinishEvent(i)))
  <2>1. Instant(k) => ~Audio(k)
    BY DEF Instant, Audio
  <2>2. Instant(k) => Sound(SetStatus(z, k, "Finished"))
    BY <1>1, <2>1, StatusSound DEF Statuses
  <2>3. Instant(k) => Sound(i)
    BY <2>2, NextSound
  <2> HIDE DEF i
  <2>4. QED
    BY <2>3, FinishSound, NextSound
<1>4. Audio(k) /\ ~log[k].ok /\ FreeDecks(z) # {} => Sound(Fake(z, k))
  BY <1>1, FakeSound
<1>5. (Audio(k) => log[k].ok) => Sound(Within(PlayLine(z, k)))
  BY <1>1, PlayLineSound, NextSound DEF Startable
<1> HIDE DEF i
<1>6. QED
  BY <1>1, <1>2, <1>3, <1>4, <1>5

\* The end of a line's audio.
LEMMA FinishedSound ==
  ASSUME NEW w, Sound(w), Setting, NEW k \in Lines, w.deckOf[k] # 0
  PROVE  Sound(Finished(w, k))
<1>1. Finished(w, k) \in {w, Cleanup(w, k), FinishEvent(Cleanup(w, k))}
  BY DEF Finished
<1>2. Sound(Cleanup(w, k))
  BY CleanupSound
<1>3. QED
  BY <1>1, <1>2, FinishSound

\* The deck of a paused line is no longer heard, but still the line's.
LEMMA PausedSound ==
  ASSUME NEW w, Sound(w), Setting, NEW k \in Lines, w.deckOf[k] # 0
  PROVE  Sound(Paused(w, k))
<1> DEFINE d == w.deckOf[k]
<1> DEFINE x == [w.deck[d] EXCEPT !.wired = FALSE]
<1> DEFINE e == [w.deck EXCEPT ![d] = x]
<1> DEFINE v == SetStatus([w EXCEPT !.deck = e], k, "Paused")
<1>1. w \in MachineType /\ w.deck \in [Decks -> DeckTypes]
      /\ w.status \in [Lines -> Statuses] /\ w.deckOf \in [Lines -> 0..NDecks]
  BY Parts DEF Sound
<1>2. d \in Decks /\ w.deck[d].busy /\ w.deck[d].line = k
  BY <1>1, LogPlayAssumption DEF Sound, Paired, Decks
<1>3. Paused(w, k) = v
  BY DEF Paused
<1> HIDE DEF d
<1>4. w.deckOf[k] = d
  BY DEF d
<1>5. x \in DeckTypes /\ x.busy /\ x.line = k /\ x.wired = FALSE
  <2>1. w.deck[d] \in DeckTypes
    BY <1>1, <1>2
  <2>2. QED
    BY <1>2, <2>1 DEF DeckTypes
<1> HIDE DEF x
<1>6. e \in [Decks -> DeckTypes] /\ e[d] = x /\ \A c \in Decks \ {d} : e[c] = w.deck[c]
  BY <1>1, <1>2, <1>5
<1> HIDE DEF e
<1>7. [w EXCEPT !.deck = e] \in MachineType
  BY <1>1, <1>6 DEF MachineType
<1>8. v \in MachineType
  BY <1>7, StatusType DEF Statuses
<1>9. /\ v.deckOf = w.deckOf /\ v.deck = e /\ v.macro = w.macro
      /\ v.grace = w.grace /\ v.timer = w.timer
      /\ v.status = [w.status EXCEPT ![k] = "Paused"]
  BY <1>1 DEF SetStatus, MachineType
<1> HIDE DEF v
<1>10. v.deckOf[k] = d /\ v.status[k] = "Paused" /\ Others(w, v, k)
  BY <1>1, <1>4, <1>9 DEF Others
<1>11. /\ v.deck[d].busy /\ v.deck[d].line = k /\ ~v.deck[d].wired
       /\ \A c \in Decks \ {d} : v.deck[c] = w.deck[c]
  BY <1>5, <1>6, <1>9
<1>12. "Paused" \in Runs /\ v.macro = w.macro /\ v.grace = w.grace /\ v.timer = w.timer
  BY <1>9 DEF Runs
<1>13. Sound(v)
  BY <1>2, <1>4, <1>8, <1>10, <1>11, <1>12, Wired
<1>14. QED
  BY <1>3, <1>13

\* A segue starts a line that waits.
LEMMA SegueSound ==
  ASSUME NEW w, Sound(w), Setting
  PROVE  Sound(SegueToNext(w))
<1> DEFINE z == Advance(w)
<1> DEFINE f == Look(w, w.next, FALSE).line
<1>1. Sound(z) /\ z.status = w.status
  BY NextSound
<1>2. SegueToNext(w) = IF f = 0 THEN z ELSE SetTransTimer(StartEvent(z, f, "Segue"))
  BY DEF SegueToNext
<1>3. f # 0 => f \in Lines /\ w.status[f] \in {"Scheduled", "Paused"}
  BY LookFinds
<1> HIDE DEF z, f
<1>4. f # 0 => Sound(StartEvent(z, f, "Segue"))
  BY <1>1, <1>3, StartSound
<1>5. f # 0 => Sound(SetTransTimer(StartEvent(z, f, "Segue")))
  BY <1>4, TimerSound
<1>6. QED
  BY <1>1, <1>2, <1>5

\* The next state is as sound as the machine state that a handler hands over.
LEMMA BecomeSound ==
  ASSUME NEW w, Sound(w), Become(w), UNCHANGED log
  PROVE  Sound(Machine)'
<1>1. Machine' = w
  BY DEF Become, Machine, Sound, MachineType
<1>2. QED
  BY <1>1 DEF Sound, Paired, Claimed, Served, Aside, Audio

\* One deck replaced by one that is as busy, for the same line.
LEMMA SoundDeck ==
  ASSUME NEW w, Sound(w), NEW d \in Decks, NEW x \in DeckTypes,
         x.busy = w.deck[d].busy, x.line = w.deck[d].line, x.wired = w.deck[d].wired
  PROVE  /\ Sound([w EXCEPT !.deck[d] = x])
         /\ [w EXCEPT !.deck[d] = x].deckOf = w.deckOf
<1> DEFINE e == [w.deck EXCEPT ![d] = x]
<1> DEFINE v == [w EXCEPT !.deck = e]
<1>1. w \in MachineType /\ w.deck \in [Decks -> DeckTypes]
  BY Parts DEF Sound
<1>2. e \in [Decks -> DeckTypes] /\ \A c \in Decks : e[c] = IF c = d THEN x ELSE w.deck[c]
  BY <1>1
<1> HIDE DEF e
<1>3. /\ v \in MachineType /\ v.deckOf = w.deckOf /\ v.macro = w.macro
      /\ v.grace = w.grace /\ v.timer = w.timer /\ v.deck = e /\ v.status = w.status
  BY <1>1, <1>2 DEF MachineType
<1> HIDE DEF v
<1>4. Sound(v)
  BY <1>2, <1>3, SoundSame
<1>5. QED
  BY <1>3, <1>4 DEF v, e

\* The operator's commands keep lines and decks in agreement.
LEMMA OperatorSound ==
  ASSUME TypeOK, Sound(Machine), Operator
  PROVE  Sound(Machine)'
<1> DEFINE w == Machine
<1>1. Setting
  BY MachineTyped
<1>2. ASSUME NEW k \in Lines, Play(k) PROVE Sound(Machine)'
  <2> DEFINE look == Look(w, k, TRUE)
  <2> DEFINE f == look.line
  <2>1. UNCHANGED log
    BY <1>2 DEF Play, Command
  <2>2. CASE look.halt # 0 /\ Become(makeNext(w, look.halt))
    <3>1. look.halt \in Lines
      BY <2>2, LookFinds
    <3>2. Sound(makeNext(w, look.halt))
      BY <1>1, <3>1, NextSound
    <3>3. QED
      BY <2>1, <2>2, <3>2, BecomeSound
  <2>3. CASE f # 0 /\ Become(SetTransTimer(StartEvent(w, f, "Segue")))
    <3>1. f \in Lines /\ w.status[f] \in {"Scheduled", "Paused"}
      BY <2>3, LookFinds
    <3> HIDE DEF f, w
    <3>2. Sound(StartEvent(w, f, "Segue"))
      BY <1>1, <3>1, StartSound DEF w
    <3>3. Sound(SetTransTimer(StartEvent(w, f, "Segue")))
      BY <1>1, <3>2, TimerSound
    <3>4. QED
      BY <2>1, <2>3, <3>3, BecomeSound
  <2>4. QED
    BY <1>2, <2>2, <2>3 DEF Play
<1>3. ASSUME NEW k \in Lines, Stop(k) PROVE Sound(Machine)'
  <2>1. UNCHANGED log
    BY <1>3 DEF Stop, Command
  <2>2. CASE Become(StopDeck(w, deckOf[k]))
    BY <2>1, <2>2, StopDeckSound, BecomeSound
  <2>3. CASE Become(StopMacro(w))
    BY <2>1, <2>3, StopMacroSound, BecomeSound
  <2>4. QED
    BY <1>3, <2>2, <2>3 DEF Stop
<1>4. ASSUME NEW k \in Lines, Pause(k) PROVE Sound(Machine)'
  <2> DEFINE d == deckOf[k]
  <2> DEFINE x == [deck[d] EXCEPT !.state = "Paused", !.pauseCalled = TRUE]
  <2>1. UNCHANGED log
    BY <1>4 DEF Pause, Command
  <2>2. d \in Decks
    BY <1>4, LogPlayAssumption DEF Pause, TypeOK, Decks
  <2>3. deck[d] \in DeckTypes /\ deck[d] = w.deck[d]
    BY <2>2 DEF TypeOK, Machine
  <2>4. Become([w EXCEPT !.deck[d] = x])
    BY <1>4 DEF Pause, Machine
  <2> HIDE DEF d
  <2>5. /\ x \in DeckTypes /\ x.busy = w.deck[d].busy /\ x.line = w.deck[d].line
        /\ x.wired = w.deck[d].wired
    BY <2>3 DEF DeckTypes
  <2> HIDE DEF x, w
  <2>6. Sound([w EXCEPT !.deck[d] = x])
    BY <2>2, <2>5, SoundDeck DEF w
  <2>7. QED
    BY <2>1, <2>4, <2>6, BecomeSound
<1>5. ASSUME NEW k \in Lines, MakeNext(k) PROVE Sound(Machine)'
  <2>1. Sound(makeNext(w, k)) /\ UNCHANGED log
    BY <1>1, <1>5, NextSound DEF MakeNext, Command
  <2>2. QED
    BY <1>5, <2>1, BecomeSound DEF MakeNext
<1>6. ASSUME NEW m \in Modes, SetOpMode(m) PROVE Sound(Machine)'
  <2>1. Become(Machine) /\ UNCHANGED log
    BY <1>6 DEF SetOpMode, Command, machine, Become, Machine
  <2>2. QED
    BY <2>1, BecomeSound
<1>7. QED
  BY <1>2, <1>3, <1>4, <1>5, <1>6 DEF Operator

\* The answers of caed and the markers of the decks keep it.
LEMMA DeckSound ==
  ASSUME TypeOK, Sound(Machine), NEW d \in Decks, Deck(d)
  PROVE  Sound(Machine)'
<1> DEFINE w == Machine
<1> DEFINE x == deck[d]
<1> DEFINE k == x.line
<1>1. Setting
  BY MachineTyped
<1>2. x \in DeckTypes /\ x = w.deck[d]
  BY DEF TypeOK, Machine
<1>3. x.wired => k \in Lines /\ deckOf[k] = d /\ w.deckOf[k] = d /\ w.deckOf[k] # 0
  BY Numbers DEF Sound, Claimed, Machine
<1>4. CASE Confirmed(d)
  <2> DEFINE y == [x EXCEPT !.audio = "sounding"]
  <2> DEFINE v == [w EXCEPT !.deck[d] = y]
  <2>1. y \in DeckTypes /\ y.busy = x.busy /\ y.line = x.line /\ y.wired = x.wired
    BY <1>2 DEF DeckTypes
  <2>2. w.grace = 0 /\ w \in MachineType
    BY DEF Sound, Aside
  <2>3. Become([v EXCEPT !.grace = 0])
    BY <1>4, <2>2 DEF Confirmed, Machine
  <2>4. v.grace = 0
    BY <2>2 DEF MachineType
  <2> HIDE DEF y, w
  <2>5. Sound(v)
    BY <1>2, <2>1, SoundDeck DEF w
  <2> HIDE DEF v
  <2>6. [v EXCEPT !.grace = 0] = v
    BY <2>4, <2>5 DEF Sound, MachineType
  <2>7. UNCHANGED log
    BY <1>4 DEF Confirmed, outside
  <2>8. QED
    BY <2>3, <2>5, <2>6, <2>7, BecomeSound
<1>5. CASE SessionEnds(d)
  <2> DEFINE p == [x EXCEPT !.state = "Paused",
                            !.audio = IF x.audio = "leaving" THEN "gone" ELSE "parked"]
  <2> DEFINE q == [x EXCEPT !.state = "Stopped", !.audio = "none", !.segue = "off"]
  <2> DEFINE held == [w EXCEPT !.deck[d] = p]
  <2> DEFINE over == [w EXCEPT !.deck[d] = q]
  <2>1. /\ p \in DeckTypes /\ p.busy = x.busy /\ p.line = x.line /\ p.wired = x.wired
        /\ q \in DeckTypes /\ q.busy = x.busy /\ q.line = x.line /\ q.wired = x.wired
    BY <1>2 DEF DeckTypes
  <2>2. \/ Become(held) \/ Become(over)
        \/ x.wired /\ Become(Paused(held, k))
        \/ x.wired /\ Become(Cleanup(over, k))
        \/ x.wired /\ Become(Finished(over, k))
    BY <1>5, Zenon DEF SessionEnds, Machine
  <2>3. UNCHANGED log
    BY <1>5 DEF SessionEnds, outside
  <2> HIDE DEF p, q, w
  <2>4. /\ Sound(held) /\ held.deckOf = w.deckOf
        /\ Sound(over) /\ over.deckOf = w.deckOf
    BY <1>2, <2>1, SoundDeck DEF w
  <2> HIDE DEF held, over
  <2>5. x.wired => /\ Sound(Paused(held, k)) /\ Sound(Cleanup(over, k))
                   /\ Sound(Finished(over, k))
    BY <1>1, <1>3, <2>4, PausedSound, CleanupSound, FinishedSound
  <2>6. QED
    BY <2>2, <2>3, <2>4, <2>5, BecomeSound
<1>6. CASE SegueStart(d)
  <2> DEFINE y == [x EXCEPT !.segue = "inside"]
  <2> DEFINE z == [w EXCEPT !.deck[d] = y]
  <2>1. y \in DeckTypes /\ y.busy = x.busy /\ y.line = x.line /\ y.wired = x.wired
    BY <1>2 DEF DeckTypes
  <2>2. [w EXCEPT !.deck[d].segue = "inside"] = z
    BY DEF Machine
  <2>3. Become(z) \/ Become(SegueToNext(z))
    BY <1>6, <2>2 DEF SegueStart
  <2>4. UNCHANGED log
    BY <1>6 DEF SegueStart
  <2> HIDE DEF y, w
  <2>5. Sound(z)
    BY <1>2, <2>1, SoundDeck DEF w
  <2> HIDE DEF z
  <2>6. Sound(SegueToNext(z))
    BY <1>1, <2>5, SegueSound
  <2>7. QED
    BY <2>3, <2>4, <2>5, <2>6, BecomeSound
<1>7. CASE SegueEnd(d)
  <2> DEFINE y == [x EXCEPT !.segue = "off"]
  <2> DEFINE z == [w EXCEPT !.deck[d] = y]
  <2>1. y \in DeckTypes /\ y.busy = x.busy /\ y.line = x.line /\ y.wired = x.wired
    BY <1>2 DEF DeckTypes
  <2>2. [w EXCEPT !.deck[d].segue = "off"] = z
    BY DEF Machine
  <2>3. Become(z) \/ (x.wired /\ Become(Cleanup(StopDeck(z, deckOf[k]), k)))
    <3>1. Become(IF x.wired /\ mode = "Auto" /\ status[k] = "Finishing"
                 THEN Cleanup(StopDeck(z, deckOf[k]), k) ELSE z)
      BY <1>7, <2>2 DEF SegueEnd
    <3> HIDE DEF z, x
    <3>2. QED
      BY <3>1
  <2>4. UNCHANGED log
    BY <1>7 DEF SegueEnd, outside
  <2> HIDE DEF y, w
  <2>5. Sound(z) /\ z.deckOf = w.deckOf
    BY <1>2, <2>1, SoundDeck DEF w
  <2> HIDE DEF z
  <2>6. /\ Sound(StopDeck(z, deckOf[k]))
        /\ StopDeck(z, deckOf[k]).deckOf = z.deckOf
    BY <2>5, StopDeckSound, StopDeckKeeps DEF Sound
  <2>7. x.wired => Sound(Cleanup(StopDeck(z, deckOf[k]), k))
    BY <1>3, <2>5, <2>6, CleanupSound
  <2>8. QED
    BY <2>3, <2>4, <2>5, <2>7, BecomeSound
<1>8. QED
  BY <1>4, <1>5, <1>6, <1>7 DEF Deck

\* The timers keep it, where the transition timer only makes a line the next.
LEMMA TimersSound ==
  ASSUME TypeOK, Sound(Machine), Unstarted,
         SegueBacktime \/ SleepTimer \/ TransTimer \/ GraceTimer
  PROVE  Sound(Machine)'
<1>1. Setting /\ Machine \in MachineType
  BY MachineTyped DEF Settled
<1>2. CASE SegueBacktime
  <2>1. UNCHANGED log /\ (Become(Machine) \/ Become(SegueToNext(Machine)))
    BY <1>2 DEF SegueBacktime
  <2>2. Sound(SegueToNext(Machine))
    BY <1>1, SegueSound
  <2>3. QED
    BY <2>1, <2>2, BecomeSound
<1>3. CASE SleepTimer
  <2> DEFINE x == [Machine EXCEPT !.macro = 0]
  <2>1. UNCHANGED log /\ Become(SetStatus(FinishEvent(x), macro, "Finished"))
    BY <1>3 DEF SleepTimer, outside
  <2>2. /\ x \in MachineType /\ x.deckOf = Machine.deckOf /\ x.macro = 0
        /\ x.grace = Machine.grace /\ x.timer = Machine.timer
        /\ x.deck = Machine.deck /\ x.status = Machine.status
    BY <1>1, Numbers DEF MachineType
  <2> HIDE DEF x
  <2>3. Sound(x)
    BY <2>2, SoundSame
  <2>4. Sound(FinishEvent(x))
    BY <1>1, <2>3, FinishSound
  <2>5. macro \in Lines => ~Audio(macro)
    BY Numbers DEF Sound, Aside, Machine
  <2>6. Sound(SetStatus(FinishEvent(x), macro, "Finished"))
    BY <2>4, <2>5, StatusSound DEF Statuses
  <2>7. QED
    BY <2>1, <2>6, BecomeSound
<1>4. CASE TransTimer
  <2> DEFINE k == timer
  <2> DEFINE w == [Machine EXCEPT !.timer = 0, !.grace = 0]
  <2>1. k # 0 /\ k \in Lines /\ UNCHANGED log
    BY <1>4, LogPlayAssumption DEF TransTimer, Due, TypeOK, Lines, outside
  <2>2. log[k].hard # 0
    BY <2>1 DEF Sound, Aside, Machine
  <2>3. log[k].grace = "next"
    BY <2>1, <2>2 DEF Unstarted
  <2>4. Become(SetTransTimer(w)) \/ Become(makeNext(w, k))
    BY <1>4, <2>3 DEF TransTimer
  <2>5. /\ w \in MachineType /\ w.status = Machine.status /\ w.deck = Machine.deck
        /\ w.deckOf = Machine.deckOf /\ w.macro = Machine.macro
        /\ w.grace = Machine.grace /\ w.timer = 0
    BY <1>1, Numbers DEF MachineType, Sound, Aside
  <2> HIDE DEF w
  <2>6. Sound(w)
    BY <2>5, SoundFrame
  <2>7. Sound(SetTransTimer(w)) /\ Sound(makeNext(w, k))
    BY <1>1, <2>1, <2>6, TimerSound, NextSound
  <2>8. QED
    BY <2>1, <2>4, <2>7, BecomeSound
<1>5. CASE GraceTimer
  BY <1>5 DEF GraceTimer, Sound, Aside, Machine
<1>6. QED
  BY <1>2, <1>3, <1>4, <1>5

\* At first no line has a deck.
LEMMA InitSound ==
  ASSUME Init
  PROVE  Sound(Machine)
<1>1. TypeOK /\ Machine \in MachineType /\ Setting
  BY InitTyped, MachineTyped DEF Settled
<1>2. /\ Machine.deckOf = [k \in Lines |-> 0] /\ Machine.macro = 0
      /\ Machine.deck = [d \in Decks |-> IdleDeck] /\ Machine.grace = 0
      /\ Machine.status = [k \in Lines |-> "Scheduled"] /\ Machine.timer = timer
  BY DEF Init, Machine
<1>3. Paired(Machine) /\ Claimed(Machine) /\ Served(Machine)
  BY <1>2 DEF Paired, Claimed, Served, IdleDeck, Runs
<1>4. timer # 0 => log[timer].hard # 0
  <2>1. timer # 0 => timer \in Lines /\ log[timer].hard > now
    BY <1>1, TimedLine, LogPlayAssumption DEF Init, Lines
  <2>2. now = 0 /\ \A k \in Lines : log[k].hard \in Nat
    BY <1>1, LogPlayAssumption DEF Init, Setting, LineTypes, Times
  <2>3. QED
    BY <2>1, <2>2
<1>5. QED
  BY <1>1, <1>2, <1>3, <1>4 DEF Sound, Aside

\* Every step keeps it.
LEMMA SoundKept ==
  ASSUME Unstarted, TypeOK, Sound(Machine), [Next]_vars
  PROVE  Sound(Machine)'
<1>1. CASE Operator
  BY <1>1, OperatorSound
<1>2. CASE Tick \/ Standing
  <2>1. Become(Machine) /\ UNCHANGED log
    BY <1>2 DEF Tick, Standing, machine, Become, Machine
  <2>2. QED
    BY <2>1, BecomeSound
<1>3. CASE Handler
  BY <1>3, DeckSound, TimersSound DEF Handler
<1>4. QED
  BY <1>1, <1>2, <1>3, WhoSteps

\* In a sound state every handler that asks for the deck of a line finds one.
LEMMA SoundLives ==
  ASSUME TypeOK, Sound(Machine)
  PROVE  ~Crash
<1>1. ASSUME NEW k \in Lines, Audio(k), deckOf[k] = 0, status[k] \in {"Playing", "Finishing"}
      PROVE  FALSE
  BY <1>1 DEF Sound, Served, Runs, Machine
<1>2. ASSUME NEW k \in Lines, deckOf[k] = 0, NEW d \in Decks, deck[d].line = k, Reaches(d)
      PROVE  FALSE
  <2>1. deck[d].wired
    BY <1>2 DEF Reaches
  <2>2. deckOf[k] = d
    BY <1>2, <2>1 DEF Sound, Claimed, Machine
  <2>3. QED
    BY <1>2, <2>2, LogPlayAssumption DEF Decks
<1>3. QED
  BY <1>1, <1>2 DEF Crash

\* Lines and decks agree in every log without a hard start time that starts a
\* line by itself: a line that runs has a deck of its own that plays it, and a
\* deck is taken only for such a line, whatever the operator does meanwhile and
\* in whatever order caed answers.  So no handler, which none of them asks
\* whether the line has a deck, ever reaches for one that is not there.
THEOREM DecksAgree ==
  ASSUME NoHardStarts
  PROVE  Spec => []DecksMatch
<1>1. Init => Sound(Machine)
  BY InitSound
<1>2. TypeOK /\ Sound(Machine) /\ [Next]_vars => Sound(Machine)'
  BY SoundKept DEF NoHardStarts, Unstarted, TypeOK
<1>3. Init => ~died
  BY DEF Init
<1>4. TypeOK /\ Sound(Machine) /\ ~died /\ [Next]_vars => ~died'
  BY SoundLives DEF Next, Alive, vars
<1>5. Sound(Machine) /\ ~died => DecksMatch
  BY SoundMatched DEF DecksMatch
<1>6. QED
  BY <1>1, <1>2, <1>3, <1>4, <1>5, TypeCorrect, PTL DEF Spec

=============================================================================
