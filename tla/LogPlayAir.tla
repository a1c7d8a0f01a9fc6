----------------------------- MODULE LogPlayAir -----------------------------
(***************************************************************************)
(* What a log machine puts on the air, for every number of lines, decks    *)
(* and commands, and every set of logs: no deck is cut off in the middle   *)
(* of a line, no two lines that may not overlap sound together, a plain    *)
(* log goes on to its end, and a hard start time is kept.                  *)
(***************************************************************************)
EXTENDS LogPlayProofs, FiniteSetTheorems

-----------------------------------------------------------------------------
(* What the decks do while a handler runs *)

\* Deck d plays a line that knows it.
Airs(w, d) == w.deck[d].busy /\ w.status[w.deck[d].line] = "Playing"

\* Every deck that plays does.
Airing(w) == \A d \in Decks : w.deck[d].state = "Playing" => Airs(w, d)

\* From w to v deck d does not begin to play and is not told to stop.
PlaysOn(w, v, d) ==
  /\ v.deck[d].state = "Playing" =>
       /\ w.deck[d].state = "Playing" /\ v.deck[d].line = w.deck[d].line
       /\ Airs(w, d) => Airs(v, d)
  /\ v.deck[d].state = "Stopping" => w.deck[d].state = "Stopping"

\* No deck does, or one begins to play its line.
Fewer(w, v) == \A d \in Decks : PlaysOn(w, v, d)
OneMore(w, v) ==
  \E c \in Decks : /\ v.deck[c].state = "Playing" /\ Airs(v, c)
                   /\ \A d \in Decks \ {c} : PlaysOn(w, v, d)
AtMost(w, v) == Fewer(w, v) \/ OneMore(w, v)

\* At most one deck plays a line that fades; none does.
Fading(w, d) == w.deck[d].state = "Playing" /\ log[w.deck[d].line].fade
Single(w) == \A c, d \in Decks : Fading(w, c) /\ Fading(w, d) => c = d
Faded(w) == \A d \in Decks : ~Fading(w, d)

\* What a handler may do to the decks: a deck that it stops plays a line that
\* fades.
Plays(w, v) ==
  /\ Airing(v)
  /\ mode # "Manual" /\ Single(w) => Single(v)
  /\ \A d \in Decks : v.deck[d].state = "Stopping" =>
       \/ w.deck[d].state = "Stopping"
       \/ w.deck[d].state = "Playing" /\ log[w.deck[d].line].fade

\* Handlers can follow each other.
LEMMA FewerOn ==
  ASSUME NEW u, NEW w, NEW v
  PROVE  /\ Fewer(u, w) /\ Fewer(w, v) => Fewer(u, v)
         /\ Fewer(u, w) /\ AtMost(w, v) => AtMost(u, v)
         /\ AtMost(u, w) /\ Fewer(w, v) => AtMost(u, v)
<1>1. \A d \in Decks : PlaysOn(u, w, d) /\ PlaysOn(w, v, d) => PlaysOn(u, v, d)
  BY DEF PlaysOn
<1>2. Fewer(u, w) /\ Fewer(w, v) => Fewer(u, v)
  BY <1>1 DEF Fewer
<1>3. Fewer(u, w) /\ OneMore(w, v) => OneMore(u, v)
  BY <1>1 DEF Fewer, OneMore
<1>4. ASSUME OneMore(u, w), Fewer(w, v) PROVE AtMost(u, v)
  <2>1. PICK c \in Decks : /\ w.deck[c].state = "Playing" /\ Airs(w, c)
                           /\ \A d \in Decks \ {c} : PlaysOn(u, w, d)
    BY <1>4 DEF OneMore
  <2>2. \A d \in Decks \ {c} : PlaysOn(u, v, d)
    BY <1>1, <1>4, <2>1 DEF Fewer
  <2>3. PlaysOn(w, v, c)
    BY <1>4 DEF Fewer
  <2>4. CASE v.deck[c].state = "Playing"
    BY <2>1, <2>2, <2>3, <2>4 DEF PlaysOn, OneMore, AtMost
  <2>5. CASE v.deck[c].state # "Playing"
    <3>1. PlaysOn(u, v, c)
      BY <2>1, <2>3, <2>5 DEF PlaysOn
    <3>2. QED
      BY <2>2, <3>1 DEF Fewer, AtMost
  <2>6. QED
    BY <2>4, <2>5
<1>5. QED
  BY <1>2, <1>3, <1>4 DEF AtMost

\* Such handlers may run.
LEMMA FewerPlays ==
  ASSUME NEW w, NEW v, Airing(w)
  PROVE  /\ Fewer(w, v) => Plays(w, v)
         /\ AtMost(w, v) => Airing(v)
         /\ AtMost(w, v) /\ Faded(w) => Plays(w, v)
<1>1. ASSUME AtMost(w, v) PROVE Airing(v)
  BY <1>1 DEF AtMost, Fewer, OneMore, PlaysOn, Airing
<1>2. ASSUME Fewer(w, v), Single(w) PROVE Single(v)
  BY <1>2 DEF Fewer, PlaysOn, Single, Fading
<1>3. ASSUME AtMost(w, v), Faded(w) PROVE Single(v)
  BY <1>3 DEF AtMost, Fewer, OneMore, PlaysOn, Single, Faded, Fading
<1>4. ASSUME AtMost(w, v) PROVE \A d \in Decks :
         v.deck[d].state = "Stopping" => w.deck[d].state = "Stopping"
  BY <1>4 DEF AtMost, Fewer, OneMore, PlaysOn
<1>5. QED
  BY <1>1, <1>2, <1>3, <1>4 DEF Plays, AtMost

\* A handler that begins with less.
LEMMA PlaysFrom ==
  ASSUME NEW u, NEW w, NEW v, Fewer(u, w), Plays(w, v)
  PROVE  Plays(u, v)
<1>1. Single(u) => Single(w)
  BY DEF Fewer, PlaysOn, Single, Fading
<1>2. \A d \in Decks : PlaysOn(u, w, d)
  BY DEF Fewer
<1>3. \A d \in Decks : v.deck[d].state = "Stopping" =>
       \/ u.deck[d].state = "Stopping"
       \/ u.deck[d].state = "Playing" /\ log[u.deck[d].line].fade
  BY <1>2 DEF Plays, PlaysOn
<1>4. QED
  BY <1>1, <1>3 DEF Plays

\* What leaves the decks and the audio lines alone.
LEMMA FewerSame ==
  ASSUME NEW w, Sound(w), NEW v, v.deck = w.deck,
         \A k \in Lines : Audio(k) => v.status[k] = w.status[k]
  PROVE  Fewer(w, v)
<1>1. \A d \in Decks : w.deck[d].busy => w.deck[d].line \in Lines /\ Audio(w.deck[d].line)
  <2>1. \A d \in Decks : d # 0
    BY LogPlayAssumption DEF Decks
  <2>2. \A d \in Decks : w.deck[d].busy => w.deck[d].line \in Lines /\ w.deckOf[w.deck[d].line] = d
    BY DEF Sound, Claimed
  <2>3. \A k \in Lines : w.deckOf[k] # 0 => Audio(k)
    BY DEF Sound, Paired
  <2>4. QED
    BY <2>1, <2>2, <2>3
<1>2. \A d \in Decks : Airs(w, d) => Airs(v, d)
  BY <1>1 DEF Airs
<1>3. QED
  BY <1>2 DEF Fewer, PlaysOn

\* The transition timer and the next line leave them alone.
LEMMA SameDecks ==
  ASSUME NEW w \in MachineType
  PROVE  /\ SetTransTimer(w).deck = w.deck /\ SetTransTimer(w).status = w.status
         /\ \A S : /\ RearmTransTimer(w, S).deck = w.deck
                   /\ RearmTransTimer(w, S).status = w.status
         /\ \A k : /\ makeNext(w, k).deck = w.deck /\ makeNext(w, k).status = w.status
                   /\ AssignNext(w, k).deck = w.deck /\ AssignNext(w, k).status = w.status
         /\ Advance(w).deck = w.deck /\ Advance(w).status = w.status
         /\ Within(w).deck = w.deck /\ Within(w).status = w.status
<1>1. SetTransTimer(w).deck = w.deck /\ SetTransTimer(w).status = w.status
  BY DEF SetTransTimer, MachineType
<1>2. \A n : [w EXCEPT !.next = n].deck = w.deck /\ [w EXCEPT !.next = n].status = w.status
  BY DEF MachineType
<1>3. \A k : makeNext(w, k).deck = w.deck /\ makeNext(w, k).status = w.status
  BY DEF makeNext, SetTransTimer, MachineType
<1>4. \A k : AssignNext(w, k).deck = w.deck /\ AssignNext(w, k).status = w.status
  BY DEF AssignNext, MachineType
<1>5. Advance(w).deck = w.deck /\ Advance(w).status = w.status
  <2> DEFINE look == Look(w, w.next, FALSE)
  <2>1. \/ Advance(w) = makeNext(w, look.halt)
        \/ Advance(w) = [w EXCEPT !.next = look.line]
        \/ Advance(w) = w
    <3>1. CASE look.halt # 0
      BY <3>1, LookFinds DEF Advance
    <3>2. CASE look.halt = 0 /\ look.line # 0
      BY <3>2, LookFinds DEF Advance
    <3>3. CASE look.halt = 0 /\ look.line = 0
      BY <3>3 DEF Advance
    <3>4. QED
      BY <3>1, <3>2, <3>3
  <2> HIDE DEF look
  <2>2. QED
    BY <2>1, <1>2, <1>3
<1>6. Within(w).deck = w.deck /\ Within(w).status = w.status
  BY <1>2 DEF Within
<1>7. QED
  BY <1>1, <1>3, <1>4, <1>5, <1>6 DEF RearmTransTimer

\* Neither do they begin or stop anything.
LEMMA SameFewer ==
  ASSUME NEW w, Sound(w)
  PROVE  /\ Fewer(w, SetTransTimer(w))
         /\ \A S : Fewer(w, RearmTransTimer(w, S))
         /\ \A k : Fewer(w, makeNext(w, k)) /\ Fewer(w, AssignNext(w, k))
         /\ Fewer(w, Advance(w)) /\ Fewer(w, Within(w))
<1>1. w \in MachineType
  BY DEF Sound
<1>2. QED
  BY <1>1, SameDecks, FewerSame

\* A line that is no audio line, a macro that is stopped.
LEMMA MacroFewer ==
  ASSUME NEW w, Sound(w)
  PROVE  /\ \A k, s : (k \in Lines => ~Audio(k)) => Fewer(w, SetStatus(w, k, s))
         /\ Fewer(w, StopMacro(w)) /\ StopMacro(w).deck = w.deck
<1>1. w \in MachineType /\ w.status \in [Lines -> Statuses]
  BY Parts DEF Sound
<1>2. ASSUME NEW k, NEW s, k \in Lines => ~Audio(k)
      PROVE  Fewer(w, SetStatus(w, k, s))
  <2>1. SetStatus(w, k, s).deck = w.deck
        /\ SetStatus(w, k, s).status = [w.status EXCEPT ![k] = s]
    BY <1>1 DEF SetStatus, MachineType
  <2>2. \A j \in Lines : Audio(j) => SetStatus(w, k, s).status[j] = w.status[j]
    BY <1>1, <1>2, <2>1
  <2>3. QED
    BY <2>1, <2>2, FewerSame
<1>3. StopMacro(w).deck = w.deck
  BY <1>1 DEF StopMacro, MachineType
<1>4. Fewer(w, StopMacro(w))
  BY <1>3, StopMacroSound, FewerSame
<1>5. QED
  BY <1>2, <1>3, <1>4

\* A line that is cleaned up, after something has been done to its deck.
LEMMA CleanupFewer ==
  ASSUME NEW w, Sound(w), NEW u \in MachineType, NEW k \in Lines, NEW d \in Decks,
         u.deckOf[k] = d, u.status = w.status,
         \A c \in Decks \ {d} : u.deck[c] = w.deck[c],
         \A c \in Decks \ {d} : Airs(w, c) => w.deck[c].line # k
  PROVE  Fewer(w, Cleanup(u, k))
<1> DEFINE v == Cleanup(u, k)
<1>1. \A c \in Decks \ {d} : v.deck[c] = u.deck[c]
  BY CleanupGives
<1>2. \A j \in Lines \ {k} : v.status[j] = w.status[j]
  BY CleanupGives DEF Others
<1>3. v.deck[d].state = "Stopped"
  <2>1. u.deck[d] \in DeckTypes /\ u.deck \in [Decks -> DeckTypes]
    BY Parts
  <2> DEFINE x == u.deck[d]
  <2> DEFINE b == IF x.state = "Stopped" THEN x.audio
                  ELSE IF x.audio \in {"asked", "sounding", "leaving"}
                  THEN "leaving" ELSE "gone"
  <2> DEFINE y == [x EXCEPT !.busy = FALSE, !.wired = FALSE, !.state = "Stopped",
                            !.segue = "off", !.audio = b]
  <2>2. v.deck = [u.deck EXCEPT ![d] = y]
    BY DEF Cleanup, FreeDeck, SetStatus, MachineType
  <2> HIDE DEF b
  <2>3. y.state = "Stopped"
    BY <2>1 DEF DeckTypes
  <2> HIDE DEF y, v
  <2>4. QED
    BY <2>1, <2>2, <2>3
<1> HIDE DEF v
<1>4. \A c \in Decks \ {d} : Airs(w, c) => Airs(v, c)
  <2>1. \A c \in Decks : w.deck[c].busy => w.deck[c].line \in Lines
    BY DEF Sound, Claimed
  <2>2. QED
    BY <1>1, <1>2, <2>1 DEF Airs
<1>5. \A c \in Decks : PlaysOn(w, v, c)
  BY <1>1, <1>3, <1>4 DEF PlaysOn
<1>6. QED
  BY <1>5 DEF Fewer, v

\* A line's deck is the only one that plays it.
LEMMA OwnDeck ==
  ASSUME NEW w, Sound(w), NEW k \in Lines, NEW d \in Decks, w.deckOf[k] = d
  PROVE  \A c \in Decks \ {d} : Airs(w, c) => w.deck[c].line # k
BY DEF Sound, Claimed, Airs

\* A line that is cleaned up.
LEMMA CleanedFewer ==
  ASSUME NEW w, Sound(w), NEW k \in Lines, w.deckOf[k] # 0
  PROVE  Fewer(w, Cleanup(w, k))
<1> DEFINE d == w.deckOf[k]
<1>1. w \in MachineType
  BY DEF Sound
<1>2. d \in Decks
  BY <1>1, Parts, LogPlayAssumption DEF Decks
<1>3. \A c \in Decks \ {d} : Airs(w, c) => w.deck[c].line # k
  BY <1>2, OwnDeck
<1>4. QED
  BY <1>1, <1>2, <1>3, CleanupFewer

\* A deck that is loaded plays.
LEMMA LoadPlays ==
  ASSUME NEW x \in DeckTypes, NEW k
  PROVE  Load(x, k).state = "Playing"
BY DEF Load, DeckTypes

\* A line that starts to play.
LEMMA PlayAudioAtMost ==
  ASSUME NEW w, Sound(w), Setting, NEW k \in Lines, Audio(k), log[k].ok,
         w.status[k] \in {"Scheduled", "Paused"}
  PROVE  AtMost(w, PlayAudio(w, k))
<1>0. w \in MachineType /\ w.deck \in [Decks -> DeckTypes]
      /\ w.status \in [Lines -> Statuses] /\ w.deckOf \in [Lines -> 0..NDecks]
  BY Parts DEF Sound
<1>1. ASSUME NEW v, NEW d \in Decks, NEW y \in DeckTypes,
             v.deck = [w.deck EXCEPT ![d] = y],
             v.status = [w.status EXCEPT ![k] = "Playing"],
             y.state = "Playing", y.busy, y.line = k
      PROVE  OneMore(w, v)
  <2>1. v.deck[d] = y /\ \A c \in Decks \ {d} : v.deck[c] = w.deck[c]
    BY <1>0, <1>1
  <2>2. v.status[k] = "Playing"
    BY <1>0, <1>1
  <2>3. \A j \in Lines : v.status[j] = w.status[j] \/ v.status[j] = "Playing"
    BY <1>0, <1>1
  <2>4. \A c \in Decks : w.deck[c].busy => w.deck[c].line \in Lines
    BY DEF Sound, Claimed
  <2>5. \A c \in Decks \ {d} : Airs(w, c) => Airs(v, c)
    BY <2>1, <2>3, <2>4 DEF Airs
  <2>6. \A c \in Decks \ {d} : PlaysOn(w, v, c)
    BY <2>1, <2>5 DEF PlaysOn
  <2>7. v.deck[d].state = "Playing" /\ Airs(v, d)
    BY <1>1, <2>1, <2>2 DEF Airs
  <2>8. QED
    BY <2>6, <2>7 DEF OneMore
<1>2. CASE w.status[k] = "Paused"
  <2> DEFINE v == PlayAudio(w, k)
  <2> DEFINE d == w.deckOf[k]
  <2> DEFINE y == Resume(w.deck[d])
  <2>1. d # 0 /\ w.deck[d].busy /\ w.deck[d].line = k
    BY <1>2 DEF Sound, Served, Runs, Paired
  <2>2. d \in Decks /\ w.deck[d] \in DeckTypes
    BY <1>0, <2>1, LogPlayAssumption DEF Decks
  <2>3. /\ v.status = [w.status EXCEPT ![k] = "Playing"]
        /\ v.deck = [w.deck EXCEPT ![d] = y]
    BY <1>0, <1>2 DEF PlayAudio, SetStatus, MachineType
  <2>4. y \in DeckTypes
    BY <2>2, LoadType
  <2>5. y.state = "Playing" /\ y.busy /\ y.line = k
    BY <2>1, <2>2 DEF Resume, DeckTypes
  <2> HIDE DEF v, y, d
  <2>6. OneMore(w, v)
    BY <1>1, <2>2, <2>3, <2>4, <2>5
  <2>7. QED
    BY <2>6 DEF AtMost, v
<1>3. CASE w.status[k] = "Scheduled" /\ FreeDecks(w) # {}
  <2> DEFINE d == First(FreeDecks(w))
  <2> DEFINE v == SetStatus([w EXCEPT !.deck[d] = Load(@, k), !.deckOf[k] = d],
                            k, "Playing")
  <2> DEFINE y == Load(w.deck[d], k)
  <2>1. d \in Decks
    <3>1. FreeDecks(w) \in SUBSET Decks
      BY DEF FreeDecks
    <3>2. QED
      BY <1>3, <3>1, FirstDeck
  <2>2. PlayAudio(w, k) = AssignNext(v, k)
    BY <1>3 DEF PlayAudio
  <2> HIDE DEF d
  <2>3. w.deck[d] \in DeckTypes /\ y \in DeckTypes
    BY <1>0, <2>1, LoadType
  <2>4. /\ v.status = [w.status EXCEPT ![k] = "Playing"]
        /\ v.deck = [w.deck EXCEPT ![d] = y]
    BY <1>0 DEF SetStatus, MachineType
  <2>5. y.state = "Playing" /\ y.busy /\ y.line = k
    BY <2>3, LoadPlays, LoadGives
  <2> DEFINE z == AssignNext(v, k)
  <2>6. z.status = v.status /\ z.deck = v.deck
    <3>1. v = [w EXCEPT !.deck = v.deck, !.deckOf = v.deckOf, !.status = v.status]
      BY <1>0 DEF SetStatus, MachineType
    <3> HIDE DEF v
    <3>2. QED
      BY <1>0, <3>1 DEF AssignNext, MachineType
  <2> HIDE DEF v, y, z
  <2>7. OneMore(w, z)
    BY <1>1, <2>1, <2>3, <2>4, <2>5, <2>6
  <2>8. QED
    BY <2>2, <2>7 DEF AtMost, z
<1>4. CASE w.status[k] = "Scheduled" /\ FreeDecks(w) = {}
  <2>1. PlayAudio(w, k) = w
    BY <1>4, PlayAudioNone
  <2>2. QED
    BY <2>1, FewerSame DEF AtMost
<1>5. QED
  BY <1>2, <1>3, <1>4

\* A macro that runs.
LEMMA RunMacroFewer ==
  ASSUME NEW w, Sound(w), Setting, NEW k \in Lines, ~Audio(k)
  PROVE  Fewer(w, RunMacro(w, k))
<1> DEFINE y == SetStatus(w, k, "Playing")
<1> DEFINE z == AssignNext(y, k)
<1>1. Fewer(w, y) /\ Sound(y)
  BY MacroFewer, StatusSound DEF Statuses
<1>2. RunMacro(w, k) = [z EXCEPT !.macro = k]
      \/ RunMacro(w, k) = SetStatus(Advance(z), k, "Finished")
  BY DEF RunMacro
<1> HIDE DEF y
<1>3. Fewer(w, z) /\ Sound(z)
  BY <1>1, SameFewer, NextSound, FewerOn
<1> HIDE DEF z
<1>4. Fewer(z, [z EXCEPT !.macro = k])
  <2>1. [z EXCEPT !.macro = k].deck = z.deck /\ [z EXCEPT !.macro = k].status = z.status
    BY <1>3 DEF Sound, MachineType
  <2>2. QED
    BY <1>3, <2>1, FewerSame
<1>5. Fewer(z, Advance(z)) /\ Sound(Advance(z))
  BY <1>3, SameFewer, NextSound
<1>6. Fewer(Advance(z), SetStatus(Advance(z), k, "Finished"))
  BY <1>5, MacroFewer
<1>7. QED
  BY <1>2, <1>3, <1>4, <1>5, <1>6, FewerOn

\* A line of any kind that starts.
LEMMA PlayLineAtMost ==
  ASSUME NEW w, Sound(w), Setting, NEW k \in Lines, Startable(w, k)
  PROVE  AtMost(w, PlayLine(w, k))
BY PlayAudioAtMost, RunMacroFewer DEF PlayLine, Startable, AtMost

\* FinishEvent starts something only when nothing runs.
LEMMA FinishPlays ==
  ASSUME NEW w, Sound(w), Airing(w), Setting
  PROVE  AtMost(w, FinishEvent(w)) /\ Plays(w, FinishEvent(w))
<1> DEFINE last == Last(Started(w))
<1> DEFINE n == [Past(w) EXCEPT !.next = last + 1]
<1> DEFINE y == Advance(n)
<1> DEFINE x == [Past(w) EXCEPT !.next = last]
<1> DEFINE p == PlayLine(x, last)
<1>1. CASE Started(w) = {}
  BY <1>1, FinishCases, SameFewer, FewerPlays DEF AtMost
<1>2. CASE Started(w) # {}
  <2>1. last \in Lines /\ last \in Started(w)
    BY <1>2, FinishCases
  <2>2. PICK S : FinishEvent(w) = RearmTransTimer(Within(IF Instant(last) THEN y ELSE p), S)
    BY <1>2, FinishCases
  <2>3. /\ log[last].ok /\ w.status[last] = "Scheduled" /\ Running(w) = {}
        /\ mode = "Auto"
    BY <2>1 DEF Started, Waiting
  <2>4. Sound(Past(w)) /\ Past(w) \in MachineType
    BY PastSound DEF Sound
  <2>5. Past(w).deck = w.deck
    BY DEF Past, Sound, MachineType
  <2>6. Fewer(w, Past(w))
    <3>1. \A k \in Lines : Audio(k) => Past(w).status[k] = w.status[k]
      BY PastSound DEF Audio, Instant
    <3>2. QED
      BY <2>5, <3>1, FewerSame
  <2> HIDE DEF last
  <2>7. /\ n.deck = Past(w).deck /\ n.status = Past(w).status
        /\ x.deck = Past(w).deck /\ x.status = Past(w).status
    BY <2>4 DEF MachineType
  <2>8. Sound(x) /\ Sound(n)
    BY <2>1, <2>4, NextSound, Numbers
  <2>9. Startable(x, last) \/ Instant(last)
    BY <2>1, <2>3, <2>7, PastSound DEF Startable
  <2>10. Fewer(w, n) /\ Fewer(w, x)
    <3> HIDE DEF n, x
    <3>1. Fewer(Past(w), n) /\ Fewer(Past(w), x)
      BY <2>4, <2>7, FewerSame
    <3>2. QED
      BY <2>6, <3>1, FewerOn
  <2> HIDE DEF n, x
  <2>11. Fewer(n, y) /\ Sound(y)
    BY <2>8, SameFewer, NextSound
  <2>12. ~Instant(last) => AtMost(x, p) /\ Sound(p)
    BY <2>1, <2>8, <2>9, PlayLineAtMost, PlayLineSound
  <2> DEFINE q == IF Instant(last) THEN y ELSE p
  <2>13. AtMost(w, q) /\ Sound(q)
    BY <2>10, <2>11, <2>12, FewerOn DEF AtMost
  <2> HIDE DEF q, y, p
  <2>14. FinishEvent(w) = RearmTransTimer(Within(q), S)
    BY <2>2 DEF q
  <2>15. Fewer(q, Within(q)) /\ Sound(Within(q))
    BY <2>13, SameFewer, NextSound
  <2>16. Fewer(Within(q), FinishEvent(w))
    BY <2>14, <2>15, SameFewer
  <2>17. AtMost(w, FinishEvent(w))
    BY <2>13, <2>15, <2>16, FewerOn
  <2>18. Faded(w)
    <3>1. \A d \in Decks : w.deck[d].busy => w.deck[d].line \in Lines
      BY DEF Sound, Claimed
    <3>2. \A k \in Lines : w.status[k] # "Playing"
      BY <2>3 DEF Running
    <3>3. QED
      BY <3>1, <3>2 DEF Airing, Airs, Faded, Fading
  <2>19. QED
    BY <2>17, <2>18, FewerPlays
<1>3. QED
  BY <1>1, <1>2

\* A cart without a playable cut takes a deck that does not play, and gives it
\* back.
LEMMA FakePlays ==
  ASSUME NEW w, Sound(w), Airing(w), Setting, NEW k \in Lines, Audio(k), ~log[k].ok,
         FreeDecks(w) # {}
  PROVE  AtMost(w, Fake(w, k))
<1> DEFINE d == First(FreeDecks(w))
<1> DEFINE e == [w.deck EXCEPT ![d] = [@ EXCEPT !.line = k]]
<1> DEFINE g == IF log[k].hard # 0 THEN 0 ELSE w.grace
<1> DEFINE f == [w.deckOf EXCEPT ![k] = d]
<1> DEFINE x == [w EXCEPT !.deckOf = f, !.deck = e, !.grace = g]
<1> DEFINE z == Cleanup(x, k)
<1>1. d \in Decks /\ ~w.deck[d].busy
  <2>1. FreeDecks(w) \in SUBSET Decks
    BY DEF FreeDecks
  <2>2. d \in FreeDecks(w)
    BY <2>1, FirstDeck
  <2>3. QED
    BY <2>2 DEF FreeDecks
<1>2. Fake(w, k) = z \/ Fake(w, k) = FinishEvent(z)
  BY DEF Fake
<1> HIDE DEF d
<1>3. w \in MachineType /\ w.deck \in [Decks -> DeckTypes]
      /\ w.status \in [Lines -> Statuses] /\ w.deckOf \in [Lines -> 0..NDecks]
  BY Parts DEF Sound
<1>4. e \in [Decks -> DeckTypes] /\ f \in [Lines -> 0..NDecks] /\ f[k] = d
      /\ \A j \in Lines \ {k} : f[j] = w.deckOf[j]
  <2>1. w.deck[d] \in DeckTypes
    BY <1>1, <1>3
  <2>2. [w.deck[d] EXCEPT !.line = k] \in DeckTypes
    BY <2>1, Numbers DEF DeckTypes
  <2>3. QED
    BY <1>1, <1>3, <2>2, Numbers
<1>5. \A c \in Decks \ {d} : e[c] = w.deck[c]
  BY <1>3
<1>6. g = 0
  BY DEF Sound, Aside
<1> HIDE DEF e, f, g
<1>7. /\ x \in MachineType /\ x.deckOf = f /\ x.deck = e /\ x.grace = 0
      /\ x.status = w.status /\ x.macro = w.macro /\ x.timer = w.timer
  BY <1>3, <1>4, <1>6, Numbers DEF MachineType
<1> HIDE DEF x
<1>8. w.status[k] \notin Runs /\ w.deckOf[k] = 0
  BY DEF Sound, Paired, Served
<1>9. \A c \in Decks : Airs(w, c) => w.deck[c].line # k
  BY <1>8 DEF Airs, Runs
<1>10. Fewer(w, z)
  BY <1>1, <1>4, <1>5, <1>7, <1>9, CleanupFewer
<1>11. /\ z \in MachineType
       /\ z.deckOf[k] = 0 /\ z.status[k] = "Finished" /\ Others(x, z, k)
       /\ ~z.deck[d].busy /\ ~z.deck[d].wired
       /\ \A c \in Decks \ {d} : z.deck[c] = x.deck[c]
       /\ z.macro = x.macro /\ z.grace = x.grace /\ z.timer = x.timer
  BY <1>1, <1>4, <1>7, CleanupGives
<1>12. Others(w, z, k)
  BY <1>4, <1>7, <1>11 DEF Others
<1> HIDE DEF z
<1>13. Sound(z)
  BY <1>1, <1>5, <1>7, <1>8, <1>11, <1>12, Freed
<1>14. Airing(z)
  BY <1>10, FewerPlays DEF Plays
<1>15. AtMost(z, FinishEvent(z))
  BY <1>13, <1>14, FinishPlays
<1>16. QED
  BY <1>2, <1>10, <1>15, FewerOn DEF AtMost

\* A segue stops the lines that fade, and no other.
LEMMA TransitionPlays ==
  ASSUME NEW w, Sound(w), Airing(w)
  PROVE  LET z == Transition(w, "Segue") IN
         /\ Plays(w, z)
         /\ mode # "Manual" => Faded(z)
<1> DEFINE out == Interrupted(w, "Segue")
<1> DEFINE e == [d \in Decks |-> IF d \in {w.deckOf[k] : k \in out}
                                 THEN StopDeck(w, d).deck[d] ELSE w.deck[d]]
<1> DEFINE s == [k \in Lines |-> IF "Segue" = "Segue" /\ k \in out
                                 THEN "Finishing" ELSE w.status[k]]
<1> DEFINE u == [w EXCEPT !.deck = e, !.status = s]
<1> DEFINE z == Transition(w, "Segue")
<1>1. w \in MachineType /\ w.deck \in [Decks -> DeckTypes]
  BY Parts DEF Sound
<1>2. z = IF mode = "Manual" THEN w ELSE StopMacro(u)
  BY DEF Transition
<1>3. \A k \in Lines : k \in out <=> /\ Audio(k) /\ w.deckOf[k] # 0
                                     /\ w.status[k] = "Playing" /\ log[k].fade
  BY DEF Interrupted, Is
<1>4. \A d \in Decks : w.deck[d].state \in {"Playing", "Stopping"} =>
        StopDeck(w, d).deck[d].state = "Stopping"
  <2> SUFFICES ASSUME NEW d \in Decks, w.deck[d].state \in {"Playing", "Stopping"}
               PROVE  StopDeck(w, d).deck[d].state = "Stopping"
    OBVIOUS
  <2> DEFINE x == [w.deck[d] EXCEPT !.state = "Stopping", !.stopCalled = TRUE]
  <2>1. StopDeck(w, d).deck = [w.deck EXCEPT ![d] = x]
    BY <1>1 DEF StopDeck, MachineType
  <2>2. x.state = "Stopping"
    BY <1>1 DEF DeckTypes
  <2> HIDE DEF x
  <2>3. QED
    BY <1>1, <2>1, <2>2
<1>5. \A d \in Decks : w.deck[d].state \notin {"Playing", "Stopping"} =>
        StopDeck(w, d) = w
  BY DEF StopDeck
<1>6. \A d \in Decks : StopDeck(w, d).deck[d].line = w.deck[d].line
                       /\ StopDeck(w, d).deck[d].busy = w.deck[d].busy
  BY <1>1, StopDeckKeeps
<1>7. \A d \in Decks : d # 0
  BY LogPlayAssumption DEF Decks
<1>8. ASSUME NEW d \in Decks, d \in {w.deckOf[k] : k \in out}
      PROVE  /\ e[d].state # "Playing"
             /\ e[d].line = w.deck[d].line /\ log[w.deck[d].line].fade
             /\ e[d].state = "Stopping" => w.deck[d].state \in {"Playing", "Stopping"}
  <2>1. PICK k \in out : d = w.deckOf[k]
    BY <1>8
  <2>2. k \in Lines
    BY DEF Interrupted
  <2>3. w.deck[d].line = k /\ log[k].fade
    BY <1>3, <2>1, <2>2 DEF Sound, Paired
  <2>4. e[d] = StopDeck(w, d).deck[d]
    BY <1>8
  <2> HIDE DEF e
  <2>5. QED
    BY <1>4, <1>5, <1>6, <2>3, <2>4
<1>9. ASSUME NEW d \in Decks, d \notin {w.deckOf[k] : k \in out}
      PROVE  e[d] = w.deck[d]
  BY <1>9
<1>10. \A k \in Lines : s[k] = IF k \in out THEN "Finishing" ELSE w.status[k]
  OBVIOUS
<1>11. e \in [Decks -> DeckTypes]
  <2>1. \A d \in Decks : StopDeck(w, d).deck[d] \in DeckTypes
    BY <1>1, StopDeckType
  <2> HIDE DEF out
  <2>2. QED
    BY <1>1, <2>1
<1>12. s \in [Lines -> Statuses]
  BY <1>1, Parts DEF Statuses
<1> HIDE DEF e, s, out
<1>13. /\ u \in MachineType /\ u.deck = e /\ u.status = s /\ u.deckOf = w.deckOf
       /\ u.macro = w.macro /\ u.grace = w.grace /\ u.timer = w.timer
  BY <1>1, <1>11, <1>12 DEF MachineType
<1> HIDE DEF u, z
<1>14. ASSUME NEW d \in Decks, u.deck[d].state = "Playing"
       PROVE  /\ u.deck[d] = w.deck[d] /\ ~log[w.deck[d].line].fade
              /\ Airs(u, d)
  <2>1. u.deck[d] = w.deck[d] /\ d \notin {w.deckOf[k] : k \in out}
    BY <1>8, <1>9, <1>13, <1>14
  <2>2. Airs(w, d)
    BY <1>14, <2>1 DEF Airing
  <2> DEFINE k == w.deck[d].line
  <2>3. k \in Lines /\ w.deckOf[k] = d /\ w.status[k] = "Playing" /\ w.deck[d].busy
    BY <2>2 DEF Airs, Sound, Claimed
  <2>4. Audio(k) /\ w.deckOf[k] # 0
    BY <1>7, <2>3 DEF Sound, Paired
  <2>5. k \notin out
    BY <2>1, <2>3
  <2>6. s[k] = w.status[k]
    BY <1>10, <2>3, <2>5
  <2>7. ~log[k].fade
    BY <1>3, <2>3, <2>4, <2>5
  <2>8. QED
    BY <1>13, <2>1, <2>3, <2>6, <2>7 DEF Airs
<1>15. Airing(u) /\ Faded(u)
  BY <1>14 DEF Airing, Faded, Fading
<1>16. Plays(w, u)
  <2>1. Single(u)
    BY <1>15 DEF Single, Faded
  <2>2. \A d \in Decks : u.deck[d].state = "Stopping" =>
          \/ w.deck[d].state = "Stopping"
          \/ w.deck[d].state = "Playing" /\ log[w.deck[d].line].fade
    BY <1>8, <1>9, <1>13
  <2>3. QED
    BY <1>15, <2>1, <2>2 DEF Plays
<1>17. Sound(u)
  <2>1. \A d \in Decks : /\ u.deck[d].busy = w.deck[d].busy
                         /\ u.deck[d].line = w.deck[d].line
                         /\ u.deck[d].wired = w.deck[d].wired
    <3>1. \A d \in Decks : StopDeck(w, d).deck[d].wired = w.deck[d].wired
      BY <1>1, StopDeckKeeps
    <3>2. \A d \in Decks : e[d] = w.deck[d] \/ e[d] = StopDeck(w, d).deck[d]
      BY DEF e
    <3>3. QED
      BY <1>6, <1>13, <3>1, <3>2
  <2>2. \A k \in Lines : \/ u.status[k] = w.status[k]
                         \/ w.status[k] = "Playing" /\ u.status[k] = "Finishing"
    BY <1>3, <1>10, <1>13
  <2>3. QED
    BY <1>13, <2>1, <2>2, SoundSame
<1>18. Plays(w, StopMacro(u)) /\ Faded(StopMacro(u))
  <2>1. Fewer(u, StopMacro(u)) /\ StopMacro(u).deck = u.deck
    BY <1>17, MacroFewer
  <2>2. Airing(StopMacro(u)) /\ (Single(u) => Single(StopMacro(u)))
    BY <1>15, <2>1, FewerPlays DEF Plays, AtMost, Single, Fading
  <2>3. Faded(StopMacro(u))
    BY <1>15, <2>1 DEF Faded, Fading
  <2>4. QED
    BY <1>16, <2>1, <2>2, <2>3 DEF Plays
<1>19. Plays(w, w)
  BY FewerSame, FewerPlays
<1>20. QED
  BY <1>2, <1>18, <1>19 DEF z

\* A line that starts by a segue.
LEMMA StartPlays ==
  ASSUME NEW w, Sound(w), Airing(w), Setting, NEW k \in Lines,
         w.status[k] \in {"Scheduled", "Paused"}
  PROVE  Plays(w, StartEvent(w, k, "Segue"))
<1> DEFINE z == Transition(w, "Segue")
<1> DEFINE j == SetStatus(z, k, "Finished")
<1> DEFINE i == AssignNext(j, k)
<1> DEFINE v == StartEvent(w, k, "Segue")
<1>1. Sound(z) /\ (Audio(k) => z.status[k] = w.status[k])
  BY TransitionSound
<1>2. Plays(w, z) /\ Airing(z) /\ (mode # "Manual" => Faded(z))
  BY TransitionPlays DEF Plays
<1>3. \/ Instant(k) /\ v = Within(FinishEvent(i))
      \/ /\ Audio(k) /\ ~log[k].ok /\ FreeDecks(z) # {}
         /\ v = Fake(z, k)
      \/ v = z
      \/ /\ Audio(k) => log[k].ok
         /\ v = Within(PlayLine(z, k))
  BY DEF StartEvent, Audio, Instant
<1> HIDE DEF z, v
<1>4. ASSUME Instant(k) PROVE AtMost(z, Within(FinishEvent(i)))
  <2>1. ~Audio(k)
    BY <1>4 DEF Instant, Audio
  <2>2. Sound(j) /\ Fewer(z, j)
    BY <1>1, <2>1, StatusSound, MacroFewer DEF Statuses
  <2> HIDE DEF j
  <2>3. Sound(i) /\ Fewer(j, i)
    BY <2>2, NextSound, SameFewer
  <2> HIDE DEF i
  <2>4. Fewer(z, i)
    BY <2>2, <2>3, FewerOn
  <2>5. Airing(i)
    BY <1>2, <2>4, FewerPlays DEF AtMost
  <2>6. AtMost(i, FinishEvent(i)) /\ Sound(FinishEvent(i))
    BY <2>3, <2>5, FinishPlays, FinishSound
  <2>7. Fewer(FinishEvent(i), Within(FinishEvent(i)))
    BY <2>6, SameFewer
  <2>8. AtMost(z, FinishEvent(i))
    BY <2>4, <2>6, FewerOn
  <2>9. QED
    BY <2>7, <2>8, FewerOn
<1>5. ASSUME Audio(k), ~log[k].ok, FreeDecks(z) # {} PROVE AtMost(z, Fake(z, k))
  BY <1>1, <1>2, <1>5, FakePlays
<1>6. ASSUME Audio(k) => log[k].ok PROVE AtMost(z, Within(PlayLine(z, k)))
  <2>1. Startable(z, k)
    BY <1>1, <1>6 DEF Startable
  <2>2. AtMost(z, PlayLine(z, k)) /\ Sound(PlayLine(z, k))
    BY <1>1, <2>1, PlayLineAtMost, PlayLineSound
  <2>3. Fewer(PlayLine(z, k), Within(PlayLine(z, k)))
    BY <2>2, SameFewer
  <2>4. QED
    BY <2>2, <2>3, FewerOn
<1>7. AtMost(z, z)
  BY <1>1, FewerSame DEF AtMost
<1> HIDE DEF i, j
<1>8. AtMost(z, v)
  BY <1>3, <1>4, <1>5, <1>6, <1>7
<1>9. Airing(v)
  BY <1>2, <1>8, FewerPlays
<1>10. mode # "Manual" => Single(v)
  BY <1>2, <1>8, FewerPlays DEF Plays, Single, Faded
<1>11. \A d \in Decks : v.deck[d].state = "Stopping" => z.deck[d].state = "Stopping"
  BY <1>8 DEF AtMost, Fewer, OneMore, PlaysOn
<1>12. QED
  BY <1>2, <1>9, <1>10, <1>11 DEF Plays, v

\* A handler after which only the timer is set, and the next state.
LEMMA PlaysThen ==
  ASSUME NEW w, NEW u, NEW v, Sound(u), Plays(w, u), Fewer(u, v)
  PROVE  Plays(w, v)
<1>1. Airing(v)
  BY FewerPlays DEF Plays, AtMost
<1>2. Single(u) => Single(v)
  BY DEF Fewer, PlaysOn, Single, Fading
<1>3. \A d \in Decks : PlaysOn(u, v, d)
  BY DEF Fewer
<1>4. \A d \in Decks : v.deck[d].state = "Stopping" => u.deck[d].state = "Stopping"
  BY <1>3 DEF PlaysOn
<1>5. QED
  BY <1>1, <1>2, <1>4 DEF Plays

\* The state that a handler hands over is the next.
LEMMA BecomePlays ==
  ASSUME NEW w, Sound(w), Become(w), UNCHANGED log
  PROVE  Machine' = w
BY DEF Become, Machine, Sound, MachineType

\* What one step may do to the decks.
Steps ==
  /\ Airing(Machine)'
  /\ mode # "Manual" /\ Single(Machine) => Single(Machine)'
  /\ used' = used => \A d \in Decks : deck'[d].state = "Stopping" =>
       \/ deck[d].state = "Stopping"
       \/ deck[d].state = "Playing" /\ log[deck[d].line].fade

\* A handler that may run makes such a step.
LEMMA PlaysSteps ==
  ASSUME NEW w, Sound(w), Plays(Machine, w), Become(w), UNCHANGED log
  PROVE  Steps
<1>1. Machine' = w
  BY BecomePlays
<1>2. deck' = w.deck /\ deck = Machine.deck
  BY DEF Become, Machine
<1>3. Airing(Machine)'
  BY <1>1 DEF Plays, Airing, Airs
<1>4. Single(w) => Single(Machine)'
  BY <1>1 DEF Single, Fading
<1>5. QED
  BY <1>2, <1>3, <1>4 DEF Plays, Steps

\* A segue.
LEMMA SeguePlays ==
  ASSUME NEW w, Sound(w), Airing(w), Setting
  PROVE  Plays(w, SegueToNext(w))
<1> DEFINE z == Advance(w)
<1> DEFINE f == Look(w, w.next, FALSE).line
<1> DEFINE y == StartEvent(z, f, "Segue")
<1>1. Sound(z) /\ z.status = w.status /\ Fewer(w, z)
  BY NextSound, SameFewer
<1>2. SegueToNext(w) = IF f = 0 THEN z ELSE SetTransTimer(y)
  BY DEF SegueToNext
<1>3. f # 0 => f \in Lines /\ w.status[f] \in {"Scheduled", "Paused"}
  BY LookFinds
<1> HIDE DEF z, f
<1>4. Airing(z) /\ Plays(w, z)
  BY <1>1, FewerPlays DEF Plays
<1>5. f # 0 => Plays(z, y) /\ Sound(y)
  BY <1>1, <1>3, <1>4, StartPlays, StartSound
<1> HIDE DEF y
<1>6. f # 0 => Plays(w, y) /\ Fewer(y, SetTransTimer(y))
  BY <1>1, <1>5, PlaysFrom, SameFewer
<1>7. f # 0 => Plays(w, SetTransTimer(y))
  BY <1>5, <1>6, PlaysThen
<1>8. QED
  BY <1>2, <1>4, <1>7

\* One deck that no longer plays, or plays on.
LEMMA DeckFewer ==
  ASSUME NEW w, Sound(w), NEW d \in Decks, NEW x \in DeckTypes,
         x.busy = w.deck[d].busy, x.line = w.deck[d].line, x.wired = w.deck[d].wired,
         x.state \in {w.deck[d].state, "Paused", "Stopped"}
  PROVE  /\ Fewer(w, [w EXCEPT !.deck[d] = x])
         /\ [w EXCEPT !.deck[d] = x].status = w.status
         /\ [w EXCEPT !.deck[d] = x].deck[d] = x
<1> DEFINE v == [w EXCEPT !.deck[d] = x]
<1>1. w \in MachineType /\ w.deck \in [Decks -> DeckTypes]
  BY Parts DEF Sound
<1>2. v.deck = [w.deck EXCEPT ![d] = x] /\ v.status = w.status
  BY <1>1 DEF MachineType
<1> HIDE DEF v
<1>3. \A c \in Decks : v.deck[c] = IF c = d THEN x ELSE w.deck[c]
  BY <1>1, <1>2
<1>4. \A c \in Decks : Airs(w, c) => Airs(v, c)
  BY <1>2, <1>3 DEF Airs
<1>5. \A c \in Decks : PlaysOn(w, v, c)
  BY <1>3, <1>4 DEF PlaysOn
<1>6. QED
  BY <1>2, <1>3, <1>5 DEF Fewer, v

\* The operator's commands.
LEMMA OperatorSteps ==
  ASSUME TypeOK, Sound(Machine), Airing(Machine), Operator
  PROVE  Steps
<1> DEFINE w == Machine
<1>1. Setting
  BY MachineTyped
<1>2. ASSUME NEW k \in Lines, Play(k) PROVE Steps
  <2> DEFINE look == Look(w, k, TRUE)
  <2> DEFINE f == look.line
  <2>1. UNCHANGED log
    BY <1>2 DEF Play, Command
  <2>2. CASE look.halt # 0 /\ Become(makeNext(w, look.halt))
    <3>1. look.halt \in Lines
      BY <2>2, LookFinds
    <3>2. Sound(makeNext(w, look.halt)) /\ Fewer(w, makeNext(w, look.halt))
      BY <1>1, <3>1, NextSound, SameFewer
    <3> HIDE DEF look, w
    <3>3. Plays(Machine, makeNext(w, look.halt))
      BY <3>2, FewerPlays DEF w
    <3>4. QED
      BY <2>1, <2>2, <3>2, <3>3, PlaysSteps
  <2>3. CASE f # 0 /\ Become(SetTransTimer(StartEvent(w, f, "Segue")))
    <3>1. f \in Lines /\ w.status[f] \in {"Scheduled", "Paused"}
      BY <2>3, LookFinds
    <3> HIDE DEF f, w
    <3> DEFINE y == StartEvent(w, f, "Segue")
    <3>2. Sound(y) /\ Plays(w, y)
      BY <1>1, <3>1, StartSound, StartPlays DEF w
    <3>3. Become(SetTransTimer(y))
      BY <2>3
    <3> HIDE DEF y
    <3>4. Sound(SetTransTimer(y)) /\ Fewer(y, SetTransTimer(y))
      BY <1>1, <3>2, TimerSound, SameFewer
    <3>5. Plays(Machine, SetTransTimer(y))
      BY <3>2, <3>4, PlaysThen DEF w
    <3>6. QED
      BY <2>1, <3>3, <3>4, <3>5, PlaysSteps
  <2>4. QED
    BY <1>2, <2>2, <2>3 DEF Play
<1>3. ASSUME NEW k \in Lines, Stop(k) PROVE Steps
  <2>1. UNCHANGED log /\ used' = used + 1 /\ used' # used
    BY <1>3 DEF Stop, Command, TypeOK
  <2>2. CASE Become(StopDeck(w, deckOf[k]))
    <3> DEFINE d == deckOf[k]
    <3> DEFINE v == StopDeck(w, d)
    <3>1. Machine' = v
      BY <2>1, <2>2, StopDeckSound, BecomePlays
    <3>2. v.status = w.status /\ \A c \in Decks : v.deck[c].busy = w.deck[c].busy
                                               /\ v.deck[c].line = w.deck[c].line
      BY StopDeckKeeps DEF Sound
    <3>3. \A c \in Decks : v.deck[c].state = "Playing" => w.deck[c].state = "Playing"
      <4> DEFINE x == [w.deck[d] EXCEPT !.state = "Stopping", !.stopCalled = TRUE]
      <4>1. w \in MachineType /\ w.deck \in [Decks -> DeckTypes]
        BY Parts DEF Sound
      <4>2. \/ v.deck = w.deck
            \/ v.deck = [w.deck EXCEPT ![d] = x]
        <5> HIDE DEF w
        <5>1. QED
          BY <4>1 DEF StopDeck, MachineType
      <4>3. d \in Decks => x.state = "Stopping"
        <5> HIDE DEF w
        <5>1. QED
          BY <4>1 DEF DeckTypes
      <4> HIDE DEF x, v, w, d
      <4>4. QED
        BY <4>1, <4>2, <4>3
    <3> HIDE DEF v, w
    <3>4. Airing(v) /\ (Single(w) => Single(v))
      BY <3>2, <3>3 DEF Airing, Airs, Single, Fading, w
    <3>5. Airing(Machine)' /\ (Single(w) => Single(Machine)')
      BY <2>1, <3>1, <3>4 DEF Airing, Airs, Single, Fading
    <3>6. QED
      BY <2>1, <3>5 DEF Steps, w
  <2>3. CASE Become(StopMacro(w))
    <3>1. Sound(StopMacro(w)) /\ Fewer(w, StopMacro(w))
      BY StopMacroSound, MacroFewer
    <3> HIDE DEF w
    <3>2. Plays(Machine, StopMacro(w))
      BY <3>1, FewerPlays DEF w
    <3>3. QED
      BY <2>1, <2>3, <3>1, <3>2, PlaysSteps
  <2>4. QED
    BY <1>3, <2>2, <2>3 DEF Stop
<1>4. ASSUME NEW k \in Lines, Pause(k) PROVE Steps
  <2> DEFINE d == deckOf[k]
  <2> DEFINE x == [deck[d] EXCEPT !.state = "Paused", !.pauseCalled = TRUE]
  <2>1. UNCHANGED log
    BY <1>4 DEF Pause, Command
  <2>2. d \in Decks
    BY <1>4, LogPlayAssumption DEF Pause, TypeOK, Decks
  <2>3. deck[d] \in DeckTypes /\ deck[d] = w.deck[d]
    BY <2>2 DEF TypeOK, Machine
  <2>4. Become([w EXCEPT !.deck[d] = x])
    BY <1>4 DEF Pause, Machine
  <2> HIDE DEF d
  <2>5. /\ x \in DeckTypes /\ x.busy = w.deck[d].busy /\ x.line = w.deck[d].line
        /\ x.wired = w.deck[d].wired /\ x.state = "Paused"
    BY <2>3 DEF DeckTypes
  <2> HIDE DEF x, w
  <2> DEFINE v == [w EXCEPT !.deck[d] = x]
  <2>6. Sound(v) /\ Fewer(w, v)
    BY <2>2, <2>5, SoundDeck, DeckFewer DEF w
  <2> HIDE DEF v
  <2>7. Plays(Machine, v)
    BY <2>6, FewerPlays DEF w
  <2>8. QED
    BY <2>1, <2>4, <2>6, <2>7, PlaysSteps DEF v
<1>5. ASSUME NEW k \in Lines, MakeNext(k) PROVE Steps
  <2>1. Sound(makeNext(w, k)) /\ Fewer(w, makeNext(w, k)) /\ UNCHANGED log
    BY <1>1, <1>5, NextSound, SameFewer DEF MakeNext, Command
  <2>2. Plays(Machine, makeNext(w, k))
    BY <2>1, FewerPlays
  <2>3. QED
    BY <1>5, <2>1, <2>2, PlaysSteps DEF MakeNext
<1>6. ASSUME NEW m \in Modes, SetOpMode(m) PROVE Steps
  <2>1. Become(Machine) /\ UNCHANGED log
    BY <1>6 DEF SetOpMode, Command, machine, Become, Machine
  <2>2. Plays(Machine, Machine)
    BY FewerSame, FewerPlays
  <2>3. QED
    BY <2>1, <2>2, PlaysSteps
<1>7. QED
  BY <1>2, <1>3, <1>4, <1>5, <1>6 DEF Operator

\* The answers of caed and the markers of the decks.
LEMMA DeckSteps ==
  ASSUME TypeOK, Sound(Machine), Airing(Machine), NEW d \in Decks, Deck(d)
  PROVE  Steps
<1> DEFINE w == Machine
<1> DEFINE x == deck[d]
<1> DEFINE k == x.line
<1>1. Setting
  BY MachineTyped
<1>2. x \in DeckTypes /\ x = w.deck[d]
  BY DEF TypeOK, Machine
<1>3. x.wired => k \in Lines /\ deckOf[k] = d /\ w.deckOf[k] = d /\ w.deckOf[k] # 0
  BY Numbers DEF Sound, Claimed, Machine
<1>4. CASE Confirmed(d)
  <2> DEFINE y == [x EXCEPT !.audio = "sounding"]
  <2> DEFINE v == [w EXCEPT !.deck[d] = y]
  <2>1. y \in DeckTypes /\ y.busy = x.busy /\ y.line = x.line /\ y.wired = x.wired
        /\ y.state = x.state
    BY <1>2 DEF DeckTypes
  <2>2. w.grace = 0 /\ w \in MachineType
    BY DEF Sound, Aside
  <2>3. Become([v EXCEPT !.grace = 0])
    BY <1>4, <2>2 DEF Confirmed, Machine
  <2>4. v.grace = 0
    BY <2>2 DEF MachineType
  <2> HIDE DEF y, w
  <2>5. Sound(v) /\ Fewer(w, v)
    BY <1>2, <2>1, SoundDeck, DeckFewer DEF w
  <2> HIDE DEF v
  <2>6. [v EXCEPT !.grace = 0] = v
    BY <2>4, <2>5 DEF Sound, MachineType
  <2>7. UNCHANGED log
    BY <1>4 DEF Confirmed, outside
  <2>8. Plays(Machine, v)
    BY <2>5, FewerPlays DEF w
  <2>9. QED
    BY <2>3, <2>5, <2>6, <2>7, <2>8, PlaysSteps
<1>5. CASE SessionEnds(d)
  <2> DEFINE p == [x EXCEPT !.state = "Paused",
                            !.audio = IF x.audio = "leaving" THEN "gone" ELSE "parked"]
  <2> DEFINE q == [x EXCEPT !.state = "Stopped", !.audio = "none", !.segue = "off"]
  <2> DEFINE held == [w EXCEPT !.deck[d] = p]
  <2> DEFINE over == [w EXCEPT !.deck[d] = q]
  <2>1. /\ p \in DeckTypes /\ p.busy = x.busy /\ p.line = x.line /\ p.wired = x.wired
        /\ q \in DeckTypes /\ q.busy = x.busy /\ q.line = x.line /\ q.wired = x.wired
        /\ p.state = "Paused" /\ q.state = "Stopped"
    BY <1>2 DEF DeckTypes
  <2>2. \/ Become(held) \/ Become(over)
        \/ x.wired /\ Become(Paused(held, k))
        \/ x.wired /\ Become(Cleanup(over, k))
        \/ x.wired /\ Become(Finished(over, k))
    BY <1>5, Zenon DEF SessionEnds, Machine
  <2>3. UNCHANGED log
    BY <1>5 DEF SessionEnds, outside
  <2> HIDE DEF p, q, w
  <2>4. /\ Sound(held) /\ held.deckOf = w.deckOf /\ Fewer(w, held)
        /\ Sound(over) /\ over.deckOf = w.deckOf /\ Fewer(w, over)
    BY <1>2, <2>1, SoundDeck, DeckFewer DEF w
  <2>5. held.deck[d].state = "Paused"
    <3>1. w \in MachineType /\ w.deck \in [Decks -> DeckTypes]
      BY Parts DEF Sound, w
    <3>2. held.deck = [w.deck EXCEPT ![d] = p]
      BY <3>1 DEF MachineType
    <3> HIDE DEF held
    <3>3. QED
      BY <2>1, <3>1, <3>2
  <2> HIDE DEF held, over
  <2>6. x.wired => /\ Sound(Paused(held, k)) /\ Sound(Cleanup(over, k))
                   /\ Sound(Finished(over, k))
    BY <1>1, <1>3, <2>4, PausedSound, CleanupSound, FinishedSound
  <2>7. Airing(w) /\ Plays(w, held) /\ Plays(w, over) /\ Airing(over)
    BY <2>4, FewerPlays DEF w, Plays
  <2>8. ASSUME x.wired PROVE Plays(w, Paused(held, k))
    <3> DEFINE v == Paused(held, k)
    <3>1. held.deckOf[k] = d
      BY <1>3, <2>4, <2>8
    <3>2. held \in MachineType /\ held.deck \in [Decks -> DeckTypes]
          /\ held.status \in [Lines -> Statuses]
      BY <2>4, Parts DEF Sound
    <3> DEFINE y == [held.deck[d] EXCEPT !.wired = FALSE]
    <3>3. v.deck = [held.deck EXCEPT ![d] = y]
          /\ v.status = [held.status EXCEPT ![k] = "Paused"]
      BY <3>1, <3>2 DEF Paused, SetStatus, MachineType
    <3>4. y.state = "Paused"
      BY <2>5, <3>2 DEF DeckTypes
    <3> HIDE DEF v, y
    <3>5. \A c \in Decks \ {d} : v.deck[c] = held.deck[c]
      BY <3>2, <3>3
    <3>6. v.deck[d].state = "Paused"
      BY <3>2, <3>3, <3>4
    <3>7. \A j \in Lines \ {k} : v.status[j] = held.status[j]
      BY <3>2, <3>3
    <3>8. \A c \in Decks \ {d} : Airs(held, c) => held.deck[c].line # k
      BY <1>3, <2>4, <2>8, <3>1, OwnDeck
    <3>9. \A c \in Decks : held.deck[c].busy => held.deck[c].line \in Lines
      BY <2>4 DEF Sound, Claimed
    <3>10. \A c \in Decks \ {d} : Airs(held, c) => Airs(v, c)
      BY <3>5, <3>7, <3>8, <3>9 DEF Airs
    <3>11. \A c \in Decks : PlaysOn(held, v, c)
      BY <3>5, <3>6, <3>10 DEF PlaysOn
    <3>12. Fewer(held, v)
      BY <3>11 DEF Fewer
    <3>13. QED
      BY <2>4, <2>7, <3>12, PlaysThen DEF v
  <2>9. ASSUME x.wired PROVE Plays(w, Cleanup(over, k)) /\ Plays(w, Finished(over, k))
    <3> DEFINE c == Cleanup(over, k)
    <3>1. over.deckOf[k] # 0 /\ k \in Lines
      BY <1>3, <2>4, <2>9
    <3>2. Fewer(over, c) /\ Sound(c)
      BY <2>4, <3>1, CleanedFewer, CleanupSound
    <3>3. Finished(over, k) \in {over, c, FinishEvent(c)}
      BY DEF Finished
    <3> HIDE DEF c
    <3>4. Fewer(w, c)
      BY <2>4, <3>2, FewerOn
    <3>5. Plays(w, c) /\ Airing(c)
      BY <2>7, <3>4, FewerPlays DEF Plays
    <3>6. Plays(c, FinishEvent(c))
      BY <1>1, <3>2, <3>5, FinishPlays
    <3>7. Plays(w, FinishEvent(c))
      BY <3>4, <3>6, PlaysFrom
    <3>8. QED
      BY <2>7, <3>3, <3>5, <3>7 DEF c
  <2>10. QED
    BY <2>2, <2>3, <2>4, <2>6, <2>7, <2>8, <2>9, PlaysSteps DEF w
<1>6. CASE SegueStart(d)
  <2> DEFINE y == [x EXCEPT !.segue = "inside"]
  <2> DEFINE z == [w EXCEPT !.deck[d] = y]
  <2>1. y \in DeckTypes /\ y.busy = x.busy /\ y.line = x.line /\ y.wired = x.wired
        /\ y.state = x.state
    BY <1>2 DEF DeckTypes
  <2>2. [w EXCEPT !.deck[d].segue = "inside"] = z
    BY DEF Machine
  <2>3. Become(z) \/ Become(SegueToNext(z))
    BY <1>6, <2>2 DEF SegueStart
  <2>4. UNCHANGED log
    BY <1>6 DEF SegueStart
  <2> HIDE DEF y, w
  <2>5. Sound(z) /\ Fewer(w, z)
    BY <1>2, <2>1, SoundDeck, DeckFewer DEF w
  <2> HIDE DEF z
  <2>6. Plays(w, z) /\ Airing(z)
    BY <2>5, FewerPlays DEF w, Plays
  <2>7. Plays(w, SegueToNext(z)) /\ Sound(SegueToNext(z))
    BY <1>1, <2>5, <2>6, SeguePlays, SegueSound, PlaysFrom
  <2>8. QED
    BY <2>3, <2>4, <2>5, <2>6, <2>7, PlaysSteps DEF w
<1>7. CASE SegueEnd(d)
  <2> DEFINE y == [x EXCEPT !.segue = "off"]
  <2> DEFINE z == [w EXCEPT !.deck[d] = y]
  <2>1. y \in DeckTypes /\ y.busy = x.busy /\ y.line = x.line /\ y.wired = x.wired
        /\ y.state = x.state
    BY <1>2 DEF DeckTypes
  <2>2. [w EXCEPT !.deck[d].segue = "off"] = z
    BY DEF Machine
  <2>3. Become(z) \/ (x.wired /\ Become(Cleanup(StopDeck(z, deckOf[k]), k)))
    <3>1. Become(IF x.wired /\ mode = "Auto" /\ status[k] = "Finishing"
                 THEN Cleanup(StopDeck(z, deckOf[k]), k) ELSE z)
      BY <1>7, <2>2 DEF SegueEnd
    <3> HIDE DEF z, x
    <3>2. QED
      BY <3>1
  <2>4. UNCHANGED log
    BY <1>7 DEF SegueEnd, outside
  <2> HIDE DEF y, w
  <2>5. Sound(z) /\ z.deckOf = w.deckOf /\ Fewer(w, z)
    BY <1>2, <2>1, SoundDeck, DeckFewer DEF w
  <2> HIDE DEF z
  <2>6. Plays(w, z) /\ Airing(z)
    BY <2>5, FewerPlays DEF w, Plays
  <2>7. ASSUME x.wired
        PROVE  LET v == Cleanup(StopDeck(z, deckOf[k]), k) IN Sound(v) /\ Plays(w, v)
    <3> DEFINE u == StopDeck(z, d)
    <3> DEFINE v == Cleanup(u, k)
    <3>1. deckOf[k] = d /\ z.deckOf[k] = d /\ k \in Lines /\ d # 0
      BY <1>3, <2>5, <2>7
    <3>2. z \in MachineType /\ z.deck \in [Decks -> DeckTypes]
      BY <2>5, Parts DEF Sound
    <3>3. Sound(u) /\ u \in MachineType
      BY <2>5, StopDeckSound DEF Sound
    <3>4. u.deckOf = z.deckOf /\ u.status = z.status
      BY <3>2, StopDeckKeeps
    <3>5. \A c \in Decks \ {d} : u.deck[c] = z.deck[c]
      BY <3>2 DEF StopDeck, MachineType
    <3> HIDE DEF u
    <3>6. \A c \in Decks \ {d} : Airs(z, c) => z.deck[c].line # k
      BY <2>5, <3>1, OwnDeck
    <3>7. Fewer(z, v) /\ Sound(v)
      BY <2>5, <3>1, <3>3, <3>4, <3>5, <3>6, CleanupFewer, CleanupSound
    <3>8. Plays(w, v)
      BY <2>5, <2>6, <3>7, PlaysThen
    <3>9. QED
      BY <3>1, <3>7, <3>8 DEF u
  <2>8. QED
    BY <2>3, <2>4, <2>5, <2>6, <2>7, PlaysSteps DEF w
<1>8. QED
  BY <1>4, <1>5, <1>6, <1>7 DEF Deck

\* The timers, where the transition timer only makes a line the next.
LEMMA TimersSteps ==
  ASSUME TypeOK, Sound(Machine), Airing(Machine), Unstarted,
         SegueBacktime \/ SleepTimer \/ TransTimer \/ GraceTimer
  PROVE  Steps
<1>1. Setting /\ Machine \in MachineType
  BY MachineTyped DEF Settled
<1>2. Plays(Machine, Machine)
  BY FewerSame, FewerPlays
<1>3. CASE SegueBacktime
  <2>1. UNCHANGED log /\ (Become(Machine) \/ Become(SegueToNext(Machine)))
    BY <1>3 DEF SegueBacktime
  <2>2. Sound(SegueToNext(Machine)) /\ Plays(Machine, SegueToNext(Machine))
    BY <1>1, SegueSound, SeguePlays
  <2>3. QED
    BY <1>2, <2>1, <2>2, PlaysSteps
<1>4. CASE SleepTimer
  <2> DEFINE x == [Machine EXCEPT !.macro = 0]
  <2> DEFINE f == FinishEvent(x)
  <2> DEFINE v == SetStatus(f, macro, "Finished")
  <2>1. UNCHANGED log /\ Become(v)
    BY <1>4 DEF SleepTimer, outside
  <2>2. /\ x \in MachineType /\ x.deckOf = Machine.deckOf /\ x.macro = 0
        /\ x.grace = Machine.grace /\ x.timer = Machine.timer
        /\ x.deck = Machine.deck /\ x.status = Machine.status
    BY <1>1, Numbers DEF MachineType
  <2> HIDE DEF x
  <2>3. Sound(x) /\ Fewer(Machine, x)
    BY <2>2, SoundSame, FewerSame
  <2>4. Airing(x)
    BY <2>3, FewerPlays DEF Plays
  <2>5. Sound(f) /\ Plays(x, f)
    BY <1>1, <2>3, <2>4, FinishSound, FinishPlays
  <2>6. macro \in Lines => ~Audio(macro)
    BY Numbers DEF Sound, Aside, Machine
  <2> HIDE DEF f
  <2>7. Sound(v) /\ Fewer(f, v)
    BY <2>5, <2>6, StatusSound, MacroFewer DEF Statuses
  <2>8. Plays(Machine, v)
    BY <2>3, <2>5, <2>7, PlaysThen, PlaysFrom
  <2>9. QED
    BY <2>1, <2>7, <2>8, PlaysSteps
<1>5. CASE TransTimer
  <2> DEFINE k == timer
  <2> DEFINE w == [Machine EXCEPT !.timer = 0, !.grace = 0]
  <2>1. k # 0 /\ k \in Lines /\ UNCHANGED log
    BY <1>5, LogPlayAssumption DEF TransTimer, Due, TypeOK, Lines, outside
  <2>2. log[k].hard # 0
    BY <2>1 DEF Sound, Aside, Machine
  <2>3. log[k].grace = "next"
    BY <2>1, <2>2 DEF Unstarted
  <2>4. Become(SetTransTimer(w)) \/ Become(makeNext(w, k))
    BY <1>5, <2>3 DEF TransTimer
  <2>5. /\ w \in MachineType /\ w.status = Machine.status /\ w.deck = Machine.deck
        /\ w.deckOf = Machine.deckOf /\ w.macro = Machine.macro
        /\ w.grace = Machine.grace /\ w.timer = 0
    BY <1>1, Numbers DEF MachineType, Sound, Aside
  <2> HIDE DEF w
  <2>6. Sound(w) /\ Fewer(Machine, w)
    BY <2>5, SoundFrame, FewerSame
  <2>7. /\ Sound(SetTransTimer(w)) /\ Sound(makeNext(w, k))
        /\ Fewer(w, SetTransTimer(w)) /\ Fewer(w, makeNext(w, k))
    BY <1>1, <2>1, <2>6, TimerSound, NextSound, SameFewer
  <2>8. Fewer(Machine, SetTransTimer(w)) /\ Fewer(Machine, makeNext(w, k))
    BY <2>6, <2>7, FewerOn
  <2>9. Plays(Machine, SetTransTimer(w)) /\ Plays(Machine, makeNext(w, k))
    BY <2>8, FewerPlays
  <2>10. QED
    BY <2>1, <2>4, <2>7, <2>9, PlaysSteps
<1>6. CASE GraceTimer
  BY <1>6 DEF GraceTimer, Sound, Aside, Machine
<1>7. QED
  BY <1>3, <1>4, <1>5, <1>6

\* Every step.
LEMMA StepsTaken ==
  ASSUME Unstarted, TypeOK, Sound(Machine), Airing(Machine), [Next]_vars
  PROVE  Steps
<1>1. CASE Operator
  BY <1>1, OperatorSteps
<1>2. CASE Tick \/ Standing
  <2>1. Become(Machine) /\ UNCHANGED log
    BY <1>2 DEF Tick, Standing, machine, Become, Machine
  <2>2. Plays(Machine, Machine)
    BY FewerSame, FewerPlays
  <2>3. QED
    BY <2>1, <2>2, PlaysSteps
<1>3. CASE Handler
  BY <1>3, DeckSteps, TimersSteps DEF Handler
<1>4. QED
  BY <1>1, <1>2, <1>3, WhoSteps

\* The decks that play know their lines, in a log without such hard starts.
Aired == Unstarted => Sound(Machine) /\ Airing(Machine)

\* At first no deck plays.
LEMMA InitAired == Init => Aired /\ Single(Machine)
<1> SUFFICES ASSUME Init PROVE Aired /\ Single(Machine)
  OBVIOUS
<1>1. Sound(Machine)
  BY InitSound
<1>2. \A d \in Decks : Machine.deck[d].state = "Stopped"
  BY DEF Init, Machine, IdleDeck
<1>3. Airing(Machine) /\ Single(Machine)
  BY <1>2 DEF Airing, Single, Fading
<1>4. QED
  BY <1>1, <1>3 DEF Aired

\* The log is the same all the time.
LEMMA SameLog == [Next]_vars => UNCHANGED log
<1> SUFFICES ASSUME [Next]_vars PROVE UNCHANGED log
  OBVIOUS
<1>1. CASE Standing
  BY <1>1 DEF Standing
<1>2. CASE Tick
  BY <1>2 DEF Tick
<1>3. CASE Operator
  BY <1>3 DEF Operator, Play, Stop, Pause, MakeNext, SetOpMode, Command
<1>4. CASE Handler
  BY <1>4 DEF Handler, Deck, Confirmed, SessionEnds, SegueStart, SegueEnd, SegueBacktime,
              SleepTimer, TransTimer, GraceTimer, outside
<1>5. QED
  BY <1>1, <1>2, <1>3, <1>4, WhoSteps

\* Every step keeps it.
LEMMA AiredKept ==
  ASSUME TypeOK, Aired, [Next]_vars
  PROVE  /\ Aired'
         /\ Unstarted => Steps
<1>1. Unstarted' => Unstarted
  BY SameLog DEF Unstarted
<1>2. Unstarted => Steps
  BY StepsTaken DEF Aired
<1>3. Unstarted => Sound(Machine)'
  BY SoundKept DEF Aired
<1>4. QED
  BY <1>1, <1>2, <1>3 DEF Aired, Steps

\* Where no hard start time interferes, a line that does not fade is never told
\* to stop but by the operator: neither by a segue out of it, nor by a marker or
\* a cart without a cut that ends at once behind it, nor by its own markers.
THEOREM PlaysToItsEnd == Spec => NotCutOff
<1>1. TypeOK /\ Aired /\ [Next]_vars => Aired'
  BY AiredKept
<1>2. TypeOK /\ Aired /\ [Next]_vars =>
        [used' = used /\ (\A k \in Lines : log[k].hard = 0) =>
           \A d \in Decks : deck[d].state = "Playing" /\ deck'[d].state = "Stopping"
                              => log[deck[d].line].fade]_vars
  <2> SUFFICES ASSUME TypeOK, Aired, [Next]_vars, used' = used,
                      \A k \in Lines : log[k].hard = 0,
                      NEW d \in Decks, deck[d].state = "Playing",
                      deck'[d].state = "Stopping"
               PROVE  log[deck[d].line].fade
    OBVIOUS
  <2>1. Unstarted
    BY DEF Unstarted
  <2>2. Steps
    BY <2>1, AiredKept
  <2>3. QED
    BY <2>2 DEF Steps
<1>3. QED
  BY <1>1, <1>2, InitAired, TypeCorrect, PTL DEF Spec, NotCutOff

\* Manual is an operation mode that lets lines play over each other.
NoManual == "Manual" \notin Modes

\* Lines that fade on a segue never play over one another, in the modes that
\* segue and where no hard start time starts a line by itself: whichever way
\* the operator, the markers and the answers of caed start and end them, all
\* decks but one that play them have been told to stop.
THEOREM NeverCollide ==
  ASSUME NoHardStarts, NoManual
  PROVE  Spec => []NoCollision
<1> DEFINE Inv == Aired /\ Single(Machine) /\ mode # "Manual"
<1>1. Init => Inv
  BY InitAired DEF Init
<1>2. TypeOK /\ Inv /\ [Next]_vars => Inv'
  <2> SUFFICES ASSUME TypeOK, Inv, [Next]_vars PROVE Inv'
    OBVIOUS
  <2>1. Unstarted
    BY DEF NoHardStarts, Unstarted, TypeOK
  <2>2. Aired' /\ Steps
    BY <2>1, AiredKept
  <2>3. mode' # "Manual"
    <3>1. CASE Operator
      <4>1. CASE \E m \in Modes : SetOpMode(m)
        BY <4>1 DEF SetOpMode, NoManual
      <4>2. CASE \E k \in Lines : Play(k) \/ Stop(k) \/ Pause(k) \/ MakeNext(k)
        BY <4>2 DEF Play, Stop, Pause, MakeNext
      <4>3. QED
        BY <3>1, <4>1, <4>2 DEF Operator
    <3>2. CASE Handler
      BY <3>2 DEF Handler, Deck, Confirmed, SessionEnds, SegueStart, SegueEnd, SegueBacktime,
                  SleepTimer, TransTimer, GraceTimer, outside
    <3>3. CASE Tick \/ Standing
      BY <3>3 DEF Tick, Standing
    <3>4. QED
      BY <3>1, <3>2, <3>3, WhoSteps
  <2>4. QED
    BY <2>2, <2>3 DEF Steps
<1>3. TypeOK /\ Inv => NoCollision
  <2> SUFFICES ASSUME TypeOK, Inv PROVE NoCollision
    OBVIOUS
  <2> DEFINE F == {d \in Decks : deck[d].state = "Playing" /\ log[deck[d].line].fade}
  <2>1. \A c, d \in F : c = d
    BY DEF Single, Fading, Machine
  <2>2. CASE F = {}
    BY <2>2, FS_EmptySet DEF NoCollision
  <2>3. CASE F # {}
    <3>1. PICK c \in F : TRUE
      BY <2>3
    <3>2. F = {c}
      BY <2>1, <3>1
    <3>3. Cardinality(F) = 1
      BY <3>2, FS_Singleton
    <3>4. QED
      BY <3>3 DEF NoCollision
  <2>4. QED
    BY <2>2, <2>3
<1>4. QED
  BY <1>1, <1>2, <1>3, TypeCorrect, PTL DEF Spec

-----------------------------------------------------------------------------
(* A plain log goes on *)

\* No operator's hand is on the lines and the decks, and no macro runs.
Clean(w) ==
  /\ \A k \in Lines : w.status[k] \in {"Scheduled", "Playing", "Finished"}
  /\ \A d \in Decks : w.deck[d].wired => ~w.deck[d].stopCalled /\ ~w.deck[d].pauseCalled
  /\ w.macro = 0
  /\ w.trans = [k \in Lines |-> log[k].trans]

\* The log stands at its end or before a line with a STOP transition.
Stands(w) ==
  LET f == Look(w, w.next, FALSE).line IN f # 0 => w.trans[f] = "Stop"

\* Something runs, or the log stands where it may.
Live(w) == Running(w) # {} \/ Stands(w)

\* The lines that GetNextPlayable considers, from line p on.
Eligible(w, p) ==
  {k \in Lines : /\ p # 0 /\ k >= p /\ w.status[k] = "Scheduled"
                 /\ log[k].ok \/ w.trans[k] = "Stop"}

\* The first line of a set stands before the others.
LEMMA FirstIsLeast ==
  ASSUME NEW S \in SUBSET Lines, S # {}
  PROVE  First(S) \in S /\ \A j \in S : First(S) <= j
<1>1. S \in SUBSET Nat
  BY LogPlayAssumption DEF Lines
<1>2. QED
  BY <1>1, LeastNatural DEF First

\* In Auto it chooses the first of them, to play or to be made next.
LEMMA LookChooses ==
  ASSUME NEW w \in MachineType, NEW p, mode = "Auto",
         \A k \in Lines : w.status[k] # "Paused"
  PROVE  LET C == Eligible(w, p)
             look == Look(w, p, FALSE)
         IN  /\ C = {} => look.line = 0 /\ look.halt = 0
             /\ C # {} => /\ First(C) \in C /\ \A j \in C : First(C) <= j
                          /\ IF First(C) # p /\ w.trans[First(C)] = "Stop"
                             THEN look.line = 0 /\ look.halt = First(C)
                             ELSE look.line = First(C) /\ look.halt = 0
<1> DEFINE C == Eligible(w, p)
<1> DEFINE waiting == {k \in Lines : p # 0 /\ k >= p /\ Is(w, k, {"Scheduled", "Paused"})}
<1> DEFINE halts == {k \in waiting : k # p /\ (w.trans[k] = "Stop" \/ mode = "LiveAssist")}
<1> DEFINE plays == {k \in waiting : log[k].ok \/ (w.trans[k] = "Stop" /\ ~FALSE)}
<1>1. \A k \in Lines : k \in waiting <=> p # 0 /\ k >= p /\ w.status[k] = "Scheduled"
  BY DEF Is
<1>2. waiting \subseteq Lines
  OBVIOUS
<1> HIDE DEF waiting
<1>3. halts \union plays = C
  BY <1>1, <1>2 DEF Eligible
<1>4. Look(w, p, FALSE) = LET k == First(halts \union plays) IN
        IF k \in halts THEN [line |-> 0, halt |-> k] ELSE [line |-> k, halt |-> 0]
  BY DEF Look, waiting
<1>5. \A k : k \in halts <=> k \in waiting /\ k # p /\ w.trans[k] = "Stop"
  OBVIOUS
<1>6. C \subseteq waiting
  BY <1>1 DEF Eligible
<1> HIDE DEF halts, plays
<1>7. Look(w, p, FALSE) = IF First(C) \in halts THEN [line |-> 0, halt |-> First(C)]
                          ELSE [line |-> First(C), halt |-> 0]
  BY <1>3, <1>4
<1>8. C \in SUBSET Lines
  BY DEF Eligible
<1> HIDE DEF C
<1>9. CASE C = {}
  <2>1. First(C) = 0
    BY <1>9 DEF First
  <2>2. 0 \notin halts
    BY <1>2, <1>5, Numbers
  <2>3. Look(w, p, FALSE) = [line |-> 0, halt |-> 0]
    BY <1>7, <2>1, <2>2
  <2> DEFINE look == Look(w, p, FALSE)
  <2> HIDE DEF look
  <2>5. look = [line |-> 0, halt |-> 0]
    BY <2>3 DEF look
  <2>6. look.line = 0 /\ look.halt = 0
    BY <2>5
  <2>4. QED
    BY <1>9, <2>6 DEF C, look
<1>10. CASE C # {}
  <2>1. First(C) \in C /\ \A j \in C : First(C) <= j
    BY <1>8, <1>10, FirstIsLeast
  <2>2. First(C) \in halts <=> First(C) # p /\ w.trans[First(C)] = "Stop"
    BY <1>5, <1>6, <2>1
  <2> DEFINE f == First(C)
  <2> HIDE DEF f
  <2>3. Look(w, p, FALSE) = IF f # p /\ w.trans[f] = "Stop" THEN [line |-> 0, halt |-> f]
                            ELSE [line |-> f, halt |-> 0]
    BY <1>7, <2>2 DEF f
  <2> DEFINE look == Look(w, p, FALSE)
  <2> HIDE DEF look
  <2>6. f # p /\ w.trans[f] = "Stop" => look = [line |-> 0, halt |-> f]
    BY <2>3 DEF look
  <2>7. ~(f # p /\ w.trans[f] = "Stop") => look = [line |-> f, halt |-> 0]
    BY <2>3 DEF look
  <2>8. /\ f # p /\ w.trans[f] = "Stop" => look.line = 0 /\ look.halt = f
        /\ ~(f # p /\ w.trans[f] = "Stop") => look.line = f /\ look.halt = 0
    BY <2>6, <2>7
  <2>4. IF f # p /\ w.trans[f] = "Stop"
        THEN Look(w, p, FALSE).line = 0 /\ Look(w, p, FALSE).halt = f
        ELSE Look(w, p, FALSE).line = f /\ Look(w, p, FALSE).halt = 0
    BY <2>8 DEF look
  <2>5. QED
    BY <1>10, <2>1, <2>4, Zenon DEF f, C
<1>11. QED
  BY <1>9, <1>10

\* Among them is a line that FinishEvent would start: it has a playable cut, no
\* STOP transition, and all before it are passed over.
NextUp(w, k) ==
  /\ k \in Waiting(w) /\ log[k].ok /\ w.trans[k] # "Stop"
  /\ \A j \in Waiting(w) : j < k => ~log[j].ok /\ w.trans[j] # "Stop"

\* Where there is none, GetNextPlayable comes to a stand.
LEMMA AdvanceStands ==
  ASSUME NEW w \in MachineType, mode = "Auto", \A k \in Lines : w.status[k] # "Paused",
         \A k \in Lines : ~NextUp(w, k), Setting
  PROVE  Stands(Advance(w))
<1> DEFINE p == w.next
<1> DEFINE C == Eligible(w, p)
<1> DEFINE f == First(C)
<1>1. \A k : k \in C <=> k \in Waiting(w) /\ (log[k].ok \/ w.trans[k] = "Stop")
  BY DEF Eligible, Waiting
<1>2. CASE C = {}
  <2>1. Look(w, p, FALSE).line = 0 /\ Look(w, p, FALSE).halt = 0
    BY <1>2, LookChooses
  <2>2. Advance(w) = w
    BY <2>1 DEF Advance
  <2>3. QED
    BY <2>1, <2>2 DEF Stands
<1>3. CASE C # {}
  <2>1. f \in C /\ f \in Lines /\ \A j \in C : f <= j
    BY <1>3, LookChooses DEF Eligible
  <2>2. w.trans[f] = "Stop"
    <3>1. SUFFICES ASSUME w.trans[f] # "Stop" PROVE FALSE
      OBVIOUS
    <3>2. \A j \in Waiting(w) : j < f => j \notin C
      <4>1. \A j \in Waiting(w) : j \in Lines
        BY DEF Waiting
      <4> HIDE DEF C, f
      <4>2. QED
        BY <2>1, <4>1 DEF Lines
    <3> HIDE DEF f
    <3>3. NextUp(w, f)
      BY <1>1, <2>1, <3>1, <3>2 DEF NextUp
    <3>4. QED
      BY <2>1, <3>3
  <2>3. Advance(w) = makeNext(w, f) \/ Advance(w) = [w EXCEPT !.next = f]
    <3>1. CASE f # p
      <4>1. Look(w, p, FALSE).halt = f /\ Look(w, p, FALSE).line = 0
        BY <1>3, <2>2, <3>1, LookChooses
      <4>2. f # 0
        BY <2>1, Numbers
      <4> HIDE DEF f, p
      <4>3. QED
        BY <4>1, <4>2 DEF Advance, p
    <3>2. CASE f = p
      <4>1. Look(w, p, FALSE).halt = 0 /\ Look(w, p, FALSE).line = f
        BY <1>3, <2>2, <3>2, LookChooses
      <4>2. f # 0
        BY <2>1, Numbers
      <4> HIDE DEF f, p
      <4>3. QED
        BY <4>1, <4>2 DEF Advance, p
    <3>3. QED
      BY <3>1, <3>2
  <2> DEFINE v == Advance(w)
  <2>4. v.next = f /\ v.status = w.status /\ v.trans = w.trans
    <3> HIDE DEF f, C, p
    <3>1. QED
      BY <2>3 DEF makeNext, SetTransTimer, MachineType
  <2>5. v \in MachineType
    BY NextType
  <2> HIDE DEF v
  <2>6. f \in Eligible(v, f) /\ \A j \in Eligible(v, f) : f <= j
    <3> HIDE DEF f
    <3>1. f # 0 /\ f \in Nat /\ Eligible(v, f) \subseteq {k \in Lines : k >= f}
      BY <2>1, LogPlayAssumption DEF Eligible, Lines
    <3>2. w.status[f] = "Scheduled"
      BY <1>1, <2>1 DEF Waiting
    <3>3. QED
      BY <2>1, <2>2, <2>4, <3>1, <3>2 DEF Eligible, Lines
  <2>7. First(Eligible(v, f)) = f
    <3>0. Eligible(v, f) \in SUBSET Lines /\ Eligible(v, f) # {}
      BY <2>6 DEF Eligible
    <3>1. First(Eligible(v, f)) \in Eligible(v, f)
          /\ \A j \in Eligible(v, f) : First(Eligible(v, f)) <= j
      BY <3>0, FirstIsLeast
    <3>2. \A j \in Eligible(v, f) : j \in Nat
      BY LogPlayAssumption DEF Eligible, Lines
    <3> HIDE DEF f
    <3>3. QED
      BY <2>6, <3>1, <3>2
  <2>8. Look(v, v.next, FALSE).line = f
    <3>1. \A k \in Lines : v.status[k] # "Paused"
      BY <2>4
    <3> HIDE DEF f
    <3>2. Look(v, f, FALSE).line = f
      BY <2>5, <2>6, <2>7, <3>1, LookChooses
    <3>3. QED
      BY <2>4, <3>2
  <2>9. QED
    BY <2>2, <2>4, <2>8 DEF Stands, v
<1>4. QED
  BY <1>2, <1>3

\* What leaves the lines and the decks alone.
LEMMA CleanSame ==
  ASSUME NEW w, Clean(w), NEW v, v.status = w.status, v.deck = w.deck,
         v.macro = w.macro, v.trans = w.trans
  PROVE  Clean(v) /\ Running(v) = Running(w) /\ (v.next = w.next /\ Live(w) => Live(v))
<1>1. Clean(v) /\ Running(v) = Running(w)
  BY DEF Clean, Running
<1>2. \A p : Look(v, p, FALSE) = Look(w, p, FALSE)
  BY DEF Look, Is
<1>3. v.next = w.next /\ Stands(w) => Stands(v)
  BY <1>2 DEF Stands
<1>4. QED
  BY <1>1, <1>3 DEF Live

\* The transition timer and the next line do.
LEMMA SameRest ==
  ASSUME NEW w \in MachineType
  PROVE  /\ SetTransTimer(w).macro = w.macro /\ SetTransTimer(w).trans = w.trans
         /\ SetTransTimer(w).next = w.next
         /\ \A S : /\ RearmTransTimer(w, S).macro = w.macro
                   /\ RearmTransTimer(w, S).trans = w.trans
                   /\ RearmTransTimer(w, S).next = w.next
         /\ \A k : /\ makeNext(w, k).macro = w.macro /\ makeNext(w, k).trans = w.trans
                   /\ AssignNext(w, k).macro = w.macro /\ AssignNext(w, k).trans = w.trans
         /\ Advance(w).macro = w.macro /\ Advance(w).trans = w.trans
         /\ Within(w).macro = w.macro /\ Within(w).trans = w.trans
         /\ Within(w).next = w.next \/ Within(w).next = 0
<1>1. /\ SetTransTimer(w).macro = w.macro /\ SetTransTimer(w).trans = w.trans
      /\ SetTransTimer(w).next = w.next
  BY DEF SetTransTimer, MachineType
<1>2. \A n : [w EXCEPT !.next = n].macro = w.macro /\ [w EXCEPT !.next = n].trans = w.trans
            /\ [w EXCEPT !.next = n].next = n
  BY DEF MachineType
<1>3. \A k : makeNext(w, k).macro = w.macro /\ makeNext(w, k).trans = w.trans
  BY DEF makeNext, SetTransTimer, MachineType
<1>4. \A k : AssignNext(w, k).macro = w.macro /\ AssignNext(w, k).trans = w.trans
  BY DEF AssignNext, MachineType
<1>5. Advance(w).macro = w.macro /\ Advance(w).trans = w.trans
  <2> DEFINE look == Look(w, w.next, FALSE)
  <2>1. \/ Advance(w) = makeNext(w, look.halt)
        \/ Advance(w) = [w EXCEPT !.next = look.line]
        \/ Advance(w) = w
    <3>1. CASE look.halt # 0
      BY <3>1, LookFinds DEF Advance
    <3>2. CASE look.halt = 0 /\ look.line # 0
      BY <3>2, LookFinds DEF Advance
    <3>3. CASE look.halt = 0 /\ look.line = 0
      BY <3>3 DEF Advance
    <3>4. QED
      BY <3>1, <3>2, <3>3
  <2> HIDE DEF look
  <2>2. QED
    BY <2>1, <1>2, <1>3
<1>6. /\ Within(w).macro = w.macro /\ Within(w).trans = w.trans
      /\ Within(w).next = w.next \/ Within(w).next = 0
  BY <1>2 DEF Within
<1>7. QED
  BY <1>1, <1>3, <1>4, <1>5, <1>6 DEF RearmTransTimer

\* They keep the lines clean.
LEMMA SameClean ==
  ASSUME NEW w \in MachineType, Clean(w)
  PROVE  /\ Clean(SetTransTimer(w)) /\ (Live(w) => Live(SetTransTimer(w)))
         /\ \A S : /\ Clean(RearmTransTimer(w, S))
                   /\ Live(w) => Live(RearmTransTimer(w, S))
         /\ \A k : Clean(makeNext(w, k)) /\ Clean(AssignNext(w, k))
         /\ Clean(Advance(w)) /\ Clean(Within(w))
BY SameDecks, SameRest, CleanSame

\* The end of the log is a place to stand.
LEMMA WithinLive ==
  ASSUME NEW w \in MachineType, Clean(w), Live(w), mode = "Auto"
  PROVE  Live(Within(w))
<1> DEFINE v == Within(w)
<1>1. Clean(v) /\ v.status = w.status
  BY SameClean, SameDecks
<1>2. CASE v.next = w.next
  BY <1>2, SameDecks, SameRest, CleanSame
<1>3. CASE v.next = 0
  <2>1. v \in MachineType
    <3>1. [w EXCEPT !.next = 0] \in MachineType
      BY Replaced, Numbers
    <3>2. QED
      BY <3>1 DEF Within
  <2>2. Eligible(v, 0) = {}
    BY DEF Eligible
  <2>3. \A k \in Lines : v.status[k] # "Paused"
    BY <1>1 DEF Clean
  <2> HIDE DEF v
  <2>4. Look(v, 0, FALSE).line = 0
    BY <2>1, <2>2, <2>3, LookChooses
  <2>5. QED
    BY <1>3, <2>4 DEF Live, Stands, v
<1>4. QED
  BY <1>2, <1>3, SameRest

\* A line that is cleaned up stays clean.
LEMMA CleanupClean ==
  ASSUME NEW w \in MachineType, Clean(w), NEW k \in Lines, NEW d \in Decks, w.deckOf[k] = d
  PROVE  Clean(Cleanup(w, k))
<1> DEFINE v == Cleanup(w, k)
<1>1. v.trans = w.trans
  BY DEF Cleanup, FreeDeck, SetStatus, MachineType
<1>2. /\ v.status[k] = "Finished" /\ Others(w, v, k) /\ ~v.deck[d].wired
      /\ v.macro = w.macro /\ \A c \in Decks \ {d} : v.deck[c] = w.deck[c]
  BY CleanupGives
<1> HIDE DEF v
<1>3. \A j \in Lines : v.status[j] \in {"Scheduled", "Playing", "Finished"}
  BY <1>2 DEF Clean, Others
<1>4. \A c \in Decks : v.deck[c].wired => ~v.deck[c].stopCalled /\ ~v.deck[c].pauseCalled
  BY <1>2 DEF Clean
<1>5. Clean(v)
  BY <1>1, <1>2, <1>3, <1>4 DEF Clean
<1>6. QED
  BY <1>5 DEF v

\* A deck that is loaded is clean.
LEMMA LoadClean ==
  ASSUME NEW x \in DeckTypes, NEW k
  PROVE  Load(x, k).stopCalled = FALSE /\ Load(x, k).pauseCalled = FALSE
BY DEF Load, DeckTypes

\* A line that waits starts, where a deck is free.
LEMMA PlayAudioClean ==
  ASSUME NEW w \in MachineType, Clean(w), NEW k \in Lines, w.status[k] = "Scheduled"
  PROVE  /\ Clean(PlayAudio(w, k))
         /\ IF FreeDecks(w) = {} THEN PlayAudio(w, k).status = w.status
            ELSE PlayAudio(w, k).status[k] = "Playing"
<1>0. w.deck \in [Decks -> DeckTypes] /\ w.status \in [Lines -> Statuses]
  BY Parts
<1>1. CASE FreeDecks(w) = {}
  <2> DEFINE u == PlayAudio(w, k)
  <2>1. /\ u.status = w.status /\ u.deck = w.deck
        /\ u.macro = w.macro /\ u.trans = w.trans
    BY <1>1 DEF PlayAudio, MachineType
  <2> HIDE DEF u
  <2>2. Clean(u)
    BY <2>1 DEF Clean
  <2>3. QED
    BY <1>1, <2>1, <2>2 DEF u
<1>2. CASE FreeDecks(w) # {}
  <2> DEFINE d == First(FreeDecks(w))
  <2> DEFINE y == Load(w.deck[d], k)
  <2> DEFINE u == SetStatus([w EXCEPT !.deck[d] = y, !.deckOf[k] = d], k, "Playing")
  <2>1. d \in Decks
    <3>1. FreeDecks(w) \in SUBSET Decks
      BY DEF FreeDecks
    <3>2. QED
      BY <1>2, <3>1, FirstDeck
  <2>2. PlayAudio(w, k) = AssignNext(u, k)
    BY <1>2 DEF PlayAudio
  <2> HIDE DEF d
  <2>3. y.stopCalled = FALSE /\ y.pauseCalled = FALSE
    BY <1>0, <2>1, LoadClean
  <2>4. /\ AssignNext(u, k).status = [w.status EXCEPT ![k] = "Playing"]
        /\ AssignNext(u, k).deck = [w.deck EXCEPT ![d] = y]
        /\ AssignNext(u, k).macro = w.macro /\ AssignNext(u, k).trans = w.trans
    <3> HIDE DEF y
    <3>1. QED
      BY DEF AssignNext, SetStatus, MachineType
  <2> DEFINE v == AssignNext(u, k)
  <2> HIDE DEF u, y, v
  <2>5. v.status[k] = "Playing" /\ \A j \in Lines \ {k} : v.status[j] = w.status[j]
    BY <1>0, <2>4 DEF v
  <2>6. \A j \in Lines : v.status[j] \in {"Scheduled", "Playing", "Finished"}
    BY <2>5 DEF Clean
  <2>7. \A c \in Decks : v.deck[c] = IF c = d THEN y ELSE w.deck[c]
    BY <1>0, <2>4 DEF v
  <2>8. \A c \in Decks : v.deck[c].wired => ~v.deck[c].stopCalled /\ ~v.deck[c].pauseCalled
    BY <2>3, <2>7 DEF Clean
  <2>9. Clean(v)
    BY <2>4, <2>6, <2>8 DEF Clean, v
  <2>10. QED
    BY <1>2, <2>2, <2>5, <2>9 DEF v
<1>3. QED
  BY <1>1, <1>2

\* A deck is free while nothing runs.
LEMMA DeckFree ==
  ASSUME NEW w, Sound(w), FreeDecks(w) = {}
  PROVE  Running(w) # {}
<1>1. 1 \in Decks
  BY LogPlayAssumption DEF Decks
<1>2. w.deck[1].busy
  BY <1>1 DEF FreeDecks
<1> DEFINE k == w.deck[1].line
<1>3. k \in Lines /\ w.deckOf[k] = 1
  BY <1>1, <1>2 DEF Sound, Claimed
<1>4. w.status[k] \in Runs
  BY <1>3 DEF Sound, Paired
<1>5. QED
  BY <1>3, <1>4 DEF Running, Runs

\* There are no macros.
NoMacros == \A k \in Lines : Audio(k) \/ Instant(k)

\* FinishEvent does not leave the log standing where it could go on.
LEMMA FinishLive ==
  ASSUME NEW w, Sound(w), Clean(w), Setting, NoMacros, mode = "Auto"
  PROVE  Clean(FinishEvent(w)) /\ Live(FinishEvent(w))
<1> DEFINE last == Last(Started(w))
<1> DEFINE n == [Past(w) EXCEPT !.next = last + 1]
<1> DEFINE y == Advance(n)
<1> DEFINE x == [Past(w) EXCEPT !.next = last]
<1> DEFINE p == PlayLine(x, last)
<1>0. w \in MachineType /\ w.status \in [Lines -> Statuses] /\ w.next \in Nat
  <2>1. w \in MachineType
    BY DEF Sound
  <2>2. w.next \in 0..NLines + 1 /\ w.status \in [Lines -> Statuses]
    BY <2>1, Parts
  <2>3. QED
    BY <2>1, <2>2
<1>1. CASE Started(w) = {}
  <2>1. FinishEvent(w) = Advance(w)
    BY <1>1, FinishCases
  <2>2. Clean(Advance(w)) /\ Running(Advance(w)) = Running(w)
    BY <1>0, SameDecks, SameRest, CleanSame
  <2>3. CASE Running(w) # {}
    BY <2>1, <2>2, <2>3 DEF Live
  <2>4. CASE Running(w) = {}
    <3>1. \A k \in Lines : ~NextUp(w, k)
      BY <1>1, <2>4 DEF NextUp, Started
    <3>2. Stands(Advance(w))
      BY <1>0, <3>1, AdvanceStands DEF Clean
    <3>3. QED
      BY <2>1, <2>2, <3>2 DEF Live
  <2>5. QED
    BY <2>3, <2>4
<1>2. CASE Started(w) # {}
  <2>1. last \in Lines /\ last \in Started(w)
    BY <1>2, FinishCases
  <2>2. PICK S : FinishEvent(w) = RearmTransTimer(Within(IF Instant(last) THEN y ELSE p), S)
    BY <1>2, FinishCases
  <2>3. /\ log[last].ok /\ w.status[last] = "Scheduled" /\ Running(w) = {}
        /\ w.next # 0 /\ last >= w.next /\ w.trans[last] # "Stop"
        /\ \A j \in Waiting(w) :
             j < last => w.trans[j] # "Stop" /\ (log[j].ok => Instant(j))
    BY <2>1 DEF Started, Waiting
  <2>4. Sound(Past(w)) /\ Past(w) \in MachineType
        /\ \A k \in Lines : ~Instant(k) => Past(w).status[k] = w.status[k]
    BY PastSound DEF Sound
  <2>5. /\ Past(w).deck = w.deck /\ Past(w).trans = w.trans /\ Past(w).macro = w.macro
        /\ \A k \in Lines : Past(w).status[k] = IF k \in Started(w) /\ Instant(k)
                                              THEN "Finished" ELSE w.status[k]
    BY <1>0 DEF Past, MachineType
  <2>6. Clean(Past(w))
    <3>1. \A k \in Lines : Past(w).status[k] \in {"Scheduled", "Playing", "Finished"}
      BY <2>5 DEF Clean
    <3>2. QED
      BY <2>5, <3>1 DEF Clean
  <2>7. \A k \in Started(w) : k <= last
    <3>1. Started(w) \in SUBSET Lines
      BY DEF Started, Waiting
    <3>2. QED
      BY <1>2, <3>1, LastLine DEF Last
  <2> HIDE DEF last
  <2>8. /\ n.deck = w.deck /\ n.status = Past(w).status /\ n.trans = w.trans
        /\ n.macro = w.macro /\ n.next = last + 1
        /\ x.deck = w.deck /\ x.status = Past(w).status /\ x.trans = w.trans
        /\ x.macro = w.macro
    BY <2>4, <2>5 DEF MachineType
  <2>9. Sound(n) /\ Sound(x) /\ n \in MachineType /\ x \in MachineType
    <3>1. Sound(n) /\ Sound(x)
      BY <2>1, <2>4, NextSound, Numbers
    <3>2. QED
      BY <3>1 DEF Sound
  <2> HIDE DEF n, x
  <2>10. Clean(n) /\ Clean(x)
    BY <2>5, <2>6, <2>8, CleanSame
  <2>11. ASSUME Instant(last) PROVE Clean(y) /\ Live(y) /\ y \in MachineType
    <3>1. Clean(y) /\ y \in MachineType
      BY <2>9, <2>10, SameClean, NextType
    <3>2. ASSUME NEW k \in Lines, NextUp(n, k) PROVE FALSE
      <4>1. /\ k >= last + 1 /\ Past(w).status[k] = "Scheduled"
            /\ log[k].ok /\ w.trans[k] # "Stop"
        BY <2>8, <3>2 DEF NextUp, Waiting
      <4>2. k \in Nat /\ last \in Nat
        BY <2>1, LogPlayAssumption DEF Lines
      <4>3. k > last /\ k >= w.next
        BY <1>0, <2>3, <4>1, <4>2
      <4>4. w.status[k] = "Scheduled"
        BY <2>5, <4>1
      <4>5. k \in Waiting(w)
        BY <2>3, <4>3, <4>4 DEF Waiting
      <4>6. ASSUME NEW j \in Waiting(w), j < k
            PROVE  w.trans[j] # "Stop" /\ (log[j].ok => Instant(j))
        <5>1. j \in Lines /\ j \in Nat /\ w.status[j] = "Scheduled"
          BY LogPlayAssumption DEF Waiting, Lines
        <5>2. CASE j < last
          BY <2>3, <5>2
        <5>3. CASE j = last
          BY <2>3, <2>11, <5>3
        <5>4. CASE j > last
          <6>1. j \notin Started(w)
            BY <2>7, <4>2, <5>1, <5>4
          <6>2. Past(w).status[j] = "Scheduled"
            BY <2>5, <5>1, <6>1
          <6>3. j \in Waiting(n)
            BY <2>8, <4>2, <5>1, <5>4, <6>2 DEF Waiting
          <6>4. QED
            BY <2>8, <3>2, <4>6, <6>3 DEF NextUp
        <5>5. QED
          BY <4>2, <5>1, <5>2, <5>3, <5>4
      <4>7. k \in Started(w)
        BY <2>3, <4>1, <4>5, <4>6 DEF Started
      <4>8. QED
        BY <2>7, <4>2, <4>3, <4>7
    <3>3. Stands(y)
      BY <2>9, <2>10, <3>2, AdvanceStands DEF Clean
    <3>4. QED
      BY <3>1, <3>3 DEF Live
  <2>12. ASSUME ~Instant(last) PROVE Clean(p) /\ Live(p) /\ p \in MachineType
    <3>1. p = PlayAudio(x, last) /\ Audio(last)
      BY <2>1, <2>12 DEF PlayLine, NoMacros
    <3>2. x.status[last] = "Scheduled"
      BY <2>1, <2>3, <2>4, <2>8, <2>12
    <3>3. FreeDecks(x) # {}
      <4>1. FreeDecks(w) # {}
        BY <2>3, DeckFree
      <4>2. QED
        BY <2>8, <4>1 DEF FreeDecks
    <3> HIDE DEF p
    <3>4. Clean(p) /\ p.status[last] = "Playing"
      BY <2>1, <2>9, <2>10, <3>1, <3>2, <3>3, PlayAudioClean
    <3>5. Running(p) # {}
      BY <2>1, <3>4 DEF Running
    <3>6. p \in MachineType
      BY <2>1, <2>9, <3>1, PlayAudioType
    <3>7. QED
      BY <3>4, <3>5, <3>6 DEF Live
  <2> DEFINE q == IF Instant(last) THEN y ELSE p
  <2>13. Clean(q) /\ Live(q) /\ q \in MachineType
    BY <2>11, <2>12
  <2> HIDE DEF q, y, p
  <2>14. FinishEvent(w) = RearmTransTimer(Within(q), S)
    BY <2>2 DEF q
  <2>15. Clean(Within(q)) /\ Live(Within(q)) /\ Within(q) \in MachineType
    BY <2>13, SameClean, WithinLive, NextType DEF Settled
  <2>16. QED
    BY <2>14, <2>15, SameClean
<1>3. QED
  BY <1>1, <1>2

\* A start that interrupts nothing changes nothing yet.
LEMMA TransitionClean ==
  ASSUME NEW w, Sound(w), Clean(w), Interrupted(w, "Segue") = {}
  PROVE  LET z == Transition(w, "Segue") IN
         Sound(z) /\ Clean(z) /\ z.status = w.status /\ z.deck = w.deck
<1> DEFINE out == Interrupted(w, "Segue")
<1> DEFINE e == [d \in Decks |-> IF d \in {w.deckOf[k] : k \in out}
                                 THEN StopDeck(w, d).deck[d] ELSE w.deck[d]]
<1> DEFINE s == [k \in Lines |-> IF "Segue" = "Segue" /\ k \in out
                                 THEN "Finishing" ELSE w.status[k]]
<1> DEFINE u == [w EXCEPT !.deck = e, !.status = s]
<1> DEFINE z == Transition(w, "Segue")
<1>1. w \in MachineType /\ w.deck \in [Decks -> DeckTypes] /\ w.status \in [Lines -> Statuses]
  BY Parts DEF Sound
<1>2. z = IF mode = "Manual" THEN w ELSE StopMacro(u)
  BY DEF Transition
<1>3. out = {}
  OBVIOUS
<1> HIDE DEF out
<1>4. e = w.deck /\ s = w.status
  BY <1>1, <1>3
<1> HIDE DEF e, s
<1>5. u.deck = w.deck /\ u.status = w.status /\ u.macro = w.macro /\ u.trans = w.trans
  BY <1>1, <1>4 DEF MachineType
<1> HIDE DEF u
<1>6. StopMacro(u) = u
  BY <1>5 DEF StopMacro, Clean
<1> HIDE DEF z
<1>7. z.deck = w.deck /\ z.status = w.status /\ z.macro = w.macro /\ z.trans = w.trans
  BY <1>2, <1>5, <1>6
<1>8. Clean(z) /\ Sound(z)
  BY <1>7, CleanSame, TransitionSound DEF z
<1>9. QED
  BY <1>7, <1>8 DEF z

\* A cart without a playable cut does not leave the log standing.
LEMMA FakeLive ==
  ASSUME NEW w, Sound(w), Clean(w), Setting, NoMacros, mode = "Auto",
         NEW k \in Lines, Audio(k), ~log[k].ok, FreeDecks(w) # {}
  PROVE  Clean(Fake(w, k)) /\ Live(Fake(w, k))
<1> DEFINE d == First(FreeDecks(w))
<1> DEFINE e == [w.deck EXCEPT ![d] = [@ EXCEPT !.line = k]]
<1> DEFINE g == IF log[k].hard # 0 THEN 0 ELSE w.grace
<1> DEFINE f == [w.deckOf EXCEPT ![k] = d]
<1> DEFINE x == [w EXCEPT !.deckOf = f, !.deck = e, !.grace = g]
<1> DEFINE z == Cleanup(x, k)
<1>1. d \in Decks /\ ~w.deck[d].busy
  <2>1. FreeDecks(w) \in SUBSET Decks
    BY DEF FreeDecks
  <2>2. d \in FreeDecks(w)
    BY <2>1, FirstDeck
  <2>3. QED
    BY <2>2 DEF FreeDecks
<1>2. Fake(w, k) = IF Is(z, k + 1, {"Playing", "Finishing"}) THEN z ELSE FinishEvent(z)
  BY DEF Fake
<1> HIDE DEF d
<1>3. w \in MachineType /\ w.deck \in [Decks -> DeckTypes]
      /\ w.status \in [Lines -> Statuses] /\ w.deckOf \in [Lines -> 0..NDecks]
  BY Parts DEF Sound
<1> DEFINE a == [w.deck[d] EXCEPT !.line = k]
<1>4. a \in DeckTypes /\ a.wired = w.deck[d].wired
  BY <1>1, <1>3, Numbers DEF DeckTypes
<1>5. e = [w.deck EXCEPT ![d] = a]
  OBVIOUS
<1> HIDE DEF a, e
<1>6. /\ e \in [Decks -> DeckTypes] /\ f \in [Lines -> 0..NDecks] /\ f[k] = d
      /\ \A j \in Lines \ {k} : f[j] = w.deckOf[j]
      /\ e[d] = a /\ \A c \in Decks \ {d} : e[c] = w.deck[c]
  BY <1>1, <1>3, <1>4, <1>5, Numbers
<1>7. g = 0
  BY DEF Sound, Aside
<1> HIDE DEF f, g
<1>8. /\ x \in MachineType /\ x.deckOf = f /\ x.deck = e /\ x.grace = 0
      /\ x.status = w.status /\ x.macro = w.macro /\ x.timer = w.timer
      /\ x.trans = w.trans
  BY <1>3, <1>6, <1>7, Numbers DEF MachineType
<1> HIDE DEF x
<1>9. ~w.deck[d].wired
  BY <1>1 DEF Sound, Claimed
<1>10. Clean(x)
  <2>1. \A c \in Decks : x.deck[c].wired => ~x.deck[c].stopCalled /\ ~x.deck[c].pauseCalled
    BY <1>4, <1>6, <1>8, <1>9 DEF Clean
  <2>2. QED
    BY <1>8, <2>1 DEF Clean
<1>11. Clean(z)
  BY <1>1, <1>6, <1>8, <1>10, CleanupClean
<1>12. /\ z \in MachineType
       /\ z.deckOf[k] = 0 /\ z.status[k] = "Finished" /\ Others(x, z, k)
       /\ ~z.deck[d].busy /\ ~z.deck[d].wired
       /\ \A c \in Decks \ {d} : z.deck[c] = x.deck[c]
       /\ z.macro = x.macro /\ z.grace = x.grace /\ z.timer = x.timer
  BY <1>1, <1>6, <1>8, CleanupGives
<1>13. Others(w, z, k)
  BY <1>6, <1>8, <1>12 DEF Others
<1>14. w.deckOf[k] = 0
  BY DEF Sound, Paired, Served
<1> HIDE DEF z
<1>15. Sound(z)
  BY <1>1, <1>6, <1>8, <1>12, <1>13, <1>14, Freed
<1>16. CASE Is(z, k + 1, {"Playing", "Finishing"})
  <2>1. Running(z) # {}
    BY <1>16 DEF Is, Running
  <2>2. QED
    BY <1>2, <1>11, <1>16, <2>1 DEF Live
<1>17. CASE ~Is(z, k + 1, {"Playing", "Finishing"})
  BY <1>2, <1>11, <1>15, <1>17, FinishLive
<1>18. QED
  BY <1>16, <1>17

\* Neither does a start that interrupts nothing.
LEMMA StartLive ==
  ASSUME NEW w, Sound(w), Clean(w), Setting, NoMacros, mode = "Auto", NEW k \in Lines,
         w.status[k] = "Scheduled", Interrupted(w, "Segue") = {}
  PROVE  Clean(StartEvent(w, k, "Segue")) /\ Live(StartEvent(w, k, "Segue"))
<1> DEFINE z == Transition(w, "Segue")
<1> DEFINE j == SetStatus(z, k, "Finished")
<1> DEFINE i == AssignNext(j, k)
<1> DEFINE v == StartEvent(w, k, "Segue")
<1>1. Sound(z) /\ Clean(z) /\ z.status = w.status /\ z \in MachineType
  BY TransitionClean DEF Sound
<1>2. \/ Instant(k) /\ v = Within(FinishEvent(i))
      \/ Audio(k) /\ ~log[k].ok /\ FreeDecks(z) # {} /\ v = Fake(z, k)
      \/ Audio(k) /\ ~log[k].ok /\ FreeDecks(z) = {} /\ v = z
      \/ Audio(k) /\ log[k].ok /\ v = Within(PlayLine(z, k))
  BY DEF StartEvent, Audio, Instant, NoMacros
<1> HIDE DEF z, v
<1>3. ASSUME Instant(k) PROVE LET y == Within(FinishEvent(i)) IN Clean(y) /\ Live(y)
  <2>1. ~Audio(k)
    BY <1>3 DEF Instant, Audio
  <2>2. Sound(j)
    BY <1>1, <2>1, StatusSound DEF Statuses
  <2>3. /\ j.status = [z.status EXCEPT ![k] = "Finished"] /\ j.deck = z.deck
        /\ j.macro = z.macro /\ j.trans = z.trans
    BY <1>1 DEF SetStatus, MachineType
  <2> HIDE DEF j
  <2>4. Clean(j)
    <3>1. z.status \in [Lines -> Statuses]
      BY <1>1, Parts
    <3>2. \A l \in Lines : j.status[l] \in {"Scheduled", "Playing", "Finished"}
      BY <1>1, <2>3, <3>1 DEF Clean
    <3>3. QED
      BY <1>1, <2>3, <3>2 DEF Clean
  <2>5. Sound(i) /\ Clean(i)
    BY <2>2, <2>4, NextSound, SameClean DEF Sound
  <2> HIDE DEF i
  <2>6. Clean(FinishEvent(i)) /\ Live(FinishEvent(i)) /\ FinishEvent(i) \in MachineType
    BY <2>5, FinishLive, FinishSound DEF Sound
  <2>7. QED
    BY <2>6, SameClean, WithinLive
<1>4. ASSUME Audio(k), ~log[k].ok, FreeDecks(z) # {} PROVE Clean(Fake(z, k)) /\ Live(Fake(z, k))
  BY <1>1, <1>4, FakeLive
<1>5. ASSUME Audio(k), ~log[k].ok, FreeDecks(z) = {} PROVE Clean(z) /\ Live(z)
  BY <1>1, <1>5, DeckFree DEF Live
<1>6. ASSUME Audio(k), log[k].ok
      PROVE  LET y == Within(PlayLine(z, k)) IN Clean(y) /\ Live(y)
  <2> DEFINE p == PlayLine(z, k)
  <2>1. p = PlayAudio(z, k) /\ p \in MachineType
    BY <1>1, <1>6, PlayAudioType DEF PlayLine
  <2>2. Clean(p) /\ IF FreeDecks(z) = {} THEN p.status = z.status ELSE p.status[k] = "Playing"
    BY <1>1, <2>1, PlayAudioClean
  <2> HIDE DEF p
  <2>3. Running(p) # {}
    <3>1. CASE FreeDecks(z) = {}
      BY <1>1, <2>2, <3>1, DeckFree DEF Running
    <3>2. CASE FreeDecks(z) # {}
      BY <2>2, <3>2 DEF Running
    <3>3. QED
      BY <3>1, <3>2
  <2>4. Clean(Within(p)) /\ Live(Within(p))
    BY <2>1, <2>2, <2>3, SameClean, WithinLive DEF Live
  <2>5. QED
    BY <2>4 DEF p
<1> HIDE DEF i, j
<1>7. Clean(v) /\ Live(v)
  BY <1>2, <1>3, <1>4, <1>5, <1>6
<1>8. QED
  BY <1>7 DEF v

\* What a handler leaves: the lines stand as before, or else a line had been
\* played and the machine in Auto goes on.
GoesOn(w, v) ==
  /\ Clean(v)
  /\ \/ v.status = w.status /\ v.next = w.next
     \/ mode = "Auto" /\ (\E k \in Lines : w.status[k] # "Scheduled") /\ Live(v)

\* No line has been played.
Unplayed == \A k \in Lines : status[k] = "Scheduled"

\* A segue in a plain log.
LEMMA SegueLive ==
  ASSUME NEW w, Sound(w), Clean(w), Setting, Plain, NoMacros, mode = "Auto",
         w.next \in Lines, w.trans[w.next] = "Segue", Running(w) # {}
  PROVE  Clean(SegueToNext(w)) /\ Live(SegueToNext(w))
<1> DEFINE z == Advance(w)
<1> DEFINE f == Look(w, w.next, FALSE).line
<1> DEFINE y == StartEvent(z, f, "Segue")
<1>1. w \in MachineType
  BY DEF Sound
<1>2. Sound(z) /\ Clean(z) /\ z.status = w.status /\ z.deck = w.deck
  BY <1>1, NextSound, SameDecks, SameClean
<1>3. SegueToNext(w) = IF f = 0 THEN z ELSE SetTransTimer(y)
  BY DEF SegueToNext
<1>4. f # 0 => f \in Lines /\ w.status[f] = "Scheduled"
  <2>1. f # 0 => f \in Lines /\ w.status[f] \in {"Scheduled", "Paused"}
    BY LookFinds
  <2> HIDE DEF f
  <2>2. QED
    BY <2>1 DEF Clean
<1> HIDE DEF z, f
<1>5. Interrupted(z, "Segue") = {}
  <2>1. log[w.next].trans = "Segue"
    BY DEF Clean
  <2>2. \A k \in Lines : Audio(k) /\ log[k].ok => ~log[k].fade
    BY <2>1 DEF Plain
  <2>3. \A k \in Lines : Audio(k) /\ z.status[k] = "Playing" => log[k].ok
    BY <1>2 DEF Sound, Served, Runs
  <2>4. QED
    BY <2>2, <2>3 DEF Interrupted, Is
<1>6. f # 0 => Clean(y) /\ Live(y) /\ y \in MachineType
  BY <1>2, <1>4, <1>5, StartLive, StartSound DEF Sound
<1> HIDE DEF y
<1>7. f # 0 => Clean(SetTransTimer(y)) /\ Live(SetTransTimer(y))
  BY <1>6, SameClean
<1>8. Live(z)
  BY <1>2 DEF Live, Running
<1>9. QED
  BY <1>2, <1>3, <1>7, <1>8

\* A line that ends does not leave the log standing.
LEMMA EndLive ==
  ASSUME NEW w, Sound(w), Clean(w), Setting, NoMacros, mode = "Auto",
         NEW k \in Lines, w.deckOf[k] # 0, w.status[k] = "Playing"
  PROVE  Clean(Finished(w, k)) /\ Live(Finished(w, k))
<1> DEFINE z == Cleanup(w, k)
<1>1. w.deckOf[k] \in Decks
  <2>1. w.deckOf \in [Lines -> 0..NDecks]
    BY Parts DEF Sound
  <2>2. QED
    BY <2>1, LogPlayAssumption DEF Decks
<1>2. Clean(z) /\ Sound(z)
  BY <1>1, CleanupClean, CleanupSound DEF Sound
<1>3. Finished(w, k) = IF Is(z, k + 1, {"Playing", "Finishing"}) THEN z ELSE FinishEvent(z)
  BY DEF Finished
<1> HIDE DEF z
<1>4. CASE Is(z, k + 1, {"Playing", "Finishing"})
  <2>1. Running(z) # {}
    BY <1>4 DEF Is, Running
  <2>2. QED
    BY <1>2, <1>3, <1>4, <2>1 DEF Live
<1>5. CASE ~Is(z, k + 1, {"Playing", "Finishing"})
  BY <1>2, <1>3, <1>5, FinishLive
<1>6. QED
  BY <1>4, <1>5

\* Where lines and next are the same, the log stands where it stood.
LEMMA LiveSame ==
  ASSUME NEW w, Live(w), NEW v, v.status = w.status, v.trans = w.trans, v.next = w.next
  PROVE  Live(v)
<1>1. Running(v) = Running(w)
  BY DEF Running
<1>2. \A p : Look(v, p, FALSE) = Look(w, p, FALSE)
  BY DEF Look, Is
<1>3. QED
  BY <1>1, <1>2 DEF Live, Stands

\* What a handler does to a plain log.
Continues ==
  /\ Clean(Machine)'
  /\ \/ status' = status /\ next' = next
     \/ mode = "Auto" /\ ~Unplayed /\ Live(Machine)'

\* A machine state is as clean and live after it has become the next.
LEMMA NextLive ==
  ASSUME NEW v, Machine' = v, UNCHANGED <<log, mode>>
  PROVE  /\ Clean(v) => Clean(Machine)'
         /\ Live(v) => Live(Machine)'
<1>1. Clean(v) => Clean(Machine)'
  BY DEF Clean
<1>2. Running(Machine)' = Running(v)
  BY DEF Running
<1>3. Look(Machine, Machine.next, FALSE)' = Look(v, v.next, FALSE)
  <2>1. \A p : Look(v, p, FALSE)' = Look(v, p, FALSE)
    BY DEF Look, First, Is
  <2>2. QED
    BY <2>1
<1>4. Stands(v) => Stands(Machine)'
  BY <1>3 DEF Stands
<1>5. QED
  BY <1>1, <1>2, <1>4 DEF Live

\* The state that a handler hands over is the next.
LEMMA GoesContinues ==
  ASSUME NEW v, Sound(v), Become(v), UNCHANGED <<log, mode>>, GoesOn(Machine, v)
  PROVE  Continues
<1>1. Machine' = v
  BY BecomePlays
<1>2. Machine.status = status /\ Machine.next = next
  BY DEF Machine
<1>3. status' = v.status /\ next' = v.next
  BY DEF Become
<1>4. Clean(v) => Clean(Machine)'
  BY <1>1, NextLive
<1>5. Live(v) => Live(Machine)'
  BY <1>1, NextLive
<1>6. (\E k \in Lines : Machine.status[k] # "Scheduled") => ~Unplayed
  BY <1>2 DEF Unplayed
<1>7. QED
  BY <1>2, <1>3, <1>4, <1>5, <1>6 DEF GoesOn, Continues

\* A plain log has no macros and no hard start times.
LEMMA PlainIs ==
  ASSUME Plain, Setting
  PROVE  NoMacros /\ Unstarted /\ \A k \in Lines : log[k].hard = 0
BY DEF Plain, NoMacros, Audio, Instant, Macro, Unstarted, Setting, LineTypes

\* One deck that changes neither its line nor its place.
LEMMA DeckClean ==
  ASSUME NEW w, Sound(w), Clean(w), NEW d \in Decks, NEW x \in DeckTypes,
         x.wired = w.deck[d].wired, x.stopCalled = w.deck[d].stopCalled,
         x.pauseCalled = w.deck[d].pauseCalled
  PROVE  LET v == [w EXCEPT !.deck[d] = x] IN
         Clean(v) /\ v.status = w.status /\ v.next = w.next /\ v.deckOf = w.deckOf
<1> DEFINE v == [w EXCEPT !.deck[d] = x]
<1>1. w \in MachineType /\ w.deck \in [Decks -> DeckTypes]
  BY Parts DEF Sound
<1>2. /\ v.deck = [w.deck EXCEPT ![d] = x] /\ v.status = w.status /\ v.next = w.next
      /\ v.deckOf = w.deckOf /\ v.macro = w.macro /\ v.trans = w.trans
  BY <1>1 DEF MachineType
<1> HIDE DEF v
<1>3. \A c \in Decks : v.deck[c].wired => ~v.deck[c].stopCalled /\ ~v.deck[c].pauseCalled
  BY <1>1, <1>2 DEF Clean
<1>4. Clean(v)
  BY <1>2, <1>3 DEF Clean
<1>5. QED
  BY <1>2, <1>4 DEF v

\* The answers of caed and the markers of the decks.
LEMMA DeckContinues ==
  ASSUME TypeOK, Sound(Machine), Clean(Machine), Plain, Unplayed \/ mode = "Auto",
         NEW d \in Decks, Deck(d)
  PROVE  Continues
<1> DEFINE w == Machine
<1> DEFINE x == deck[d]
<1> DEFINE k == x.line
<1>1. Setting /\ NoMacros
  BY MachineTyped, PlainIs
<1>2. x \in DeckTypes /\ x = w.deck[d] /\ w.status = status /\ w.next = next /\ w.trans = trans
  BY DEF TypeOK, Machine
<1>3. x.wired => k \in Lines /\ w.deckOf[k] = d /\ w.deckOf[k] # 0
  BY Numbers DEF Sound, Claimed, Machine
<1>4. x.wired => ~x.stopCalled /\ ~x.pauseCalled
  BY <1>2 DEF Clean
<1>5. k \in Lines /\ status[k] = "Playing" =>
        mode = "Auto" /\ \E j \in Lines : w.status[j] # "Scheduled"
  BY <1>2 DEF Unplayed
<1>6. CASE Confirmed(d)
  <2> DEFINE y == [x EXCEPT !.audio = "sounding"]
  <2> DEFINE v == [w EXCEPT !.deck[d] = y]
  <2>1. /\ y \in DeckTypes /\ y.busy = x.busy /\ y.line = x.line /\ y.wired = x.wired
        /\ y.stopCalled = x.stopCalled /\ y.pauseCalled = x.pauseCalled
    BY <1>2 DEF DeckTypes
  <2>2. w.grace = 0 /\ w \in MachineType
    BY DEF Sound, Aside
  <2>3. Become([v EXCEPT !.grace = 0])
    BY <1>6, <2>2 DEF Confirmed, Machine
  <2>4. v.grace = 0
    BY <2>2 DEF MachineType
  <2> HIDE DEF y, w
  <2>5. Sound(v) /\ Clean(v) /\ v.status = w.status /\ v.next = w.next
    BY <1>2, <2>1, SoundDeck, DeckClean DEF w
  <2> HIDE DEF v
  <2>6. [v EXCEPT !.grace = 0] = v
    BY <2>4, <2>5 DEF Sound, MachineType
  <2>7. UNCHANGED <<log, mode>>
    BY <1>6 DEF Confirmed, outside
  <2>8. GoesOn(Machine, v)
    BY <2>5 DEF GoesOn, w
  <2>9. QED
    BY <2>3, <2>5, <2>6, <2>7, <2>8, GoesContinues
<1>7. CASE SessionEnds(d)
  <2> DEFINE p == [x EXCEPT !.state = "Paused",
                            !.audio = IF x.audio = "leaving" THEN "gone" ELSE "parked"]
  <2> DEFINE q == [x EXCEPT !.state = "Stopped", !.audio = "none", !.segue = "off"]
  <2> DEFINE held == [w EXCEPT !.deck[d] = p]
  <2> DEFINE over == [w EXCEPT !.deck[d] = q]
  <2>1. /\ p \in DeckTypes /\ p.busy = x.busy /\ p.line = x.line /\ p.wired = x.wired
        /\ q \in DeckTypes /\ q.busy = x.busy /\ q.line = x.line /\ q.wired = x.wired
        /\ p.stopCalled = x.stopCalled /\ p.pauseCalled = x.pauseCalled
        /\ q.stopCalled = x.stopCalled /\ q.pauseCalled = x.pauseCalled
    BY <1>2 DEF DeckTypes
  <2>2. \/ Become(held) \/ Become(over)
        \/ x.wired /\ x.pauseCalled /\ Become(Paused(held, k))
        \/ x.wired /\ x.stopCalled /\ Become(Cleanup(over, k))
        \/ x.wired /\ Become(Finished(over, k))
    BY <1>7, Zenon DEF SessionEnds, Machine
  <2>3. UNCHANGED <<log, mode>>
    BY <1>7 DEF SessionEnds, outside
  <2> HIDE DEF p, q, w
  <2>4. /\ Sound(held) /\ Clean(held) /\ held.status = w.status /\ held.next = w.next
        /\ Sound(over) /\ Clean(over) /\ over.status = w.status /\ over.next = w.next
        /\ over.deckOf = w.deckOf
    BY <1>2, <2>1, SoundDeck, DeckClean DEF w
  <2> HIDE DEF held, over
  <2>5. GoesOn(w, held) /\ GoesOn(w, over)
    BY <2>4 DEF GoesOn
  <2>6. ASSUME x.wired PROVE Sound(Finished(over, k)) /\ GoesOn(w, Finished(over, k))
    <3>1. k \in Lines /\ over.deckOf[k] # 0
      BY <1>3, <2>4, <2>6
    <3>2. Sound(Finished(over, k))
      BY <1>1, <2>4, <3>1, FinishedSound
    <3>3. CASE over.status[k] = "Playing"
      <4>1. mode = "Auto" /\ \E j \in Lines : w.status[j] # "Scheduled"
        BY <1>2, <1>5, <2>4, <3>1, <3>3
      <4>2. Clean(Finished(over, k)) /\ Live(Finished(over, k))
        BY <1>1, <2>4, <3>1, <3>3, <4>1, EndLive
      <4>3. QED
        BY <3>2, <4>1, <4>2 DEF GoesOn
    <3>4. CASE over.status[k] # "Playing"
      <4>1. Finished(over, k) = over
        BY <3>4 DEF Finished
      <4>2. QED
        BY <2>4, <2>5, <4>1
    <3>5. QED
      BY <3>3, <3>4
  <2>7. QED
    BY <1>4, <2>2, <2>3, <2>4, <2>5, <2>6, GoesContinues DEF w
<1>8. CASE SegueStart(d)
  <2> DEFINE y == [x EXCEPT !.segue = "inside"]
  <2> DEFINE z == [w EXCEPT !.deck[d] = y]
  <2>1. /\ y \in DeckTypes /\ y.busy = x.busy /\ y.line = x.line /\ y.wired = x.wired
        /\ y.stopCalled = x.stopCalled /\ y.pauseCalled = x.pauseCalled
    BY <1>2 DEF DeckTypes
  <2>2. [w EXCEPT !.deck[d].segue = "inside"] = z
    BY DEF Machine
  <2>3. Become(z) \/ (x.wired /\ SegueDue(k) /\ Become(SegueToNext(z)))
    BY <1>8, <2>2 DEF SegueStart
  <2>4. UNCHANGED <<log, mode>>
    BY <1>8 DEF SegueStart
  <2> HIDE DEF y, w
  <2>5. Sound(z) /\ Clean(z) /\ z.status = w.status /\ z.next = w.next
    BY <1>2, <2>1, SoundDeck, DeckClean DEF w
  <2> HIDE DEF z
  <2>6. GoesOn(w, z)
    BY <2>5 DEF GoesOn
  <2>7. ASSUME x.wired, SegueDue(k) PROVE Sound(SegueToNext(z)) /\ GoesOn(w, SegueToNext(z))
    <3>1. k \in Lines /\ status[k] = "Playing" /\ mode = "Auto" /\ next # 0
          /\ trans[next] = "Segue"
      BY <1>3, <2>7 DEF SegueDue
    <3>2. z.next \in Lines /\ z.trans[z.next] = "Segue" /\ Running(z) # {}
      <4>1. next \in Lines
        BY <3>1, LogPlayAssumption DEF TypeOK, Lines
      <4>2. z.trans = w.trans
        BY <2>5 DEF Clean, w
      <4>3. QED
        BY <1>2, <2>5, <3>1, <4>1, <4>2 DEF Running
    <3>3. Clean(SegueToNext(z)) /\ Live(SegueToNext(z)) /\ Sound(SegueToNext(z))
      BY <1>1, <2>5, <3>1, <3>2, SegueLive, SegueSound
    <3>4. QED
      BY <1>5, <3>1, <3>3 DEF GoesOn
  <2>8. QED
    BY <2>3, <2>4, <2>5, <2>6, <2>7, GoesContinues DEF w
<1>9. CASE SegueEnd(d)
  <2> DEFINE y == [x EXCEPT !.segue = "off"]
  <2> DEFINE z == [w EXCEPT !.deck[d] = y]
  <2>1. /\ y \in DeckTypes /\ y.busy = x.busy /\ y.line = x.line /\ y.wired = x.wired
        /\ y.stopCalled = x.stopCalled /\ y.pauseCalled = x.pauseCalled
    BY <1>2 DEF DeckTypes
  <2>2. [w EXCEPT !.deck[d].segue = "off"] = z
    BY DEF Machine
  <2>3. ~(x.wired /\ status[k] = "Finishing")
    BY <1>2, <1>3 DEF Clean
  <2>4. Become(z)
    <3>1. Become(IF x.wired /\ mode = "Auto" /\ status[k] = "Finishing"
                 THEN Cleanup(StopDeck(z, deckOf[k]), k) ELSE z)
      BY <1>9, <2>2 DEF SegueEnd
    <3> HIDE DEF z, x, k
    <3>2. QED
      BY <2>3, <3>1
  <2>5. UNCHANGED <<log, mode>>
    BY <1>9 DEF SegueEnd, outside
  <2> HIDE DEF y, w
  <2>6. Sound(z) /\ Clean(z) /\ z.status = w.status /\ z.next = w.next
    BY <1>2, <2>1, SoundDeck, DeckClean DEF w
  <2> HIDE DEF z
  <2>7. GoesOn(Machine, z)
    BY <2>6 DEF GoesOn, w
  <2>8. QED
    BY <2>4, <2>5, <2>6, <2>7, GoesContinues
<1>10. QED
  BY <1>6, <1>7, <1>8, <1>9 DEF Deck

\* The timers: in such a log only one of them can run, that of a segue.
LEMMA TimersContinue ==
  ASSUME TypeOK, Sound(Machine), Clean(Machine), Plain, Unplayed \/ mode = "Auto",
         SegueBacktime \/ SleepTimer \/ TransTimer \/ GraceTimer
  PROVE  Continues
<1> DEFINE w == Machine
<1>1. Setting /\ NoMacros /\ \A k \in Lines : log[k].hard = 0
  BY MachineTyped, PlainIs
<1>2. w.status = status /\ w.next = next /\ w.trans = trans /\ w.macro = macro
      /\ w.timer = timer /\ w.grace = grace
  BY DEF Machine
<1>3. CASE SegueBacktime
  <2>1. \/ Become(w)
        \/ SegueDue(backtime) /\ backtime \in Lines /\ Become(SegueToNext(w))
    BY <1>3, LogPlayAssumption DEF SegueBacktime, TypeOK, Lines
  <2>2. UNCHANGED <<log, mode>>
    BY <1>3 DEF SegueBacktime
  <2> HIDE DEF w
  <2>3. GoesOn(w, w) /\ Sound(w)
    BY DEF GoesOn, w
  <2>4. ASSUME SegueDue(backtime), backtime \in Lines
        PROVE  Sound(SegueToNext(w)) /\ GoesOn(w, SegueToNext(w))
    <3>1. status[backtime] = "Playing" /\ mode = "Auto" /\ next # 0 /\ trans[next] = "Segue"
      BY <2>4 DEF SegueDue
    <3>2. w.next \in Lines /\ w.trans[w.next] = "Segue" /\ Running(w) # {}
          /\ \E j \in Lines : w.status[j] # "Scheduled"
      <4>1. next \in Lines
        BY <3>1, LogPlayAssumption DEF TypeOK, Lines
      <4>2. QED
        BY <1>2, <2>4, <3>1, <4>1 DEF Running
    <3>3. Clean(w)
      BY DEF w
    <3>4. Clean(SegueToNext(w)) /\ Live(SegueToNext(w)) /\ Sound(SegueToNext(w))
      BY <1>1, <2>3, <3>1, <3>2, <3>3, SegueLive, SegueSound
    <3>5. QED
      BY <3>1, <3>2, <3>4 DEF GoesOn
  <2>5. QED
    BY <2>1, <2>2, <2>3, <2>4, GoesContinues DEF w
<1>4. CASE SleepTimer
  BY <1>2, <1>4 DEF SleepTimer, Clean
<1>5. CASE TransTimer
  <2>1. timer \in Lines
    BY <1>5, LogPlayAssumption DEF TransTimer, Due, TypeOK, Lines
  <2>2. log[timer].hard # 0
    BY <1>2, <2>1, Numbers DEF Sound, Aside
  <2>3. QED
    BY <1>1, <2>1, <2>2
<1>6. CASE GraceTimer
  BY <1>2, <1>6 DEF GraceTimer, Sound, Aside
<1>7. QED
  BY <1>3, <1>4, <1>5, <1>6

\* The first command finds the log as it was loaded.
LEMMA FirstCommand ==
  ASSUME TypeOK, Sound(Machine), Clean(Machine), Plain, Unplayed, mode = "Auto", Operator
  PROVE  Clean(Machine)' /\ (Unplayed' \/ (mode' = "Auto" /\ Live(Machine)'))
<1> DEFINE w == Machine
<1>1. Setting /\ NoMacros
  BY MachineTyped, PlainIs
<1>2. w.status = status /\ w.deckOf = deckOf /\ w \in MachineType
  BY DEF Machine, Sound
<1>3. \A k \in Lines : Audio(k) => deckOf[k] = 0
  <2>1. \A k \in Lines : status[k] \notin Runs
    BY DEF Unplayed, Runs
  <2>2. QED
    BY <1>2, <2>1 DEF Sound, Paired
<1>4. ASSUME Continues, mode' = mode
      PROVE  Clean(Machine)' /\ (Unplayed' \/ (mode' = "Auto" /\ Live(Machine)'))
  BY <1>4 DEF Continues, Unplayed
<1>5. ASSUME NEW k \in Lines, Become(makeNext(w, k)), UNCHANGED <<log, mode>>
      PROVE  Clean(Machine)' /\ Unplayed'
  <2> DEFINE v == makeNext(w, k)
  <2>1. Sound(v) /\ Clean(v) /\ v.status = w.status
    BY <1>1, <1>2, NextSound, SameClean, SameDecks DEF Settled
  <2> HIDE DEF v
  <2>2. Machine' = v
    BY <1>5, <2>1, BecomePlays DEF v
  <2>3. status' = v.status
    BY <1>5 DEF Become, v
  <2>4. QED
    BY <1>2, <1>5, <2>1, <2>2, <2>3 DEF Clean, Unplayed
<1>6. ASSUME NEW k \in Lines, Play(k)
      PROVE  Clean(Machine)' /\ (Unplayed' \/ (mode' = "Auto" /\ Live(Machine)'))
  <2> DEFINE look == Look(w, k, TRUE)
  <2> DEFINE f == look.line
  <2>1. UNCHANGED <<log, mode>>
    BY <1>6 DEF Play, Command
  <2>2. CASE look.halt # 0 /\ Become(makeNext(w, look.halt))
    <3>1. look.halt \in Lines
      BY <2>2, LookFinds
    <3>2. QED
      BY <1>5, <2>1, <2>2, <3>1
  <2>3. CASE f # 0 /\ Become(SetTransTimer(StartEvent(w, f, "Segue")))
    <3>1. f \in Lines
      BY <2>3, LookFinds
    <3> HIDE DEF f
    <3>2. w.status[f] = "Scheduled"
      BY <1>2, <3>1 DEF Unplayed
    <3>3. Interrupted(w, "Segue") = {}
      BY <1>2, <1>3 DEF Interrupted
    <3> HIDE DEF w
    <3> DEFINE y == StartEvent(w, f, "Segue")
    <3>4. Clean(y) /\ Live(y) /\ Sound(y)
      BY <1>1, <3>1, <3>2, <3>3, StartLive, StartSound DEF w
    <3>5. Become(SetTransTimer(y))
      BY <2>3
    <3> HIDE DEF y
    <3> DEFINE v == SetTransTimer(y)
    <3>6. Clean(v) /\ Live(v) /\ Sound(v)
      BY <1>1, <3>4, SameClean, TimerSound DEF Sound
    <3>7. Become(v)
      BY <3>5
    <3> HIDE DEF v
    <3>8. Machine' = v
      BY <2>1, <3>6, <3>7, BecomePlays
    <3>9. Clean(Machine)' /\ Live(Machine)'
      BY <2>1, <3>6, <3>8, NextLive
    <3>10. QED
      BY <2>1, <3>9
  <2>4. QED
    BY <1>6, <2>2, <2>3 DEF Play
<1>7. ASSUME NEW k \in Lines PROVE ~Stop(k) /\ ~Pause(k)
  <2>1. ~Macro(k)
    BY DEF Plain
  <2>2. Audio(k) => deckOf[k] = 0
    BY <1>3
  <2>3. QED
    BY <2>1, <2>2 DEF Stop, Pause
<1>8. ASSUME NEW k \in Lines, MakeNext(k) PROVE Clean(Machine)' /\ Unplayed'
  <2>1. UNCHANGED <<log, mode>> /\ Become(makeNext(w, k))
    BY <1>8 DEF MakeNext, Command
  <2>2. QED
    BY <1>5, <2>1
<1>9. ASSUME NEW m \in Modes, SetOpMode(m) PROVE Clean(Machine)' /\ Unplayed'
  <2>1. UNCHANGED log /\ UNCHANGED machine
    BY <1>9 DEF SetOpMode, Command
  <2>2. Machine' = Machine
    BY <2>1 DEF machine, Machine
  <2>3. QED
    BY <2>1, <2>2 DEF Clean, Unplayed, machine
<1>10. QED
  BY <1>6, <1>7, <1>8, <1>9 DEF Operator

\* The invariant: as long as the operator has not started anything no line has
\* been played; from then on the machine in Auto goes on.
OnAir ==
  Plain /\ used <= 1 =>
    /\ Clean(Machine)
    /\ Unplayed \/ (mode = "Auto" /\ Live(Machine))
    /\ used = 0 => mode = "Auto" /\ Unplayed


\* At first no line has been played.
LEMMA InitOnAir == Init => OnAir
<1> SUFFICES ASSUME Init PROVE OnAir
  OBVIOUS
<1>1. Clean(Machine)
  BY DEF Init, Machine, IdleDeck, Clean
<1>2. Unplayed /\ mode = "Auto"
  BY DEF Init, Unplayed
<1>3. QED
  BY <1>1, <1>2 DEF OnAir

\* Every step keeps it.
LEMMA OnAirKept ==
  ASSUME TypeOK, Aired, OnAir, [Next]_vars
  PROVE  OnAir'
<1> SUFFICES ASSUME Plain', used' <= 1 PROVE OnAir'
  BY DEF OnAir
<1>1. UNCHANGED log
  BY SameLog
<1>2. Plain
  BY <1>1 DEF Plain, Macro, Audio
<1>3. Setting /\ Unstarted
  BY <1>2, MachineTyped, PlainIs
<1>4. Sound(Machine)
  BY <1>3 DEF Aired
<1>5. CASE Operator
  <2>1. used' = used + 1
    <3>1. CASE \E k \in Lines : Play(k) \/ Stop(k) \/ Pause(k) \/ MakeNext(k)
      <4>1. PICK k \in Lines : Play(k) \/ Stop(k) \/ Pause(k) \/ MakeNext(k)
        BY <3>1
      <4>2. \E c : Command(c)
        BY <4>1 DEF Play, Stop, Pause, MakeNext
      <4>3. QED
        BY <4>2 DEF Command
    <3>2. CASE \E m \in Modes : SetOpMode(m)
      BY <3>2 DEF SetOpMode, Command
    <3>3. QED
      BY <1>5, <3>1, <3>2 DEF Operator
  <2>2. used = 0 /\ used' # 0
    BY <2>1 DEF TypeOK
  <2>3. Clean(Machine)' /\ (Unplayed' \/ (mode' = "Auto" /\ Live(Machine)'))
    BY <1>2, <1>4, <1>5, <2>2, FirstCommand DEF OnAir
  <2>4. QED
    BY <2>2, <2>3 DEF OnAir
<1>6. CASE Handler
  <2>1. UNCHANGED <<used, mode>>
    BY <1>6 DEF Handler, Deck, Confirmed, SessionEnds, SegueStart, SegueEnd, SegueBacktime,
                SleepTimer, TransTimer, GraceTimer, outside
  <2>2. /\ Clean(Machine) /\ (Unplayed \/ (mode = "Auto" /\ Live(Machine)))
        /\ used = 0 => mode = "Auto" /\ Unplayed
    BY <1>2, <2>1 DEF OnAir
  <2>3. Continues
    BY <1>2, <1>4, <1>6, <2>2, DeckContinues, TimersContinue DEF Handler
  <2>4. Clean(Machine)'
    BY <2>3 DEF Continues
  <2>5. CASE status' = status /\ next' = next
    <3>1. Unplayed => Unplayed'
      BY <2>5 DEF Unplayed
    <3>2. Live(Machine) => Live(Machine)'
      <4>1. Running(Machine)' = Running(Machine)
        BY <2>5 DEF Running, Machine
      <4>2. trans' = trans
        BY <1>1, <2>2, <2>4 DEF Clean, Machine
      <4>3. Look(Machine, Machine.next, FALSE)' = Look(Machine, Machine.next, FALSE)
        BY <1>1, <2>1, <2>5, <4>2 DEF Look, First, Is, Machine
      <4>4. QED
        BY <4>1, <4>2, <4>3 DEF Live, Stands, Machine
    <3>3. QED
      BY <2>1, <2>2, <2>4, <3>1, <3>2 DEF OnAir
  <2>6. CASE mode = "Auto" /\ ~Unplayed /\ Live(Machine)'
    BY <2>1, <2>2, <2>4, <2>6 DEF OnAir
  <2>7. QED
    BY <2>3, <2>5, <2>6 DEF Continues
<1>7. CASE Tick \/ Standing
  <2>1. UNCHANGED <<machine, mode, used>>
    BY <1>7 DEF Tick, Standing
  <2>2. Machine' = Machine /\ status' = status
    BY <2>1 DEF machine, Machine
  <2>3. Clean(Machine) => Clean(Machine)'
    BY <1>1, <2>2 DEF Clean
  <2>4. Unplayed => Unplayed'
    BY <2>2 DEF Unplayed
  <2>5. Live(Machine) => Live(Machine)'
    <3>1. Running(Machine)' = Running(Machine)
      BY <2>2 DEF Running
    <3>2. Look(Machine, Machine.next, FALSE)' = Look(Machine, Machine.next, FALSE)
      BY <1>1, <2>1, <2>2 DEF Look, First, Is
    <3>3. QED
      BY <2>2, <3>1, <3>2 DEF Live, Stands
  <2>6. QED
    BY <1>2, <2>1, <2>3, <2>4, <2>5 DEF OnAir
<1>8. QED
  BY <1>5, <1>6, <1>7, WhoSteps

\* FinishEvent leaves the next line to start by "natural completion", and that
\* does happen: in Auto, in a log without macros, hard start times and segues
\* out of lines that fade, the air is never dead where the log could go on, up
\* to the operator's second command.
THEOREM GoesOnAir == Spec => []NoDeadAir
<1>1. TypeOK /\ Aired /\ OnAir /\ [Next]_vars => Aired' /\ OnAir'
  BY AiredKept, OnAirKept
<1>2. OnAir => NoDeadAir
  <2> SUFFICES ASSUME OnAir, Plain, used <= 1, DeadAir PROVE FALSE
    BY DEF NoDeadAir
  <2>1. ~Unplayed /\ Running(Machine) = {}
    BY DEF DeadAir, Unplayed
  <2>2. Stands(Machine)
    BY <2>1 DEF OnAir, Live
  <2>3. QED
    BY <2>2 DEF Stands, DeadAir, Machine
<1>3. QED
  BY <1>1, <1>2, InitAired, InitOnAir, TypeCorrect, PTL DEF Spec

-----------------------------------------------------------------------------
(* Hard start times are kept *)

\* The transition timer runs, and not too late for any line that waits for its
\* hard start time; it waits for lines with one only.
Armed(w) ==
  /\ w.timer \in Lines => log[w.timer].hard # 0
  /\ \A k \in Lines : w.status[k] = "Scheduled" /\ log[k].hard > now =>
       /\ w.timer \in Lines
       /\ now <= log[w.timer].hard /\ log[w.timer].hard <= log[k].hard

\* What a handler may do to the lines that wait: start some, and arm the timer
\* for the others.
Later(w, v) ==
  /\ \A k \in Lines : v.status[k] = "Scheduled" => w.status[k] = "Scheduled"
  /\ v.timer = w.timer \/ Armed(v)

\* One thing after the other.
LEMMA LaterOn ==
  ASSUME NEW w, NEW v, NEW u, Later(w, v), Later(v, u)
  PROVE  Later(w, u)
<1>1. \A k \in Lines : u.status[k] = "Scheduled" => v.status[k] = "Scheduled"
  BY DEF Later
<1>2. Armed(v) /\ u.timer = v.timer => Armed(u)
  BY <1>1 DEF Armed
<1>3. QED
  BY <1>1, <1>2 DEF Later

\* A timer that runs in time is still in time.
LEMMA LaterArmed ==
  ASSUME NEW w, NEW v, Later(w, v), Armed(w)
  PROVE  Armed(v)
BY DEF Later, Armed

\* What leaves lines and timer alone, or only makes a line other than Scheduled.
LEMMA LaterSame ==
  ASSUME NEW w, NEW v, v.timer = w.timer,
         \A k \in Lines : v.status[k] = w.status[k] \/ v.status[k] # "Scheduled"
  PROVE  Later(w, v)
BY DEF Later

\* SetTransTimer arms the timer.
LEMMA LaterTimer ==
  ASSUME NEW w \in MachineType, Setting
  PROVE  /\ Armed(SetTransTimer(w)) /\ Later(w, SetTransTimer(w))
         /\ \A S : Later(w, RearmTransTimer(w, S))
         /\ \A k \in Lines : Armed(makeNext(w, k)) /\ Later(w, makeNext(w, k))
<1>1. ASSUME NEW z \in MachineType PROVE Armed(SetTransTimer(z)) /\ Later(z, SetTransTimer(z))
  <2> DEFINE v == SetTransTimer(z)
  <2>1. v.status = z.status /\ v.timer = Soonest(z)
    BY DEF SetTransTimer, MachineType
  <2> HIDE DEF v
  <2>2. ASSUME NEW k \in Lines, v.status[k] = "Scheduled", log[k].hard > now
        PROVE  /\ v.timer \in Lines /\ now <= log[v.timer].hard
               /\ log[v.timer].hard <= log[k].hard
    <3> DEFINE s == Soonest(z)
    <3>1. s \in Lines /\ log[s].hard <= log[k].hard
      BY <2>1, <2>2, TimedLine
    <3>2. s # 0 => log[s].hard > now
      BY TimedLine
    <3> HIDE DEF s
    <3>3. log[s].hard \in Nat /\ now \in Nat
      BY <3>1, LogPlayAssumption DEF Setting, LineTypes, Times
    <3>4. now <= log[s].hard
      BY <3>1, <3>2, <3>3, Numbers
    <3>5. QED
      BY <2>1, <3>1, <3>4 DEF s
  <2>3. v.timer \in Lines => log[v.timer].hard # 0
    <3> DEFINE s == Soonest(z)
    <3>1. (s # 0 => log[s].hard > now) /\ v.timer = s
      BY <2>1, TimedLine
    <3> HIDE DEF s
    <3>2. s \in Lines => s # 0 /\ log[s].hard \in Nat /\ now \in Nat
      BY LogPlayAssumption DEF Setting, LineTypes, Times, Lines
    <3>3. QED
      BY <3>1, <3>2
  <2>4. Armed(v)
    BY <2>2, <2>3 DEF Armed
  <2>5. QED
    BY <2>1, <2>4 DEF Later, v
<1>2. \A S : Later(w, RearmTransTimer(w, S))
  BY <1>1, LaterSame DEF RearmTransTimer
<1>3. ASSUME NEW k \in Lines PROVE Armed(makeNext(w, k)) /\ Later(w, makeNext(w, k))
  <2> DEFINE z == [w EXCEPT !.next = k]
  <2>1. z \in MachineType /\ z.status = w.status /\ z.timer = w.timer
    BY Replaced, Numbers DEF MachineType
  <2>2. makeNext(w, k) = SetTransTimer(z)
    BY DEF makeNext
  <2> HIDE DEF z
  <2>3. Later(w, z)
    BY <2>1, LaterSame
  <2>4. QED
    BY <1>1, <2>1, <2>2, <2>3, LaterOn
<1>4. QED
  BY <1>1, <1>2, <1>3

\* What only chooses the next line.
LEMMA LaterNext ==
  ASSUME NEW w \in MachineType, Setting
  PROVE  /\ \A n : /\ Later(w, [w EXCEPT !.next = n])
                   /\ [w EXCEPT !.next = n].status = w.status
         /\ \A k : Later(w, AssignNext(w, k))
         /\ Later(w, Within(w)) /\ Later(w, Advance(w))
<1>1. \A n : /\ [w EXCEPT !.next = n].status = w.status
             /\ [w EXCEPT !.next = n].timer = w.timer
  BY DEF MachineType
<1>2. \A n : Later(w, [w EXCEPT !.next = n])
  BY <1>1, LaterSame
<1>3. Later(w, w)
  BY LaterSame
<1>4. \A k : Later(w, AssignNext(w, k))
  <2> SUFFICES ASSUME NEW k PROVE Later(w, AssignNext(w, k))
    OBVIOUS
  <2> DEFINE n == IF w.next = 0 THEN 0 ELSE k + 1
  <2>1. AssignNext(w, k) = [w EXCEPT !.next = n]
    BY DEF AssignNext
  <2> HIDE DEF n
  <2>2. QED
    BY <1>2, <2>1
<1>5. Later(w, Within(w))
  BY <1>2, <1>3 DEF Within
<1>6. Later(w, Advance(w))
  <2> DEFINE look == Look(w, w.next, FALSE)
  <2>1. \/ look.halt \in Lines /\ Advance(w) = makeNext(w, look.halt)
        \/ Advance(w) = [w EXCEPT !.next = look.line]
        \/ Advance(w) = w
    <3>1. CASE look.halt # 0
      BY <3>1, LookFinds DEF Advance
    <3>2. CASE look.halt = 0 /\ look.line # 0
      BY <3>2, LookFinds DEF Advance
    <3>3. CASE look.halt = 0 /\ look.line = 0
      BY <3>3 DEF Advance
    <3>4. QED
      BY <3>1, <3>2, <3>3
  <2> HIDE DEF look
  <2>2. QED
    BY <2>1, <1>2, <1>3, LaterTimer
<1>7. QED
  BY <1>1, <1>2, <1>4, <1>5, <1>6

\* What gives a line another status.
LEMMA LaterStatus ==
  ASSUME NEW w \in MachineType
  PROVE  /\ \A k, s : s # "Scheduled" => Later(w, SetStatus(w, k, s))
         /\ Later(w, StopMacro(w))
         /\ \A k : Later(w, Cleanup(w, k))
         /\ \A k : Later(w, Paused(w, k))
         /\ \A d : Later(w, StopDeck(w, d))
<1>0. w.status \in [Lines -> Statuses]
  BY Parts
<1>1. ASSUME NEW v, NEW k, NEW s, s # "Scheduled", v.timer = w.timer,
             v.status = w.status \/ v.status = [w.status EXCEPT ![k] = s]
      PROVE  Later(w, v)
  <2>1. \A j \in Lines : v.status[j] = w.status[j] \/ v.status[j] = s
    BY <1>0, <1>1
  <2>2. QED
    BY <1>1, <2>1, LaterSame
<1>2. ASSUME NEW k, NEW s, s # "Scheduled" PROVE Later(w, SetStatus(w, k, s))
  <2>1. SetStatus(w, k, s).timer = w.timer
        /\ SetStatus(w, k, s).status = [w.status EXCEPT ![k] = s]
    BY DEF SetStatus, MachineType
  <2>2. QED
    BY <1>1, <1>2, <2>1
<1>3. Later(w, StopMacro(w))
  <2>1. StopMacro(w).timer = w.timer
        /\ (\/ StopMacro(w).status = w.status
            \/ StopMacro(w).status = [w.status EXCEPT ![w.macro] = "Finished"])
    BY DEF StopMacro, MachineType
  <2>2. QED
    BY <1>1, <2>1
<1>4. ASSUME NEW k PROVE Later(w, Cleanup(w, k))
  <2>1. Cleanup(w, k).timer = w.timer
        /\ Cleanup(w, k).status = [w.status EXCEPT ![k] = "Finished"]
    BY DEF Cleanup, FreeDeck, SetStatus, MachineType
  <2>2. QED
    BY <1>1, <2>1
<1>5. ASSUME NEW k PROVE Later(w, Paused(w, k))
  <2>1. Paused(w, k).timer = w.timer
        /\ Paused(w, k).status = [w.status EXCEPT ![k] = "Paused"]
    BY DEF Paused, SetStatus, MachineType
  <2>2. QED
    BY <1>1, <2>1
<1>6. ASSUME NEW d PROVE Later(w, StopDeck(w, d))
  <2>1. StopDeck(w, d).timer = w.timer /\ StopDeck(w, d).status = w.status
    BY DEF StopDeck, MachineType
  <2>2. QED
    BY <2>1, LaterSame
<1>7. QED
  BY <1>2, <1>3, <1>4, <1>5, <1>6

\* A line that starts to play, with or without a deck for it.
LEMMA LaterPlays ==
  ASSUME NEW w \in MachineType, NEW k \in Lines, Setting
  PROVE  /\ Later(w, PlayLine(w, k))
         /\ w.status[k] = "Scheduled" /\ FreeDecks(w) # {} =>
              PlayLine(w, k).status[k] # "Scheduled"
<1>0. w.status \in [Lines -> Statuses]
  BY Parts
<1>1. CASE Audio(k)
  <2> DEFINE v == PlayAudio(w, k)
  <2>1. /\ v.timer = w.timer
        /\ v.status = w.status \/ v.status = [w.status EXCEPT ![k] = "Playing"]
        /\ w.status[k] = "Scheduled" /\ FreeDecks(w) # {} =>
             v.status = [w.status EXCEPT ![k] = "Playing"]
    <3> DEFINE d == First(FreeDecks(w))
    <3> DEFINE x == Resume(w.deck[w.deckOf[k]])
    <3> DEFINE y == Load(w.deck[d], k)
    <3>1. CASE w.status[k] = "Paused"
      <4>1. v = SetStatus([w EXCEPT !.deck[w.deckOf[k]] = x], k, "Playing")
        BY <3>1 DEF PlayAudio
      <4> HIDE DEF x
      <4>2. QED
        BY <3>1, <4>1 DEF SetStatus, MachineType
    <3>2. CASE w.status[k] # "Paused" /\ FreeDecks(w) # {}
      <4>1. v = AssignNext(SetStatus([w EXCEPT !.deck[d] = y, !.deckOf[k] = d], k, "Playing"), k)
        BY <3>2 DEF PlayAudio
      <4> HIDE DEF y, d
      <4>2. QED
        BY <3>2, <4>1 DEF AssignNext, SetStatus, MachineType
    <3>3. CASE w.status[k] # "Paused" /\ FreeDecks(w) = {}
      BY <3>3 DEF PlayAudio, MachineType
    <3>4. QED
      BY <3>1, <3>2, <3>3
  <2>2. PlayLine(w, k) = v
    BY <1>1 DEF PlayLine
  <2> HIDE DEF v
  <2>3. \A j \in Lines : v.status[j] = w.status[j] \/ v.status[j] = "Playing"
    BY <1>0, <2>1
  <2>4. QED
    BY <1>0, <2>1, <2>2, <2>3, LaterSame
<1>2. CASE ~Audio(k)
  <2> DEFINE u == SetStatus(w, k, "Playing")
  <2> DEFINE z == AssignNext(u, k)
  <2> DEFINE a == Advance(z)
  <2>1. u \in MachineType /\ Later(w, u) /\ u.status[k] = "Playing"
    <3>1. u.status = [w.status EXCEPT ![k] = "Playing"]
      BY DEF SetStatus, MachineType
    <3>2. u.status[k] = "Playing"
      BY <1>0, <3>1
    <3>3. QED
      BY <3>2, StatusType, LaterStatus DEF Statuses
  <2> HIDE DEF u
  <2>2. z \in MachineType /\ Later(w, z) /\ z.status[k] = "Playing"
    <3>1. z \in MachineType /\ Later(u, z) /\ z.status = u.status
      BY <2>1, AssignType, LaterNext, SameDecks
    <3> HIDE DEF z
    <3>2. QED
      BY <2>1, <3>1, LaterOn
  <2>3. \/ PlayLine(w, k) = [z EXCEPT !.macro = k]
        \/ PlayLine(w, k) = SetStatus(a, k, "Finished")
    <3>1. PlayLine(w, k) = RunMacro(w, k)
      BY <1>2 DEF PlayLine
    <3>2. CASE log[k].kind = "sleeper" \/ w.macro # 0
      BY <3>1, <3>2 DEF RunMacro, u
    <3>3. CASE ~(log[k].kind = "sleeper" \/ w.macro # 0)
      BY <3>1, <3>3 DEF RunMacro, u
    <3>4. QED
      BY <3>2, <3>3
  <2> HIDE DEF z
  <2>4. Later(w, [z EXCEPT !.macro = k]) /\ [z EXCEPT !.macro = k].status[k] = "Playing"
    <3>1. [z EXCEPT !.macro = k].status = z.status /\ [z EXCEPT !.macro = k].timer = z.timer
      BY <2>2 DEF MachineType
    <3>2. Later(z, [z EXCEPT !.macro = k])
      BY <3>1, LaterSame
    <3>3. QED
      BY <2>2, <3>1, <3>2, LaterOn
  <2>5. Later(w, SetStatus(a, k, "Finished")) /\ SetStatus(a, k, "Finished").status[k] = "Finished"
    <3>1. a \in MachineType /\ Later(z, a)
      BY <2>2, NextType, LaterNext
    <3> HIDE DEF a
    <3>2. Later(a, SetStatus(a, k, "Finished"))
      BY <3>1, LaterStatus
    <3>3. SetStatus(a, k, "Finished").status[k] = "Finished"
      <4>1. a.status \in [Lines -> Statuses]
        BY <3>1, Parts
      <4>2. SetStatus(a, k, "Finished").status = [a.status EXCEPT ![k] = "Finished"]
        BY <3>1 DEF SetStatus, MachineType
      <4>3. QED
        BY <4>1, <4>2
    <3>4. QED
      BY <2>2, <3>1, <3>2, <3>3, LaterOn
  <2> HIDE DEF a
  <2>6. QED
    BY <2>3, <2>4, <2>5
<1>3. QED
  BY <1>1, <1>2

\* What a start interrupts.
LEMMA LaterTransition ==
  ASSUME NEW w \in MachineType, NEW how
  PROVE  LET z == Transition(w, how) IN
         /\ Later(w, z)
         /\ FreeDecks(z) = FreeDecks(w)
<1> DEFINE out == Interrupted(w, how)
<1> DEFINE e == [d \in Decks |-> IF d \in {w.deckOf[k] : k \in out}
                                 THEN StopDeck(w, d).deck[d] ELSE w.deck[d]]
<1> DEFINE s == [k \in Lines |-> IF how = "Segue" /\ k \in out
                                 THEN "Finishing" ELSE w.status[k]]
<1> DEFINE u == [w EXCEPT !.deck = e, !.status = s]
<1> DEFINE z == Transition(w, how)
<1>1. w.deck \in [Decks -> DeckTypes] /\ w.status \in [Lines -> Statuses]
  BY Parts
<1>2. z = IF mode = "Manual" THEN w ELSE StopMacro(u)
  BY DEF Transition
<1>3. \A k \in Lines : s[k] = w.status[k] \/ s[k] = "Finishing"
  OBVIOUS
<1>4. \A d \in Decks : e[d].busy = w.deck[d].busy
  <2>1. \A d \in Decks : StopDeck(w, d).deck[d].busy = w.deck[d].busy
    BY StopDeckKeeps
  <2>2. QED
    BY <2>1
<1>5. s \in [Lines -> Statuses]
  BY <1>1 DEF Statuses
<1> HIDE DEF e, s
<1>6. u.deck = e /\ u.status = s /\ u.timer = w.timer
  BY DEF MachineType
<1>7. StopMacro(u).deck = e /\ StopMacro(u).timer = w.timer
      /\ (\/ StopMacro(u).status = s
          \/ StopMacro(u).status = [s EXCEPT ![u.macro] = "Finished"])
  BY <1>6 DEF StopMacro, MachineType
<1> HIDE DEF u, z
<1>8. z.timer = w.timer /\ (z.deck = e \/ z.deck = w.deck)
      /\ \A k \in Lines : z.status[k] = w.status[k] \/ z.status[k] # "Scheduled"
  <2>1. \A k \in Lines : \/ StopMacro(u).status[k] = w.status[k]
                         \/ StopMacro(u).status[k] # "Scheduled"
    BY <1>3, <1>5, <1>7
  <2>2. QED
    BY <1>2, <1>7, <2>1
<1>9. FreeDecks(z) = FreeDecks(w)
  BY <1>4, <1>8 DEF FreeDecks
<1>10. QED
  BY <1>8, <1>9, LaterSame DEF z

\* FinishEvent.
LEMMA LaterFinish ==
  ASSUME NEW w \in MachineType, Setting
  PROVE  Later(w, FinishEvent(w))
<1> DEFINE last == Last(Started(w))
<1> DEFINE n == [Past(w) EXCEPT !.next = last + 1]
<1> DEFINE x == [Past(w) EXCEPT !.next = last]
<1> DEFINE y == Advance(n)
<1> DEFINE p == PlayLine(x, last)
<1>1. CASE Started(w) = {}
  BY <1>1, FinishCases, LaterNext
<1>2. CASE Started(w) # {}
  <2>1. last \in Lines
    BY <1>2, FinishCases
  <2>2. PICK S : FinishEvent(w) = RearmTransTimer(Within(IF Instant(last) THEN y ELSE p), S)
    BY <1>2, FinishCases
  <2>3. Past(w) \in MachineType /\ Later(w, Past(w))
    <3> DEFINE s == [k \in Lines |-> IF k \in Started(w) /\ Instant(k)
                                     THEN "Finished" ELSE w.status[k]]
    <3>1. s \in [Lines -> Statuses]
      BY Parts DEF Statuses
    <3>2. \A k \in Lines : s[k] = w.status[k] \/ s[k] = "Finished"
      OBVIOUS
    <3>3. Past(w) = [w EXCEPT !.status = s]
      BY DEF Past
    <3> HIDE DEF s
    <3>4. Past(w).status = s /\ Past(w).timer = w.timer
      BY <3>3 DEF MachineType
    <3>5. Past(w) \in MachineType
      BY <3>1, <3>3, Replaced
    <3>6. \A k \in Lines : Past(w).status[k] = w.status[k] \/ Past(w).status[k] # "Scheduled"
      BY <3>2, <3>4
    <3>7. QED
      BY <3>4, <3>5, <3>6, LaterSame
  <2> HIDE DEF last
  <2>4. /\ n \in MachineType /\ Later(w, n)
        /\ x \in MachineType /\ Later(w, x)
    BY <2>1, <2>3, Replaced, Numbers, LaterNext, LaterOn
  <2> HIDE DEF n, x
  <2>5. y \in MachineType /\ Later(w, y)
    BY <2>4, NextType, LaterNext, LaterOn
  <2>6. p \in MachineType /\ Later(w, p)
    BY <2>1, <2>4, PlayLineType, LaterPlays, LaterOn
  <2> DEFINE q == IF Instant(last) THEN y ELSE p
  <2>7. q \in MachineType /\ Later(w, q)
    BY <2>5, <2>6
  <2> HIDE DEF y, p
  <2>8. FinishEvent(w) = RearmTransTimer(Within(q), S)
    BY <2>2
  <2> HIDE DEF q
  <2>9. Within(q) \in MachineType /\ Later(w, Within(q))
    BY <2>7, NextType, LaterNext, LaterOn DEF Settled
  <2>10. QED
    BY <2>8, <2>9, LaterTimer, LaterOn
<1>3. QED
  BY <1>1, <1>2

\* A cart without a playable cut.
LEMMA LaterFake ==
  ASSUME NEW w \in MachineType, NEW k \in Lines, Setting, FreeDecks(w) # {}
  PROVE  Later(w, Fake(w, k))
<1> DEFINE d == First(FreeDecks(w))
<1> DEFINE f == [w.deckOf EXCEPT ![k] = d]
<1> DEFINE e == [w.deck EXCEPT ![d] = [@ EXCEPT !.line = k]]
<1> DEFINE g == IF log[k].hard # 0 THEN 0 ELSE w.grace
<1> DEFINE x == [w EXCEPT !.deckOf = f, !.deck = e, !.grace = g]
<1> DEFINE z == Cleanup(x, k)
<1>1. d \in Decks
  <2>1. FreeDecks(w) \in SUBSET Decks
    BY DEF FreeDecks
  <2>2. QED
    BY <2>1, FirstDeck
<1>2. Fake(w, k) = z \/ Fake(w, k) = FinishEvent(z)
  BY DEF Fake
<1> HIDE DEF d
<1>3. f \in [Lines -> 0..NDecks] /\ g \in 0..NLines
  BY <1>1, Parts, Numbers
<1>4. e \in [Decks -> DeckTypes]
  <2>1. w.deck[d] \in DeckTypes
    BY <1>1, Parts
  <2>2. [w.deck[d] EXCEPT !.line = k] \in DeckTypes
    BY <2>1, Numbers DEF DeckTypes
  <2>3. QED
    BY <2>2, Parts
<1> HIDE DEF e, f, g
<1>5. x \in MachineType /\ x.status = w.status /\ x.timer = w.timer
  BY <1>3, <1>4 DEF MachineType
<1> HIDE DEF x
<1>6. z \in MachineType /\ Later(w, z)
  BY <1>5, CleanupType, LaterStatus, LaterSame, LaterOn
<1> HIDE DEF z
<1>7. QED
  BY <1>2, <1>6, LaterFinish, LaterOn

\* StartEvent starts its line, if there is a deck for it.
LEMMA LaterStart ==
  ASSUME NEW w \in MachineType, NEW k \in Lines, NEW how, Setting
  PROVE  /\ Later(w, StartEvent(w, k, how))
         /\ w.status[k] = "Scheduled" /\ log[k].ok /\ FreeDecks(w) # {} =>
              StartEvent(w, k, how).status[k] # "Scheduled"
<1> DEFINE z == Transition(w, how)
<1> DEFINE j == SetStatus(z, k, "Finished")
<1> DEFINE i == AssignNext(j, k)
<1> DEFINE p == PlayLine(z, k)
<1> DEFINE v == StartEvent(w, k, how)
<1>1. z \in MachineType /\ Later(w, z) /\ FreeDecks(z) = FreeDecks(w)
  BY TransitionType, LaterTransition
<1>2. \/ Instant(k) /\ v = Within(FinishEvent(i))
      \/ ~log[k].ok /\ FreeDecks(z) # {} /\ v = Fake(z, k)
      \/ ~log[k].ok /\ v = z
      \/ v = Within(p)
  BY DEF StartEvent, Audio, Instant
<1> HIDE DEF z, v
<1>3. LET y == Within(FinishEvent(i)) IN Later(w, y) /\ y.status[k] # "Scheduled"
  <2> DEFINE f == FinishEvent(i)
  <2>1. j \in MachineType /\ Later(z, j) /\ j.status[k] = "Finished"
    <3>1. z.status \in [Lines -> Statuses]
      BY <1>1, Parts
    <3>2. j.status = [z.status EXCEPT ![k] = "Finished"]
      BY <1>1 DEF SetStatus, MachineType
    <3>3. j.status[k] = "Finished"
      BY <3>1, <3>2
    <3>4. QED
      BY <1>1, <3>3, StatusType, LaterStatus DEF Statuses
  <2> HIDE DEF j
  <2>2. i \in MachineType /\ Later(j, i)
    BY <2>1, AssignType, LaterNext
  <2> HIDE DEF i
  <2>3. f \in MachineType /\ Later(i, f)
    BY <2>2, FinishType, LaterFinish
  <2> HIDE DEF f
  <2>4. Later(f, Within(f))
    BY <2>3, LaterNext
  <2>5. Later(j, Within(f))
    BY <2>2, <2>3, <2>4, LaterOn
  <2>6. Later(w, Within(f))
    BY <1>1, <2>1, <2>5, LaterOn
  <2>7. Within(f).status[k] # "Scheduled"
    BY <2>1, <2>5 DEF Later
  <2>8. QED
    BY <2>6, <2>7 DEF f
<1>4. FreeDecks(z) # {} => Later(w, Fake(z, k))
  BY <1>1, LaterFake, LaterOn
<1>5. /\ Later(w, Within(p))
      /\ w.status[k] = "Scheduled" /\ FreeDecks(w) # {} =>
           Within(p).status[k] # "Scheduled"
  <2>1. /\ p \in MachineType /\ Later(z, p)
        /\ z.status[k] = "Scheduled" /\ FreeDecks(z) # {} => p.status[k] # "Scheduled"
    BY <1>1, PlayLineType, LaterPlays
  <2> HIDE DEF p
  <2>2. Later(p, Within(p))
    BY <2>1, LaterNext
  <2>3. Later(w, Within(p))
    BY <1>1, <2>1, <2>2, LaterOn
  <2>4. z.status[k] # "Scheduled" => p.status[k] # "Scheduled"
    BY <2>1 DEF Later
  <2>5. FreeDecks(w) # {} => p.status[k] # "Scheduled"
    BY <1>1, <2>1, <2>4
  <2>6. QED
    BY <2>2, <2>3, <2>5 DEF Later
<1> HIDE DEF i, p
<1>6. QED
  BY <1>1, <1>2, <1>3, <1>4, <1>5 DEF v

\* A line that ends, and a segue.
LEMMA LaterEnd ==
  ASSUME NEW w \in MachineType, Setting
  PROVE  /\ \A k : Later(w, Finished(w, k))
         /\ Later(w, SegueToNext(w))
<1>1. ASSUME NEW k PROVE Later(w, Finished(w, k))
  <2> DEFINE z == Cleanup(w, k)
  <2>1. z \in MachineType /\ Later(w, z) /\ Later(w, w)
    BY CleanupType, LaterStatus, LaterSame
  <2>2. Finished(w, k) \in {w, z, FinishEvent(z)}
    BY DEF Finished
  <2> HIDE DEF z
  <2>3. Later(w, FinishEvent(z))
    BY <2>1, LaterFinish, LaterOn
  <2>4. QED
    BY <2>1, <2>2, <2>3
<1>2. Later(w, SegueToNext(w))
  <2> DEFINE z == Advance(w)
  <2> DEFINE f == Look(w, w.next, FALSE).line
  <2> DEFINE y == StartEvent(z, f, "Segue")
  <2>1. z \in MachineType /\ Later(w, z)
    BY NextType, LaterNext
  <2>2. SegueToNext(w) = IF f = 0 THEN z ELSE SetTransTimer(y)
    BY DEF SegueToNext
  <2>3. f # 0 => f \in Lines
    BY LookFinds
  <2> HIDE DEF z, f
  <2>4. f # 0 => y \in MachineType /\ Later(w, y)
    BY <2>1, <2>3, StartType, LaterStart, LaterOn
  <2> HIDE DEF y
  <2>5. f # 0 => Later(w, SetTransTimer(y))
    BY <2>4, LaterTimer, LaterOn
  <2>6. QED
    BY <2>1, <2>2, <2>5
<1>3. QED
  BY <1>1, <1>2

\* What a step but the transition timer's does to the lines that wait.
On ==
  /\ \A k \in Lines : status'[k] = "Scheduled" => status[k] = "Scheduled"
  /\ timer' = timer \/ Armed(Machine)'

\* The state that a handler hands over is the next.
LEMMA LaterGoes ==
  ASSUME NEW v \in MachineType, Become(v), UNCHANGED <<log, now>>, Later(Machine, v)
  PROVE  On
<1>1. Machine' = v
  BY DEF Become, Machine, MachineType
<1>2. Armed(v) => Armed(Machine)'
  BY <1>1 DEF Armed
<1>3. /\ Machine.status = status /\ Machine.timer = timer
      /\ status' = v.status /\ timer' = v.timer
  BY DEF Become, Machine
<1>4. QED
  BY <1>2, <1>3 DEF Later, On

\* The operator's commands.
LEMMA OnOperator ==
  ASSUME TypeOK, Operator
  PROVE  On
<1> DEFINE w == Machine
<1>1. w \in MachineType /\ w.next \in 0..NLines /\ Setting
  BY MachineTyped DEF Settled
<1>2. ASSUME NEW k \in Lines, Play(k) PROVE On
  <2> DEFINE look == Look(w, k, TRUE)
  <2> DEFINE y == StartEvent(w, look.line, "Segue")
  <2>1. UNCHANGED <<log, now>>
    BY <1>2 DEF Play, Command
  <2>2. CASE look.halt # 0 /\ Become(makeNext(w, look.halt))
    <3>1. look.halt \in Lines
      BY <2>2, LookFinds
    <3>2. makeNext(w, look.halt) \in MachineType /\ Later(w, makeNext(w, look.halt))
      BY <1>1, <3>1, NextType, LaterTimer DEF Settled
    <3>3. QED
      BY <2>1, <2>2, <3>2, LaterGoes
  <2>3. CASE look.line # 0 /\ Become(SetTransTimer(y))
    <3>1. look.line \in Lines
      BY <2>3, LookFinds
    <3>2. y \in MachineType /\ Later(w, y)
      BY <1>1, <3>1, StartType, LaterStart
    <3> HIDE DEF y, w
    <3>3. SetTransTimer(y) \in MachineType /\ Later(w, SetTransTimer(y))
      BY <1>1, <3>2, TimerType, LaterTimer, LaterOn
    <3>4. QED
      BY <2>1, <2>3, <3>3, LaterGoes DEF w
  <2>4. QED
    BY <1>2, <2>2, <2>3 DEF Play
<1>3. ASSUME NEW k \in Lines, Stop(k) PROVE On
  <2>1. UNCHANGED <<log, now>>
    BY <1>3 DEF Stop, Command
  <2>2. \/ Become(StopDeck(w, deckOf[k])) \/ Become(StopMacro(w))
    BY <1>3 DEF Stop
  <2>3. /\ StopDeck(w, deckOf[k]) \in MachineType /\ Later(w, StopDeck(w, deckOf[k]))
        /\ StopMacro(w) \in MachineType /\ Later(w, StopMacro(w))
    BY <1>1, StopDeckType, StopMacroType, LaterStatus
  <2>4. QED
    BY <2>1, <2>2, <2>3, LaterGoes
<1>4. ASSUME NEW k \in Lines, Pause(k) PROVE On
  <2>1. status' = status /\ timer' = timer
    BY <1>4 DEF Pause, Become, Machine
  <2>2. QED
    BY <2>1 DEF On
<1>5. ASSUME NEW k \in Lines, MakeNext(k) PROVE On
  <2>1. UNCHANGED <<log, now>> /\ Become(makeNext(w, k))
    BY <1>5 DEF MakeNext, Command
  <2>2. makeNext(w, k) \in MachineType /\ Later(w, makeNext(w, k))
    BY <1>1, NextType, LaterTimer DEF Settled
  <2>3. QED
    BY <2>1, <2>2, LaterGoes
<1>6. ASSUME NEW m \in Modes, SetOpMode(m) PROVE On
  BY <1>6 DEF SetOpMode, machine, On
<1>7. QED
  BY <1>2, <1>3, <1>4, <1>5, <1>6 DEF Operator

\* The answers of caed and the markers of the decks.
LEMMA OnDeck ==
  ASSUME TypeOK, NEW d \in Decks, Deck(d)
  PROVE  On
<1> DEFINE w == Machine
<1> DEFINE x == deck[d]
<1> DEFINE k == x.line
<1>1. w \in MachineType /\ Settled(w) /\ Setting
  BY MachineTyped DEF Settled
<1>2. x \in DeckTypes
  BY DEF TypeOK
<1>3. ASSUME NEW y \in DeckTypes
      PROVE  LET v == [w EXCEPT !.deck[d] = y] IN v \in MachineType /\ Later(w, v)
  <2> DEFINE v == [w EXCEPT !.deck[d] = y]
  <2>1. Settled(v)
    BY <1>1, OneDeck
  <2>2. v.status = w.status /\ v.timer = w.timer
    BY <1>1 DEF MachineType
  <2> HIDE DEF v, w
  <2>3. QED
    BY <2>1, <2>2, LaterSame DEF Settled, v
<1>4. CASE Confirmed(d)
  <2>1. status' = status /\ timer' = timer
    BY <1>4 DEF Confirmed, Become, Machine
  <2>2. QED
    BY <2>1 DEF On
<1>5. CASE SessionEnds(d)
  <2> DEFINE p == [x EXCEPT !.state = "Paused",
                            !.audio = IF x.audio = "leaving" THEN "gone" ELSE "parked"]
  <2> DEFINE q == [x EXCEPT !.state = "Stopped", !.audio = "none", !.segue = "off"]
  <2> DEFINE held == [w EXCEPT !.deck[d] = p]
  <2> DEFINE over == [w EXCEPT !.deck[d] = q]
  <2>1. p \in DeckTypes /\ q \in DeckTypes
    BY <1>2 DEF DeckTypes
  <2>2. \/ Become(held) \/ Become(Paused(held, k)) \/ Become(over)
        \/ Become(Cleanup(over, k)) \/ Become(Finished(over, k))
    BY <1>5, Zenon DEF SessionEnds, Machine
  <2>3. UNCHANGED <<log, now>>
    BY <1>5 DEF SessionEnds, outside
  <2> HIDE DEF p, q, w
  <2>4. /\ held \in MachineType /\ Later(w, held) /\ Settled(held)
        /\ over \in MachineType /\ Later(w, over) /\ Settled(over)
    BY <1>1, <1>3, <2>1, OneDeck
  <2> HIDE DEF held, over
  <2>5. /\ Paused(held, k) \in MachineType /\ Later(w, Paused(held, k))
        /\ Cleanup(over, k) \in MachineType /\ Later(w, Cleanup(over, k))
    <3>1. Later(held, Paused(held, k)) /\ Later(over, Cleanup(over, k))
      BY <2>4, LaterStatus
    <3>2. Settled(Paused(held, k)) /\ Settled(Cleanup(over, k))
      BY <1>1, <2>4, EndType
    <3>3. QED
      BY <2>4, <3>1, <3>2, LaterOn DEF Settled
  <2>6. Finished(over, k) \in MachineType /\ Later(w, Finished(over, k))
    <3>1. Later(over, Finished(over, k))
      BY <1>1, <2>4, LaterEnd
    <3>2. Settled(Finished(over, k))
      BY <1>1, <2>4, EndType
    <3>3. QED
      BY <2>4, <3>1, <3>2, LaterOn DEF Settled
  <2>7. QED
    BY <2>2, <2>3, <2>4, <2>5, <2>6, LaterGoes DEF w
<1>6. CASE SegueStart(d)
  <2> DEFINE y == [x EXCEPT !.segue = "inside"]
  <2> DEFINE z == [w EXCEPT !.deck[d] = y]
  <2>1. y \in DeckTypes
    BY <1>2 DEF DeckTypes
  <2>2. [w EXCEPT !.deck[d].segue = "inside"] = z
    BY DEF Machine
  <2>3. Become(z) \/ Become(SegueToNext(z))
    BY <1>6, <2>2 DEF SegueStart
  <2>4. UNCHANGED <<log, now>>
    BY <1>6 DEF SegueStart
  <2> HIDE DEF y, w
  <2>5. z \in MachineType /\ Later(w, z) /\ Settled(z)
    BY <1>1, <1>3, <2>1, OneDeck
  <2> HIDE DEF z
  <2>6. SegueToNext(z) \in MachineType /\ Later(w, SegueToNext(z))
    <3>1. Settled(SegueToNext(z)) /\ Later(z, SegueToNext(z))
      BY <1>1, <2>5, SegueType, LaterEnd
    <3>2. QED
      BY <2>5, <3>1, LaterOn DEF Settled
  <2>7. QED
    BY <2>3, <2>4, <2>5, <2>6, LaterGoes DEF w
<1>7. CASE SegueEnd(d)
  <2> DEFINE y == [x EXCEPT !.segue = "off"]
  <2> DEFINE z == [w EXCEPT !.deck[d] = y]
  <2> DEFINE u == StopDeck(z, deckOf[k])
  <2>1. y \in DeckTypes
    BY <1>2 DEF DeckTypes
  <2>2. [w EXCEPT !.deck[d].segue = "off"] = z
    BY DEF Machine
  <2>3. Become(z) \/ Become(Cleanup(u, k))
    BY <1>7, <2>2 DEF SegueEnd
  <2>4. UNCHANGED <<log, now>>
    BY <1>7 DEF SegueEnd, outside
  <2> HIDE DEF y, w
  <2>5. z \in MachineType /\ Later(w, z)
    BY <1>3, <2>1
  <2> HIDE DEF z
  <2>6. u \in MachineType /\ Later(w, u)
    BY <2>5, StopDeckType, LaterStatus, LaterOn
  <2> HIDE DEF u
  <2>7. Cleanup(u, k) \in MachineType /\ Later(w, Cleanup(u, k))
    BY <2>6, CleanupType, LaterStatus, LaterOn
  <2>8. QED
    BY <2>3, <2>4, <2>5, <2>7, LaterGoes DEF w
<1>8. QED
  BY <1>4, <1>5, <1>6, <1>7 DEF Deck

\* The other timers.
LEMMA OnTimers ==
  ASSUME TypeOK, SegueBacktime \/ SleepTimer \/ GraceTimer
  PROVE  On
<1>1. Machine \in MachineType /\ Machine.next \in 0..NLines /\ Setting /\ Settled(Machine)
  BY MachineTyped DEF Settled
<1>2. CASE SegueBacktime
  <2>1. UNCHANGED <<log, now>> /\ (Become(Machine) \/ Become(SegueToNext(Machine)))
    BY <1>2 DEF SegueBacktime
  <2>2. /\ SegueToNext(Machine) \in MachineType /\ Later(Machine, SegueToNext(Machine))
        /\ Later(Machine, Machine)
    BY <1>1, SegueType, LaterEnd, LaterSame DEF Settled
  <2>3. QED
    BY <1>1, <2>1, <2>2, LaterGoes
<1>3. CASE SleepTimer
  <2> DEFINE x == [Machine EXCEPT !.macro = 0]
  <2> DEFINE f == FinishEvent(x)
  <2> DEFINE v == SetStatus(f, macro, "Finished")
  <2>1. UNCHANGED <<log, now>> /\ Become(v)
    BY <1>3 DEF SleepTimer, outside
  <2>2. x \in MachineType /\ x.status = Machine.status /\ x.timer = Machine.timer
    BY <1>1, Numbers DEF MachineType
  <2> HIDE DEF x
  <2>3. Later(Machine, x)
    BY <2>2, LaterSame
  <2>4. f \in MachineType /\ Later(Machine, f)
    BY <1>1, <2>2, <2>3, FinishType, LaterFinish, LaterOn
  <2> HIDE DEF f
  <2>5. v \in MachineType /\ Later(f, v)
    BY <2>4, StatusType, LaterStatus DEF Statuses
  <2> HIDE DEF v
  <2>6. Later(Machine, v)
    BY <2>4, <2>5, LaterOn
  <2>7. QED
    BY <2>1, <2>5, <2>6, LaterGoes
<1>4. CASE GraceTimer
  <2> DEFINE k == grace
  <2> DEFINE w == [Machine EXCEPT !.grace = 0]
  <2> DEFINE look == Look(w, k, FALSE)
  <2>1. UNCHANGED <<log, now>>
    BY <1>4 DEF GraceTimer, outside
  <2>2. k \in Lines
    BY <1>4, LogPlayAssumption DEF GraceTimer, TypeOK, Lines
  <2>3. \/ Become(w)
        \/ Become(SetTransTimer(w))
        \/ look.halt # 0 /\ Become(SetTransTimer(makeNext(w, look.halt)))
        \/ \E how : Become(StartEvent(makeNext(w, k), k, how))
    BY <1>4 DEF GraceTimer
  <2>4. look.halt # 0 => look.halt \in Lines
    BY LookFinds
  <2>5. w \in MachineType /\ w.status = Machine.status /\ w.timer = Machine.timer
    BY <1>1, Numbers DEF MachineType
  <2> HIDE DEF w, look, k
  <2>6. Later(Machine, w)
    BY <2>5, LaterSame
  <2>7. SetTransTimer(w) \in MachineType /\ Later(Machine, SetTransTimer(w))
    BY <1>1, <2>5, <2>6, TimerType, LaterTimer, LaterOn
  <2>8. \A j \in Lines : makeNext(w, j) \in MachineType /\ Later(Machine, makeNext(w, j))
    BY <1>1, <2>5, <2>6, NextType, LaterTimer, LaterOn DEF Settled
  <2>9. \A j \in Lines : /\ SetTransTimer(makeNext(w, j)) \in MachineType
                         /\ Later(Machine, SetTransTimer(makeNext(w, j)))
    BY <1>1, <2>8, TimerType, LaterTimer, LaterOn
  <2>10. \A how : /\ StartEvent(makeNext(w, k), k, how) \in MachineType
                  /\ Later(Machine, StartEvent(makeNext(w, k), k, how))
    BY <1>1, <2>2, <2>8, StartType, LaterStart, LaterOn
  <2>11. QED
    BY <2>1, <2>3, <2>4, <2>5, <2>6, <2>7, <2>9, <2>10, LaterGoes
<1>5. QED
  BY <1>2, <1>3, <1>4

\* The lines that have to start at their hard start time.
Punctual(k) == log[k].hard # 0 /\ log[k].grace = "now" /\ log[k].ok

\* There is no mode but Auto.
AutoOnly == Modes \subseteq {"Auto"}

\* No hard start waits for what plays, and no two are at the same time.
TimesApart ==
  \A l \in Logs, j, k \in Lines :
    l[j].hard # 0 => /\ l[j].grace # "wait"
                     /\ l[j].hard = l[k].hard => j = k

\* The transition timer starts the line that it waited for, and then waits for
\* the next.
LEMMA TransKeeps ==
  ASSUME TypeOK, TransTimer, mode = "Auto", log[timer].grace # "wait",
         FreeDecks(Machine) # {}
  PROVE  /\ Armed(Machine)'
         /\ \A k \in Lines : status'[k] = "Scheduled" =>
              status[k] = "Scheduled" /\ (Punctual(k) => k # timer)
<1> DEFINE k == timer
<1> DEFINE w == [Machine EXCEPT !.timer = 0, !.grace = 0]
<1> DEFINE look == Look(w, k, FALSE)
<1> DEFINE f == look.line
<1> DEFINE n == makeNext(w, f)
<1> DEFINE y == StartEvent(n, k, Timed)
<1>1. Machine \in MachineType /\ Setting
  BY MachineTyped DEF Settled
<1>2. w \in MachineType /\ w.status = status /\ w.deck = deck /\ Machine.deck = deck
  BY <1>1, Numbers DEF Machine, MachineType
<1>3. k \in Lines /\ UNCHANGED <<log, now>>
  BY LogPlayAssumption DEF TransTimer, Due, TypeOK, Lines, outside
<1>4. \/ log[k].grace = "next" /\ Become(makeNext(w, k))
      \/ f = 0 /\ look.halt = 0 /\ Become(SetTransTimer(w))
      \/ f = 0 /\ look.halt # 0 /\ Become(SetTransTimer(makeNext(w, look.halt)))
      \/ f # 0 /\ log[f].grace = "next" /\ Become(n)
      \/ f # 0 /\ Become(SetTransTimer(y))
  BY DEF TransTimer
<1>5. (look.halt # 0 => look.halt \in Lines) /\ (f # 0 => f \in Lines)
  BY LookFinds
<1>6. status[k] = "Scheduled" /\ log[k].ok => f = k
  <2> DEFINE waiting == {j \in Lines : k # 0 /\ j >= k /\ Is(w, j, {"Scheduled", "Paused"})}
  <2> DEFINE halts == {j \in waiting : j # k /\ (w.trans[j] = "Stop" \/ mode = "LiveAssist")}
  <2> DEFINE plays == {j \in waiting : log[j].ok \/ (w.trans[j] = "Stop" /\ ~FALSE)}
  <2> DEFINE m == First(halts \union plays)
  <2> SUFFICES ASSUME status[k] = "Scheduled", log[k].ok PROVE f = k
    OBVIOUS
  <2>1. k # 0 /\ k \in Nat /\ k >= k
    BY <1>3, Numbers, LogPlayAssumption DEF Lines
  <2>2. k \in waiting
    BY <1>2, <1>3, <2>1 DEF Is
  <2>3. k \in plays /\ k \notin halts
    BY <2>2
  <2>4. halts \union plays \in SUBSET {j \in Lines : j >= k}
    OBVIOUS
  <2>5. look = IF m \in halts THEN [line |-> 0, halt |-> m] ELSE [line |-> m, halt |-> 0]
    BY DEF Look
  <2> HIDE DEF halts, plays, look
  <2>6. halts \union plays # {} /\ halts \union plays \in SUBSET Nat
    BY <2>3, <2>4, LogPlayAssumption DEF Lines
  <2>7. m \in halts \union plays /\ \A j \in halts \union plays : m <= j
    BY <2>6, LeastNatural DEF First
  <2>8. m <= k /\ m >= k /\ m \in Nat
    BY <2>3, <2>4, <2>6, <2>7
  <2>9. m = k
    BY <2>1, <2>8
  <2> HIDE DEF m
  <2>10. look = [line |-> k, halt |-> 0]
    BY <2>3, <2>5, <2>9
  <2>11. QED
    BY <2>10
<1> HIDE DEF w, look, f, k
<1>7. Later(w, w)
  BY LaterSame
<1>8. \A j \in Lines : /\ makeNext(w, j) \in MachineType /\ Armed(makeNext(w, j))
                       /\ Later(w, makeNext(w, j))
                       /\ makeNext(w, j).status = w.status /\ makeNext(w, j).deck = w.deck
  BY <1>1, <1>2, NextType, LaterTimer, SameDecks DEF Settled
<1>9. ASSUME NEW v \in MachineType, Later(w, v)
      PROVE  /\ SetTransTimer(v) \in MachineType /\ Armed(SetTransTimer(v))
             /\ Later(w, SetTransTimer(v)) /\ SetTransTimer(v).status = v.status
  BY <1>1, <1>9, TimerType, LaterTimer, LaterOn, SameDecks
<1>10. ASSUME NEW v \in MachineType, Become(v), Armed(v), Later(w, v),
              Punctual(k) => v.status[k] # "Scheduled"
       PROVE  /\ Armed(Machine)'
              /\ \A j \in Lines : status'[j] = "Scheduled" =>
                   status[j] = "Scheduled" /\ (Punctual(j) => j # k)
  <2>1. Machine' = v
    BY <1>10 DEF Become, Machine, MachineType
  <2>2. Armed(Machine)'
    BY <1>3, <1>10, <2>1 DEF Armed
  <2>3. status' = v.status
    BY <1>10 DEF Become
  <2>4. QED
    BY <1>2, <1>10, <2>2, <2>3 DEF Later
<1>11. CASE log[k].grace = "next" /\ Become(makeNext(w, k))
  <2>1. ~Punctual(k)
    BY <1>11 DEF Punctual
  <2>2. QED
    BY <1>3, <1>8, <1>10, <1>11, <2>1 DEF k
<1>12. CASE f = 0 /\ Become(SetTransTimer(w))
  <2>1. Punctual(k) => w.status[k] # "Scheduled"
    BY <1>2, <1>3, <1>6, <1>12, Numbers DEF Punctual
  <2>2. QED
    BY <1>2, <1>7, <1>9, <1>10, <1>12, <2>1 DEF k
<1>13. CASE f = 0 /\ look.halt # 0 /\ Become(SetTransTimer(makeNext(w, look.halt)))
  <2>1. Punctual(k) => w.status[k] # "Scheduled"
    BY <1>2, <1>3, <1>6, <1>13, Numbers DEF Punctual
  <2>2. QED
    BY <1>5, <1>8, <1>9, <1>10, <1>13, <2>1 DEF k
<1>14. CASE f # 0 /\ log[f].grace = "next" /\ Become(n)
  <2>1. Punctual(k) => w.status[k] # "Scheduled"
    BY <1>2, <1>6, <1>14 DEF Punctual
  <2>2. QED
    BY <1>5, <1>8, <1>10, <1>14, <2>1 DEF k
<1>15. CASE f # 0 /\ Become(SetTransTimer(y))
  <2>1. n \in MachineType /\ Later(w, n) /\ FreeDecks(n) = FreeDecks(Machine)
        /\ n.status = w.status
    BY <1>2, <1>5, <1>8, <1>15 DEF FreeDecks
  <2> HIDE DEF n
  <2>2. /\ y \in MachineType /\ Later(n, y)
        /\ n.status[k] = "Scheduled" /\ log[k].ok => y.status[k] # "Scheduled"
    BY <1>1, <1>3, <2>1, StartType, LaterStart
  <2> HIDE DEF y
  <2>3. Later(w, y)
    BY <2>1, <2>2, LaterOn
  <2>4. Punctual(k) => y.status[k] # "Scheduled"
    BY <1>3, <2>1, <2>2 DEF Punctual, Later
  <2>5. QED
    BY <1>9, <1>10, <1>15, <2>2, <2>3, <2>4 DEF k
<1>16. QED
  BY <1>4, <1>11, <1>12, <1>13, <1>14, <1>15

\* The invariant: the timer runs in time, it runs for the line whose hard start
\* time is now, and no hard start has been missed.
InTime ==
  /\ mode = "Auto" /\ Armed(Machine) /\ HardTimesKept
  /\ \A k \in Lines :
       Punctual(k) /\ log[k].hard = now /\ status[k] = "Scheduled" => timer = k

\* At first every hard start time is still to come.
LEMMA InitInTime == Init => InTime
<1> SUFFICES ASSUME Init PROVE InTime
  OBVIOUS
<1>1. TypeOK /\ Setting
  BY InitTyped, MachineTyped
<1>2. now = 0 /\ mode = "Auto" /\ \A k \in Lines : log[k].hard \in Nat
  BY <1>1, LogPlayAssumption DEF Init, Setting, LineTypes, Times
<1>3. Armed(Machine)
  <2> DEFINE r == [status |-> status]
  <2> DEFINE s == Soonest(r)
  <2>1. Machine.timer = s /\ Machine.status = status /\ r.status = status
    BY DEF Init, Machine
  <2>2. \A k \in Lines : r.status[k] = "Scheduled" /\ log[k].hard > now =>
          s \in Lines /\ log[s].hard <= log[k].hard
    BY <1>1, TimedLine
  <2>3. s # 0 => log[s].hard > now
    BY <1>1, TimedLine
  <2> HIDE DEF s, r
  <2>4. s \in Lines => s # 0 /\ log[s].hard # 0
    BY <1>2, <2>3, LogPlayAssumption DEF Lines
  <2>5. QED
    BY <1>2, <2>1, <2>2, <2>4 DEF Armed
<1>4. HardTimesKept
  BY <1>2 DEF HardTimesKept
<1>5. \A k \in Lines : ~(Punctual(k) /\ log[k].hard = now)
  BY <1>2 DEF Punctual
<1>6. QED
  BY <1>2, <1>3, <1>4, <1>5 DEF InTime

\* Every step keeps it, where a hard start that is due goes first and there is
\* a deck for it.
LEMMA InTimeKept ==
  ASSUME Prompt, AutoOnly, TimesApart, TypeOK, InTime, FreeDecks(Machine) # {}, [Next]_vars
  PROVE  InTime'
<1>1. UNCHANGED log
  BY SameLog
<1>2. now \in Nat /\ \A k \in Lines : log[k].hard \in Nat
  <2>1. Setting
    BY MachineTyped
  <2>2. QED
    BY <2>1, LogPlayAssumption DEF Setting, LineTypes, Times
<1>3. \A j, k \in Lines : log[j].hard # 0 =>
        log[j].grace # "wait" /\ (log[j].hard = log[k].hard => j = k)
  BY DEF TypeOK, TimesApart
<1>4. Machine.status = status /\ Machine.timer = timer
      /\ Machine'.status = status' /\ Machine'.timer = timer'
  BY DEF Machine
<1>5. HardTimesKept <=> \A k \in Lines :
        Punctual(k) /\ log[k].hard < now => status[k] # "Scheduled"
  BY DEF HardTimesKept, Punctual
<1>6. HardTimesKept' <=> \A k \in Lines :
        Punctual(k) /\ log[k].hard < now' => status'[k] # "Scheduled"
  BY <1>1 DEF HardTimesKept, Punctual
<1>7. ASSUME mode' = "Auto", now' = now, Armed(Machine)',
             \A k \in Lines : status'[k] = "Scheduled" =>
               status[k] = "Scheduled" /\ ~(Punctual(k) /\ log[k].hard = now)
      PROVE  InTime'
  <2>1. HardTimesKept'
    BY <1>5, <1>6, <1>7 DEF InTime
  <2>2. \A k \in Lines : Punctual(k)' <=> Punctual(k)
    BY <1>1 DEF Punctual
  <2>3. QED
    BY <1>1, <1>7, <2>1, <2>2 DEF InTime
<1>8. ASSUME On, ~Due, UNCHANGED now, mode' = "Auto" PROVE InTime'
  <2>1. Armed(Machine)'
    <3>1. Armed(Machine) /\ timer' = timer => Armed(Machine)'
      BY <1>1, <1>4, <1>8 DEF Armed, On
    <3>2. QED
      BY <1>8, <3>1 DEF On, InTime
  <2>2. \A k \in Lines : status[k] = "Scheduled" => ~(Punctual(k) /\ log[k].hard = now)
    BY <1>8, Numbers DEF InTime, Due
  <2>3. QED
    BY <1>7, <1>8, <2>1, <2>2 DEF On
<1>9. CASE (Prompt => ~Due) /\ Operator
  <2>1. On /\ ~Due
    BY <1>9, OnOperator
  <2>2. UNCHANGED now /\ mode' = "Auto"
    <3>1. CASE \E m \in Modes : SetOpMode(m)
      BY <3>1 DEF SetOpMode, Command, AutoOnly
    <3>2. CASE \E k \in Lines : Play(k) \/ Stop(k) \/ Pause(k) \/ MakeNext(k)
      <4>1. PICK k \in Lines : Play(k) \/ Stop(k) \/ Pause(k) \/ MakeNext(k)
        BY <3>2
      <4>2. mode' = mode /\ \E c : Command(c)
        BY <4>1 DEF Play, Stop, Pause, MakeNext
      <4>3. QED
        BY <4>2 DEF Command, InTime
    <3>3. QED
      BY <1>9, <3>1, <3>2 DEF Operator
  <2>3. QED
    BY <1>8, <2>1, <2>2
<1>10. CASE TransTimer
  <2>1. timer \in Lines /\ log[timer].hard = now
    BY <1>10, LogPlayAssumption DEF TransTimer, Due, TypeOK, Lines
  <2>2. UNCHANGED <<mode, now>>
    BY <1>10 DEF TransTimer, outside
  <2>3. log[timer].grace # "wait" /\ \A k \in Lines : log[k].hard = now => k = timer
    <3>1. log[timer].hard # 0
      BY <1>4, <2>1 DEF InTime, Armed
    <3>2. QED
      BY <1>3, <2>1, <3>1
  <2>4. /\ Armed(Machine)'
        /\ \A k \in Lines : status'[k] = "Scheduled" =>
             status[k] = "Scheduled" /\ (Punctual(k) => k # timer)
    BY <1>10, <2>3, TransKeeps DEF InTime
  <2>5. QED
    BY <1>7, <2>2, <2>3, <2>4 DEF InTime
<1>11. CASE (Prompt => ~Due) /\ ((\E d \in Decks : Deck(d)) \/ SegueBacktime \/ SleepTimer
                                 \/ GraceTimer)
  <2>1. On /\ ~Due
    BY <1>11, OnDeck, OnTimers
  <2>2. UNCHANGED <<mode, now>>
    BY <1>11 DEF Deck, Confirmed, SessionEnds, SegueStart, SegueEnd, SegueBacktime,
                 SleepTimer, GraceTimer, outside
  <2>3. QED
    BY <1>8, <2>1, <2>2 DEF InTime
<1>12. CASE Tick
  <2>1. ~Due /\ now' = now + 1 /\ UNCHANGED <<machine, mode>>
    BY <1>12 DEF Tick
  <2>2. status' = status /\ timer' = timer /\ Machine' = Machine
    BY <2>1 DEF machine, Machine
  <2>3. ASSUME NEW k \in Lines, status[k] = "Scheduled", log[k].hard > now
        PROVE  timer \in Lines /\ now' <= log[timer].hard /\ log[timer].hard <= log[k].hard
    <3>1. timer \in Lines /\ now <= log[timer].hard /\ log[timer].hard <= log[k].hard
      BY <1>4, <2>3 DEF InTime, Armed
    <3>2. log[timer].hard # now
      BY <2>1, <3>1, Numbers DEF Due
    <3>3. QED
      BY <1>2, <2>1, <3>1, <3>2
  <2>4. Armed(Machine)'
    BY <1>1, <1>2, <1>4, <2>1, <2>2, <2>3 DEF InTime, Armed
  <2>5. ASSUME NEW k \in Lines, Punctual(k), log[k].hard < now' PROVE status[k] # "Scheduled"
    <3>1. log[k].hard < now \/ log[k].hard = now
      BY <1>2, <2>1, <2>5
    <3>2. log[k].hard = now /\ status[k] = "Scheduled" => timer = k
      BY <2>5 DEF InTime
    <3>3. timer = k => log[k].hard # now
      BY <2>1, Numbers DEF Due
    <3>4. QED
      BY <1>5, <2>5, <3>1, <3>2, <3>3 DEF InTime
  <2>6. ASSUME NEW k \in Lines, Punctual(k), log[k].hard = now', status[k] = "Scheduled"
        PROVE  timer = k
    <3>1. log[k].hard > now
      BY <1>2, <2>1, <2>6
    <3>2. timer \in Lines /\ now' <= log[timer].hard /\ log[timer].hard <= log[k].hard
      BY <2>3, <2>6, <3>1
    <3>3. log[timer].hard = log[k].hard
      BY <1>2, <2>1, <2>6, <3>2
    <3>4. QED
      BY <1>3, <2>6, <3>2, <3>3 DEF Punctual
  <2>7. \A k \in Lines : Punctual(k)' <=> Punctual(k)
    BY <1>1 DEF Punctual
  <2>8. HardTimesKept'
    BY <1>6, <2>2, <2>5
  <2>9. \A k \in Lines :
          Punctual(k)' /\ log'[k].hard = now' /\ status'[k] = "Scheduled" => timer' = k
    BY <1>1, <2>2, <2>6, <2>7
  <2>10. QED
    BY <2>1, <2>4, <2>8, <2>9 DEF InTime
<1>13. CASE Standing
  <2>1. UNCHANGED <<log, status, timer, now, mode>> /\ Machine' = Machine
    BY <1>13 DEF Standing, machine, Machine
  <2>2. Armed(Machine)'
    BY <2>1 DEF InTime, Armed
  <2>3. HardTimesKept'
    BY <1>5, <1>6, <2>1 DEF InTime
  <2>4. QED
    BY <2>1, <2>2, <2>3 DEF InTime, Punctual
<1>14. QED
  BY <1>9, <1>10, <1>11, <1>12, <1>13, WhoSteps DEF Handler

\* A line with a hard start time, "start immediately" and a playable cut has
\* been started when its time is past, whichever way the answers of caed, the
\* markers and the operator's commands move the single transition timer before:
\* in Auto, where no two lines have the same time and none waits for what plays,
\* as long as a hard start that is due is handled first and finds a deck.
THEOREM StartsOnTime ==
  ASSUME Prompt, AutoOnly, TimesApart
  PROVE  Spec /\ [](FreeDecks(Machine) # {}) => []HardTimesKept
<1>1. TypeOK /\ InTime /\ FreeDecks(Machine) # {} /\ [Next]_vars => InTime'
  BY InTimeKept
<1>2. InTime => HardTimesKept
  BY DEF InTime
<1>3. QED
  BY <1>1, <1>2, InitInTime, TypeCorrect, PTL DEF Spec
=============================================================================
