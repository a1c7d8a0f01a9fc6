---------------------------- MODULE CatchdProofs ----------------------------
(***************************************************************************)
(* For any events, starts, edits and crashes.                              *)
(*                                                                         *)
(* First: what rdcatchd thinks of its record deck is behind caed by no     *)
(* more than the answers under way (IInv).                                 *)
(*                                                                         *)
(* Then: the types; that a one-shot event that was carried through stays   *)
(* off the schedule; and that a row says that it is recorded, played or    *)
(* transferred only while it is (Whole).                                   *)
(*                                                                         *)
(* Last: that what was recorded is checked in as the cut it was recorded   *)
(* for, unless a start found the deck idle that caed still had, or the     *)
(* event's normalisation was changed while it was recorded (Filing).       *)
(***************************************************************************)
EXTENDS Catchd, FiniteSetTheorems, SequenceTheorems, TLAPS

(* Queues of answers.  Only the answers about the record deck matter.      *)

IsSeq(q) == \E S : q \in Seq(S)

\* An unload is reported.
Owed(q) == \E n \in DOMAIN q : q[n].tag = "UR"

\* Every start that is reported is of a port that is loaded, or whose unload is
\* reported behind it.
Follows(q, loaded) ==
  \A n \in DOMAIN q : q[n].tag = "RS" =>
    loaded \/ \E m \in DOMAIN q : m > n /\ q[m].tag = "UR"

\* One unload at most is reported, and it is of this file.
Reports(q, file) ==
  /\ \A n \in DOMAIN q : q[n].tag = "UR" => q[n].file = file
  /\ \A n, m \in DOMAIN q : q[n].tag = "UR" /\ q[m].tag = "UR" => n = m

\* Of the record deck, p tells what q tells.
Like(q, p) ==
  /\ IsSeq(p)
  /\ Owed(p) <=> Owed(q)
  /\ \A loaded \in BOOLEAN : Follows(q, loaded) => Follows(p, loaded)
  /\ \A file : Reports(q, file) => Reports(p, file)

-----------------------------------------------------------------------------
(* The invariant.                                                          *)

IsDeck(d) ==
  \E I, C : d \in [st : {"offline", "idle", "ready", "recording"}, id : I, cut : C,
                   aborting : BOOLEAN, pending : BOOLEAN]
IsPort(p) == \E F : p \in [file : F, st : {"empty", "loaded", "rolling"}]

Loaded == port # Nothing

Shapes ==
  /\ IsSeq(answers) /\ IsDeck(rdeck) /\ IsPort(port)
  /\ port.st = "empty" <=> ~Loaded

\* The deck's own part of DeckTracksPort.
Tracks(d, busy) ==
  /\ d.st = "recording" => busy
  /\ d.aborting => busy
  /\ d.pending => d.aborting

\* caed drops what a dead daemon had.
Dropped == ~up => ~Loaded /\ ~Owed(answers)

\* What the entry the deck was started for is recorded to.
Target == IF Normalised(rdeck.cut) THEN [temp |-> rdeck.cut.id] ELSE rdeck.cut

\* Until a start meets a recording, there is one at a time, from its load to the
\* report of its unload, and the deck knows its cut.
OneRecording ==
  ~overlapped =>
    /\ Loaded \/ Owed(answers) => rdeck.id = rdeck.cut.id
    /\ Loaded => port.file = Target /\ ~Owed(answers)
    /\ Reports(answers, Target)

IInv ==
  /\ Shapes
  /\ Follows(answers, Loaded)
  /\ Tracks(rdeck, Loaded \/ Owed(answers))
  /\ Dropped
  /\ OneRecording
-----------------------------------------------------------------------------
(* Lemmas about queues.                                                    *)

\* The positions of a queue that has one answer more, or one less.
LEMMA Added ==
  ASSUME NEW q, IsSeq(q), NEW a
  PROVE  /\ IsSeq(Append(q, a)) /\ Len(q) \in Nat /\ DOMAIN q = 1..Len(q)
         /\ DOMAIN Append(q, a) = 1..Len(q) + 1
         /\ Append(q, a)[Len(q) + 1] = a
         /\ \A n \in 1..Len(q) : Append(q, a)[n] = q[n]
<1>1. PICK S : q \in Seq(S) BY DEF IsSeq
<1> DEFINE T == S \cup {a}
<1>2. q \in Seq(T) BY <1>1
<1>3. a \in T OBVIOUS
<1> HIDE DEF T
<1>4. Append(q, a) \in Seq(T) BY <1>2, <1>3
<1> QED BY <1>2, <1>3, <1>4 DEF IsSeq

\* And of what is left when one is read.
LEMMA Read ==
  ASSUME NEW q, IsSeq(q), q # <<>>
  PROVE  /\ IsSeq(Tail(q)) /\ Len(q) \in Nat /\ Len(q) > 0 /\ DOMAIN q = 1..Len(q)
         /\ DOMAIN Tail(q) = 1..Len(q) - 1
         /\ Head(q) = q[1]
         /\ \A n \in 1..Len(q) - 1 : Tail(q)[n] = q[n + 1]
<1>1. PICK S : q \in Seq(S) BY DEF IsSeq
<1>2. Tail(q) \in Seq(S) BY <1>1
<1> QED BY <1>1, <1>2 DEF IsSeq

\* An answer that is not about the record deck, or not about its start and end.
LEMMA AddsOther ==
  ASSUME NEW q, IsSeq(q), NEW a, a.tag \notin {"RS", "UR"}
  PROVE  Like(q, Append(q, a))
<1> DEFINE p == Append(q, a)
<1>1. /\ IsSeq(p) /\ Len(q) \in Nat /\ DOMAIN q = 1..Len(q) /\ DOMAIN p = 1..Len(q) + 1
      /\ p[Len(q) + 1] = a /\ \A n \in 1..Len(q) : p[n] = q[n]
  BY Added
<1> HIDE DEF p
<1>2. \A n \in DOMAIN q : n \in DOMAIN p /\ p[n] = q[n] BY <1>1
<1>3. \A n \in DOMAIN p : n \in DOMAIN q \/ p[n].tag \notin {"RS", "UR"} BY <1>1
<1>4. Owed(p) <=> Owed(q) BY <1>2, <1>3 DEF Owed
<1>5. ASSUME NEW loaded \in BOOLEAN, Follows(q, loaded) PROVE Follows(p, loaded)
  BY <1>2, <1>3, <1>5 DEF Follows
<1>6. ASSUME NEW file, Reports(q, file) PROVE Reports(p, file)
  BY <1>2, <1>3, <1>6 DEF Reports
<1> QED BY <1>1, <1>4, <1>5, <1>6 DEF Like, p

\* A queue is like itself, and like what is like what is like it.
LEMMA LikeItself == ASSUME NEW q, IsSeq(q) PROVE Like(q, q)
BY DEF Like

\* Queues that are like one another.
LEMMA LikeLike ==
  ASSUME NEW q, NEW p, NEW o, Like(q, p), Like(p, o)
  PROVE  Like(q, o)
BY DEF Like

\* A start of a port that is loaded.
LEMMA AddsStart ==
  ASSUME NEW q, IsSeq(q), NEW a, a.tag = "RS"
  PROVE  /\ IsSeq(Append(q, a)) /\ Follows(Append(q, a), TRUE)
         /\ Owed(Append(q, a)) <=> Owed(q)
         /\ \A file : Reports(q, file) => Reports(Append(q, a), file)
<1> DEFINE p == Append(q, a)
<1>1. /\ IsSeq(p) /\ Len(q) \in Nat /\ DOMAIN q = 1..Len(q) /\ DOMAIN p = 1..Len(q) + 1
      /\ p[Len(q) + 1] = a /\ \A n \in 1..Len(q) : p[n] = q[n]
  BY Added
<1> HIDE DEF p
<1>2. \A n \in DOMAIN q : n \in DOMAIN p /\ p[n] = q[n] BY <1>1
<1>3. \A n \in DOMAIN p : n \in DOMAIN q \/ p[n].tag # "UR" BY <1>1
<1>4. Owed(p) <=> Owed(q) BY <1>2, <1>3 DEF Owed
<1>5. ASSUME NEW file, Reports(q, file) PROVE Reports(p, file)
  BY <1>2, <1>3, <1>5 DEF Reports
<1> QED BY <1>1, <1>4, <1>5 DEF Follows, p

\* An unload ends whatever was started.
LEMMA AddsUnload ==
  ASSUME NEW q, IsSeq(q), NEW a, a.tag = "UR"
  PROVE  /\ IsSeq(Append(q, a)) /\ Follows(Append(q, a), FALSE) /\ Owed(Append(q, a))
         /\ ~Owed(q) => Reports(Append(q, a), a.file)
<1> DEFINE p == Append(q, a)
<1>1. /\ IsSeq(p) /\ Len(q) \in Nat /\ DOMAIN q = 1..Len(q) /\ DOMAIN p = 1..Len(q) + 1
      /\ p[Len(q) + 1] = a /\ \A n \in 1..Len(q) : p[n] = q[n]
  BY Added
<1> HIDE DEF p
<1>2. Owed(p) BY <1>1 DEF Owed
<1>3. Follows(p, FALSE)
  <2>1. \A n \in DOMAIN p : p[n].tag = "RS" => Len(q) + 1 > n
    <3>1. p[Len(q) + 1].tag # "RS" BY <1>1
    <3> QED BY <1>1, <3>1
  <2>2. Len(q) + 1 \in DOMAIN p /\ p[Len(q) + 1].tag = "UR" BY <1>1
  <2> QED BY <2>1, <2>2 DEF Follows
<1>4. ASSUME ~Owed(q) PROVE Reports(p, a.file)
  <2>1. \A n \in DOMAIN p : p[n].tag = "UR" => n = Len(q) + 1 BY <1>1, <1>4 DEF Owed
  <2> QED BY <1>1, <2>1 DEF Reports
<1> QED BY <1>1, <1>2, <1>3, <1>4 DEF p

\* An answer is read that is not an unload.
LEMMA ReadsOther ==
  ASSUME NEW q, IsSeq(q), q # <<>>, Head(q).tag # "UR"
  PROVE  /\ Like(q, Tail(q))
         /\ \A loaded \in BOOLEAN :
              Follows(q, loaded) /\ Head(q).tag = "RS" => loaded \/ Owed(Tail(q))
<1> DEFINE p == Tail(q)
<1>1. /\ IsSeq(p) /\ Len(q) \in Nat /\ Len(q) > 0 /\ DOMAIN q = 1..Len(q)
      /\ DOMAIN p = 1..Len(q) - 1 /\ q[1].tag # "UR" /\ Head(q) = q[1]
      /\ \A n \in 1..Len(q) - 1 : p[n] = q[n + 1]
  BY Read
<1> HIDE DEF p
<1>2. \A n \in DOMAIN p : n \in Nat /\ n + 1 \in DOMAIN q /\ q[n + 1] = p[n] BY <1>1
<1>3. \A n \in DOMAIN q : n \in Nat /\ (n # 1 => n - 1 \in DOMAIN p /\ p[n - 1] = q[n])
  <2> TAKE n \in DOMAIN q
  <2>1. CASE n = 1 BY <1>1, <2>1
  <2>2. CASE n # 1
    <3>1. n \in Nat /\ n - 1 \in DOMAIN p /\ (n - 1) + 1 = n BY <1>1, <2>2
    <3>2. p[n - 1] = q[(n - 1) + 1] BY <1>2, <3>1
    <3> QED BY <1>1, <3>1, <3>2
  <2> QED BY <2>1, <2>2
<1>4. Owed(p) <=> Owed(q) BY <1>1, <1>2, <1>3 DEF Owed
<1>5. ASSUME NEW loaded \in BOOLEAN, Follows(q, loaded) PROVE Follows(p, loaded)
  <2> SUFFICES ASSUME NEW n \in DOMAIN p, p[n].tag = "RS", ~loaded
               PROVE  \E m \in DOMAIN p : m > n /\ p[m].tag = "UR"
    BY DEF Follows
  <2>1. n + 1 \in DOMAIN q /\ q[n + 1].tag = "RS" BY <1>2
  <2>2. PICK m \in DOMAIN q : m > n + 1 /\ q[m].tag = "UR" BY <1>5, <2>1 DEF Follows
  <2>3. n \in Nat /\ m \in Nat /\ m - 1 > n /\ m # 1 BY <1>2, <1>3, <2>2
  <2>4. m - 1 \in DOMAIN p /\ p[m - 1].tag = "UR" BY <1>3, <2>2, <2>3
  <2> QED BY <2>3, <2>4
<1>6. ASSUME NEW file, Reports(q, file) PROVE Reports(p, file)
  <2>1. \A n \in DOMAIN p : p[n].tag = "UR" => p[n].file = file BY <1>2, <1>6 DEF Reports
  <2>2. ASSUME NEW n \in DOMAIN p, NEW m \in DOMAIN p, p[n].tag = "UR", p[m].tag = "UR"
        PROVE  n = m
    <3>1. /\ n + 1 \in DOMAIN q /\ q[n + 1].tag = "UR" /\ n \in Nat
          /\ m + 1 \in DOMAIN q /\ q[m + 1].tag = "UR" /\ m \in Nat
      BY <1>2, <2>2
    <3>2. n + 1 = m + 1 BY <1>6, <3>1 DEF Reports
    <3> QED BY <3>1, <3>2
  <2> QED BY <2>1, <2>2 DEF Reports
<1>7. ASSUME NEW loaded \in BOOLEAN, Follows(q, loaded), Head(q).tag = "RS", ~loaded PROVE Owed(p)
  <2>1. 1 \in DOMAIN q /\ q[1].tag = "RS" BY <1>1, <1>7
  <2>2. PICK m \in DOMAIN q : m > 1 /\ q[m].tag = "UR" BY <1>7, <2>1 DEF Follows
  <2>3. m - 1 \in DOMAIN p /\ p[m - 1] = q[m] BY <1>3, <2>2
  <2> QED BY <2>2, <2>3 DEF Owed
<1> QED BY <1>1, <1>4, <1>5, <1>6, <1>7 DEF Like, p

\* The report of an unload is read.
LEMMA ReadsUnload ==
  ASSUME NEW q, IsSeq(q), q # <<>>, Head(q).tag = "UR"
  PROVE  /\ IsSeq(Tail(q))
         /\ \A loaded \in BOOLEAN : Follows(q, loaded) => Follows(Tail(q), loaded)
         /\ \A file : Reports(q, file) => ~Owed(Tail(q)) /\ Head(q).file = file
<1> DEFINE p == Tail(q)
<1>1. /\ IsSeq(p) /\ Len(q) \in Nat /\ Len(q) > 0 /\ DOMAIN q = 1..Len(q)
      /\ DOMAIN p = 1..Len(q) - 1 /\ Head(q) = q[1] /\ q[1].tag = "UR"
      /\ \A n \in 1..Len(q) - 1 : p[n] = q[n + 1]
  BY Read
<1> HIDE DEF p
<1>2. \A n \in DOMAIN p : n \in Nat /\ n > 0 /\ n + 1 \in DOMAIN q /\ q[n + 1] = p[n] BY <1>1
<1>3. ASSUME NEW loaded \in BOOLEAN, Follows(q, loaded) PROVE Follows(p, loaded)
  <2> SUFFICES ASSUME NEW n \in DOMAIN p, p[n].tag = "RS", ~loaded
               PROVE  \E m \in DOMAIN p : m > n /\ p[m].tag = "UR"
    BY DEF Follows
  <2>1. n + 1 \in DOMAIN q /\ q[n + 1].tag = "RS" BY <1>2
  <2>2. PICK m \in DOMAIN q : m > n + 1 /\ q[m].tag = "UR" BY <1>3, <2>1 DEF Follows
  <2>3. m - 1 > n /\ m - 1 \in DOMAIN p /\ (m - 1) + 1 = m BY <1>1, <1>2, <2>2
  <2>4. p[m - 1] = q[(m - 1) + 1] BY <1>2, <2>3
  <2> QED BY <2>2, <2>3, <2>4
<1>4. ASSUME NEW file, Reports(q, file) PROVE ~Owed(p) /\ q[1].file = file
  <2>1. 1 \in DOMAIN q BY <1>1
  <2>2. \A n \in DOMAIN p : n + 1 # 1 BY <1>2
  <2>3. \A n \in DOMAIN p : p[n].tag # "UR" BY <1>1, <1>2, <1>4, <2>1, <2>2 DEF Reports
  <2> QED BY <1>1, <1>4, <2>1, <2>3 DEF Owed, Reports
<1> QED BY <1>1, <1>3, <1>4 DEF p
-----------------------------------------------------------------------------
(* Lemmas about steps.                                                     *)

\* A playback's commands are nothing to the record deck.
LEMMA Plays ==
  ASSUME NEW q, IsSeq(q), NEW s
  PROVE  Like(q, q \o StopPlay(s))
<1>1. CASE s \in play
  <2>1. q \o StopPlay(s) = Append(q, [tag |-> "SP", serial |-> s])
    <3>1. PICK S : q \in Seq(S) BY DEF IsSeq
    <3>2. q \o <<[tag |-> "SP", serial |-> s]>> = Append(q, [tag |-> "SP", serial |-> s]) BY <3>1
    <3> QED BY <1>1, <3>2 DEF StopPlay
  <2> QED BY <2>1, AddsOther
<1>2. CASE s \notin play
  <2>1. q \o StopPlay(s) = q
    <3>1. PICK S : q \in Seq(S) BY DEF IsSeq
    <3>2. q \o <<>> = q BY <3>1
    <3> QED BY <1>2, <3>2 DEF StopPlay
  <2> QED BY <2>1, LikeItself
<1> QED BY <1>1, <1>2

\* To stop a recording unloads nothing yet.
LEMMA Stops ==
  ASSUME IsPort(port), (port.st = "empty" <=> ~Loaded), NEW q, IsSeq(q)
  PROVE  /\ Like(q, q \o StopRecord)
         /\ IsPort(Stopped(port)) /\ (Stopped(port) # Nothing <=> Loaded)
         /\ Stopped(port).st = "empty" <=> ~Loaded
         /\ Stopped(port).file = port.file
<1>1. PICK S : q \in Seq(S) BY DEF IsSeq
<1>2. q \o <<>> = q /\ q \o <<[tag |-> "SR"]>> = Append(q, [tag |-> "SR"]) BY <1>1
<1>3. q \o StopRecord = q \/ q \o StopRecord = Append(q, [tag |-> "SR"])
  BY <1>2 DEF StopRecord
<1>4. Like(q, q \o StopRecord) BY <1>3, AddsOther, LikeItself
<1>5. PICK F : port \in [file : F, st : {"empty", "loaded", "rolling"}] BY DEF IsPort
<1>6. Stopped(port) \in [file : F, st : {"empty", "loaded", "rolling"}] BY <1>5 DEF Stopped
<1>7. Stopped(port).st = "empty" <=> port.st = "empty" BY <1>5 DEF Stopped
<1>8. Stopped(port).file = port.file BY <1>5 DEF Stopped
<1>9. Stopped(port) # Nothing <=> Loaded
  <2>1. CASE Loaded BY <1>7, <2>1 DEF Nothing
  <2>2. CASE ~Loaded BY <2>2 DEF Loaded, Stopped, Nothing
  <2> QED BY <2>1, <2>2
<1> QED BY <1>4, <1>6, <1>7, <1>8, <1>9 DEF IsPort

\* A start, as it finds caed: it loads and starts, fails, or starts what is
\* loaded; and says so if the deck was not free.
LEMMA Starts ==
  ASSUME NEW e, NEW d, NEW q, IsDeck(d), IsSeq(q), IsPort(port), (port.st = "empty" <=> ~Loaded),
         Follows(q, Loaded), StartRecording(e, d, q)
  PROVE  /\ Shapes' /\ Follows(answers', Loaded')
         /\ rdeck' = [d EXCEPT !.id = e.id, !.cut = e]
         /\ Loaded \/ Owed(q) => Loaded' \/ Owed(answers')
         /\ ~overlapped' =>
              /\ ~overlapped /\ ~Owed(answers')
              /\ rdeck'.id = e.id /\ rdeck'.cut = e
              /\ Loaded' => port'.file = IF Normalised(e) THEN [temp |-> e.id] ELSE e
<1> DEFINE name == IF Normalised(e) THEN [temp |-> e.id] ELSE e
<1>1. PICK S : q \in Seq(S) BY DEF IsSeq
<1>2. rdeck' = [d EXCEPT !.id = e.id, !.cut = e] BY DEF StartRecording
<1>3. PICK I, C : d \in [st : {"offline", "idle", "ready", "recording"}, id : I, cut : C,
                         aborting : BOOLEAN, pending : BOOLEAN]
  BY DEF IsDeck
<1>4. rdeck' \in [st : {"offline", "idle", "ready", "recording"}, id : I \cup {e.id},
                  cut : C \cup {e}, aborting : BOOLEAN, pending : BOOLEAN]
      /\ rdeck'.id = e.id /\ rdeck'.cut = e
  BY <1>2, <1>3
<1>5. IsDeck(rdeck') BY <1>4 DEF IsDeck
<1>6. ~overlapped' => ~overlapped /\ ~Loaded /\ ~Owed(q)
  BY DEF StartRecording, RDeckQuiet, Loaded, Owed
<1>7. CASE /\ port = Nothing /\ port' = [st |-> "rolling", file |-> name]
           /\ answers' = q \o <<[tag |-> "LR"], [tag |-> "RS"]>>
  <2> DEFINE o == Append(q, [tag |-> "LR"])
  <2>1. answers' = Append(o, [tag |-> "RS"]) BY <1>1, <1>7
  <2>2. Like(q, o) BY AddsOther
  <2> HIDE DEF o
  <2>3. IsSeq(answers') /\ Follows(answers', TRUE) /\ (Owed(answers') <=> Owed(o))
    BY <2>1, <2>2, AddsStart DEF Like
  <2>4. port' \in [file : {name}, st : {"empty", "loaded", "rolling"}] BY <1>7
  <2>5. Loaded' /\ port'.st # "empty" /\ port'.file = name BY <1>7 DEF Loaded, Nothing
  <2> HIDE DEF name
  <2>6. IsPort(port') BY <2>4 DEF IsPort
  <2>7. Follows(answers', Loaded') BY <2>3, <2>5 DEF Follows
  <2>8. Shapes' BY <1>5, <2>3, <2>5, <2>6 DEF Shapes
  <2> QED BY <1>2, <1>4, <1>6, <2>2, <2>3, <2>5, <2>7, <2>8 DEF Like, name
<1>8. CASE /\ port = Nothing /\ UNCHANGED port
           /\ answers' = Append(q, [tag |-> "LP", serial |-> 0])
  <2>1. Like(q, answers') BY <1>8, AddsOther
  <2>2. ~Loaded /\ ~Loaded' BY <1>8 DEF Loaded
  <2>3. Follows(answers', Loaded') BY <2>1, <2>2 DEF Like, Loaded
  <2>4. Shapes' BY <1>5, <1>8, <2>1 DEF Shapes, Like, Loaded
  <2> QED BY <1>2, <1>4, <1>6, <2>1, <2>2, <2>3, <2>4 DEF Like
<1>9. CASE /\ port # Nothing /\ port' = [port EXCEPT !.st = "rolling"]
           /\ answers' = Append(q, [tag |-> "RS"])
  <2>1. IsSeq(answers') /\ Follows(answers', TRUE) BY <1>9, AddsStart
  <2>2. PICK F : port \in [file : F, st : {"empty", "loaded", "rolling"}] BY DEF IsPort
  <2>3. port' \in [file : F, st : {"empty", "loaded", "rolling"}] /\ port'.st = "rolling"
    BY <1>9, <2>2
  <2>4. IsPort(port') BY <2>3 DEF IsPort
  <2>5. Loaded /\ Loaded' /\ port'.st # "empty" BY <1>9, <2>3 DEF Loaded, Nothing
  <2>6. Follows(answers', Loaded') BY <2>1, <2>5 DEF Follows
  <2>7. Shapes' BY <1>5, <2>1, <2>4, <2>5 DEF Shapes
  <2> QED BY <1>2, <1>4, <1>6, <2>5, <2>6, <2>7
<1> QED BY <1>7, <1>8, <1>9 DEF StartRecording
-----------------------------------------------------------------------------
(* Steps that keep the recording.                                          *)

\* A step after which the deck is still about the same entry, nothing was loaded
\* or unloaded, and the queue tells the same of the record deck.
Calm ==
  /\ IsDeck(rdeck') /\ rdeck'.id = rdeck.id /\ rdeck'.cut = rdeck.cut
  /\ Tracks(rdeck', Loaded \/ Owed(answers))
  /\ UNCHANGED <<kind, up, overlapped>>
  /\ port' \in {port, Stopped(port)}
  /\ Like(answers, answers')

\* Such a step keeps the invariant.
LEMMA CalmStep == ASSUME IInv, Calm PROVE IInv'
<1>1. /\ IsSeq(answers) /\ IsDeck(rdeck) /\ IsPort(port) /\ (port.st = "empty" <=> ~Loaded)
      /\ Follows(answers, Loaded) /\ Dropped /\ OneRecording
  BY DEF IInv, Shapes
<1>2. IsPort(port') /\ (port'.st = "empty" <=> ~Loaded) /\ (Loaded' <=> Loaded)
      /\ port'.file = port.file
  <2>1. CASE port' = port BY <1>1, <2>1 DEF Loaded
  <2>2. CASE port' = Stopped(port) BY <1>1, <2>2, Stops DEF Loaded
  <2> QED BY <2>1, <2>2 DEF Calm
<1>3. IsSeq(answers') /\ (Owed(answers') <=> Owed(answers)) BY DEF Calm, Like
<1>4. Shapes' BY <1>2, <1>3 DEF Shapes, Calm
<1>5. Follows(answers', Loaded')
  <2>1. Loaded \in BOOLEAN BY DEF Loaded
  <2>2. Follows(answers', Loaded) BY <1>1, <2>1 DEF Calm, Like
  <2> QED BY <1>2, <2>2 DEF Follows
<1>6. Tracks(rdeck', Loaded' \/ Owed(answers')) BY <1>2, <1>3 DEF Calm, Tracks
<1>7. Dropped' BY <1>1, <1>2, <1>3 DEF Dropped, Calm
<1>8. Target' = Target BY DEF Target, Normalised, Calm
<1>9. OneRecording'
  <2>1. Reports(answers, Target) => Reports(answers', Target) BY DEF Calm, Like
  <2> QED BY <1>1, <1>2, <1>3, <1>8, <2>1 DEF OneRecording, Calm
<1> QED BY <1>4, <1>5, <1>6, <1>7, <1>9 DEF IInv

\* And so does the daemon's death.
LEMMA DeadStep ==
  ASSUME IInv, Dies, kind' = kind
  PROVE  IInv'
<1>1. /\ rdeck' = ROff /\ port' = Nothing /\ answers' = <<>> /\ ~up' BY DEF Dies
<1>2. IsDeck(rdeck')
  <2>1. rdeck' \in [st : {"offline", "idle", "ready", "recording"}, id : {-1}, cut : {NoFile},
                    aborting : BOOLEAN, pending : BOOLEAN]
    BY <1>1 DEF ROff
  <2> QED BY <2>1 DEF IsDeck
<1>3. IsPort(port') /\ ~Loaded' /\ port'.st = "empty"
  <2>1. port' \in [file : {NoFile}, st : {"empty", "loaded", "rolling"}] BY <1>1 DEF Nothing
  <2> QED BY <1>1, <2>1 DEF IsPort, Loaded, Nothing
<1>4. IsSeq(answers') /\ ~Owed(answers')
      /\ (\A loaded : Follows(answers', loaded)) /\ \A file : Reports(answers', file)
  <2>1. <<>> \in Seq({}) /\ DOMAIN <<>> = {} OBVIOUS
  <2> QED BY <1>1, <2>1 DEF IsSeq, Owed, Follows, Reports
<1>5. Tracks(rdeck', Loaded' \/ Owed(answers')) BY <1>1 DEF Tracks, ROff
<1>6. Shapes' BY <1>2, <1>3, <1>4 DEF Shapes
<1>7. Dropped' BY <1>3, <1>4 DEF Dropped
<1>8. OneRecording' BY <1>3, <1>4 DEF OneRecording
<1> QED BY <1>4, <1>5, <1>6, <1>7, <1>8 DEF IInv

\* A daemon that starts finds nothing of its recordings.
LEMMA RestartStep == ASSUME IInv, Restart PROVE IInv'
<1>1. /\ ~Loaded /\ ~Owed(answers) /\ IsSeq(answers) /\ IsPort(port)
      /\ (port.st = "empty" <=> ~Loaded) /\ Follows(answers, Loaded) /\ OneRecording
  BY DEF IInv, Shapes, Dropped, Restart
<1>2. UNCHANGED <<kind, port, answers, overlapped>> /\ up'
  BY DEF Restart, rows, caed, history
<1>3. PICK t \in {"idle", "offline"} : rdeck' = [ROff EXCEPT !.st = t] BY DEF Restart
<1>4. IsDeck(rdeck') /\ Tracks(rdeck', FALSE)
  <2>1. rdeck' \in [st : {"offline", "idle", "ready", "recording"}, id : {-1}, cut : {NoFile},
                    aborting : BOOLEAN, pending : BOOLEAN]
    BY <1>3 DEF ROff
  <2> QED BY <1>3, <2>1 DEF IsDeck, Tracks, ROff
<1>5. Loaded' = Loaded /\ (Owed(answers') <=> Owed(answers)) BY <1>2 DEF Loaded, Owed
<1>6. Shapes' BY <1>1, <1>2, <1>4, <1>5 DEF Shapes
<1>7. Follows(answers', Loaded') BY <1>1, <1>2, <1>5
<1>8. Tracks(rdeck', Loaded' \/ Owed(answers')) BY <1>4 DEF Tracks
<1>9. \A file : Reports(answers', file) BY <1>1, <1>2 DEF Reports, Owed
<1>10. OneRecording' BY <1>1, <1>2, <1>5, <1>9 DEF OneRecording
<1> QED BY <1>2, <1>6, <1>7, <1>8, <1>10 DEF IInv, Dropped

-----------------------------------------------------------------------------
(* Steps that begin or end a recording.                                    *)

\* A start on a deck that is idle.
LEMMA StartStep ==
  ASSUME IInv, NEW e, StartRecording(e, rdeck, answers), rdeck.st = "idle",
         kind' = kind, up, up'
  PROVE  IInv'
<1>1. /\ IsSeq(answers) /\ IsDeck(rdeck) /\ IsPort(port) /\ (port.st = "empty" <=> ~Loaded)
      /\ Follows(answers, Loaded) /\ Tracks(rdeck, Loaded \/ Owed(answers)) /\ OneRecording
  BY DEF IInv, Shapes
<1>2. /\ Shapes' /\ Follows(answers', Loaded')
      /\ rdeck' = [rdeck EXCEPT !.id = e.id, !.cut = e]
      /\ Loaded \/ Owed(answers) => Loaded' \/ Owed(answers')
      /\ ~overlapped' =>
           /\ ~overlapped /\ ~Owed(answers')
           /\ rdeck'.id = e.id /\ rdeck'.cut = e
           /\ Loaded' => port'.file = IF Normalised(e) THEN [temp |-> e.id] ELSE e
  BY <1>1, Starts
<1>3. Tracks(rdeck', Loaded' \/ Owed(answers'))
  <2>1. PICK I, C : rdeck \in [st : {"offline", "idle", "ready", "recording"}, id : I, cut : C,
                               aborting : BOOLEAN, pending : BOOLEAN]
    BY <1>1 DEF IsDeck
  <2>2. rdeck'.st = "idle" /\ rdeck'.aborting = rdeck.aborting /\ rdeck'.pending = rdeck.pending
    BY <1>2, <2>1
  <2> QED BY <1>1, <1>2, <2>2 DEF Tracks
<1>4. ~overlapped' => (Loaded' => port'.file = Target')
  BY <1>2 DEF Target, Normalised
<1>5. ~Owed(answers') => \A file : Reports(answers', file) BY DEF Owed, Reports
<1>6. OneRecording' BY <1>1, <1>2, <1>4, <1>5 DEF OneRecording
<1> QED BY <1>2, <1>3, <1>6 DEF IInv, Dropped

\* The port is unloaded, and that will be reported.
LEMMA StoppedStep ==
  ASSUME IInv, up, answers # <<>>, Head(answers).tag = "SR", RecordStopped
  PROVE  IInv'
<1>1. /\ IsSeq(answers) /\ IsDeck(rdeck) /\ IsPort(port) /\ (port.st = "empty" <=> ~Loaded)
      /\ Follows(answers, Loaded) /\ Tracks(rdeck, Loaded \/ Owed(answers)) /\ OneRecording
  BY DEF IInv, Shapes
<1>2. Like(answers, Tail(answers)) /\ IsSeq(Tail(answers)) BY <1>1, ReadsOther DEF Like
<1>3. UNCHANGED <<rdeck, kind, up, overlapped>> BY DEF RecordStopped, Others, history
<1>4. CASE ~Loaded
  <2>1. port' = port /\ answers' = Tail(answers) BY <1>4 DEF RecordStopped, Loaded
  <2>2. Tracks(rdeck', Loaded \/ Owed(answers)) BY <1>1, <1>3
  <2>3. Calm BY <1>1, <1>2, <1>3, <2>1, <2>2 DEF Calm
  <2> QED BY <2>3, CalmStep
<1>5. CASE Loaded
  <2> DEFINE a == [tag |-> "UR", file |-> port.file]
  <2>1. port' = Nothing /\ answers' = Append(Tail(answers), a)
    BY <1>5 DEF RecordStopped, Loaded
  <2>2. a.tag = "UR" /\ a.file = port.file OBVIOUS
  <2> HIDE DEF a
  <2>3. /\ IsSeq(answers') /\ Follows(answers', FALSE) /\ Owed(answers')
        /\ ~Owed(Tail(answers)) => Reports(answers', port.file)
    BY <1>2, <2>1, <2>2, AddsUnload
  <2>4. ~Loaded' /\ port'.st = "empty" /\ IsPort(port')
    <3>1. port' \in [file : {NoFile}, st : {"empty", "loaded", "rolling"}]
      BY <2>1 DEF Nothing
    <3> QED BY <2>1, <3>1 DEF Loaded, IsPort, Nothing
  <2>5. Shapes' BY <1>1, <1>3, <2>3, <2>4 DEF Shapes
  <2>6. Follows(answers', Loaded') BY <2>3 DEF Follows
  <2>7. Tracks(rdeck', Loaded' \/ Owed(answers')) BY <1>1, <1>3, <1>5, <2>3 DEF Tracks
  <2>8. Target' = Target BY <1>3 DEF Target, Normalised
  <2>9. OneRecording'
    <3>1. ~overlapped => ~Owed(Tail(answers)) /\ port.file = Target /\ rdeck.id = rdeck.cut.id
      BY <1>1, <1>2, <1>5 DEF OneRecording, Like
    <3> QED BY <1>1, <1>3, <2>3, <2>4, <2>8, <3>1 DEF OneRecording
  <2> QED BY <1>3, <2>5, <2>6, <2>7, <2>9 DEF IInv, Dropped
<1> QED BY <1>4, <1>5

\* What follows the report of an unload: the deck is idle, or the macro that
\* waited starts it again.
LEMMA CacheStep ==
  ASSUME IInv, up, answers # <<>>, Head(answers).tag = "UR", NEW entries,
         NEW d, IsDeck(d), RunRmlRecordingCache(entries, d), kind' = kind
  PROVE  IInv'
<1> DEFINE q == Tail(answers)
<1>1. /\ IsSeq(answers) /\ IsPort(port) /\ (port.st = "empty" <=> ~Loaded)
      /\ Follows(answers, Loaded) /\ OneRecording /\ Loaded \in BOOLEAN
  BY DEF IInv, Shapes, Loaded
<1>2. Owed(answers)
  <2>1. 1 \in DOMAIN answers /\ answers[1].tag = "UR" BY <1>1, Read
  <2> QED BY <2>1 DEF Owed
<1>3. IsSeq(q) /\ Follows(q, Loaded) /\ (~overlapped => ~Owed(q) /\ ~Loaded)
  BY <1>1, <1>2, ReadsUnload DEF OneRecording
<1>4. IsDeck(Idle(d)) /\ Idle(d).st = "idle" /\ ~Idle(d).aborting /\ ~Idle(d).pending
  <2>1. PICK I, C : d \in [st : {"offline", "idle", "ready", "recording"}, id : I, cut : C,
                           aborting : BOOLEAN, pending : BOOLEAN]
    BY DEF IsDeck
  <2>2. Idle(d) \in [st : {"offline", "idle", "ready", "recording"}, id : I, cut : C,
                     aborting : BOOLEAN, pending : BOOLEAN]
        /\ Idle(d).st = "idle" /\ Idle(d).aborting = FALSE /\ Idle(d).pending = FALSE
    BY <2>1 DEF Idle
  <2> QED BY <2>2 DEF IsDeck
<1> HIDE DEF q
<1>5. CASE /\ rdeck' = Idle(d) /\ answers' = q
           /\ UNCHANGED <<up, port, overlapped>>
  <2>1. Loaded' = Loaded /\ Shapes' /\ Follows(answers', Loaded')
    BY <1>1, <1>3, <1>4, <1>5 DEF Shapes, Loaded
  <2>2. Tracks(rdeck', Loaded' \/ Owed(answers')) BY <1>4, <1>5 DEF Tracks
  <2>3. ~Owed(answers') => \A file : Reports(answers', file) BY DEF Owed, Reports
  <2>4. OneRecording' BY <1>3, <1>5, <2>1, <2>3 DEF OneRecording
  <2> QED BY <1>5, <2>1, <2>2, <2>4 DEF IInv, Dropped
<1>6. CASE Dies /\ UNCHANGED overlapped BY <1>6, DeadStep
<1>7. ASSUME NEW e, StartRecording(e, Idle(d), q), UNCHANGED up PROVE IInv'
  <2>1. /\ Shapes' /\ Follows(answers', Loaded')
        /\ rdeck' = [Idle(d) EXCEPT !.id = e.id, !.cut = e]
        /\ ~overlapped' =>
             /\ ~overlapped /\ ~Owed(answers')
             /\ rdeck'.id = e.id /\ rdeck'.cut = e
             /\ Loaded' => port'.file = IF Normalised(e) THEN [temp |-> e.id] ELSE e
    BY <1>1, <1>3, <1>4, <1>7, Starts
  <2>2. Tracks(rdeck', Loaded' \/ Owed(answers'))
    <3>1. PICK I, C : Idle(d) \in [st : {"offline", "idle", "ready", "recording"}, id : I, cut : C,
                                   aborting : BOOLEAN, pending : BOOLEAN]
      BY <1>4 DEF IsDeck
    <3>2. rdeck'.st = Idle(d).st /\ rdeck'.aborting = Idle(d).aborting
          /\ rdeck'.pending = Idle(d).pending
      BY <2>1, <3>1
    <3> QED BY <1>4, <3>2 DEF Tracks
  <2>3. ~overlapped' => (Loaded' => port'.file = Target') BY <2>1 DEF Target, Normalised
  <2>4. ~Owed(answers') => \A file : Reports(answers', file) BY DEF Owed, Reports
  <2>5. OneRecording' BY <2>1, <2>3, <2>4 DEF OneRecording
  <2> QED BY <1>7, <2>1, <2>2, <2>5 DEF IInv, Dropped
<1> QED BY <1>5, <1>6, <1>7 DEF RunRmlRecordingCache, StartRmlRecording, q

\* The report of an unload: what was recorded is checked in.
LEMMA UnloadedStep ==
  ASSUME IInv, up, answers # <<>>, Head(answers).tag = "UR", RecordUnloaded
  PROVE  IInv'
<1>1. /\ IsSeq(answers) /\ IsDeck(rdeck) /\ OneRecording
  BY DEF IInv, Shapes
<1>2. Owed(answers)
  <2>1. 1 \in DOMAIN answers /\ answers[1].tag = "UR" BY <1>1, Read
  <2> QED BY <2>1 DEF Owed
<1>3. kind' = kind BY DEF RecordUnloaded
<1>4. CASE RunRmlRecordingCache(events, rdeck)
  BY <1>1, <1>3, <1>4, CacheStep
<1>5. CASE RunRmlRecordingCache(Left(IndexOf(rdeck.id)), [rdeck EXCEPT !.id = -1])
  <2>1. IsDeck([rdeck EXCEPT !.id = -1])
    <3>1. PICK I, C : rdeck \in [st : {"offline", "idle", "ready", "recording"}, id : I, cut : C,
                                 aborting : BOOLEAN, pending : BOOLEAN]
      BY <1>1 DEF IsDeck
    <3>2. [rdeck EXCEPT !.id = -1] \in [st : {"offline", "idle", "ready", "recording"},
             id : I \cup {-1}, cut : C, aborting : BOOLEAN, pending : BOOLEAN]
      BY <3>1
    <3> QED BY <3>2 DEF IsDeck
  <2> QED BY <1>3, <1>5, <2>1, CacheStep
<1> QED BY <1>4, <1>5 DEF RecordUnloaded
-----------------------------------------------------------------------------
(* Every step.                                                             *)

\* Nothing is recorded, loaded or reported at first.
LEMMA InitialState == Init => IInv
<1> SUFFICES ASSUME Init PROVE IInv OBVIOUS
<1>1. /\ rdeck = [ROff EXCEPT !.st = "idle"] /\ port = Nothing /\ answers = <<>> /\ up
  BY DEF Init
<1>2. rdeck \in [st : {"offline", "idle", "ready", "recording"}, id : {-1}, cut : {NoFile},
                 aborting : BOOLEAN, pending : BOOLEAN]
  BY <1>1 DEF ROff
<1>3. port \in [file : {NoFile}, st : {"empty", "loaded", "rolling"}] /\ port.st = "empty"
  BY <1>1 DEF Nothing
<1>4. ~Loaded BY <1>1 DEF Loaded
<1>5. /\ IsSeq(answers) /\ ~Owed(answers) /\ Follows(answers, Loaded)
      /\ Reports(answers, Target)
  <2>1. <<>> \in Seq({}) /\ DOMAIN <<>> = {} OBVIOUS
  <2> QED BY <1>1, <2>1 DEF IsSeq, Owed, Follows, Reports
<1>6. Shapes BY <1>2, <1>3, <1>4, <1>5 DEF Shapes, IsDeck, IsPort
<1>7. Tracks(rdeck, Loaded \/ Owed(answers)) BY <1>1 DEF Tracks, ROff
<1> QED BY <1>1, <1>4, <1>5, <1>6, <1>7 DEF IInv, Dropped, OneRecording

\* A deck with one field changed.
LEMMA DeckWith ==
  ASSUME NEW d, IsDeck(d)
  PROVE  /\ \A t \in {"offline", "idle", "ready", "recording"} :
              LET o == [d EXCEPT !.st = t]
              IN  /\ IsDeck(o) /\ o.st = t /\ o.id = d.id /\ o.cut = d.cut
                  /\ o.aborting = d.aborting /\ o.pending = d.pending
         /\ LET o == [d EXCEPT !.aborting = TRUE]
            IN  /\ IsDeck(o) /\ o.st = d.st /\ o.id = d.id /\ o.cut = d.cut
                /\ o.aborting = TRUE /\ o.pending = d.pending
         /\ LET o == [d EXCEPT !.pending = TRUE]
            IN  /\ IsDeck(o) /\ o.st = d.st /\ o.id = d.id /\ o.cut = d.cut
                /\ o.aborting = d.aborting /\ o.pending = TRUE
<1>1. PICK I, C : d \in [st : {"offline", "idle", "ready", "recording"}, id : I, cut : C,
                         aborting : BOOLEAN, pending : BOOLEAN]
  BY DEF IsDeck
<1> DEFINE D == [st : {"offline", "idle", "ready", "recording"}, id : I, cut : C,
                 aborting : BOOLEAN, pending : BOOLEAN]
<1>2. /\ \A t \in {"offline", "idle", "ready", "recording"} : [d EXCEPT !.st = t] \in D
      /\ [d EXCEPT !.aborting = TRUE] \in D /\ [d EXCEPT !.pending = TRUE] \in D
  BY <1>1
<1>3. \A o \in D : IsDeck(o) BY DEF IsDeck
<1> HIDE DEF D
<1> QED BY <1>1, <1>2, <1>3

\* A step that is nothing to the record deck, but for what it adds to the queue.
LEMMA ElsewhereStep ==
  ASSUME IInv, UNCHANGED <<kind, up, rdeck, port, overlapped>>,
         Like(answers, answers')
  PROVE  IInv'
<1>1. IsDeck(rdeck) /\ Tracks(rdeck, Loaded \/ Owed(answers)) BY DEF IInv, Shapes
<1>2. Calm BY <1>1 DEF Calm
<1> QED BY <1>2, CalmStep

\* The timer of an event runs out.
LEMMA DueStep == ASSUME IInv, Due PROVE IInv'
<1>1. IsSeq(answers) BY DEF IInv, Shapes
<1>2. up /\ UNCHANGED <<kind, up>> BY DEF Due
<1>3. PICK n \in DOMAIN events : \/ RecordingDue(n) \/ PlayoutDue(n) \/ MacroDue(n)
                                 \/ SwitchDue(n) \/ LoadDue(n)
  BY DEF Due
<1>4. CASE RecordingDue(n)
  <2>1. CASE UNCHANGED <<rdeck, port, answers, overlapped>>
    BY <1>1, <1>2, <2>1, ElsewhereStep, LikeItself
  <2>2. CASE rdeck.st = "idle" /\ StartRecording(events[n], rdeck, answers)
    BY <1>2, <2>2, StartStep
  <2> QED BY <1>4, <2>1, <2>2 DEF RecordingDue
<1>5. CASE PlayoutDue(n)
  <2> DEFINE s == pdeck.serial + 1
             lp == [tag |-> "LP", serial |-> s]
             py == [tag |-> "PY", serial |-> s]
  <2>1. UNCHANGED <<rdeck, port, overlapped>> BY <1>5 DEF PlayoutDue
  <2>2. \/ answers' = answers \/ answers' = Append(answers, lp)
        \/ answers' = answers \o <<lp, py>>
    BY <1>5 DEF PlayoutDue
  <2>3. answers \o <<lp, py>> = Append(Append(answers, lp), py)
    <3>1. PICK S : answers \in Seq(S) BY <1>1 DEF IsSeq
    <3> HIDE DEF s
    <3> QED BY <3>1
  <2>4. lp.tag = "LP" /\ py.tag = "PY" OBVIOUS
  <2> HIDE DEF lp, py
  <2>5. Like(answers, Append(answers, lp)) BY <1>1, <2>4, AddsOther
  <2>6. IsSeq(Append(answers, lp)) BY <2>5 DEF Like
  <2>7. Like(Append(answers, lp), Append(Append(answers, lp), py)) BY <2>4, <2>6, AddsOther
  <2>8. Like(answers, Append(Append(answers, lp), py)) BY <2>5, <2>7, LikeLike
  <2>9. Like(answers, answers') BY <1>1, <2>2, <2>3, <2>5, <2>8, LikeItself
  <2> QED BY <1>2, <2>1, <2>9, ElsewhereStep
<1>6. CASE MacroDue(n) \/ SwitchDue(n) \/ LoadDue(n)
  <2>1. UNCHANGED <<rdeck, port, answers, overlapped>>
    BY <1>6 DEF MacroDue, SwitchDue, LoadDue, caed
  <2> QED BY <1>1, <1>2, <2>1, ElsewhereStep, LikeItself
<1> QED BY <1>3, <1>4, <1>5, <1>6

\* An RS macro starts a recording, waits for an abort to end, or kills the daemon.
LEMMA RSStep == ASSUME IInv, RS PROVE IInv'
<1>1. /\ IsSeq(answers) /\ IsDeck(rdeck) /\ Tracks(rdeck, Loaded \/ Owed(answers))
      /\ OneRecording
  BY DEF IInv, Shapes
<1>2. up /\ UNCHANGED kind BY DEF RS
<1>3. CASE rdeck.st = "idle" /\ StartRmlRecording(events, rdeck, answers)
  <2>1. CASE Dies /\ UNCHANGED overlapped BY <1>1, <1>2, <2>1, DeadStep DEF OneRecording
  <2>2. ASSUME NEW e, StartRecording(e, rdeck, answers), UNCHANGED up PROVE IInv'
    BY <1>2, <1>3, <2>2, StartStep
  <2> QED BY <1>3, <2>1, <2>2 DEF StartRmlRecording
<1>4. CASE /\ rdeck.aborting /\ rdeck' = [rdeck EXCEPT !.pending = TRUE]
           /\ UNCHANGED <<up, port, answers, overlapped>>
  <2>1. /\ IsDeck(rdeck') /\ rdeck'.st = rdeck.st /\ rdeck'.id = rdeck.id
        /\ rdeck'.cut = rdeck.cut /\ rdeck'.aborting = rdeck.aborting /\ rdeck'.pending
    BY <1>1, <1>4, DeckWith
  <2>2. Tracks(rdeck', Loaded \/ Owed(answers)) BY <1>1, <1>4, <2>1 DEF Tracks
  <2>3. Like(answers, answers') BY <1>1, <1>4, LikeItself
  <2> QED BY <1>2, <1>4, <2>1, <2>2, <2>3, CalmStep DEF Calm
<1> QED BY <1>3, <1>4 DEF RS, caed

\* A deck is stopped on demand; the recording is being aborted then.
LEMMA StopDeckStep == ASSUME IInv, StopDeck PROVE IInv'
<1>1. /\ IsSeq(answers) /\ IsDeck(rdeck) /\ Tracks(rdeck, Loaded \/ Owed(answers))
      /\ IsPort(port) /\ (port.st = "empty" <=> ~Loaded)
  BY DEF IInv, Shapes
<1>2. UNCHANGED <<kind, up, overlapped>> BY DEF StopDeck, rows, history
<1>3. CASE /\ rdeck.st = "recording" /\ rdeck' = [rdeck EXCEPT !.aborting = TRUE]
           /\ port' = Stopped(port) /\ answers' = answers \o StopRecord
  <2>1. /\ IsDeck(rdeck') /\ rdeck'.st = rdeck.st /\ rdeck'.id = rdeck.id
        /\ rdeck'.cut = rdeck.cut /\ rdeck'.aborting /\ rdeck'.pending = rdeck.pending
    BY <1>1, <1>3, DeckWith
  <2>2. Tracks(rdeck', Loaded \/ Owed(answers)) BY <1>1, <1>3, <2>1 DEF Tracks
  <2>3. Like(answers, answers') BY <1>1, <1>3, Stops
  <2> QED BY <1>2, <1>3, <2>1, <2>2, <2>3, CalmStep DEF Calm
<1>4. CASE answers' = answers \o StopPlay(pdeck.serial) /\ UNCHANGED <<rdeck, port>>
  BY <1>1, <1>2, <1>4, ElsewhereStep, Plays
<1> QED BY <1>3, <1>4 DEF StopDeck

\* The decks are read again; what is no more, and rolls, is stopped.
LEMMA ReloadStep == ASSUME IInv, NEW new, ReloadDecks(new) PROVE IInv'
<1> DEFINE r == rdeck.st = "recording" /\ "record" \notin new
           p == pdeck.st = "recording" /\ "play" \notin new
           o == answers \o (IF r THEN StopRecord ELSE <<>>)
           s == StopPlay(pdeck.serial)
<1>1. /\ IsSeq(answers) /\ IsDeck(rdeck) /\ Tracks(rdeck, Loaded \/ Owed(answers))
      /\ IsPort(port) /\ (port.st = "empty" <=> ~Loaded)
  BY DEF IInv, Shapes
<1>2. UNCHANGED <<kind, up, overlapped>> BY DEF ReloadDecks, history
<1>3. port' \in {port, Stopped(port)} BY DEF ReloadDecks
<1>4. answers' = o \o (IF p THEN s ELSE <<>>) BY DEF ReloadDecks
<1>5. \A q : IsSeq(q) => q \o <<>> = q BY DEF IsSeq
<1> HIDE DEF r, p, s
<1>6. Like(answers, o)
  <2>1. CASE r BY <1>1, <2>1, Stops
  <2>2. CASE ~r
    <3>1. o = answers BY <1>1, <1>5, <2>2
    <3> QED BY <1>1, <3>1, LikeItself
  <2> QED BY <2>1, <2>2
<1> HIDE DEF o
<1>7. IsSeq(o) BY <1>6 DEF Like
<1>8. Like(o, answers')
  <2>1. CASE p BY <1>4, <1>7, <2>1, Plays DEF s
  <2>2. CASE ~p
    <3>1. answers' = o BY <1>4, <1>5, <1>7, <2>2
    <3> QED BY <1>7, <3>1, LikeItself
  <2> QED BY <2>1, <2>2
<1>9. Like(answers, answers') BY <1>6, <1>8, LikeLike
<1>10. PICK t \in {"offline", "idle", "ready", "recording"} :
         rdeck' = [rdeck EXCEPT !.st = t] /\ (t = "recording" => rdeck.st = "recording")
  <2>1. rdeck' = Reloaded(rdeck, "record" \in new) BY DEF ReloadDecks
  <2> DEFINE t == IF "record" \notin new THEN "offline"
                  ELSE IF rdeck.st = "recording" THEN rdeck.st ELSE "idle"
  <2>2. rdeck' = [rdeck EXCEPT !.st = t] BY <2>1 DEF Reloaded
  <2>3. t \in {"offline", "idle", "ready", "recording"}
        /\ (t = "recording" => rdeck.st = "recording")
    OBVIOUS
  <2> HIDE DEF t
  <2> QED BY <2>2, <2>3
<1>11. /\ IsDeck(rdeck') /\ rdeck'.st = t /\ rdeck'.id = rdeck.id /\ rdeck'.cut = rdeck.cut
       /\ rdeck'.aborting = rdeck.aborting /\ rdeck'.pending = rdeck.pending
  <2> DEFINE d == [rdeck EXCEPT !.st = t]
  <2>1. /\ IsDeck(d) /\ d.st = t /\ d.id = rdeck.id /\ d.cut = rdeck.cut
        /\ d.aborting = rdeck.aborting /\ d.pending = rdeck.pending
    BY <1>1, DeckWith
  <2>2. rdeck' = d BY <1>10
  <2> HIDE DEF d
  <2> QED BY <2>1, <2>2
<1>12. Tracks(rdeck', Loaded \/ Owed(answers)) BY <1>1, <1>10, <1>11 DEF Tracks
<1> QED BY <1>2, <1>3, <1>9, <1>11, <1>12, CalmStep DEF Calm

\* An answer is read that is not about the record deck.
LEMMA PlayAnswerStep ==
  ASSUME IInv, up, answers # <<>>, Head(answers).tag \notin {"LR", "RS", "SR", "UR"},
         UNCHANGED <<kind, overlapped>>,
         \/ Dies
         \/ /\ UNCHANGED <<up, rdeck, port>>
            /\ \/ answers' = Tail(answers)
               \/ \E s : answers' = Append(Tail(answers), [tag |-> "UP", serial |-> s])
  PROVE  IInv'
<1>1. IsSeq(answers) /\ OneRecording BY DEF IInv, Shapes
<1>2. CASE Dies BY <1>1, <1>2, DeadStep DEF OneRecording
<1>3. Like(answers, Tail(answers)) BY <1>1, ReadsOther
<1>4. IsSeq(Tail(answers)) BY <1>3 DEF Like
<1>5. CASE UNCHANGED <<up, rdeck, port>> /\ answers' = Tail(answers)
  BY <1>3, <1>5, ElsewhereStep
<1>6. ASSUME NEW s, UNCHANGED <<up, rdeck, port>>,
             answers' = Append(Tail(answers), [tag |-> "UP", serial |-> s])
      PROVE  IInv'
  <2>1. Like(Tail(answers), answers') BY <1>4, <1>6, AddsOther
  <2>2. Like(answers, answers') BY <1>3, <2>1, LikeLike
  <2> QED BY <1>6, <2>2, ElsewhereStep
<1> QED BY <1>2, <1>5, <1>6

\* One answer of caed is read.
LEMMA AnswerStep == ASSUME IInv, Answer PROVE IInv'
<1> DEFINE a == Head(answers)
<1>1. up /\ answers # <<>> BY DEF Answer
<1>2. /\ IsSeq(answers) /\ IsDeck(rdeck) /\ Tracks(rdeck, Loaded \/ Owed(answers))
      /\ Follows(answers, Loaded) /\ Loaded \in BOOLEAN
  BY DEF IInv, Shapes, Loaded
<1>3. CASE a.tag = "LR" /\ RecordLoaded
  <2>1. /\ UNCHANGED <<kind, up, port, overlapped>>
        /\ rdeck' = [rdeck EXCEPT !.st = "ready"] /\ answers' = Tail(answers)
    BY <1>3 DEF RecordLoaded, Others, history
  <2>2. /\ IsDeck(rdeck') /\ rdeck'.st = "ready" /\ rdeck'.id = rdeck.id
        /\ rdeck'.cut = rdeck.cut /\ rdeck'.aborting = rdeck.aborting
        /\ rdeck'.pending = rdeck.pending
    BY <1>2, <2>1, DeckWith
  <2>3. Like(answers, answers') BY <1>1, <1>2, <1>3, <2>1, ReadsOther
  <2>4. Tracks(rdeck', Loaded \/ Owed(answers)) BY <1>2, <2>2 DEF Tracks
  <2> QED BY <2>1, <2>2, <2>3, <2>4, CalmStep DEF Calm
<1>4. CASE a.tag = "RS" /\ Recording
  <2>1. /\ UNCHANGED <<kind, up, port, overlapped>>
        /\ rdeck' = [rdeck EXCEPT !.st = "recording"] /\ answers' = Tail(answers)
    BY <1>4 DEF Recording, Others, history
  <2>2. /\ IsDeck(rdeck') /\ rdeck'.id = rdeck.id /\ rdeck'.cut = rdeck.cut
        /\ rdeck'.aborting = rdeck.aborting /\ rdeck'.pending = rdeck.pending
    BY <1>2, <2>1, DeckWith
  <2>3. Like(answers, answers') /\ (Loaded \/ Owed(Tail(answers)))
    BY <1>1, <1>2, <1>4, <2>1, ReadsOther
  <2>4. Loaded \/ Owed(answers) BY <2>1, <2>3 DEF Like
  <2>5. Tracks(rdeck', Loaded \/ Owed(answers)) BY <1>2, <2>2, <2>4 DEF Tracks
  <2> QED BY <2>1, <2>2, <2>3, <2>5, CalmStep DEF Calm
<1>5. CASE a.tag = "SR" /\ RecordStopped BY <1>1, <1>5, StoppedStep
<1>6. CASE a.tag = "UR" /\ RecordUnloaded BY <1>1, <1>6, UnloadedStep
<1>7. CASE a.tag = "LP" /\ PlayLoaded(a.serial)
  <2>1. UNCHANGED <<kind, up, rdeck, port, overlapped>> /\ answers' = Tail(answers)
    BY <1>7 DEF PlayLoaded, Others, history
  <2> QED BY <1>1, <1>7, <2>1, PlayAnswerStep
<1>8. CASE a.tag = "PY" /\ Playing
  <2>1. /\ UNCHANGED <<kind, overlapped>>
        /\ Dies \/ (UNCHANGED <<up, rdeck, port>> /\ answers' = Tail(answers))
    BY <1>8 DEF Playing, history
  <2> QED BY <1>1, <1>8, <2>1, PlayAnswerStep
<1>9. ASSUME a.tag \in {"LP", "PY", "SP", "UP"}, NEW s, PlayStopped(s) PROVE IInv'
  <2>1. UNCHANGED <<kind, up, rdeck, port, overlapped>>
        /\ answers' = Append(Tail(answers), [tag |-> "UP", serial |-> s])
    BY <1>9 DEF PlayStopped, Others, history
  <2> QED BY <1>1, <1>9, <2>1, PlayAnswerStep
<1>10. CASE a.tag = "UP" /\ PlayUnloaded
  <2>1. /\ UNCHANGED <<kind, overlapped>>
        /\ Dies \/ (UNCHANGED <<up, rdeck, port>> /\ answers' = Tail(answers))
    BY <1>10 DEF PlayUnloaded, history
  <2> QED BY <1>1, <1>10, <2>1, PlayAnswerStep
<1>11. CASE a.tag \in {"LP", "PY", "SP", "UP"} /\ UnknownSerial(a)
  <2>1. CASE Dies /\ UNCHANGED <<kind, history>>
    BY <1>1, <1>11, <2>1, PlayAnswerStep DEF history
  <2>2. CASE PlayStopped(a.serial) BY <1>9, <1>11, <2>2
  <2>3. CASE answers' = Tail(answers) /\ UNCHANGED <<Others, rdeck, port, history>>
    BY <1>1, <1>11, <2>3, PlayAnswerStep DEF Others, history
  <2> QED BY <1>11, <2>1, <2>2, <2>3 DEF UnknownSerial
<1> QED BY <1>3, <1>4, <1>5, <1>6, <1>7, <1>8, <1>9, <1>10, <1>11 DEF Answer

\* Every step keeps the invariant.
LEMMA EveryStep == IInv /\ [Next]_vars => IInv'
<1> SUFFICES ASSUME IInv, [Next]_vars PROVE IInv' OBVIOUS
<1>1. /\ IsSeq(answers) /\ IsDeck(rdeck) /\ Tracks(rdeck, Loaded \/ Owed(answers))
      /\ IsPort(port) /\ (port.st = "empty" <=> ~Loaded) /\ OneRecording
  BY DEF IInv, Shapes
<1>2. CASE Crash BY <1>1, <1>2, DeadStep DEF Crash, history, OneRecording
<1>3. CASE Restart BY <1>3, RestartStep
<1>4. CASE \E id \in Ids : \/ \E to \in Versions \cup {"gone"} : Edit(id, to)
                           \/ Notified(id)
                           \/ \E code \in Endings : BatchEnds(id, code)
  <2>1. UNCHANGED <<kind, up, rdeck, port, answers, overlapped>>
    BY <1>4 DEF Edit, Notified, BatchEnds, rows, decks, caed, history
  <2> QED BY <1>1, <2>1, ElsewhereStep, LikeItself
<1>5. CASE \E new \in SUBSET {"record", "play"} : ReloadDecks(new) BY <1>5, ReloadStep
<1>6. CASE Due BY <1>6, DueStep
<1>7. CASE RS BY <1>7, RSStep
<1>8. CASE StopDeck BY <1>8, StopDeckStep
<1>9. CASE Answer BY <1>9, AnswerStep
<1>10. CASE RecordingEnds
  <2>1. /\ UNCHANGED <<kind, up, rdeck, overlapped>> /\ port' = Stopped(port)
        /\ answers' = answers \o StopRecord
    BY <1>10 DEF RecordingEnds, rows, decks, history
  <2>2. Like(answers, answers') BY <1>1, <2>1, Stops
  <2> QED BY <1>1, <2>1, <2>2, CalmStep DEF Calm
<1>11. CASE PlaybackEnds
  <2>1. UNCHANGED <<kind, up, rdeck, port, overlapped>>
        /\ \E s \in play : answers' = answers \o StopPlay(s)
    BY <1>11 DEF PlaybackEnds, rows, decks, history
  <2> QED BY <1>1, <2>1, ElsewhereStep, Plays
<1>12. CASE EX \/ EventFinished \/ FreeEvents \/ UNCHANGED vars
  <2>1. UNCHANGED <<kind, up, rdeck, port, answers, overlapped>>
    BY <1>12 DEF EX, EventFinished, FreeEvents, vars, rows, decks, caed, history
  <2> QED BY <1>1, <2>1, ElsewhereStep, LikeItself
<1> QED BY <1>2, <1>3, <1>4, <1>5, <1>6, <1>7, <1>8, <1>9, <1>10, <1>11, <1>12 DEF Next

\* The invariant holds throughout.
LEMMA Invariance == Spec => []IInv
BY InitialState, EveryStep, PTL DEF Spec

\* A record deck that is recording, or being aborted, is loaded in caed or its
\* unload is about to be read; an RS macro waits only for an abort: no abort and
\* no waiting macro outlives the recording it is about, whatever is started,
\* stopped, edited or reloaded meanwhile, and wherever the daemon dies.
THEOREM DeckBehindCaed == Spec => []DeckTracksPort
<1>1. IInv => DeckTracksPort
  <2>1. Waits("UR") <=> Owed(answers) BY DEF Waits, Owed
  <2> QED BY <2>1 DEF IInv, Tracks, DeckTracksPort, Loaded
<1> QED BY <1>1, Invariance, PTL

(* The schedule.                                                           *)

\* Exit codes that say that something is under way.
Underway == {"active", "playing", "loading"}

\* A row has an entry.
Named(es, id) == \E n \in DOMAIN es : es[n].id = id

\* No row has two.
Distinct(es) == \A m, n \in DOMAIN es : es[m].id = es[n].id => m = n

\* What has an entry is no row to come.
Entered == Distinct(events) /\ \A id \in Ids : Named(events, id) => row[id] # "new"

\* A row that has no entry is about to be reported to the daemon, and nothing of
\* it is under way.
Unentered ==
  /\ up => \A id \in Rows : ~Named(events, id) => id \in mail /\ exit[id] \notin Underway
  /\ \A id \in Ids : row[id] = "new" => exit[id] \notin Underway

\* What was carried through is off the schedule.
Finished ==
  /\ \A id \in done : kind[id] # "play" => /\ id \notin Rows /\ row[id] # "new"
                                           /\ ~Named(events, id)
  /\ pdeck.id # -1 => kind[pdeck.id] = "play"

Schedule == Entered /\ Unentered /\ Finished

(* Batches.                                                                *)
Loads == up => \A id \in Rows :
           exit[id] = "loading" => kind[id] = "load" /\ id \in child \cup mute

(* The record deck.                                                        *)
RecordTags == {"LR", "RS", "SR", "UR"}

\* A queue with nothing of the record deck.
Silent(q) == \A n \in DOMAIN q : q[n].tag \notin RecordTags

\* A queue that tells first that the port was loaded, then that it was started.
Opens(q) ==
  \E k \in DOMAIN q :
    /\ q[k].tag = "RS"
    /\ \A n \in DOMAIN q : /\ q[n].tag = "LR" => n < k
                           /\ q[n].tag \in {"RS", "SR"} => n >= k
                           /\ q[n].tag # "UR"

\* A queue that tells of starts and stops only.
Rolls(q) == \A n \in DOMAIN q : q[n].tag \notin {"LR", "UR"}

\* A queue that tells of an unload, after all the starts and stops.
Closes(q) ==
  \E k \in DOMAIN q :
    /\ q[k].tag = "UR"
    /\ \A n \in DOMAIN q : /\ q[n].tag # "LR"
                           /\ q[n].tag \in {"RS", "SR"} => n < k
                           /\ q[n].tag = "UR" => n = k

Resting == port = Nothing /\ Silent(answers) /\ rdeck.st # "recording"
Opening == port # Nothing /\ Opens(answers) /\ rdeck.st # "recording"
Rolling == /\ rdeck.st \in {"recording", "offline"}
           /\ \/ port # Nothing /\ Rolls(answers)
              \/ port = Nothing /\ Closes(answers)

Recorder ==
  ~returned =>
    /\ Resting \/ Opening \/ Rolling
    /\ up => \A id \in Rows : exit[id] = "active" => rdeck.id = id /\ Rolling

(* The play deck.                                                          *)

\* Caed has the playback, or its unload is yet to be read.
Airs(q, pl, s) ==
  s \in pl \/ -s \in pl \/ \E n \in DOMAIN q : q[n].tag = "UP" /\ q[n].serial = s

\* It is known to be loaded, and it is not over.
Flies(q, pl, s) ==
  /\ s > 0
  /\ \A n \in DOMAIN q : q[n].tag = "LP" => q[n].serial # s
  /\ Airs(q, pl, s)

\* What is told of the starts of playbacks, up to the last one.
ToldOf(q, pl, last) ==
  \A n \in DOMAIN q : q[n].tag = "PY" =>
    /\ q[n].serial > 0 /\ q[n].serial <= last
    /\ \A m \in DOMAIN q : m > n /\ q[m].tag = "LP" => q[m].serial # q[n].serial
    /\ \/ q[n].serial \in pl \/ -q[n].serial \in pl
       \/ \E m \in DOMAIN q : m > n /\ q[m].tag = "UP" /\ q[m].serial = q[n].serial

Told == ToldOf(answers, play, pdeck.serial)
OnAir == pdeck.st \in {"recording", "offline"} /\ Flies(answers, play, pdeck.serial)

Player ==
  /\ Told
  /\ ~returned /\ up =>
       \A id \in Rows : exit[id] = "playing" => pdeck.id = id /\ OnAir

\* A daemon that is down has nothing of caed.
Down == ~up => port = Nothing /\ play = {} /\ answers = <<>>

Whole == TypeOK /\ Down /\ Schedule /\ Loads /\ Recorder /\ Player
-----------------------------------------------------------------------------
(* Lemmas about the schedule's operators.                                  *)

\* What GetEvent finds.
LEMMA Index ==
  ASSUME events \in Seq(Entries), Distinct(events), NEW id
  PROVE  /\ IndexOf(id) = 0 <=> ~Named(events, id)
         /\ IndexOf(id) # 0 => IndexOf(id) \in DOMAIN events /\ events[IndexOf(id)].id = id
         /\ IndexOf(id) > 0 <=> IndexOf(id) # 0
<1>1. DOMAIN events = 1..Len(events) /\ Len(events) \in Nat OBVIOUS
<1>2. CASE ~Named(events, id) BY <1>2 DEF IndexOf, Named
<1>3. CASE Named(events, id)
  <2>1. PICK n \in DOMAIN events : events[n].id = id BY <1>3 DEF Named
  <2>2. \A m \in 1..n - 1 : m \in DOMAIN events /\ m # n BY <1>1
  <2>3. \A m \in 1..n - 1 : events[m].id # id BY <2>1, <2>2 DEF Distinct
  <2>4. \E k \in DOMAIN events : /\ events[k].id = id
                                 /\ \A m \in 1..k - 1 : events[m].id # id
    BY <2>1, <2>3
  <2>5. IndexOf(id) \in DOMAIN events /\ events[IndexOf(id)].id = id
    BY <2>1, <2>4 DEF IndexOf
  <2> QED BY <1>1, <1>3, <2>5
<1> QED BY <1>2, <1>3

\* An entry is removed.
LEMMA Drops ==
  ASSUME NEW es \in Seq(Entries), Distinct(es), NEW n \in DOMAIN es
  PROVE  /\ RemoveAt(es, n) \in Seq(Entries) /\ Distinct(RemoveAt(es, n))
         /\ \A id : Named(RemoveAt(es, n), id) <=> Named(es, id) /\ id # es[n].id
<1> DEFINE l == Len(es)
           p == RemoveAt(es, n)
<1>1. l \in Nat /\ n \in 1..l /\ DOMAIN es = 1..l OBVIOUS
<1>2. SubSeq(es, 1, n - 1) \in Seq(Entries) /\ Len(SubSeq(es, 1, n - 1)) = n - 1
      /\ \A k \in 1..n - 1 : SubSeq(es, 1, n - 1)[k] = es[k]
  BY <1>1
<1>3. SubSeq(es, n + 1, l) \in Seq(Entries) /\ Len(SubSeq(es, n + 1, l)) = l - n
      /\ \A k \in 1..l - n : SubSeq(es, n + 1, l)[k] = es[n + k]
  BY <1>1
<1>4. p \in Seq(Entries) /\ DOMAIN p = 1..l - 1
      /\ (\A k \in 1..n - 1 : p[k] = es[k]) /\ \A k \in n..l - 1 : p[k] = es[k + 1]
  <2> DEFINE a == SubSeq(es, 1, n - 1)
             b == SubSeq(es, n + 1, l)
  <2>1. p = a \o b BY DEF RemoveAt
  <2>2. /\ a \in Seq(Entries) /\ Len(a) = n - 1 /\ \A k \in 1..n - 1 : a[k] = es[k]
        /\ b \in Seq(Entries) /\ Len(b) = l - n /\ \A k \in 1..l - n : b[k] = es[n + k]
    BY <1>2, <1>3
  <2> HIDE DEF p, a, b, l
  <2>3. /\ p \in Seq(Entries) /\ Len(p) = l - 1 /\ \A k \in 1..n - 1 : p[k] = a[k]
        /\ \A k \in n..l - 1 : p[k] = b[k - (n - 1)]
    <3>1. /\ p \in Seq(Entries) /\ Len(p) = Len(a) + Len(b)
          /\ \A k \in 1..Len(a) + Len(b) :
               p[k] = IF k <= Len(a) THEN a[k] ELSE b[k - Len(a)]
      BY <2>1, <2>2, ConcatProperties
    <3>2. Len(a) + Len(b) = l - 1 BY <1>1, <2>2
    <3>3. \A k \in 1..n - 1 : k \in 1..l - 1 /\ k <= n - 1 BY <1>1
    <3>4. \A k \in n..l - 1 : k \in 1..l - 1 /\ ~(k <= n - 1) BY <1>1
    <3> QED BY <2>2, <3>1, <3>2, <3>3, <3>4
  <2>4. \A k \in n..l - 1 : k - (n - 1) \in 1..l - n /\ n + (k - (n - 1)) = k + 1 BY <1>1
  <2>5. \A k \in n..l - 1 : p[k] = es[k + 1] BY <2>2, <2>3, <2>4
  <2> QED BY <1>1, <2>2, <2>3, <2>5
<1> HIDE DEF p, l
<1>5. \A k \in DOMAIN p : \E m \in DOMAIN es :
        m # n /\ p[k] = es[m] /\ m = (IF k < n THEN k ELSE k + 1)
  BY <1>1, <1>4
<1>6. \A m \in DOMAIN es : m # n => \E k \in DOMAIN p : p[k] = es[m]
  <2> SUFFICES ASSUME NEW m \in DOMAIN es, m # n PROVE \E k \in DOMAIN p : p[k] = es[m]
    OBVIOUS
  <2>1. CASE m < n BY <1>1, <1>4, <2>1
  <2>2. CASE m > n
    <3>1. m - 1 \in n..l - 1 /\ m - 1 \in DOMAIN p /\ (m - 1) + 1 = m BY <1>1, <1>4, <2>2
    <3>2. p[m - 1] = es[(m - 1) + 1] BY <1>4, <3>1
    <3> QED BY <3>1, <3>2
  <2> QED BY <1>1, <2>1, <2>2
<1>7. Distinct(p)
  <2> SUFFICES ASSUME NEW j \in DOMAIN p, NEW k \in DOMAIN p, p[j].id = p[k].id PROVE j = k
    BY DEF Distinct
  <2>1. (IF j < n THEN j ELSE j + 1) = (IF k < n THEN k ELSE k + 1)
    BY <1>5 DEF Distinct
  <2> QED BY <1>1, <1>4, <2>1
<1>8. \A id : Named(p, id) <=> Named(es, id) /\ id # es[n].id
  BY <1>5, <1>6 DEF Named, Distinct
<1> QED BY <1>4, <1>7, <1>8 DEF p

\* An entry is added at the end.
LEMMA Adds ==
  ASSUME NEW es \in Seq(Entries), Distinct(es), NEW e \in Entries, ~Named(es, e.id)
  PROVE  /\ Append(es, e) \in Seq(Entries) /\ Distinct(Append(es, e))
         /\ \A id : Named(Append(es, e), id) <=> Named(es, id) \/ id = e.id
<1> DEFINE p == Append(es, e)
           l == Len(es)
<1>1. /\ p \in Seq(Entries) /\ l \in Nat /\ DOMAIN es = 1..l /\ DOMAIN p = 1..l + 1
      /\ p[l + 1] = e /\ \A n \in 1..l : p[n] = es[n]
  OBVIOUS
<1> HIDE DEF p, l
<1>2. \A n \in DOMAIN p : n = l + 1 \/ (n \in DOMAIN es /\ p[n] = es[n])
  <2>1. \A n \in 1..l + 1 : n = l + 1 \/ n \in 1..l BY <1>1
  <2> QED BY <1>1, <2>1
<1>3. Distinct(p)
  <2> SUFFICES ASSUME NEW j \in DOMAIN p, NEW k \in DOMAIN p, p[j].id = p[k].id PROVE j = k
    BY DEF Distinct
  <2> QED BY <1>1, <1>2 DEF Distinct, Named
<1>4. \A id : Named(p, id) <=> Named(es, id) \/ id = e.id BY <1>1, <1>2 DEF Named
<1> QED BY <1>1, <1>3, <1>4 DEF p

\* The schedule as it is loaded.
LEMMA Lists ==
  ASSUME NEW es \in LoadEngine, IsFiniteSet(Ids)
  PROVE  /\ es \in Seq(Entries) /\ Distinct(es)
         /\ \A id : Named(es, id) <=> id \in Rows
<1>1. es \in [1..Cardinality(Rows) -> Entries] /\ {es[n].id : n \in DOMAIN es} = Rows
      /\ \A m, n \in DOMAIN es : m < n => es[m].id < es[n].id
  BY DEF LoadEngine, Listed
<1>2. Cardinality(Rows) \in Nat
  <2>1. Rows \subseteq Ids BY DEF Rows
  <2>2. IsFiniteSet(Rows) BY <2>1, FS_Subset
  <2> QED BY <2>2, FS_CardinalityType
<1>3. es \in Seq(Entries) BY <1>1, <1>2
<1>4. \A id : Named(es, id) <=> id \in Rows BY <1>1 DEF Named
<1>5. Rows \subseteq Nat BY CatchdAssumption DEF Rows
<1>6. Distinct(es)
  <2> SUFFICES ASSUME NEW j \in DOMAIN es, NEW k \in DOMAIN es, es[j].id = es[k].id PROVE j = k
    BY DEF Distinct
  <2>1. es[j].id \in Nat /\ es[k].id \in Nat BY <1>1, <1>5
  <2>2. j \in Nat /\ k \in Nat BY <1>1, <1>2
  <2>3. ~(es[j].id < es[k].id) /\ ~(es[k].id < es[j].id) BY <2>1
  <2> QED BY <1>1, <2>2, <2>3
<1> QED BY <1>3, <1>4, <1>6

\* An exit code is written.
LEMMA Marks ==
  ASSUME exit \in [Ids -> Codes], NEW i, NEW code \in Codes, Writes(Code(i, code))
  PROVE  /\ exit' \in [Ids -> Codes]
         /\ \A id \in Ids : exit'[id] = IF id = i /\ id \in Rows THEN code ELSE exit[id]
BY DEF Writes, Code

(* What steps do to the schedule.                                          *)

\* The rows' part of the invariant, which the lemmas below rest on.
Sane == TypeOK /\ Schedule

\* The ids of rows are no other ids.
LEMMA NoRow == Dynamic \notin Ids /\ -1 \notin Ids /\ Ids \subseteq Nat /\ Rows \subseteq Ids
BY CatchdAssumption DEF Dynamic, Rows

\* An entry's id is a row's, or the one of an RML recording.
LEMMA EntryIds ==
  ASSUME TypeOK, NEW n \in DOMAIN events
  PROVE  events[n] \in Entries /\ events[n].id \in Ids \cup {Dynamic}
<1>1. events \in Seq(Entries) BY DEF TypeOK
<1>2. events[n] \in Entries BY <1>1
<1> QED BY <1>2 DEF Entries

\* An entry and its row are purged, if its row is there.
LEMMA PurgesIt ==
  ASSUME Sane, NEW n \in DOMAIN events, PurgesRow(n)
  PROVE  /\ row' \in [Ids -> Versions \cup {"new", "gone", "purged"}]
         /\ \A id \in Ids : row'[id] = IF id = events[n].id /\ id \in Rows THEN "purged"
                                                                         ELSE row[id]
BY NoRow DEF Sane, TypeOK, PurgesRow

\* An event is carried through: a one-shot is done, and purged.
LEMMA Carries ==
  ASSUME Sane, NEW n \in DOMAIN events, Carried(n)
  PROVE  /\ row' \in [Ids -> Versions \cup {"new", "gone", "purged"}]
         /\ \A id \in Ids :
              row'[id] = IF id = events[n].id /\ OneShot(id) /\ id \in Rows THEN "purged"
                                                                            ELSE row[id]
         /\ done' = done \cup ({events[n].id} \cap once)
<1>1. row \in [Ids -> Versions \cup {"new", "gone", "purged"}] BY DEF Sane, TypeOK
<1>2. CASE OneShot(events[n].id)
  <2>1. PurgesRow(n) BY <1>2 DEF Carried
  <2> QED BY <1>2, <2>1, PurgesIt DEF Carried
<1>3. CASE ~OneShot(events[n].id)
  <2>1. row' = row BY <1>3 DEF Carried
  <2> QED BY <1>1, <1>3, <2>1 DEF Carried
<1> QED BY <1>2, <1>3

\* What is left then.
LEMMA Leaves ==
  ASSUME Sane, NEW n \in DOMAIN events
  PROVE  /\ Left(n) \in Seq(Entries) /\ Distinct(Left(n))
         /\ \A id : Named(Left(n), id) <=>
                      Named(events, id) /\ ~(id = events[n].id /\ OneShot(id))
<1>1. events \in Seq(Entries) /\ Distinct(events) BY DEF Sane, TypeOK, Schedule, Entered
<1>2. CASE OneShot(events[n].id) BY <1>1, <1>2, Drops DEF Left
<1>3. CASE ~OneShot(events[n].id) BY <1>1, <1>3 DEF Left
<1> QED BY <1>2, <1>3

\* An entry is renewed from its row.
LEMMA Updates ==
  ASSUME Sane, NEW id \in Ids, UpdateEvent(id)
  PROVE  /\ events' \in Seq(Entries) /\ Distinct(events')
         /\ \A i : Named(events', i) <=> IF i = id THEN id \in Rows ELSE Named(events, i)
<1> DEFINE n == IndexOf(id)
           rest == IF n = 0 THEN events ELSE RemoveAt(events, n)
           e == [id |-> id, ver |-> row[id]]
<1>1. events \in Seq(Entries) /\ Distinct(events) BY DEF Sane, TypeOK, Schedule, Entered
<1>2. /\ n = 0 <=> ~Named(events, id)
      /\ n # 0 => n \in DOMAIN events /\ events[n].id = id
  BY <1>1, Index
<1>3. /\ rest \in Seq(Entries) /\ Distinct(rest)
      /\ \A i : Named(rest, i) <=> Named(events, i) /\ i # id
  <2>1. CASE n = 0 BY <1>1, <1>2, <2>1
  <2>2. CASE n # 0
    <3>1. n \in DOMAIN events /\ events[n].id = id /\ rest = RemoveAt(events, n) BY <1>2, <2>2
    <3> HIDE DEF n, rest
    <3> QED BY <1>1, <3>1, Drops
  <2> QED BY <2>1, <2>2
<1>4. events' = IF id \in Rows THEN Append(rest, e) ELSE rest BY DEF UpdateEvent
<1>5. id \in Rows => e \in Entries /\ e.id = id BY DEF Entries, Rows
<1> HIDE DEF n, rest, e
<1>6. CASE id \in Rows
  <2>1. ~Named(rest, e.id) BY <1>3, <1>5, <1>6
  <2> QED BY <1>3, <1>4, <1>5, <1>6, <2>1, Adds
<1>7. CASE id \notin Rows BY <1>3, <1>4, <1>7
<1> QED BY <1>6, <1>7

\* An RML recording is entered, or the daemon dies of it.
LEMMA Rmls ==
  ASSUME NEW es \in Seq(Entries), Distinct(es), NEW d, NEW q, StartRmlRecording(es, d, q)
  PROVE  \/ Dies /\ UNCHANGED overlapped
         \/ /\ events' \in Seq(Entries) /\ Distinct(events')
            /\ \A id \in Ids : Named(events', id) <=> Named(es, id)
            /\ StartRecording([id |-> Dynamic, ver |-> "added"], d, q)
            /\ UNCHANGED <<up, mail, pdeck, pool, play>>
<1> DEFINE e == [id |-> Dynamic, ver |-> "added"]
<1>1. CASE \E n \in DOMAIN es : es[n].id = Dynamic BY <1>1 DEF StartRmlRecording
<1>2. CASE ~\E n \in DOMAIN es : es[n].id = Dynamic
  <2>1. /\ events' = Append(es, e) /\ StartRecording(e, d, q)
        /\ UNCHANGED <<up, mail, pdeck, pool, play>>
    BY <1>2 DEF StartRmlRecording
  <2>2. e \in Entries /\ e.id = Dynamic BY DEF Entries, Versions
  <2>3. ~Named(es, e.id) BY <1>2, <2>2 DEF Named
  <2> HIDE DEF e
  <2>4. /\ events' \in Seq(Entries) /\ Distinct(events')
        /\ \A id : Named(events', id) <=> Named(es, id) \/ id = e.id
    BY <2>1, <2>2, <2>3, Adds
  <2> QED BY <2>1, <2>2, <2>4, NoRow DEF e
<1> QED BY <1>1, <1>2

\* The deck is idle again: the RML recording that waited is entered, if there is one.
LEMMA Caches ==
  ASSUME NEW es \in Seq(Entries), Distinct(es), NEW d, RunRmlRecordingCache(es, d)
  PROVE  \/ Dies /\ UNCHANGED overlapped
         \/ /\ events' \in Seq(Entries) /\ Distinct(events')
            /\ \A id \in Ids : Named(events', id) <=> Named(es, id)
            /\ UNCHANGED <<up, mail, pdeck, pool, play>>
            /\ \/ StartRecording([id |-> Dynamic, ver |-> "added"], Idle(d), Tail(answers))
               \/ /\ rdeck' = Idle(d) /\ answers' = Tail(answers)
                  /\ UNCHANGED <<port, overlapped>>
<1>1. CASE d.pending
  <2>1. StartRmlRecording(es, Idle(d), Tail(answers)) BY <1>1 DEF RunRmlRecordingCache
  <2> QED BY <2>1, Rmls
<1>2. CASE ~d.pending BY <1>2 DEF RunRmlRecordingCache
<1> QED BY <1>1, <1>2

(* Every step keeps the schedule.                                          *)

\* What may become of the exit codes: a row gets one that says that something is
\* under way only when it has an entry.
Codable == \A id \in Ids : \/ exit'[id] = exit[id] \/ exit'[id] \notin Underway
                           \/ id \in Rows /\ Named(events, id)

\* And of the play deck: it is given playouts.
Playable == pdeck'.id \in {pdeck.id, -1} \/ kind[pdeck'.id] = "play"

\* A step that leaves rows and entries as they are.
LEMMA SteadyStep ==
  ASSUME Sane, UNCHANGED <<kind, up, row, mail, events, done>>, Codable, Playable
  PROVE  Schedule'
<1>1. Rows' = Rows BY DEF Rows
<1>2. \A id : Named(events, id)' <=> Named(events, id) BY DEF Named
<1>3. Entered' BY <1>2 DEF Sane, Schedule, Entered, Distinct
<1>4. Unentered' BY <1>1, <1>2, NoRow DEF Sane, Schedule, Unentered, Codable, Rows, Underway, Versions
<1>5. Finished' BY <1>1, <1>2 DEF Sane, Schedule, Finished, Playable
<1> QED BY <1>3, <1>4, <1>5 DEF Schedule

\* What may become of the rows: those that are there may be purged.
Purgeable == \A id \in Ids : row'[id] = row[id] \/ (id \in Rows /\ row'[id] = "purged")

\* The daemon dies, after it purged or did not.
LEMMA DeathStep ==
  ASSUME Sane, Dies, kind' = kind, Purgeable,
         \A id \in Ids : exit'[id] = exit[id] \/ id \in Rows,
         \A id \in done' : id \in Ids /\ (kind[id] # "play" => row'[id] \notin Versions \cup {"new"})
  PROVE  Schedule'
<1>1. ~up' /\ events' = <<>> /\ pdeck' = POff BY DEF Dies
<1>2. Distinct(events') /\ \A id : ~Named(events', id) BY <1>1 DEF Distinct, Named
<1>3. Entered' BY <1>2 DEF Entered
<1>4. Unentered' BY <1>1 DEF Sane, Schedule, Unentered, Purgeable, Rows, Versions
<1>5. Finished' BY <1>1, <1>2 DEF Finished, POff, Rows
<1> QED BY <1>3, <1>4, <1>5 DEF Schedule

\* An event is carried through, or what stands at an index is purged.
LEMMA ThroughStep ==
  ASSUME Sane, NEW n \in DOMAIN events, UNCHANGED <<kind, up, mail>>, Codable, Playable,
         Distinct(events'),
         \A id \in Ids : Named(events', id) <=>
           Named(events, id) /\ ~(id = events[n].id /\ OneShot(id)),
         \A id \in Ids :
           row'[id] = IF id = events[n].id /\ OneShot(id) /\ id \in Rows THEN "purged"
                                                                         ELSE row[id],
         done' \subseteq Ids,
         \A id \in done' : \/ id \in done \/ kind[id] = "play"
                           \/ id = events[n].id /\ OneShot(id)
  PROVE  Schedule'
<1>1. Named(events, events[n].id) BY DEF Named
<1>2. Entered' BY DEF Sane, Schedule, Entered
<1>3. \A id \in Ids : /\ id \in Rows' => id \in Rows /\ row'[id] = row[id]
                      /\ id \in Rows' => ~(id = events[n].id /\ OneShot(id))
                      /\ row'[id] = "new" => row[id] = "new"
  BY DEF Rows, Versions
<1>4. Unentered'
  <2>1. ASSUME up', NEW id \in Rows', ~Named(events', id)
        PROVE  id \in mail' /\ exit'[id] \notin Underway
    <3>1. up /\ id \in Ids /\ id \in Rows /\ ~Named(events, id) BY <1>3, <2>1 DEF Rows
    <3>2. id \in mail /\ exit[id] \notin Underway BY <3>1 DEF Sane, Schedule, Unentered
    <3> QED BY <3>1, <3>2 DEF Codable
  <2>2. ASSUME NEW id \in Ids, row'[id] = "new" PROVE exit'[id] \notin Underway
    <3>1. row[id] = "new" /\ id \notin Rows BY <1>3, <2>2 DEF Rows, Versions
    <3> QED BY <3>1 DEF Sane, Schedule, Unentered, Codable
  <2> QED BY <2>1, <2>2 DEF Unentered
<1>5. Finished'
  <2>1. ASSUME NEW id \in done', kind[id] # "play"
        PROVE  id \notin Rows' /\ row'[id] # "new" /\ ~Named(events', id)
    <3>1. id \in Ids OBVIOUS
    <3>2. CASE id \in done
      <4>1. id \notin Rows /\ row[id] # "new" /\ ~Named(events, id)
        BY <2>1, <3>2 DEF Sane, Schedule, Finished
      <4> QED BY <1>3, <3>1, <4>1
    <3>3. CASE id = events[n].id /\ OneShot(id)
      <4>1. row[id] # "new" BY <1>1, <3>1, <3>3 DEF Sane, Schedule, Entered
      <4> QED BY <1>3, <3>1, <3>3, <4>1
    <3> QED BY <2>1, <3>2, <3>3
  <2>2. pdeck'.id # -1 => kind[pdeck'.id] = "play" BY DEF Sane, Schedule, Finished, Playable
  <2> QED BY <2>1, <2>2 DEF Finished
<1> QED BY <1>2, <1>4, <1>5 DEF Schedule

\* A daemon that starts enters the rows that are there.
LEMMA RestartSchedule == ASSUME Sane, Restart PROVE Schedule'
<1>1. events' \in LoadEngine /\ UNCHANGED <<kind, row, done>> /\ pdeck'.id = -1
  BY DEF Restart, rows, POff
<1>2. Rows' = Rows BY <1>1 DEF Rows
<1>3. Distinct(events') /\ \A id : Named(events', id) <=> id \in Rows
  BY <1>1, Lists, CatchdAssumption
<1>4. \A id \in Ids : id \in Rows \/ exit'[id] = exit[id] BY DEF Restart, Writes
<1>5. Entered' BY <1>1, <1>3 DEF Entered, Rows, Versions
<1>6. Unentered' BY <1>1, <1>2, <1>3, <1>4 DEF Sane, Schedule, Unentered, Rows, Versions
<1>7. Finished' BY <1>1, <1>2, <1>3 DEF Sane, Schedule, Finished
<1> QED BY <1>5, <1>6, <1>7 DEF Schedule

\* rdcatch changes a row; what was carried through it cannot.
LEMMA EditSchedule == ASSUME Sane, NEW id \in Ids, NEW to, Edit(id, to) PROVE Schedule'
<1>1. /\ UNCHANGED <<kind, exit, up, events, pdeck, done>>
      /\ row' = [row EXCEPT ![id] = to]
      /\ mail' = IF up THEN mail \cup {id} ELSE mail
      /\ to \in Versions \cup {"gone"} /\ row[id] \in Versions \cup {"new"}
  BY DEF Edit, decks, history, Versions
<1>2. row \in [Ids -> Versions \cup {"new", "gone", "purged"}] BY DEF Sane, TypeOK
<1>3. row'[id] = to /\ to # "new" /\ \A i \in Ids : i # id => row'[i] = row[i]
  BY <1>1, <1>2 DEF Versions
<1>4. \A i : Named(events', i) <=> Named(events, i) BY <1>1 DEF Named
<1>5. Distinct(events') BY <1>1 DEF Sane, Schedule, Entered, Distinct
<1>6. Entered' BY <1>3, <1>4, <1>5 DEF Sane, Schedule, Entered
<1>7. Unentered'
  <2>1. ASSUME up', NEW i \in Rows', ~Named(events', i)
        PROVE  i \in mail' /\ exit'[i] \notin Underway
    <3>1. up /\ i \in Ids /\ ~Named(events, i) BY <1>1, <1>4, <2>1 DEF Rows
    <3>2. CASE i \in Rows
      BY <1>1, <3>1, <3>2 DEF Sane, Schedule, Unentered
    <3>3. CASE i \notin Rows
      <4>1. i = id /\ row[i] = "new" BY <1>1, <1>3, <2>1, <3>1, <3>3 DEF Rows
      <4> QED BY <1>1, <3>1, <4>1 DEF Sane, Schedule, Unentered
    <3> QED BY <3>2, <3>3
  <2>2. ASSUME NEW i \in Ids, row'[i] = "new" PROVE exit'[i] \notin Underway
    BY <1>1, <1>3, <2>2 DEF Sane, Schedule, Unentered
  <2> QED BY <2>1, <2>2 DEF Unentered
<1>8. Finished'
  <2>1. ASSUME NEW i \in done, kind[i] # "play"
        PROVE  i \notin Rows' /\ row'[i] # "new" /\ ~Named(events', i)
    <3>1. i \in Ids BY DEF Sane, TypeOK
    <3>2. i \notin Rows /\ row[i] # "new" /\ ~Named(events, i)
      BY <2>1 DEF Sane, Schedule, Finished
    <3>3. i # id BY <1>1, <3>1, <3>2 DEF Rows
    <3> QED BY <1>3, <1>4, <3>1, <3>2, <3>3 DEF Rows
  <2> QED BY <1>1, <2>1 DEF Sane, Schedule, Finished
<1> QED BY <1>6, <1>7, <1>8 DEF Schedule

\* The daemon hears of a change.
LEMMA NotifiedSchedule == ASSUME Sane, NEW id \in Ids, Notified(id) PROVE Schedule'
<1>1. /\ UNCHANGED <<kind, row, exit, up, pdeck, done>> /\ mail' = mail \ {id}
      /\ UpdateEvent(id)
  BY DEF Notified, decks, history
<1>2. /\ Distinct(events')
      /\ \A i : Named(events', i) <=> IF i = id THEN id \in Rows ELSE Named(events, i)
  BY <1>1, Updates
<1>3. Rows' = Rows BY <1>1 DEF Rows
<1>4. Entered' BY <1>1, <1>2 DEF Sane, Schedule, Entered, Rows, Versions
<1>5. Unentered'
  <2>1. ASSUME up', NEW i \in Rows', ~Named(events', i)
        PROVE  i \in mail' /\ exit'[i] \notin Underway
    <3>1. i # id /\ i \in Rows /\ ~Named(events, i) BY <1>2, <1>3, <2>1
    <3> QED BY <1>1, <2>1, <3>1 DEF Sane, Schedule, Unentered
  <2> QED BY <1>1, <2>1 DEF Sane, Schedule, Unentered
<1>6. Finished' BY <1>1, <1>2, <1>3 DEF Sane, Schedule, Finished
<1> QED BY <1>4, <1>5, <1>6 DEF Schedule

\* A code is written that says that nothing is under way, or of an event that was
\* found.
LEMMA CodesIt ==
  ASSUME Sane, NEW i, NEW code \in Codes, Writes(Code(i, code)),
         code \notin Underway \/ Named(events, i)
  PROVE  Codable
BY Marks DEF Sane, TypeOK, Codable

\* An event is carried through, and nothing else of the schedule changes.
LEMMA CarriedSchedule ==
  ASSUME Sane, NEW n \in DOMAIN events, Carried(n), UNCHANGED <<kind, up, mail>>,
         Codable, Playable, Distinct(events'),
         \A id \in Ids : Named(events', id) <=> Named(Left(n), id)
  PROVE  Schedule'
<1>1. \A id \in Ids : Named(events', id) <=>
        Named(events, id) /\ ~(id = events[n].id /\ OneShot(id))
  BY Leaves
<1>2. /\ \A id \in Ids : row'[id] = IF id = events[n].id /\ OneShot(id) /\ id \in Rows
                                    THEN "purged" ELSE row[id]
      /\ done' = done \cup ({events[n].id} \cap once)
  BY Carries
<1>3. done \subseteq Ids /\ once \subseteq Ids BY DEF Sane, TypeOK
<1>4. done' \subseteq Ids BY <1>2, <1>3
<1>5. \A id \in done' : id \in done \/ (id = events[n].id /\ OneShot(id))
  BY <1>2 DEF OneShot
<1> QED BY <1>1, <1>2, <1>4, <1>5, ThroughStep

\* An event is started.
LEMMA DueSchedule == ASSUME Sane, Due PROVE Schedule'
<1>1. PICK n \in DOMAIN events :
        LET k == kind[events[n].id]
        IN  \/ Recorded(k) /\ RecordingDue(n)
            \/ k = "play" /\ PlayoutDue(n)
            \/ k = "macro" /\ MacroDue(n)
            \/ k = "switch" /\ SwitchDue(n)
            \/ k = "load" /\ LoadDue(n)
  BY DEF Due
<1> DEFINE id == events[n].id
<1>2. UNCHANGED <<kind, up, mail>> BY DEF Due
<1>3. Named(events, id) BY DEF Named
<1>4. "busy" \in Codes /\ "error" \in Codes /\ "loading" \in Codes
      /\ "busy" \notin Underway /\ "error" \notin Underway
  BY DEF Codes, Underway
<1>5. UNCHANGED exit => Codable BY DEF Codable
<1>6. CASE RecordingDue(n)
  <2>1. UNCHANGED <<row, events, pdeck, done>> BY <1>6 DEF RecordingDue
  <2>2. Codable BY <1>4, <1>5, <1>6, CodesIt DEF RecordingDue
  <2> QED BY <1>2, <2>1, <2>2, SteadyStep DEF Playable
<1>7. CASE kind[id] = "play" /\ PlayoutDue(n)
  <2>1. UNCHANGED <<row, events, done>> BY <1>7 DEF PlayoutDue
  <2>2. Codable BY <1>4, <1>5, <1>7, CodesIt DEF PlayoutDue
  <2>3. Playable
    <3>1. pdeck \in [st : {"offline", "idle", "ready", "recording"},
                     id : Ids \cup {-1}, idx : Nat, serial : Nat]
      BY DEF Sane, TypeOK
    <3>2. pdeck' = pdeck \/ pdeck' = [pdeck EXCEPT !.id = id, !.idx = n, !.serial = pdeck.serial + 1]
      BY <1>7 DEF PlayoutDue
    <3>3. pdeck'.id \in {pdeck.id, id} BY <3>1, <3>2
    <3> QED BY <1>7, <3>3 DEF Playable
  <2> QED BY <1>2, <2>1, <2>2, <2>3, SteadyStep
<1>8. CASE MacroDue(n)
  BY <1>2, <1>5, <1>8, SteadyStep DEF MacroDue, Playable
<1>9. CASE LoadDue(n)
  <2>1. UNCHANGED <<row, events, pdeck, done>> BY <1>9 DEF LoadDue
  <2>2. Codable BY <1>3, <1>4, <1>9, CodesIt DEF LoadDue
  <2> QED BY <1>2, <2>1, <2>2, SteadyStep DEF Playable
<1>10. CASE SwitchDue(n)
  <2>1. Carried(n) /\ events' = Left(n) /\ UNCHANGED <<exit, pdeck>> BY <1>10 DEF SwitchDue
  <2>2. Distinct(events') BY <2>1, Leaves
  <2> QED BY <1>2, <1>5, <2>1, <2>2, CarriedSchedule DEF Playable
<1> QED BY <1>1, <1>6, <1>7, <1>8, <1>9, <1>10

\* Death, with the rows as they are.
LEMMA DiesSchedule ==
  ASSUME Sane, Dies, UNCHANGED <<kind, row, exit, done>>
  PROVE  Schedule'
<1>1. Purgeable BY DEF Purgeable
<1>2. \A id \in done : id \in Ids /\ (kind[id] # "play" => row[id] \notin Versions \cup {"new"})
  BY DEF Sane, TypeOK, Schedule, Finished, Rows
<1> QED BY <1>1, <1>2, DeathStep

\* An RS macro enters an RML recording, which is no row's.
LEMMA RSSchedule == ASSUME Sane, RS PROVE Schedule'
<1>1. UNCHANGED <<kind, row, exit, done>> BY DEF RS
<1>2. events \in Seq(Entries) /\ Distinct(events) BY DEF Sane, TypeOK, Schedule, Entered
<1>3. CASE StartRmlRecording(events, rdeck, answers)
  <2>1. CASE Dies BY <1>1, <2>1, DiesSchedule
  <2>2. CASE /\ Distinct(events') /\ \A id \in Ids : Named(events', id) <=> Named(events, id)
             /\ UNCHANGED <<up, mail, pdeck>>
    <3>1. Rows' = Rows /\ Rows \subseteq Ids BY <1>1 DEF Rows
    <3>2. Entered' BY <1>1, <2>2 DEF Sane, Schedule, Entered
    <3>3. Unentered' BY <1>1, <2>2, <3>1 DEF Sane, Schedule, Unentered
    <3>4. done \subseteq Ids BY DEF Sane, TypeOK
    <3>5. Finished' BY <1>1, <2>2, <3>1, <3>4 DEF Sane, Schedule, Finished
    <3> QED BY <3>2, <3>3, <3>5 DEF Schedule
  <2> QED BY <1>2, <1>3, <2>1, <2>2, Rmls
<1>4. CASE UNCHANGED <<mail, up, events, pdeck>>
  BY <1>1, <1>4, SteadyStep DEF Codable, Playable
<1> QED BY <1>3, <1>4 DEF RS

\* A recording is over: its event is carried through.
LEMMA RecordUnloadedSchedule == ASSUME Sane, RecordUnloaded PROVE Schedule'
<1> DEFINE n == IndexOf(rdeck.id)
           code == IF rdeck.aborting THEN "interrupted" ELSE "ok"
<1>1. events \in Seq(Entries) /\ Distinct(events) BY DEF Sane, TypeOK, Schedule, Entered
<1>2. kind' = kind BY DEF RecordUnloaded
<1>3. CASE n = 0
  <2>1. RunRmlRecordingCache(events, rdeck) /\ UNCHANGED <<row, exit, done>>
    BY <1>3 DEF RecordUnloaded
  <2>2. CASE Dies BY <1>2, <2>1, <2>2, DiesSchedule
  <2>3. CASE /\ Distinct(events') /\ \A id \in Ids : Named(events', id) <=> Named(events, id)
             /\ UNCHANGED <<up, mail, pdeck>>
    <3>1. Rows' = Rows /\ Rows \subseteq Ids BY <2>1 DEF Rows
    <3>2. Entered' BY <2>1, <2>3 DEF Sane, Schedule, Entered
    <3>3. Unentered' BY <2>1, <2>3, <3>1 DEF Sane, Schedule, Unentered
    <3>4. done \subseteq Ids BY DEF Sane, TypeOK
    <3>5. Finished' BY <1>2, <2>1, <2>3, <3>1, <3>4 DEF Sane, Schedule, Finished
    <3> QED BY <3>2, <3>3, <3>5 DEF Schedule
  <2> QED BY <1>1, <2>1, <2>2, <2>3, Caches
<1>4. CASE n # 0
  <2>1. n \in DOMAIN events /\ events[n].id = rdeck.id BY <1>1, <1>4, Index
  <2>2. /\ Writes(Code(rdeck.id, code)) /\ Carried(n)
        /\ RunRmlRecordingCache(Left(n), [rdeck EXCEPT !.id = -1])
    BY <1>4 DEF RecordUnloaded
  <2>3. code \in Codes /\ code \notin Underway BY DEF Codes, Underway
  <2> HIDE DEF n, code
  <2>4. Codable BY <2>2, <2>3, CodesIt
  <2>5. Left(n) \in Seq(Entries) /\ Distinct(Left(n)) BY <2>1, Leaves
  <2>6. CASE Dies
    <3>1. /\ \A id \in Ids :
               row'[id] = IF id = events[n].id /\ OneShot(id) /\ id \in Rows THEN "purged"
                                                                             ELSE row[id]
          /\ done' = done \cup ({events[n].id} \cap once)
      BY <2>1, <2>2, Carries
    <3>2. Purgeable BY <3>1 DEF Purgeable
    <3>3. \A id \in Ids : exit'[id] = exit[id] \/ id \in Rows
      BY <2>2, <2>3, Marks DEF Sane, TypeOK
    <3>4. ASSUME NEW id \in done'
          PROVE  id \in Ids /\ (kind[id] # "play" => row'[id] \notin Versions \cup {"new"})
      <4>1. id \in Ids BY <3>1 DEF Sane, TypeOK
      <4>2. CASE id \in done
        BY <3>2, <4>1, <4>2 DEF Sane, Schedule, Finished, Rows, Purgeable, Versions
      <4>3. CASE id = events[n].id /\ id \in once
        <5>1. OneShot(id) /\ Named(events, id) BY <2>1, <4>3 DEF OneShot, Named
        <5>2. row[id] # "new" BY <4>1, <5>1 DEF Sane, Schedule, Entered
        <5> QED BY <3>1, <4>1, <4>3, <5>1, <5>2 DEF Rows, Versions
      <4> QED BY <3>1, <4>1, <4>2, <4>3
    <3> QED BY <1>2, <2>6, <3>2, <3>3, <3>4, DeathStep
  <2>7. CASE /\ Distinct(events') /\ \A id \in Ids : Named(events', id) <=> Named(Left(n), id)
             /\ UNCHANGED <<up, mail, pdeck>>
    BY <1>2, <2>1, <2>2, <2>4, <2>7, CarriedSchedule DEF Playable
  <2> QED BY <2>2, <2>5, <2>6, <2>7, Caches
<1> QED BY <1>3, <1>4

\* A playout is over: what stands at its index now is purged.
LEMMA PlayUnloadedSchedule == ASSUME Sane, PlayUnloaded PROVE Schedule'
<1> DEFINE n == IndexOf(pdeck.id)
           i == pdeck.idx
<1>1. events \in Seq(Entries) /\ Distinct(events) BY DEF Sane, TypeOK, Schedule, Entered
<1>2. kind' = kind BY DEF PlayUnloaded
<1>3. CASE Dies /\ UNCHANGED <<row, exit, done>> BY <1>2, <1>3, DiesSchedule
<1>4. CASE /\ IF n = 0 THEN UNCHANGED exit ELSE Writes(Code(pdeck.id, "ok"))
           /\ done' = IF n > 0 /\ pdeck.id \in once THEN done \cup {pdeck.id} ELSE done
           /\ IF i \in DOMAIN events
              THEN events' = Left(i) /\ IF OneShot(events[i].id) THEN PurgesRow(i) ELSE UNCHANGED row
              ELSE UNCHANGED <<row, events>>
           /\ pdeck' = [pdeck EXCEPT !.st = "idle", !.id = -1, !.idx = 0]
           /\ UNCHANGED <<mail, up>>
  <2>1. Codable
    <3>1. "ok" \in Codes /\ "ok" \notin Underway BY DEF Codes, Underway
    <3>2. UNCHANGED exit => Codable BY DEF Codable
    <3> QED BY <1>4, <3>1, <3>2, CodesIt
  <2>2. Playable
    <3>1. pdeck \in [st : {"offline", "idle", "ready", "recording"},
                     id : Ids \cup {-1}, idx : Nat, serial : Nat]
      BY DEF Sane, TypeOK
    <3>2. pdeck'.id = -1 BY <1>4, <3>1
    <3> QED BY <3>2 DEF Playable
  <2>3. done' \subseteq Ids /\ \A id \in done' : id \in done \/ kind[id] = "play"
    <3>1. done \subseteq Ids /\ once \subseteq Ids BY DEF Sane, TypeOK
    <3>2. pdeck.id \in Ids => kind[pdeck.id] = "play"
      BY NoRow DEF Sane, Schedule, Finished
    <3> QED BY <1>4, <3>1, <3>2
  <2> HIDE DEF n
  <2>4. CASE i \in DOMAIN events
    <3>1. /\ Distinct(events')
          /\ \A id : Named(events', id) <=>
               Named(events, id) /\ ~(id = events[i].id /\ OneShot(id))
      BY <1>4, <2>4, Leaves
    <3>2. \A id \in Ids : row'[id] = IF id = events[i].id /\ OneShot(id) /\ id \in Rows
                                     THEN "purged" ELSE row[id]
      <4>1. CASE OneShot(events[i].id)
        <5>1. PurgesRow(i) BY <1>4, <2>4, <4>1
        <5> QED BY <2>4, <4>1, <5>1, PurgesIt
      <4>2. CASE ~OneShot(events[i].id) BY <1>4, <2>4, <4>2
      <4> QED BY <4>1, <4>2
    <3> HIDE DEF i
    <3> QED BY <1>2, <1>4, <2>1, <2>2, <2>3, <2>4, <3>1, <3>2, ThroughStep
  <2>5. CASE i \notin DOMAIN events
    <3>1. UNCHANGED <<row, events, mail, up>> BY <1>4, <2>5
    <3>2. Rows' = Rows /\ \A id : Named(events', id) <=> Named(events, id)
      BY <3>1 DEF Rows, Named
    <3>3. Entered' BY <3>1, <3>2 DEF Sane, Schedule, Entered
    <3>4. Unentered' BY <2>1, <3>1, <3>2, NoRow DEF Sane, Schedule, Unentered, Codable, Rows, Versions
    <3>5. Finished'
      <4>1. ASSUME NEW id \in done', kind[id] # "play"
            PROVE  id \notin Rows /\ row[id] # "new" /\ ~Named(events, id)
        BY <2>3, <4>1 DEF Sane, Schedule, Finished
      <4>2. pdeck'.id # -1 => kind[pdeck'.id] = "play"
        BY <2>2 DEF Sane, Schedule, Finished, Playable
      <4> QED BY <1>2, <3>1, <3>2, <4>1, <4>2 DEF Finished
    <3> QED BY <3>3, <3>4, <3>5 DEF Schedule
  <2> QED BY <2>4, <2>5
<1> QED BY <1>3, <1>4 DEF PlayUnloaded

\* An answer is read.
LEMMA AnswerSchedule == ASSUME Sane, Answer PROVE Schedule'
<1> DEFINE a == Head(answers)
<1>1. UNCHANGED exit => Codable BY DEF Codable
<1>2. events \in Seq(Entries) /\ Distinct(events) BY DEF Sane, TypeOK, Schedule, Entered
<1>3. CASE RecordLoaded \/ RecordStopped
  <2>1. UNCHANGED <<kind, up, row, mail, events, done, exit, pdeck>>
    BY <1>3 DEF RecordLoaded, RecordStopped, Others
  <2> QED BY <1>1, <2>1, SteadyStep DEF Playable
<1>4. CASE Recording
  <2>1. UNCHANGED <<kind, up, row, mail, events, done, pdeck>> BY <1>4 DEF Recording, Others
  <2>2. Codable
    <3>1. "active" \in Codes BY DEF Codes
    <3>2. IndexOf(rdeck.id) > 0 => Named(events, rdeck.id) BY <1>2, Index
    <3> QED BY <1>1, <1>4, <3>1, <3>2, CodesIt DEF Recording
  <2> QED BY <2>1, <2>2, SteadyStep DEF Playable
<1>5. CASE RecordUnloaded BY <1>5, RecordUnloadedSchedule
<1>6. CASE \E s : PlayLoaded(s)
  <2>1. UNCHANGED <<kind, up, row, mail, events, done, exit>> BY <1>6 DEF PlayLoaded, Others
  <2>2. pdeck' \in {pdeck, [pdeck EXCEPT !.st = "ready"]} BY <1>6 DEF PlayLoaded
  <2>3. pdeck'.id = pdeck.id BY <2>2 DEF Sane, TypeOK
  <2> QED BY <1>1, <2>1, <2>3, SteadyStep DEF Playable
<1>7. CASE Playing
  <2>1. UNCHANGED <<kind, row, done>> BY <1>7 DEF Playing
  <2>2. CASE Dies /\ UNCHANGED exit BY <2>1, <2>2, DiesSchedule
  <2>3. CASE /\ pdeck' = [pdeck EXCEPT !.st = "recording"]
             /\ IF IndexOf(pdeck.id) > 0 THEN Writes(Code(pdeck.id, "playing"))
                                         ELSE UNCHANGED exit
             /\ UNCHANGED <<mail, up, events>>
    <3>1. "playing" \in Codes BY DEF Codes
    <3>2. IndexOf(pdeck.id) > 0 => Named(events, pdeck.id) BY <1>2, Index
    <3>3. Codable BY <1>1, <2>3, <3>1, <3>2, CodesIt
    <3>4. pdeck'.id = pdeck.id BY <2>3 DEF Sane, TypeOK
    <3> QED BY <2>1, <2>3, <3>3, <3>4, SteadyStep DEF Playable
  <2> QED BY <1>7, <2>2, <2>3 DEF Playing
<1>8. CASE \E s : PlayStopped(s)
  <2>1. UNCHANGED <<kind, up, row, mail, events, done, exit, pdeck>> BY <1>8 DEF PlayStopped, Others
  <2> QED BY <1>1, <2>1, SteadyStep DEF Playable
<1>9. CASE PlayUnloaded BY <1>9, PlayUnloadedSchedule
<1>10. CASE UnknownSerial(a)
  <2>1. CASE Dies /\ UNCHANGED <<kind, row, exit, done>> BY <2>1, DiesSchedule
  <2>2. CASE UNCHANGED <<Others, row, exit, events, pdeck, done>>
    BY <1>1, <2>2, SteadyStep DEF Playable, Others
  <2> QED BY <1>8, <1>10, <2>1, <2>2 DEF UnknownSerial
<1> QED BY <1>3, <1>4, <1>5, <1>6, <1>7, <1>8, <1>9, <1>10 DEF Answer

\* A macro cart is finished: its event is carried through, if it is there.
LEMMA EventFinishedSchedule == ASSUME Sane, EventFinished PROVE Schedule'
<1> DEFINE n == IndexOf(pool.id)
<1>1. UNCHANGED <<kind, mail, exit, up, pdeck>> BY DEF EventFinished, decks
<1>2. Codable BY <1>1 DEF Codable
<1>3. events \in Seq(Entries) /\ Distinct(events) BY DEF Sane, TypeOK, Schedule, Entered
<1>4. CASE n = 0
  <2>1. UNCHANGED <<row, events, done>> BY <1>4 DEF EventFinished
  <2> QED BY <1>1, <1>2, <2>1, SteadyStep DEF Playable
<1>5. CASE n # 0
  <2>1. n \in DOMAIN events BY <1>3, <1>5, Index
  <2>2. Carried(n) /\ events' = Left(n) BY <1>5 DEF EventFinished
  <2> HIDE DEF n
  <2>3. Distinct(events') BY <2>1, <2>2, Leaves
  <2> QED BY <1>1, <1>2, <2>1, <2>2, <2>3, CarriedSchedule DEF Playable
<1> QED BY <1>4, <1>5

\* A batch process ends.
LEMMA BatchSchedule ==
  ASSUME Sane, NEW id \in Ids, NEW code \in Endings, BatchEnds(id, code)
  PROVE  Schedule'
<1>1. UNCHANGED <<kind, up, row, mail, events, pdeck, done>> BY DEF BatchEnds, rows, decks
<1>2. code = "none" \/ (code \in Codes /\ code \notin Underway) BY DEF Endings, Codes, Underway
<1>3. UNCHANGED exit => Codable BY DEF Codable
<1>4. Codable BY <1>2, <1>3, CodesIt DEF BatchEnds
<1> QED BY <1>1, <1>4, SteadyStep DEF Playable

\* Every step keeps the schedule.
LEMMA ScheduleStep == ASSUME Sane, [Next]_vars PROVE Schedule'
<1>1. UNCHANGED exit => Codable BY DEF Codable
<1>2. CASE Crash BY <1>2, DiesSchedule DEF Crash
<1>3. CASE \E new \in SUBSET {"record", "play"} : ReloadDecks(new)
  <2>1. PICK new : ReloadDecks(new) BY <1>3
  <2>2. UNCHANGED <<kind, up, row, mail, events, done, exit>> BY <2>1 DEF ReloadDecks
  <2>3. pdeck'.id = pdeck.id BY <2>1 DEF ReloadDecks, Reloaded, Sane, TypeOK
  <2> QED BY <1>1, <2>2, <2>3, SteadyStep DEF Playable
<1>4. CASE EX \/ StopDeck \/ RecordingEnds \/ PlaybackEnds \/ FreeEvents \/ UNCHANGED vars
  <2>1. UNCHANGED <<kind, up, row, mail, events, done, exit>>
    BY <1>4 DEF EX, StopDeck, RecordingEnds, PlaybackEnds, FreeEvents, vars, rows
  <2>2. UNCHANGED pdeck
    BY <1>4 DEF EX, StopDeck, RecordingEnds, PlaybackEnds, FreeEvents, vars, decks
  <2> QED BY <1>1, <2>1, <2>2, SteadyStep DEF Playable
<1>5. CASE \E id \in Ids : \/ \E to \in Versions \cup {"gone"} : Edit(id, to)
                           \/ Notified(id)
                           \/ \E code \in Endings : BatchEnds(id, code)
  BY <1>5, EditSchedule, NotifiedSchedule, BatchSchedule
<1> QED BY <1>2, <1>3, <1>4, <1>5, RestartSchedule, DueSchedule, RSSchedule, AnswerSchedule,
           EventFinishedSchedule DEF Next
-----------------------------------------------------------------------------
(* Every step keeps the types.                                             *)

\* The kinds of what TypeOK says.
FlagTypes ==
  /\ kind \in Schedules /\ once \subseteq Ids /\ mail \subseteq Ids /\ up \in BOOLEAN
  /\ there \subseteq {"record", "play"} /\ misfiled \in BOOLEAN /\ overlapped \in BOOLEAN
  /\ returned \in BOOLEAN /\ relevelled \in BOOLEAN /\ mute \subseteq Ids
RowTypes ==
  /\ row \in [Ids -> Versions \cup {"new", "gone", "purged"}] /\ exit \in [Ids -> Codes]
  /\ events \in Seq(Entries) /\ child \subseteq Ids /\ done \subseteq Ids
DeckTypes ==
  /\ rdeck \in [st : {"offline", "idle", "ready", "recording"},
                id : Ids \cup {Dynamic, -1}, cut : Files, aborting : BOOLEAN,
                pending : BOOLEAN]
  /\ pdeck \in [st : {"offline", "idle", "ready", "recording"},
                id : Ids \cup {-1}, idx : Nat, serial : Nat]
  /\ pool \in [st : {"free", "running", "done", "leaked"}, id : Ids \cup {-1}]
CaedTypes ==
  /\ port \in [file : Files, st : {"empty", "loaded", "rolling"}] /\ play \subseteq Int
  /\ answers \in Seq(Messages)

\* The type invariant by parts.
LEMMA TypeParts == TypeOK <=> FlagTypes /\ RowTypes /\ DeckTypes /\ CaedTypes
BY DEF TypeOK, FlagTypes, RowTypes, DeckTypes, CaedTypes

\* Of the flags, whether starts met, and whether the daemon runs.
LEMMA StartFlag ==
  ASSUME overlapped \in BOOLEAN, NEW e, NEW d, NEW q, StartRecording(e, d, q)
  PROVE  overlapped' \in BOOLEAN
BY DEF StartRecording, RDeckQuiet

\* An RS macro that is run.
LEMMA RmlFlags ==
  ASSUME FlagTypes, NEW es, NEW d, NEW q, StartRmlRecording(es, d, q)
  PROVE  up' \in BOOLEAN /\ mail' \subseteq Ids /\ overlapped' \in BOOLEAN
<1>1. CASE Dies /\ UNCHANGED overlapped BY <1>1 DEF Dies, FlagTypes
<1>2. ASSUME NEW e, StartRecording(e, d, q), UNCHANGED <<up, mail>>
      PROVE  up' \in BOOLEAN /\ mail' \subseteq Ids /\ overlapped' \in BOOLEAN
  BY <1>2, StartFlag DEF FlagTypes
<1> QED BY <1>1, <1>2 DEF StartRmlRecording

\* Or that was kept for later.
LEMMA CacheFlags ==
  ASSUME FlagTypes, NEW es, NEW d, RunRmlRecordingCache(es, d)
  PROVE  up' \in BOOLEAN /\ mail' \subseteq Ids /\ overlapped' \in BOOLEAN
<1>1. CASE d.pending BY <1>1, RmlFlags DEF RunRmlRecordingCache
<1>2. CASE ~d.pending BY <1>2 DEF RunRmlRecordingCache, FlagTypes
<1> QED BY <1>1, <1>2

\* Every step keeps the flags, and the sets of ids, what they are.
LEMMA FlagStep == ASSUME FlagTypes, [Next]_vars PROVE FlagTypes'
<1>1. CASE Crash \/ Restart
  BY <1>1 DEF Crash, Restart, Dies, FlagTypes, rows, history
<1>2. ASSUME NEW id \in Ids, NEW to, Edit(id, to) PROVE FlagTypes'
  BY <1>2 DEF Edit, FlagTypes, decks, history
<1>3. ASSUME NEW id \in Ids, NEW code, Notified(id) \/ BatchEnds(id, code) PROVE FlagTypes'
  <2>1. CASE Notified(id)
    <3>1. UNCHANGED <<kind, once, up, there, misfiled, overlapped, returned, mute>>
      BY <2>1 DEF Notified, decks
    <3>2. relevelled' \in BOOLEAN BY <2>1 DEF Notified, FlagTypes
    <3>3. mail' \subseteq mail BY <2>1 DEF Notified
    <3> QED BY <3>1, <3>2, <3>3 DEF FlagTypes
  <2>2. CASE BatchEnds(id, code) BY <2>2 DEF BatchEnds, FlagTypes, rows, decks
  <2> QED BY <1>3, <2>1, <2>2
<1>4. ASSUME NEW new \in SUBSET {"record", "play"}, ReloadDecks(new) PROVE FlagTypes'
  BY <1>4 DEF ReloadDecks, FlagTypes, RDeckQuiet, PDeckQuiet
<1>5. CASE Due
  <2>1. UNCHANGED <<kind, once, mail, up, there, misfiled, returned, relevelled, mute>> BY <1>5 DEF Due
  <2>2. overlapped' \in BOOLEAN
    BY <1>5, StartFlag
       DEF Due, RecordingDue, PlayoutDue, MacroDue, SwitchDue, LoadDue, FlagTypes
  <2> QED BY <2>1, <2>2 DEF FlagTypes
<1>6. CASE RS
  <2>1. UNCHANGED <<kind, once, there, misfiled, returned, relevelled, mute>> BY <1>6 DEF RS
  <2>2. up' \in BOOLEAN /\ mail' \subseteq Ids /\ overlapped' \in BOOLEAN
    BY <1>6, RmlFlags DEF RS, FlagTypes
  <2> QED BY <2>1, <2>2 DEF FlagTypes
<1>7. CASE EX \/ StopDeck \/ RecordingEnds \/ PlaybackEnds \/ EventFinished \/ FreeEvents
           \/ UNCHANGED vars
  <2>1. UNCHANGED <<kind, once, mail, up, there, misfiled, overlapped, returned, relevelled, mute>>
    BY <1>7 DEF EX, StopDeck, RecordingEnds, PlaybackEnds, EventFinished, FreeEvents, vars,
                rows, decks, history
  <2> QED BY <2>1 DEF FlagTypes
<1>8. CASE Answer
  <2>1. CASE RecordUnloaded
    <3>1. UNCHANGED <<kind, once, there, returned, relevelled, mute>> BY <2>1 DEF RecordUnloaded
    <3>2. misfiled' \in BOOLEAN BY <2>1 DEF RecordUnloaded, FlagTypes
    <3>3. up' \in BOOLEAN /\ mail' \subseteq Ids /\ overlapped' \in BOOLEAN
      BY <2>1, CacheFlags DEF RecordUnloaded
    <3> QED BY <3>1, <3>2, <3>3 DEF FlagTypes
  <2>2. ASSUME NEW s, RecordLoaded \/ Recording \/ RecordStopped \/ PlayLoaded(s) \/ PlayStopped(s)
        PROVE  FlagTypes'
    BY <2>2 DEF RecordLoaded, Recording, RecordStopped, PlayLoaded, PlayStopped, Others,
                history, FlagTypes
  <2>3. CASE Playing BY <2>3 DEF Playing, Dies, history, FlagTypes
  <2>4. CASE PlayUnloaded BY <2>4 DEF PlayUnloaded, Dies, history, FlagTypes
  <2>5. CASE UnknownSerial(Head(answers))
    <3>1. CASE Dies BY <2>5, <3>1 DEF UnknownSerial, Dies, history, FlagTypes, PlayStopped, Others
    <3>2. CASE UNCHANGED <<Others, history>> BY <3>2 DEF Others, history, FlagTypes
    <3> QED BY <2>2, <2>5, <3>1, <3>2 DEF UnknownSerial
  <2> QED BY <1>8, <2>1, <2>2, <2>3, <2>4, <2>5 DEF Answer
<1> QED BY <1>1, <1>2, <1>3, <1>4, <1>5, <1>6, <1>7, <1>8 DEF Next

-----------------------------------------------------------------------------

\* Codes are written of many rows at once.
LEMMA MarksAll ==
  ASSUME exit \in [Ids -> Codes], NEW f \in [Ids -> Codes], Writes(f)
  PROVE  exit' \in [Ids -> Codes] /\ \A id \in Ids : exit'[id] = IF id \in Rows THEN f[id] ELSE exit[id]
BY DEF Writes

\* Every step keeps the rows' types.
LEMMA RowTypeStep == ASSUME Sane, [Next]_vars PROVE RowTypes'
<1>1. /\ exit \in [Ids -> Codes] /\ child \subseteq Ids /\ done \subseteq Ids /\ once \subseteq Ids
      /\ events \in Seq(Entries) /\ Distinct(events)
      /\ row \in [Ids -> Versions \cup {"new", "gone", "purged"}]
  BY DEF Sane, TypeOK, Schedule, Entered
<1>2. {"ok", "active", "playing", "loading", "interrupted", "busy", "error"} \subseteq Codes
      /\ "gone" \notin Versions
  BY DEF Codes, Versions
<1>3. <<>> \in Seq(Entries) OBVIOUS
<1>4. CASE Crash BY <1>1, <1>3, <1>4 DEF Crash, Dies, RowTypes
<1>5. CASE Restart
  <2>1. events' \in Seq(Entries) BY <1>5, Lists, CatchdAssumption DEF Restart
  <2>2. [i \in Ids |-> AfterRestart(exit[i])] \in [Ids -> Codes]
    BY <1>1, <1>2 DEF AfterRestart
  <2>3. exit' \in [Ids -> Codes] BY <1>1, <1>5, <2>2, MarksAll DEF Restart
  <2>4. UNCHANGED <<row, child, done>> BY <1>5 DEF Restart, rows
  <2> QED BY <1>1, <2>1, <2>3, <2>4 DEF RowTypes
<1>6. ASSUME NEW id \in Ids, NEW to \in Versions \cup {"gone"}, Edit(id, to) PROVE RowTypes'
  <2>1. UNCHANGED <<exit, events, child, done>> BY <1>6 DEF Edit
  <2>2. row' = [row EXCEPT ![id] = to] BY <1>6 DEF Edit
  <2> QED BY <1>1, <1>2, <2>1, <2>2 DEF RowTypes
<1>7. ASSUME NEW id \in Ids, Notified(id) PROVE RowTypes'
  <2>1. UNCHANGED <<row, exit, child, done>> /\ UpdateEvent(id) BY <1>7 DEF Notified
  <2>2. events' \in Seq(Entries) BY <2>1, Updates
  <2> QED BY <1>1, <2>1, <2>2 DEF RowTypes
<1>8. ASSUME NEW id \in Ids, NEW code \in Endings, BatchEnds(id, code) PROVE RowTypes'
  <2>1. UNCHANGED <<row, events, done>> /\ child' \subseteq child BY <1>8 DEF BatchEnds, rows
  <2>2. code = "none" \/ code \in Codes BY <1>2, <1>8 DEF Endings
  <2>3. exit' \in [Ids -> Codes] BY <1>1, <1>8, <2>2, Marks DEF BatchEnds
  <2> QED BY <1>1, <2>1, <2>3 DEF RowTypes
<1>9. ASSUME UNCHANGED <<row, exit, events, child, done>> PROVE RowTypes'
  BY <1>1, <1>9 DEF RowTypes
<1>10. ASSUME NEW new, ReloadDecks(new) PROVE RowTypes' BY <1>9, <1>10 DEF ReloadDecks
<1>11. CASE EX \/ StopDeck \/ RecordingEnds \/ PlaybackEnds \/ FreeEvents \/ UNCHANGED vars
  <2>1. UNCHANGED <<row, exit, events, child, done>>
    BY <1>11 DEF EX, StopDeck, RecordingEnds, PlaybackEnds, FreeEvents, vars, rows
  <2> QED BY <1>9, <2>1
<1>12. ASSUME NEW n \in DOMAIN events, Carried(n), events' = Left(n), UNCHANGED <<exit, child>>
       PROVE  RowTypes'
  BY <1>1, <1>12, Carries, Leaves DEF RowTypes
<1>13. CASE Due
  <2>1. PICK n \in DOMAIN events :
          RecordingDue(n) \/ PlayoutDue(n) \/ MacroDue(n) \/ SwitchDue(n)
          \/ (events[n].id # Dynamic /\ LoadDue(n))
    BY <1>13 DEF Due
  <2>2. CASE RecordingDue(n)
    <3>1. UNCHANGED <<row, events, child, done>> BY <2>2 DEF RecordingDue
    <3>2. exit' \in [Ids -> Codes] BY <1>1, <1>2, <2>2, Marks DEF RecordingDue
    <3> QED BY <1>1, <3>1, <3>2 DEF RowTypes
  <2>3. CASE PlayoutDue(n)
    <3>1. UNCHANGED <<row, events, child, done>> BY <2>3 DEF PlayoutDue
    <3>2. exit' \in [Ids -> Codes] BY <1>1, <1>2, <2>3, Marks DEF PlayoutDue
    <3> QED BY <1>1, <3>1, <3>2 DEF RowTypes
  <2>4. CASE MacroDue(n)
    <3>1. UNCHANGED <<row, exit, events, child, done>> BY <2>4 DEF MacroDue
    <3> QED BY <1>9, <3>1
  <2>5. CASE SwitchDue(n) BY <1>12, <2>5 DEF SwitchDue
  <2>6. CASE events[n].id # Dynamic /\ LoadDue(n)
    <3>1. UNCHANGED <<row, events, done>> /\ child' = child \cup {events[n].id}
      BY <2>6 DEF LoadDue
    <3>2. exit' \in [Ids -> Codes] BY <1>1, <1>2, <2>6, Marks DEF LoadDue
    <3>3. events[n].id \in Ids BY <2>6, EntryIds DEF Sane
    <3> QED BY <1>1, <3>1, <3>2, <3>3 DEF RowTypes
  <2> QED BY <2>1, <2>2, <2>3, <2>4, <2>5, <2>6
<1>14. CASE RS
  <2>1. UNCHANGED <<row, exit, child, done>> BY <1>14 DEF RS
  <2>2. events' \in Seq(Entries)
    <3>1. CASE StartRmlRecording(events, rdeck, answers)
      BY <1>1, <1>3, <3>1, Rmls DEF Dies
    <3> QED BY <1>1, <1>14, <3>1 DEF RS
  <2> QED BY <1>1, <2>1, <2>2 DEF RowTypes
<1>15. CASE EventFinished
  <2>1. UNCHANGED <<exit, child>> BY <1>15 DEF EventFinished
  <2>2. CASE IndexOf(pool.id) = 0 BY <1>9, <1>15, <2>1, <2>2 DEF EventFinished
  <2>3. CASE IndexOf(pool.id) # 0
    <3>1. IndexOf(pool.id) \in DOMAIN events BY <1>1, <2>3, Index
    <3> QED BY <1>12, <1>15, <2>1, <2>3, <3>1 DEF EventFinished
  <2> QED BY <2>2, <2>3
<1>16. CASE RecordUnloaded
  <2> DEFINE n == IndexOf(rdeck.id)
             code == IF rdeck.aborting THEN "interrupted" ELSE "ok"
  <2>1. CASE n = 0
    <3>1. UNCHANGED <<row, exit, child, done>> /\ RunRmlRecordingCache(events, rdeck)
      BY <1>16, <2>1 DEF RecordUnloaded
    <3>2. events' \in Seq(Entries) BY <1>1, <1>3, <3>1, Caches DEF Dies
    <3> QED BY <1>1, <3>1, <3>2 DEF RowTypes
  <2>2. CASE n # 0
    <3>1. n \in DOMAIN events /\ events[n].id = rdeck.id BY <1>1, <2>2, Index
    <3>2. /\ Writes(Code(rdeck.id, code)) /\ Carried(n)
          /\ child' = child \/ (Normalised(events[n]) /\ child' = child \cup {rdeck.id})
          /\ RunRmlRecordingCache(Left(n), [rdeck EXCEPT !.id = -1])
      BY <1>16, <2>2 DEF RecordUnloaded
    <3>3. code \in Codes BY <1>2
    <3> HIDE DEF n, code
    <3>4. exit' \in [Ids -> Codes] BY <1>1, <3>2, <3>3, Marks
    <3>5. Left(n) \in Seq(Entries) /\ Distinct(Left(n)) BY <3>1, Leaves
    <3>6. events' \in Seq(Entries) BY <1>3, <3>2, <3>5, Caches DEF Dies
    <3>7. Normalised(events[n]) => rdeck.id \in Ids BY <3>1, EntryIds DEF Normalised, Sane
    <3> QED BY <1>1, <3>1, <3>2, <3>4, <3>6, <3>7, Carries DEF RowTypes
  <2> QED BY <2>1, <2>2
<1>17. CASE PlayUnloaded
  <2>1. child' = child BY <1>17 DEF PlayUnloaded
  <2>2. exit' \in [Ids -> Codes] BY <1>1, <1>2, <1>17, Marks DEF PlayUnloaded
  <2>3. done' \subseteq Ids BY <1>1, <1>17 DEF PlayUnloaded
  <2>4. events' \in Seq(Entries) BY <1>1, <1>3, <1>17, Leaves DEF PlayUnloaded, Dies
  <2>5. row' \in [Ids -> Versions \cup {"new", "gone", "purged"}]
    BY <1>1, <1>17, PurgesIt DEF PlayUnloaded
  <2> QED BY <2>1, <2>2, <2>3, <2>4, <2>5, <1>1 DEF RowTypes
<1>18. CASE Answer
  <2>1. ASSUME NEW s, RecordLoaded \/ RecordStopped \/ PlayLoaded(s) \/ PlayStopped(s)
        PROVE  RowTypes'
    BY <1>9, <2>1 DEF RecordLoaded, RecordStopped, PlayLoaded, PlayStopped
  <2>2. CASE Recording
    <3>1. UNCHANGED <<row, events, child, done>> BY <2>2 DEF Recording
    <3>2. exit' \in [Ids -> Codes] BY <1>1, <1>2, <2>2, Marks DEF Recording
    <3> QED BY <1>1, <3>1, <3>2 DEF RowTypes
  <2>3. CASE Playing
    <3>1. UNCHANGED <<row, child, done>> /\ events' \in {events, <<>>} BY <2>3 DEF Playing, Dies
    <3>2. exit' \in [Ids -> Codes] BY <1>1, <1>2, <2>3, Marks DEF Playing
    <3> QED BY <1>1, <1>3, <3>1, <3>2 DEF RowTypes
  <2>4. CASE UnknownSerial(Head(answers))
    <3>1. CASE PlayStopped(Head(answers).serial) BY <2>1, <3>1
    <3>2. CASE ~PlayStopped(Head(answers).serial)
      <4>1. UNCHANGED <<row, exit, child, done>> /\ events' \in {events, <<>>}
        BY <2>4, <3>2 DEF UnknownSerial, Dies
      <4> QED BY <1>1, <1>3, <4>1 DEF RowTypes
    <3> QED BY <3>1, <3>2
  <2> QED BY <1>16, <1>17, <1>18, <2>1, <2>2, <2>3, <2>4 DEF Answer
<1> QED BY <1>4, <1>5, <1>6, <1>7, <1>8, <1>10, <1>11, <1>13, <1>14, <1>15, <1>18 DEF Next

\* The decks' types.
RDecks == [st : {"offline", "idle", "ready", "recording"}, id : Ids \cup {Dynamic, -1},
           cut : Files, aborting : BOOLEAN, pending : BOOLEAN]
PDecks == [st : {"offline", "idle", "ready", "recording"}, id : Ids \cup {-1},
           idx : Nat, serial : Nat]
Pools == [st : {"free", "running", "done", "leaked"}, id : Ids \cup {-1}]

\* Names for the records of the decks and the macro event.
LEMMA DecksAre == DeckTypes <=> rdeck \in RDecks /\ pdeck \in PDecks /\ pool \in Pools
BY DEF DeckTypes, RDecks, PDecks, Pools

\* What a start or an end makes of the record deck.
LEMMA RDeckWith ==
  ASSUME NEW d \in RDecks
  PROVE  /\ \A t \in {"offline", "idle", "ready", "recording"} : [d EXCEPT !.st = t] \in RDecks
         /\ \A e \in Entries : [d EXCEPT !.id = e.id, !.cut = e] \in RDecks
         /\ [d EXCEPT !.aborting = TRUE] \in RDecks /\ [d EXCEPT !.pending = TRUE] \in RDecks
         /\ [d EXCEPT !.id = -1] \in RDecks /\ Idle(d) \in RDecks
<1>1. \A e \in Entries : e \in Files /\ e.id \in Ids \cup {Dynamic} BY DEF Files, Entries
<1> QED BY <1>1 DEF RDecks, Idle

\* The decks that are off.
LEMMA DecksOff == ROff \in RDecks /\ POff \in PDecks /\ Free \in Pools
<1>1. NoFile \in Files BY DEF NoFile, Files
<1> QED BY <1>1 DEF ROff, POff, Free, RDecks, PDecks, Pools

\* The decks of a daemon that is gone.
LEMMA DeadDecks == ASSUME Dies PROVE DeckTypes'
BY DecksOff DEF Dies, DeckTypes, RDecks, PDecks, Pools

\* The record deck, when it is started.
LEMMA StartDeck ==
  ASSUME NEW e \in Entries, NEW d \in RDecks, NEW q, StartRecording(e, d, q)
  PROVE  rdeck' \in RDecks
BY RDeckWith DEF StartRecording

\* Of an RML recording.
LEMMA RmlEntry == [id |-> Dynamic, ver |-> "added"] \in Entries
BY DEF Entries, Versions

\* Every step keeps the decks' types.
LEMMA DeckTypeStep == ASSUME Sane, [Next]_vars PROVE DeckTypes'
<1>1. /\ rdeck \in RDecks /\ pdeck \in PDecks /\ pool \in Pools
      /\ events \in Seq(Entries) /\ Distinct(events)
  BY DEF Sane, TypeOK, Schedule, Entered, RDecks, PDecks, Pools
<1>2. ASSUME rdeck' \in RDecks, pdeck' \in PDecks, pool' \in Pools PROVE DeckTypes'
  BY <1>2 DEF DeckTypes, RDecks, PDecks, Pools
<1>3. CASE Crash BY <1>3, DeadDecks DEF Crash
<1>4. CASE Restart
  <2>1. rdeck' \in RDecks BY <1>4, DecksOff, RDeckWith DEF Restart
  <2>2. pdeck' \in PDecks BY <1>4 DEF Restart, POff, PDecks
  <2> QED BY <1>1, <1>2, <1>4, <2>1, <2>2 DEF Restart
<1>5. CASE \E id \in Ids : \/ \E to \in Versions \cup {"gone"} : Edit(id, to)
                           \/ Notified(id)
                           \/ \E code \in Endings : BatchEnds(id, code)
  <2>1. UNCHANGED <<rdeck, pdeck, pool>> BY <1>5 DEF Edit, Notified, BatchEnds, decks
  <2> QED BY <1>1, <1>2, <2>1
<1>6. ASSUME NEW new, ReloadDecks(new) PROVE DeckTypes'
  <2>1. rdeck' \in RDecks BY <1>1, <1>6, RDeckWith DEF ReloadDecks, Reloaded
  <2>2. pdeck' \in PDecks BY <1>1, <1>6 DEF ReloadDecks, Reloaded, PDecks
  <2> QED BY <1>1, <1>2, <1>6, <2>1, <2>2 DEF ReloadDecks
<1>7. CASE Due
  <2>1. PICK n \in DOMAIN events :
          /\ events[n].id # Dynamic
          /\ RecordingDue(n) \/ PlayoutDue(n) \/ MacroDue(n) \/ SwitchDue(n) \/ LoadDue(n)
    BY <1>7 DEF Due
  <2>2. events[n] \in Entries /\ events[n].id \in Ids BY <2>1, EntryIds DEF Sane
  <2>3. CASE RecordingDue(n)
    BY <1>1, <1>2, <2>2, <2>3, StartDeck DEF RecordingDue
  <2>4. CASE PlayoutDue(n)
    <3>1. n \in Nat BY <1>1
    <3>2. \A i \in Ids, m \in Nat, s \in Nat :
            [pdeck EXCEPT !.id = i, !.idx = m, !.serial = s] \in PDecks
      BY <1>1 DEF PDecks
    <3>3. pdeck.serial + 1 \in Nat BY <1>1 DEF PDecks
    <3>4. [pdeck EXCEPT !.id = events[n].id, !.idx = n, !.serial = pdeck.serial + 1] \in PDecks
      BY <2>2, <3>1, <3>2, <3>3
    <3> QED BY <1>1, <1>2, <2>4, <3>4 DEF PlayoutDue
  <2>5. CASE MacroDue(n)
    BY <1>1, <1>2, <2>2, <2>5 DEF MacroDue, Pools
  <2>6. CASE SwitchDue(n) \/ LoadDue(n)
    BY <1>1, <1>2, <2>6 DEF SwitchDue, LoadDue
  <2> QED BY <2>1, <2>3, <2>4, <2>5, <2>6
<1>8. CASE RS
  <2>1. CASE StartRmlRecording(events, rdeck, answers)
    <3>1. CASE Dies BY <3>1, DeadDecks
    <3>2. CASE /\ StartRecording([id |-> Dynamic, ver |-> "added"], rdeck, answers)
               /\ UNCHANGED <<pdeck, pool>>
      BY <1>1, <1>2, <3>2, StartDeck, RmlEntry
    <3> QED BY <1>1, <2>1, <3>1, <3>2, Rmls
  <2>2. CASE rdeck' = [rdeck EXCEPT !.pending = TRUE] /\ UNCHANGED <<pdeck, pool>>
    BY <1>1, <1>2, <2>2, RDeckWith
  <2> QED BY <1>8, <2>1, <2>2 DEF RS
<1>9. CASE EX
  <2>1. pool' \in Pools /\ UNCHANGED <<rdeck, pdeck>> BY <1>9 DEF EX, decks, Pools
  <2> QED BY <1>1, <1>2, <2>1
<1>10. CASE StopDeck
  <2>1. pool' = pool /\ pdeck' = pdeck /\ rdeck' \in {rdeck, [rdeck EXCEPT !.aborting = TRUE]}
    BY <1>10 DEF StopDeck
  <2> QED BY <1>1, <1>2, <2>1, RDeckWith
<1>11. CASE RecordingEnds \/ PlaybackEnds \/ UNCHANGED vars
  <2>1. UNCHANGED <<rdeck, pdeck, pool>> BY <1>11 DEF RecordingEnds, PlaybackEnds, vars, decks
  <2> QED BY <1>1, <1>2, <2>1
<1>12. CASE EventFinished \/ FreeEvents
  <2>1. UNCHANGED <<rdeck, pdeck>> BY <1>12 DEF EventFinished, FreeEvents, decks
  <2>2. pool' \in Pools BY <1>1, <1>12, DecksOff DEF EventFinished, FreeEvents, Pools
  <2> QED BY <1>1, <1>2, <2>1, <2>2
<1>13. CASE RecordUnloaded
  <2>1. ASSUME NEW es \in Seq(Entries), Distinct(es), NEW d \in RDecks,
               RunRmlRecordingCache(es, d)
        PROVE  DeckTypes'
    <3>1. CASE Dies BY <3>1, DeadDecks
    <3>2. CASE /\ \/ StartRecording([id |-> Dynamic, ver |-> "added"], Idle(d), Tail(answers))
                  \/ rdeck' = Idle(d)
               /\ UNCHANGED <<pdeck, pool>>
      BY <1>1, <1>2, <2>1, <3>2, StartDeck, RmlEntry, RDeckWith
    <3> QED BY <2>1, <3>1, <3>2, Caches
  <2>2. CASE IndexOf(rdeck.id) = 0 BY <1>1, <1>13, <2>1, <2>2 DEF RecordUnloaded
  <2>3. CASE IndexOf(rdeck.id) # 0
    <3> DEFINE n == IndexOf(rdeck.id)
    <3>1. n \in DOMAIN events BY <1>1, <2>3, Index
    <3>2. RunRmlRecordingCache(Left(n), [rdeck EXCEPT !.id = -1])
      BY <1>13, <2>3 DEF RecordUnloaded
    <3> HIDE DEF n
    <3>3. Left(n) \in Seq(Entries) /\ Distinct(Left(n)) BY <3>1, Leaves
    <3> QED BY <1>1, <2>1, <3>2, <3>3, RDeckWith
  <2> QED BY <2>2, <2>3
<1>14. CASE RecordLoaded \/ Recording
  <2>1. UNCHANGED <<pdeck, pool>> BY <1>14 DEF RecordLoaded, Recording, Others
  <2>2. rdeck' \in RDecks BY <1>1, <1>14, RDeckWith DEF RecordLoaded, Recording
  <2> QED BY <1>1, <1>2, <2>1, <2>2
<1>15. ASSUME NEW s, RecordStopped \/ PlayStopped(s) PROVE DeckTypes'
  BY <1>1, <1>2, <1>15 DEF RecordStopped, PlayStopped, Others
<1>16. ASSUME NEW s, PlayLoaded(s) PROVE DeckTypes'
  <2>1. [pdeck EXCEPT !.st = "ready"] \in PDecks BY <1>1 DEF PDecks
  <2> QED BY <1>1, <1>2, <1>16, <2>1 DEF PlayLoaded, Others
<1>17. CASE Playing
  <2>1. [pdeck EXCEPT !.st = "recording"] \in PDecks BY <1>1 DEF PDecks
  <2>2. CASE Dies BY <2>2, DeadDecks
  <2> QED BY <1>1, <1>2, <1>17, <2>1, <2>2 DEF Playing
<1>18. CASE PlayUnloaded
  <2>1. [pdeck EXCEPT !.st = "idle", !.id = -1, !.idx = 0] \in PDecks BY <1>1 DEF PDecks
  <2>2. CASE Dies BY <2>2, DeadDecks
  <2> QED BY <1>1, <1>2, <1>18, <2>1, <2>2 DEF PlayUnloaded
<1>19. CASE UnknownSerial(Head(answers))
  <2>1. CASE Dies BY <2>1, DeadDecks
  <2>2. CASE UNCHANGED <<Others, rdeck, pdeck>> BY <1>1, <1>2, <2>2 DEF Others
  <2> QED BY <1>15, <1>19, <2>1, <2>2 DEF UnknownSerial
<1>20. CASE Answer BY <1>13, <1>14, <1>15, <1>16, <1>17, <1>18, <1>19, <1>20 DEF Answer
<1> QED BY <1>3, <1>4, <1>5, <1>6, <1>7, <1>8, <1>9, <1>10, <1>11, <1>12, <1>20 DEF Next
-----------------------------------------------------------------------------

Ports == [file : Files, st : {"empty", "loaded", "rolling"}]

\* caed's answers are answers.
LEMMA Answers ==
  /\ \A t \in {"LR", "RS", "SR"} : [tag |-> t] \in Messages
  /\ \A f \in Files : [tag |-> "UR", file |-> f] \in Messages
  /\ \A t \in PlayTags, s \in Nat : [tag |-> t, serial |-> s] \in Messages
  /\ \A a \in Messages : /\ a.tag = "UR" => a.file \in Files
                         /\ a.tag \in PlayTags => a.serial \in Nat
BY DEF Messages, PlayTags

\* Nothing of caed is left.
LEMMA DeadCaed == ASSUME Dies PROVE CaedTypes'
<1>1. Nothing \in Ports BY DEF Nothing, NoFile, Ports, Files
<1>2. <<>> \in Seq(Messages) OBVIOUS
<1> QED BY <1>1, <1>2 DEF Dies, CaedTypes, Ports

\* What caed has and says, when the record deck is started.
LEMMA StartCaed ==
  ASSUME port \in Ports, NEW e \in Entries, NEW d, NEW q \in Seq(Messages),
         StartRecording(e, d, q)
  PROVE  port' \in Ports /\ answers' \in Seq(Messages)
<1>1. e \in Files /\ [temp |-> e.id] \in Files BY DEF Files, Entries
<1>2. [tag |-> "LR"] \in Messages /\ [tag |-> "RS"] \in Messages BY Answers
<1>3. [tag |-> "LP", serial |-> 0] \in Messages BY Answers DEF PlayTags
<1>4. port' \in Ports
  <2>1. CASE port' = port BY <2>1
  <2>2. CASE port' = [port EXCEPT !.st = "rolling"] BY <2>2 DEF Ports
  <2>3. ASSUME NEW f \in Files, port' = [st |-> "rolling", file |-> f] PROVE port' \in Ports
    BY <2>3 DEF Ports
  <2>4. CASE port' = [st |-> "rolling",
                      file |-> IF Normalised(e) THEN [temp |-> e.id] ELSE e]
    BY <1>1, <2>3, <2>4
  <2> QED BY <2>1, <2>2, <2>4 DEF StartRecording
<1>5. <<[tag |-> "LR"], [tag |-> "RS"]>> \in Seq(Messages) BY <1>2
<1>6. answers' \in {q \o <<[tag |-> "LR"], [tag |-> "RS"]>>,
                    Append(q, [tag |-> "LP", serial |-> 0]), Append(q, [tag |-> "RS"])}
  BY DEF StartRecording
<1>7. q \o <<[tag |-> "LR"], [tag |-> "RS"]>> \in Seq(Messages) BY <1>5, ConcatProperties
<1>8. Append(q, [tag |-> "LP", serial |-> 0]) \in Seq(Messages) BY <1>3
<1>9. Append(q, [tag |-> "RS"]) \in Seq(Messages) BY <1>2
<1> QED BY <1>4, <1>6, <1>7, <1>8, <1>9

\* What is stopped says so.
LEMMA StopsCaed ==
  ASSUME NEW q \in Seq(Messages)
  PROVE  /\ q \o StopRecord \in Seq(Messages)
         /\ \A s \in Nat : q \o StopPlay(s) \in Seq(Messages)
<1>1. StopRecord \in Seq(Messages) BY Answers DEF StopRecord
<1>2. ASSUME NEW s \in Nat PROVE StopPlay(s) \in Seq(Messages)
  BY Answers DEF StopPlay, PlayTags
<1> QED BY <1>1, <1>2, ConcatProperties

\* Every step keeps the types of what is known of caed.
LEMMA CaedTypeStep == ASSUME Sane, [Next]_vars PROVE CaedTypes'
<1>1. /\ port \in Ports /\ play \subseteq Int /\ answers \in Seq(Messages)
      /\ events \in Seq(Entries) /\ Distinct(events) /\ pdeck.serial \in Nat
  BY DEF Sane, TypeOK, Schedule, Entered, Ports
<1>2. ASSUME port' \in Ports, play' \subseteq Int, answers' \in Seq(Messages) PROVE CaedTypes'
  BY <1>2 DEF CaedTypes, Ports
<1>3. CASE Crash BY <1>3, DeadCaed DEF Crash
<1>4. CASE Restart \/ EX \/ EventFinished \/ FreeEvents \/ UNCHANGED vars
  <2>1. UNCHANGED <<port, play, answers>>
    BY <1>4 DEF Restart, EX, EventFinished, FreeEvents, vars, caed
  <2> QED BY <1>1, <1>2, <2>1
<1>5. CASE \E id \in Ids : \/ \E to \in Versions \cup {"gone"} : Edit(id, to)
                           \/ Notified(id)
                           \/ \E code \in Endings : BatchEnds(id, code)
  <2>1. UNCHANGED <<port, play, answers>> BY <1>5 DEF Edit, Notified, BatchEnds, caed
  <2> QED BY <1>1, <1>2, <2>1
<1>6. Stopped(port) \in Ports /\ \A s \in Int : Ended(s) \subseteq Int
  BY <1>1 DEF Stopped, Ports, Ended
<1>7. \A q \in Seq(Messages) : q \o <<>> \in Seq(Messages) OBVIOUS
<1>8. ASSUME NEW new, ReloadDecks(new) PROVE CaedTypes'
  <2> DEFINE r == rdeck.st = "recording" /\ "record" \notin new
             p == pdeck.st = "recording" /\ "play" \notin new
             o == answers \o (IF r THEN StopRecord ELSE <<>>)
  <2>1. /\ port' \in {port, Stopped(port)} /\ play' \in {play, Ended(pdeck.serial)}
        /\ answers' = o \o (IF p THEN StopPlay(pdeck.serial) ELSE <<>>)
    BY <1>8 DEF ReloadDecks
  <2> HIDE DEF r, p
  <2>2. o \in Seq(Messages) BY <1>1, <1>7, StopsCaed
  <2> HIDE DEF o
  <2>3. answers' \in Seq(Messages) BY <1>1, <1>7, <2>1, <2>2, StopsCaed
  <2> QED BY <1>1, <1>2, <1>6, <2>1, <2>3
<1>9. CASE Due
  <2>1. PICK n \in DOMAIN events :
          RecordingDue(n) \/ PlayoutDue(n) \/ MacroDue(n) \/ SwitchDue(n) \/ LoadDue(n)
    BY <1>9 DEF Due
  <2>2. events[n] \in Entries BY EntryIds DEF Sane
  <2>3. CASE RecordingDue(n)
    BY <1>1, <1>2, <2>2, <2>3, StartCaed DEF RecordingDue
  <2>4. CASE PlayoutDue(n)
    <3> DEFINE s == pdeck.serial + 1
               lp == [tag |-> "LP", serial |-> s]
               py == [tag |-> "PY", serial |-> s]
    <3>1. port' = port /\ play' \in {play, play \cup {s}}
          /\ answers' \in {answers, Append(answers, lp), answers \o <<lp, py>>}
      BY <2>4 DEF PlayoutDue
    <3>2. s \in Nat BY <1>1
    <3>3. lp \in Messages /\ py \in Messages BY <3>2, Answers DEF PlayTags
    <3> HIDE DEF lp, py, s
    <3>4. <<lp, py>> \in Seq(Messages) BY <3>3
    <3>5. /\ answers \o <<lp, py>> \in Seq(Messages)
          /\ Append(answers, lp) \in Seq(Messages)
      BY <1>1, <3>3, <3>4, ConcatProperties, AppendProperties
    <3>6. play \cup {s} \subseteq Int BY <1>1, <3>2
    <3>7. play' \subseteq Int BY <1>1, <3>1, <3>6
    <3>8. answers' \in Seq(Messages) BY <1>1, <3>1, <3>5
    <3> QED BY <1>1, <1>2, <3>1, <3>7, <3>8
  <2>5. CASE MacroDue(n) \/ SwitchDue(n) \/ LoadDue(n)
    BY <1>1, <1>2, <2>5 DEF MacroDue, SwitchDue, LoadDue, caed
  <2> QED BY <2>1, <2>3, <2>4, <2>5
<1>10. CASE RS
  <2>1. CASE StartRmlRecording(events, rdeck, answers)
    <3>1. CASE Dies BY <3>1, DeadCaed
    <3>2. CASE /\ StartRecording([id |-> Dynamic, ver |-> "added"], rdeck, answers)
               /\ play' = play
      BY <1>1, <1>2, <3>2, StartCaed, RmlEntry
    <3> QED BY <1>1, <2>1, <3>1, <3>2, Rmls
  <2>2. CASE UNCHANGED caed BY <1>1, <1>2, <2>2 DEF caed
  <2> QED BY <1>10, <2>1, <2>2 DEF RS
<1>11. CASE StopDeck
  <2>1. CASE /\ port' = Stopped(port) /\ answers' = answers \o StopRecord
             /\ UNCHANGED play
    BY <1>1, <1>2, <1>6, <2>1, StopsCaed
  <2>2. CASE /\ play' = Ended(pdeck.serial) /\ answers' = answers \o StopPlay(pdeck.serial)
             /\ UNCHANGED port
    <3>1. play' \subseteq Int BY <1>1, <1>6, <2>2
    <3>2. answers' \in Seq(Messages) BY <1>1, <2>2, StopsCaed
    <3> QED BY <1>1, <1>2, <2>2, <3>1, <3>2
  <2> QED BY <1>11, <2>1, <2>2 DEF StopDeck
<1>12. CASE RecordingEnds
  <2>1. port' = Stopped(port) /\ answers' = answers \o StopRecord /\ play' = play
    BY <1>12 DEF RecordingEnds
  <2> QED BY <1>1, <1>2, <1>6, <2>1, StopsCaed
<1>13. CASE PlaybackEnds
  <2>1. PICK s \in play : s > 0 /\ play' = Ended(s) /\ answers' = answers \o StopPlay(s) /\ port' = port
    BY <1>13 DEF PlaybackEnds
  <2>2. s \in Nat /\ s \in Int BY <1>1, <2>1
  <2> QED BY <1>1, <1>2, <1>6, <2>1, <2>2, StopsCaed
<1>14. CASE Answer
  <2>1. answers # <<>> BY <1>14 DEF Answer
  <2>2. Tail(answers) \in Seq(Messages) /\ Head(answers) \in Messages BY <1>1, <2>1
  <2>3. CASE RecordUnloaded
    <3>1. ASSUME NEW es \in Seq(Entries), Distinct(es), NEW d, RunRmlRecordingCache(es, d)
          PROVE  CaedTypes'
      <4>1. CASE Dies BY <4>1, DeadCaed
      <4>2. CASE /\ \/ StartRecording([id |-> Dynamic, ver |-> "added"], Idle(d), Tail(answers))
                    \/ answers' = Tail(answers) /\ UNCHANGED port
                 /\ play' = play
        BY <1>1, <1>2, <2>2, <4>2, StartCaed, RmlEntry
      <4> QED BY <3>1, <4>1, <4>2, Caches
    <3>2. CASE IndexOf(rdeck.id) = 0 BY <1>1, <2>3, <3>1, <3>2 DEF RecordUnloaded
    <3>3. CASE IndexOf(rdeck.id) # 0
      <4> DEFINE n == IndexOf(rdeck.id)
      <4>1. n \in DOMAIN events BY <1>1, <3>3, Index
      <4>2. RunRmlRecordingCache(Left(n), [rdeck EXCEPT !.id = -1])
        BY <2>3, <3>3 DEF RecordUnloaded
      <4> HIDE DEF n
      <4>3. Left(n) \in Seq(Entries) /\ Distinct(Left(n)) BY <4>1, Leaves
      <4> QED BY <3>1, <4>2, <4>3
    <3> QED BY <3>2, <3>3
  <2>4. CASE RecordLoaded \/ Recording \/ \E s : PlayLoaded(s)
    BY <1>1, <1>2, <2>2, <2>4 DEF RecordLoaded, Recording, PlayLoaded
  <2>5. CASE RecordStopped
    <3>1. Nothing \in Ports BY DEF Nothing, NoFile, Ports, Files
    <3>2. [tag |-> "UR", file |-> port.file] \in Messages BY <1>1, Answers DEF Ports
    <3>3. port' = Nothing /\ play' = play
          /\ answers' \in {Tail(answers), Append(Tail(answers), [tag |-> "UR", file |-> port.file])}
      BY <2>5 DEF RecordStopped
    <3>4. Append(Tail(answers), [tag |-> "UR", file |-> port.file]) \in Seq(Messages)
      BY <2>2, <3>2, AppendProperties
    <3> QED BY <1>1, <1>2, <2>2, <3>1, <3>3, <3>4
  <2>6. ASSUME NEW s \in Nat, PlayStopped(s) PROVE CaedTypes'
    <3>1. [tag |-> "UP", serial |-> s] \in Messages BY Answers DEF PlayTags
    <3>2. /\ port' = port /\ play' = play \ {-s}
          /\ answers' = Append(Tail(answers), [tag |-> "UP", serial |-> s])
      BY <2>6 DEF PlayStopped
    <3>3. answers' \in Seq(Messages) BY <2>2, <3>1, <3>2, AppendProperties
    <3> QED BY <1>1, <1>2, <3>2, <3>3
  <2>7. CASE Playing \/ PlayUnloaded
    <3>1. CASE Dies BY <3>1, DeadCaed
    <3>2. CASE answers' = Tail(answers) /\ UNCHANGED <<port, play>> BY <1>1, <1>2, <2>2, <3>2
    <3> QED BY <2>7, <3>1, <3>2 DEF Playing, PlayUnloaded
  <2>8. CASE Head(answers).tag \in PlayTags /\ UnknownSerial(Head(answers))
    <3>1. CASE Dies BY <3>1, DeadCaed
    <3>2. CASE answers' = Tail(answers) /\ UNCHANGED <<port, play>> BY <1>1, <1>2, <2>2, <3>2
    <3>3. Head(answers).serial \in Nat BY <2>2, <2>8, Answers
    <3> QED BY <2>6, <2>8, <3>1, <3>2, <3>3 DEF UnknownSerial
  <2> QED BY <1>1, <1>14, <2>3, <2>4, <2>5, <2>6, <2>7, <2>8 DEF Answer, PlayTags
<1> QED BY <1>3, <1>4, <1>5, <1>8, <1>9, <1>10, <1>11, <1>12, <1>13, <1>14 DEF Next

\* Every step keeps types and schedule.
LEMMA SaneStep == ASSUME Sane, [Next]_vars PROVE Sane'
<1>1. FlagTypes BY TypeParts DEF Sane
<1>2. TypeOK' BY <1>1, TypeParts, FlagStep, RowTypeStep, DeckTypeStep, CaedTypeStep
              DEF TypeOK, FlagTypes, RowTypes, DeckTypes, CaedTypes
<1> QED BY <1>2, ScheduleStep DEF Sane

\* At first the schedule is the table.
LEMMA SaneInitially == ASSUME Init PROVE Sane
<1>1. /\ row \in [Ids -> {"new", "added"}] /\ events \in LoadEngine /\ done = {} /\ up
      /\ exit = [i \in Ids |-> "ok"] /\ pdeck = [POff EXCEPT !.st = "idle"] /\ port = Nothing
      /\ rdeck = [ROff EXCEPT !.st = "idle"] /\ kind \in Schedules /\ once \in {{}, Ids}
      /\ answers = <<>> /\ play = {} /\ pool = Free /\ child = {} /\ mail = {}
      /\ there = {"record", "play"} /\ ~misfiled /\ ~overlapped /\ ~returned
      /\ ~relevelled /\ relevelled \in BOOLEAN /\ mute = {}
      /\ misfiled \in BOOLEAN /\ overlapped \in BOOLEAN /\ returned \in BOOLEAN /\ up \in BOOLEAN
  BY DEF Init
<1>2. /\ events \in Seq(Entries) /\ Distinct(events)
      /\ \A id : Named(events, id) <=> id \in Rows
  BY <1>1, Lists, CatchdAssumption
<1>3. FlagTypes BY <1>1 DEF FlagTypes
<1>4. RowTypes BY <1>1, <1>2 DEF RowTypes, Versions, Codes
<1>5. DeckTypes
  <2>1. rdeck \in RDecks BY <1>1, DecksOff, RDeckWith
  <2>2. pdeck \in PDecks BY <1>1 DEF POff, PDecks
  <2> QED BY <1>1, <2>1, <2>2, DecksOff, DecksAre
<1>6. CaedTypes
  <2>1. Nothing \in Ports BY DEF Nothing, NoFile, Ports, Files
  <2> QED BY <1>1, <2>1 DEF CaedTypes, Ports
<1>7. TypeOK BY <1>3, <1>4, <1>5, <1>6, TypeParts
<1>8. Entered BY <1>1, <1>2 DEF Entered, Rows, Versions
<1>9. Unentered BY <1>1, <1>2 DEF Unentered, Underway
<1>10. Finished BY <1>1 DEF Finished, POff
<1> QED BY <1>7, <1>8, <1>9, <1>10 DEF Sane, Schedule

(* What queues tell of the record deck, when answers come and are read.    *)

\* A queue that tells of the record deck what another tells.
TellsAs(q, p) ==
  /\ Silent(q) => Silent(p)
  /\ Opens(q) => Opens(p)
  /\ Rolls(q) => Rolls(p)
  /\ Closes(q) => Closes(p)

\* With an answer about a playback.
LEMMA TellsMore ==
  ASSUME NEW q, IsSeq(q), NEW a, a.tag \notin RecordTags
  PROVE  TellsAs(q, Append(q, a)) /\ IsSeq(Append(q, a))
<1> DEFINE p == Append(q, a)
<1>1. /\ IsSeq(p) /\ Len(q) \in Nat /\ DOMAIN q = 1..Len(q) /\ DOMAIN p = 1..Len(q) + 1
      /\ p[Len(q) + 1] = a /\ \A n \in 1..Len(q) : p[n] = q[n]
  BY Added
<1> HIDE DEF p
<1>2. \A n \in DOMAIN q : n \in DOMAIN p /\ p[n] = q[n] BY <1>1
<1>3. \A n \in DOMAIN p : (n \in DOMAIN q /\ p[n] = q[n]) \/ p[n].tag \notin RecordTags
  BY <1>1
<1>4. Silent(q) => Silent(p) BY <1>3 DEF Silent
<1>5. Rolls(q) => Rolls(p) BY <1>3 DEF Rolls, RecordTags
<1>6. ASSUME Opens(q) PROVE Opens(p)
  <2>1. PICK k \in DOMAIN q :
          /\ q[k].tag = "RS"
          /\ \A n \in DOMAIN q : /\ q[n].tag = "LR" => n < k
                                 /\ q[n].tag \in {"RS", "SR"} => n >= k
                                 /\ q[n].tag # "UR"
    BY <1>6 DEF Opens
  <2>2. k \in DOMAIN p /\ p[k].tag = "RS" BY <1>2, <2>1
  <2>3. \A n \in DOMAIN p : /\ p[n].tag = "LR" => n < k
                            /\ p[n].tag \in {"RS", "SR"} => n >= k
                            /\ p[n].tag # "UR"
    BY <1>3, <2>1 DEF RecordTags
  <2> QED BY <2>2, <2>3 DEF Opens
<1>7. ASSUME Closes(q) PROVE Closes(p)
  <2>1. PICK k \in DOMAIN q :
          /\ q[k].tag = "UR"
          /\ \A n \in DOMAIN q : /\ q[n].tag # "LR"
                                 /\ q[n].tag \in {"RS", "SR"} => n < k
                                 /\ q[n].tag = "UR" => n = k
    BY <1>7 DEF Closes
  <2>2. k \in DOMAIN p /\ p[k].tag = "UR" BY <1>2, <2>1
  <2>3. \A n \in DOMAIN p : /\ p[n].tag # "LR"
                            /\ p[n].tag \in {"RS", "SR"} => n < k
                            /\ p[n].tag = "UR" => n = k
    BY <1>3, <2>1 DEF RecordTags
  <2> QED BY <2>2, <2>3 DEF Closes
<1> QED BY <1>1, <1>4, <1>5, <1>6, <1>7 DEF TellsAs, p

\* With a start or a stop.
LEMMA TellsRolling ==
  ASSUME NEW q, IsSeq(q), NEW a, a.tag \in {"RS", "SR"}
  PROVE  /\ IsSeq(Append(q, a))
         /\ Opens(q) => Opens(Append(q, a))
         /\ Rolls(q) => Rolls(Append(q, a))
<1> DEFINE p == Append(q, a)
<1>1. /\ IsSeq(p) /\ Len(q) \in Nat /\ DOMAIN q = 1..Len(q) /\ DOMAIN p = 1..Len(q) + 1
      /\ p[Len(q) + 1] = a /\ \A n \in 1..Len(q) : p[n] = q[n]
  BY Added
<1> HIDE DEF p
<1>2. \A n \in DOMAIN q : n \in DOMAIN p /\ p[n] = q[n] BY <1>1
<1>3. \A n \in DOMAIN p : (n \in DOMAIN q /\ p[n] = q[n]) \/ (n = Len(q) + 1 /\ p[n] = a)
  BY <1>1
<1>4. Rolls(q) => Rolls(p) BY <1>3 DEF Rolls
<1>5. ASSUME Opens(q) PROVE Opens(p)
  <2>1. PICK k \in DOMAIN q :
          /\ q[k].tag = "RS"
          /\ \A n \in DOMAIN q : /\ q[n].tag = "LR" => n < k
                                 /\ q[n].tag \in {"RS", "SR"} => n >= k
                                 /\ q[n].tag # "UR"
    BY <1>5 DEF Opens
  <2>2. k \in DOMAIN p /\ p[k].tag = "RS" /\ k \in 1..Len(q) BY <1>1, <1>2, <2>1
  <2>3. Len(q) + 1 >= k BY <1>1, <2>2
  <2>4. \A n \in DOMAIN p : /\ p[n].tag = "LR" => n < k
                            /\ p[n].tag \in {"RS", "SR"} => n >= k
                            /\ p[n].tag # "UR"
    BY <1>3, <2>1, <2>3
  <2> QED BY <2>2, <2>4 DEF Opens
<1> QED BY <1>1, <1>4, <1>5 DEF p

\* With a load and a start, when it told nothing.
LEMMA TellsLoad ==
  ASSUME NEW q, IsSeq(q), Silent(q), NEW l, l.tag = "LR", NEW a, a.tag = "RS"
  PROVE  Opens(Append(Append(q, l), a)) /\ IsSeq(Append(Append(q, l), a))
<1> DEFINE o == Append(q, l)
           p == Append(o, a)
           k == Len(q) + 2
<1>1. /\ IsSeq(o) /\ Len(q) \in Nat /\ DOMAIN q = 1..Len(q) /\ DOMAIN o = 1..Len(q) + 1
      /\ o[Len(q) + 1] = l /\ \A n \in 1..Len(q) : o[n] = q[n]
  BY Added
<1> HIDE DEF o
<1>2. /\ IsSeq(p) /\ Len(o) \in Nat /\ DOMAIN o = 1..Len(o) /\ DOMAIN p = 1..Len(o) + 1
      /\ p[Len(o) + 1] = a /\ \A n \in 1..Len(o) : p[n] = o[n]
  BY <1>1, Added
<1> HIDE DEF p
<1>3. Len(o) = Len(q) + 1
  <2>1. Len(o) \in DOMAIN o \/ Len(o) = 0 BY <1>2
  <2>2. Len(q) + 1 \in DOMAIN o BY <1>1
  <2> QED BY <1>1, <1>2, <2>1, <2>2
<1>4. k \in DOMAIN p /\ p[k].tag = "RS" BY <1>1, <1>2, <1>3
<1>5. \A n \in DOMAIN p : n \in Nat /\ (n < k => n \in DOMAIN o /\ p[n] = o[n]) /\ n <= k
  BY <1>1, <1>2, <1>3
<1>6. \A n \in DOMAIN o : o[n].tag = "LR" \/ o[n].tag \notin RecordTags
  BY <1>1 DEF Silent
<1>7. \A n \in DOMAIN p : /\ p[n].tag = "LR" => n < k
                          /\ p[n].tag \in {"RS", "SR"} => n >= k
                          /\ p[n].tag # "UR"
  <2> SUFFICES ASSUME NEW n \in DOMAIN p
               PROVE  /\ p[n].tag = "LR" => n < k
                      /\ p[n].tag \in {"RS", "SR"} => n >= k
                      /\ p[n].tag # "UR"
    OBVIOUS
  <2>1. CASE n < k BY <1>5, <1>6, <2>1 DEF RecordTags
  <2>2. CASE n = k BY <1>1, <1>4, <2>2
  <2>3. n < k \/ n = k
    <3> HIDE DEF k
    <3>1. k \in Nat BY <1>1 DEF k
    <3> QED BY <1>5, <3>1
  <2> QED BY <2>1, <2>2, <2>3
<1> QED BY <1>2, <1>4, <1>7 DEF Opens, p, o

\* With an unload, when it told of starts and stops only.
LEMMA TellsUnload ==
  ASSUME NEW q, IsSeq(q), Rolls(q), NEW a, a.tag = "UR"
  PROVE  Closes(Append(q, a)) /\ IsSeq(Append(q, a))
<1> DEFINE p == Append(q, a)
           k == Len(q) + 1
<1>1. /\ IsSeq(p) /\ Len(q) \in Nat /\ DOMAIN q = 1..Len(q) /\ DOMAIN p = 1..Len(q) + 1
      /\ p[Len(q) + 1] = a /\ \A n \in 1..Len(q) : p[n] = q[n]
  BY Added
<1> HIDE DEF p
<1>2. k \in DOMAIN p /\ p[k].tag = "UR" BY <1>1
<1>3. \A n \in DOMAIN p : n = k \/ (n < k /\ n \in DOMAIN q /\ p[n] = q[n]) BY <1>1
<1>4. \A n \in DOMAIN p : /\ p[n].tag # "LR"
                          /\ p[n].tag \in {"RS", "SR"} => n < k
                          /\ p[n].tag = "UR" => n = k
  BY <1>2, <1>3 DEF Rolls
<1> QED BY <1>1, <1>2, <1>4 DEF Closes, p
-----------------------------------------------------------------------------

\* The positions that are left when an answer is read.
LEMMA Shifts ==
  ASSUME NEW q, IsSeq(q), q # <<>>
  PROVE  /\ IsSeq(Tail(q)) /\ 1 \in DOMAIN q /\ q[1] = Head(q)
         /\ \A n \in DOMAIN Tail(q) : n \in Nat /\ n + 1 \in DOMAIN q /\ q[n + 1] = Tail(q)[n]
         /\ \A n \in DOMAIN q : /\ n \in Nat
                                /\ n # 1 => n - 1 \in DOMAIN Tail(q) /\ Tail(q)[n - 1] = q[n]
<1> DEFINE p == Tail(q)
<1>1. /\ IsSeq(p) /\ Len(q) \in Nat /\ Len(q) > 0 /\ DOMAIN q = 1..Len(q)
      /\ DOMAIN p = 1..Len(q) - 1 /\ Head(q) = q[1]
      /\ \A n \in 1..Len(q) - 1 : p[n] = q[n + 1]
  BY Read
<1> HIDE DEF p
<1>2. \A n \in DOMAIN p : n \in Nat /\ n + 1 \in DOMAIN q /\ q[n + 1] = p[n] BY <1>1
<1>3. ASSUME NEW n \in DOMAIN q
      PROVE  n \in Nat /\ (n # 1 => n - 1 \in DOMAIN p /\ p[n - 1] = q[n])
  <2>1. CASE n = 1 BY <1>1, <2>1
  <2>2. CASE n # 1
    <3>1. n \in Nat /\ n - 1 \in DOMAIN p /\ (n - 1) + 1 = n BY <1>1, <2>2
    <3>2. p[n - 1] = q[(n - 1) + 1] BY <1>2, <3>1
    <3> QED BY <3>1, <3>2
  <2> QED BY <2>1, <2>2
<1>4. 1 \in DOMAIN q BY <1>1
<1> QED BY <1>1, <1>2, <1>3, <1>4 DEF p

\* What is left tells when an answer has been read.
LEMMA TellsLess ==
  ASSUME NEW q, IsSeq(q), q # <<>>
  PROVE  /\ IsSeq(Tail(q))
         /\ Silent(q) => Silent(Tail(q)) /\ Head(q).tag \notin RecordTags
         /\ Rolls(q) => Rolls(Tail(q)) /\ Head(q).tag \notin {"LR", "UR"}
         /\ Opens(q) => Head(q).tag \notin {"SR", "UR"}
         /\ Opens(q) /\ Head(q).tag # "RS" => Opens(Tail(q))
         /\ Opens(q) /\ Head(q).tag = "RS" => Rolls(Tail(q))
         /\ Closes(q) => Head(q).tag # "LR"
         /\ Closes(q) /\ Head(q).tag # "UR" => Closes(Tail(q))
         /\ Closes(q) /\ Head(q).tag = "UR" => Silent(Tail(q))
<1> DEFINE p == Tail(q)
<1>1. /\ IsSeq(p) /\ 1 \in DOMAIN q /\ q[1] = Head(q)
      /\ \A n \in DOMAIN p : n \in Nat /\ n + 1 \in DOMAIN q /\ q[n + 1] = p[n]
      /\ \A n \in DOMAIN q : n \in Nat /\ (n # 1 => n - 1 \in DOMAIN p /\ p[n - 1] = q[n])
  BY Shifts
<1>10. \A n \in DOMAIN q : n \in Nat /\ n >= 1
  <2>1. PICK S : q \in Seq(S) BY DEF IsSeq
  <2> QED BY <2>1
<1> HIDE DEF p
<1>2. Silent(q) => Silent(p) /\ q[1].tag \notin RecordTags BY <1>1 DEF Silent
<1>3. Rolls(q) => Rolls(p) /\ q[1].tag \notin {"LR", "UR"} BY <1>1 DEF Rolls
<1>4. ASSUME Opens(q)
      PROVE  /\ q[1].tag \notin {"SR", "UR"}
             /\ q[1].tag # "RS" => Opens(p)
             /\ q[1].tag = "RS" => Rolls(p)
  <2>1. PICK k \in DOMAIN q :
          /\ q[k].tag = "RS"
          /\ \A n \in DOMAIN q : /\ q[n].tag = "LR" => n < k
                                 /\ q[n].tag \in {"RS", "SR"} => n >= k
                                 /\ q[n].tag # "UR"
    BY <1>4 DEF Opens
  <2>2. k \in Nat /\ k >= 1 BY <1>10
  <2>3. q[1].tag \notin {"SR", "UR"}
    <3>1. q[1].tag \in {"RS", "SR"} => k = 1 BY <1>1, <2>1, <2>2
    <3> QED BY <1>1, <2>1, <3>1
  <2>4. ASSUME q[1].tag # "RS" PROVE Opens(p)
    <3>1. k # 1 BY <2>1, <2>4
    <3>2. k - 1 \in DOMAIN p /\ p[k - 1].tag = "RS" BY <1>1, <2>1, <3>1
    <3>3. ASSUME NEW n \in DOMAIN p
          PROVE  /\ p[n].tag = "LR" => n < k - 1
                 /\ p[n].tag \in {"RS", "SR"} => n >= k - 1
                 /\ p[n].tag # "UR"
      <4>1. /\ n \in Nat /\ q[n + 1] = p[n]
            /\ q[n + 1].tag = "LR" => n + 1 < k
            /\ q[n + 1].tag \in {"RS", "SR"} => n + 1 >= k
            /\ q[n + 1].tag # "UR"
        BY <1>1, <2>1
      <4>2. n + 1 < k => n < k - 1 BY <2>2, <4>1
      <4>3. n + 1 >= k => n >= k - 1 BY <2>2, <4>1
      <4> QED BY <4>1, <4>2, <4>3
    <3> QED BY <3>2, <3>3 DEF Opens
  <2>5. ASSUME q[1].tag = "RS" PROVE Rolls(p)
    <3>1. k = 1 BY <1>1, <2>1, <2>2, <2>5
    <3>2. ASSUME NEW n \in DOMAIN p PROVE p[n].tag \notin {"LR", "UR"}
      <4>1. /\ n \in Nat /\ n + 1 \in DOMAIN q /\ q[n + 1] = p[n]
            /\ q[n + 1].tag = "LR" => n + 1 < k
            /\ q[n + 1].tag # "UR"
        BY <1>1, <2>1
      <4>2. n + 1 >= 1 BY <4>1
      <4>3. ~(n + 1 < k) BY <3>1, <4>1, <4>2
      <4> QED BY <4>1, <4>3
    <3> QED BY <3>2 DEF Rolls
  <2> QED BY <2>3, <2>4, <2>5
<1>5. ASSUME Closes(q)
      PROVE  /\ q[1].tag # "LR"
             /\ q[1].tag # "UR" => Closes(p)
             /\ q[1].tag = "UR" => Silent(p)
  <2>1. PICK k \in DOMAIN q :
          /\ q[k].tag = "UR"
          /\ \A n \in DOMAIN q : /\ q[n].tag # "LR"
                                 /\ q[n].tag \in {"RS", "SR"} => n < k
                                 /\ q[n].tag = "UR" => n = k
    BY <1>5 DEF Closes
  <2>2. k \in Nat /\ k >= 1 BY <1>10
  <2>3. ASSUME q[1].tag # "UR" PROVE Closes(p)
    <3>1. k # 1 BY <2>1, <2>3
    <3>2. k - 1 \in DOMAIN p /\ p[k - 1].tag = "UR" BY <1>1, <2>1, <3>1
    <3>3. ASSUME NEW n \in DOMAIN p
          PROVE  /\ p[n].tag # "LR"
                 /\ p[n].tag \in {"RS", "SR"} => n < k - 1
                 /\ p[n].tag = "UR" => n = k - 1
      <4>1. /\ n \in Nat /\ q[n + 1] = p[n]
            /\ q[n + 1].tag # "LR"
            /\ q[n + 1].tag \in {"RS", "SR"} => n + 1 < k
            /\ q[n + 1].tag = "UR" => n + 1 = k
        BY <1>1, <2>1
      <4>2. n + 1 < k => n < k - 1 BY <2>2, <4>1
      <4>3. n + 1 = k => n = k - 1 BY <2>2, <4>1
      <4> QED BY <4>1, <4>2, <4>3
    <3> QED BY <3>2, <3>3 DEF Closes
  <2>4. ASSUME q[1].tag = "UR" PROVE Silent(p)
    <3>1. k = 1 BY <1>1, <2>1, <2>4
    <3>2. ASSUME NEW n \in DOMAIN p PROVE p[n].tag \notin RecordTags
      <4>1. /\ n \in Nat /\ q[n + 1] = p[n]
            /\ q[n + 1].tag # "LR"
            /\ q[n + 1].tag \in {"RS", "SR"} => n + 1 < k
            /\ q[n + 1].tag = "UR" => n + 1 = k
        BY <1>1, <2>1
      <4>2. n >= 1
        <5>1. PICK S : p \in Seq(S) BY <1>1 DEF IsSeq
        <5> QED BY <5>1
      <4>3. ~(n + 1 < k) /\ n + 1 # k BY <3>1, <4>1, <4>2
      <4> QED BY <4>1, <4>3 DEF RecordTags
    <3> QED BY <3>2 DEF Silent
  <2> QED BY <1>1, <2>1, <2>3, <2>4
<1> QED BY <1>1, <1>2, <1>3, <1>4, <1>5 DEF p

(* What steps do to rows and exit codes.                                   *)

\* Only rdcatch adds rows.
LEMMA PurgesOnly ==
  ASSUME Sane, [Next]_vars, ~\E id \in Ids : \E to \in Versions \cup {"gone"} : Edit(id, to)
  PROVE  Purgeable
<1>1. events \in Seq(Entries) /\ Distinct(events) BY DEF Sane, TypeOK, Schedule, Entered
<1>2. UNCHANGED row => Purgeable BY DEF Purgeable
<1>3. ASSUME NEW n \in DOMAIN events, Carried(n) PROVE Purgeable
  BY <1>3, Carries DEF Purgeable
<1>4. ASSUME NEW id \in Ids, NEW code, Notified(id) \/ BatchEnds(id, code) PROVE Purgeable
  BY <1>2, <1>4 DEF Notified, BatchEnds, rows
<1>5. ASSUME NEW new, ReloadDecks(new) PROVE Purgeable BY <1>2, <1>5 DEF ReloadDecks
<1>6. CASE Crash \/ Restart \/ EX \/ StopDeck \/ RS \/ RecordingEnds \/ PlaybackEnds \/ FreeEvents
           \/ UNCHANGED vars
  BY <1>2, <1>6 DEF Crash, Restart, EX, StopDeck, RS, RecordingEnds, PlaybackEnds, FreeEvents,
                    vars, rows
<1>7. CASE Due
  <2>1. PICK n \in DOMAIN events :
          RecordingDue(n) \/ PlayoutDue(n) \/ MacroDue(n) \/ SwitchDue(n) \/ LoadDue(n)
    BY <1>7 DEF Due
  <2>2. CASE SwitchDue(n) BY <1>3, <2>2 DEF SwitchDue
  <2>3. CASE RecordingDue(n) \/ PlayoutDue(n) \/ MacroDue(n) \/ LoadDue(n)
    BY <1>2, <2>3 DEF RecordingDue, PlayoutDue, MacroDue, LoadDue
  <2> QED BY <2>1, <2>2, <2>3
<1>8. CASE EventFinished
  <2>1. CASE IndexOf(pool.id) = 0 BY <1>2, <1>8, <2>1 DEF EventFinished
  <2>2. CASE IndexOf(pool.id) # 0
    <3>1. IndexOf(pool.id) \in DOMAIN events BY <1>1, <2>2, Index
    <3> QED BY <1>3, <1>8, <2>2, <3>1 DEF EventFinished
  <2> QED BY <2>1, <2>2
<1>9. CASE RecordUnloaded
  <2>1. CASE IndexOf(rdeck.id) = 0 BY <1>2, <1>9, <2>1 DEF RecordUnloaded
  <2>2. CASE IndexOf(rdeck.id) # 0
    <3>1. IndexOf(rdeck.id) \in DOMAIN events BY <1>1, <2>2, Index
    <3> QED BY <1>3, <1>9, <2>2, <3>1 DEF RecordUnloaded
  <2> QED BY <2>1, <2>2
<1>10. CASE PlayUnloaded
  <2>1. CASE UNCHANGED row BY <1>2, <2>1
  <2>2. ASSUME NEW i \in DOMAIN events, PurgesRow(i) PROVE Purgeable
    BY <2>2, PurgesIt DEF Purgeable
  <2> QED BY <1>10, <2>1, <2>2 DEF PlayUnloaded
<1>11. CASE Answer
  <2>1. ASSUME NEW s, RecordLoaded \/ Recording \/ RecordStopped \/ PlayLoaded(s)
                      \/ Playing \/ PlayStopped(s)
        PROVE  Purgeable
    BY <1>2, <2>1 DEF RecordLoaded, Recording, RecordStopped, PlayLoaded, Playing, PlayStopped
  <2>2. CASE UnknownSerial(Head(answers)) BY <1>2, <2>1, <2>2 DEF UnknownSerial
  <2> QED BY <1>9, <1>10, <1>11, <2>1, <2>2 DEF Answer
<1> QED BY <1>4, <1>5, <1>6, <1>7, <1>8, <1>11 DEF Next

\* A row that is there was there, or nothing of it is under way.
LEMMA RowsDo ==
  ASSUME Sane, [Next]_vars, NEW id \in Ids, id \in Rows'
  PROVE  id \in Rows \/ exit'[id] \notin Underway
<1>1. CASE Purgeable BY <1>1 DEF Purgeable, Rows, Versions
<1>2. ASSUME NEW i \in Ids, NEW to, Edit(i, to)
      PROVE  id \in Rows \/ exit'[id] \notin Underway
  <2>1. /\ row' = [row EXCEPT ![i] = to] /\ exit' = exit
        /\ row[i] = "new" \/ row[i] \in Versions
    BY <1>2 DEF Edit, Versions
  <2>2. row \in [Ids -> Versions \cup {"new", "gone", "purged"}] BY DEF Sane, TypeOK
  <2>3. CASE i # id BY <2>1, <2>2, <2>3 DEF Rows
  <2>4. CASE i = id /\ row[i] = "new" BY <2>1, <2>4 DEF Sane, Schedule, Unentered
  <2>5. CASE i = id /\ row[i] \in Versions BY <2>5 DEF Rows
  <2> QED BY <2>1, <2>3, <2>4, <2>5
<1> QED BY <1>1, <1>2, PurgesOnly

\* The record deck's start is reported; the play deck's is, and the daemon lives.
Begins == up /\ answers # <<>> /\ Head(answers).tag = "RS" /\ Recording
Airing ==
  /\ up /\ answers # <<>> /\ Head(answers).tag = "PY" /\ Head(answers).serial = pdeck.serial
  /\ pdeck' = [pdeck EXCEPT !.st = "recording"]
  /\ answers' = Tail(answers) /\ UNCHANGED <<up, play>>

\* A code that says that something is under way is old, or it is so.
LEMMA CodesDo ==
  ASSUME Sane, [Next]_vars, NEW id \in Ids, exit'[id] \in Underway
  PROVE  \/ exit'[id] = exit[id]
         \/ id \in Rows /\ exit'[id] = "loading" /\ kind[id] = "load" /\ id \in child'
         \/ id \in Rows /\ exit'[id] = "active" /\ id = rdeck.id /\ Begins
         \/ id \in Rows /\ exit'[id] = "playing" /\ id = pdeck.id /\ Airing
<1> DEFINE Goal == \/ exit'[id] = exit[id]
                   \/ id \in Rows /\ exit'[id] = "loading" /\ kind[id] = "load" /\ id \in child'
                   \/ id \in Rows /\ exit'[id] = "active" /\ id = rdeck.id /\ Begins
                   \/ id \in Rows /\ exit'[id] = "playing" /\ id = pdeck.id /\ Airing
<1> SUFFICES Goal OBVIOUS
<1>1. exit \in [Ids -> Codes] BY DEF Sane, TypeOK
<1>2. {"ok", "active", "playing", "loading", "interrupted", "busy", "error"} = Codes
      /\ Underway = {"active", "playing", "loading"}
  BY DEF Codes, Underway
<1>3. UNCHANGED exit => Goal OBVIOUS
<1>4. ASSUME NEW i, NEW code \in {"ok", "interrupted", "busy", "error"}, Writes(Code(i, code))
      PROVE  Goal
  BY <1>1, <1>2, <1>4, Marks
<1> HIDE DEF Goal
<1>5. CASE Restart
  <2>1. [i \in Ids |-> AfterRestart(exit[i])] \in [Ids -> Codes]
    BY <1>1, <1>2 DEF AfterRestart
  <2>2. id \in Rows => exit'[id] = AfterRestart(exit[id])
    BY <1>1, <1>5, <2>1, MarksAll DEF Restart
  <2>3. AfterRestart(exit[id]) \notin Underway BY <1>1, <1>2 DEF AfterRestart
  <2>4. id \notin Rows => exit'[id] = exit[id] BY <1>1, <1>5, <2>1, MarksAll DEF Restart
  <2> QED BY <2>2, <2>3, <2>4 DEF Goal
<1>6. ASSUME NEW i \in Ids, NEW to, Edit(i, to) \/ Notified(i) PROVE Goal
  BY <1>3, <1>6 DEF Edit, Notified
<1>7. ASSUME NEW i \in Ids, NEW code \in Endings, BatchEnds(i, code) PROVE Goal
  <2>1. code = "none" \/ code \in {"ok", "interrupted", "busy", "error"} BY DEF Endings
  <2>2. UNCHANGED exit \/ (code # "none" /\ Writes(Code(i, code))) BY <1>7 DEF BatchEnds
  <2> QED BY <1>3, <1>4, <2>1, <2>2
<1>8. ASSUME NEW new, ReloadDecks(new) PROVE Goal BY <1>3, <1>8 DEF ReloadDecks
<1>9. CASE Crash \/ EX \/ StopDeck \/ RS \/ RecordingEnds \/ PlaybackEnds \/ FreeEvents
           \/ EventFinished \/ UNCHANGED vars
  BY <1>3, <1>9 DEF Crash, EX, StopDeck, RS, RecordingEnds, PlaybackEnds, FreeEvents,
                    EventFinished, vars
<1>10. CASE Due
  <2>1. PICK n \in DOMAIN events :
          RecordingDue(n) \/ PlayoutDue(n) \/ MacroDue(n) \/ SwitchDue(n)
          \/ (kind[events[n].id] = "load" /\ LoadDue(n))
    BY <1>10 DEF Due
  <2>2. CASE SwitchDue(n) \/ MacroDue(n) BY <1>3, <2>2 DEF SwitchDue, MacroDue
  <2>3. CASE RecordingDue(n) \/ PlayoutDue(n)
    <3>1. \/ UNCHANGED exit \/ Writes(Code(events[n].id, "busy"))
          \/ Writes(Code(events[n].id, "error"))
      BY <2>3 DEF RecordingDue, PlayoutDue
    <3>2. ASSUME NEW code \in {"busy", "error"}, Writes(Code(events[n].id, code)) PROVE Goal
      BY <1>4, <3>2
    <3> QED BY <1>3, <3>1, <3>2
  <2>5. CASE kind[events[n].id] = "load" /\ LoadDue(n)
    <3>1. Writes(Code(events[n].id, "loading")) /\ events[n].id \in child' BY <2>5 DEF LoadDue
    <3>2. exit'[id] = IF id = events[n].id /\ id \in Rows THEN "loading" ELSE exit[id]
      BY <1>1, <1>2, <3>1, Marks
    <3> QED BY <2>5, <3>1, <3>2 DEF Goal
  <2> QED BY <2>1, <2>2, <2>3, <2>5
<1>11. CASE RecordUnloaded
  <2> DEFINE code == IF rdeck.aborting THEN "interrupted" ELSE "ok"
  <2>1. UNCHANGED exit \/ Writes(Code(rdeck.id, code)) BY <1>11 DEF RecordUnloaded
  <2>2. code \in {"ok", "interrupted", "busy", "error"} OBVIOUS
  <2> HIDE DEF code
  <2> QED BY <1>3, <1>4, <2>1, <2>2
<1>12. CASE PlayUnloaded
  <2>1. UNCHANGED exit \/ Writes(Code(pdeck.id, "ok")) BY <1>12 DEF PlayUnloaded
  <2>2. ASSUME NEW code \in {"ok"}, Writes(Code(pdeck.id, code)) PROVE Goal BY <1>4, <2>2
  <2> QED BY <1>3, <2>1, <2>2
<1>13. ASSUME NEW s, RecordLoaded \/ RecordStopped \/ PlayLoaded(s) \/ PlayStopped(s) PROVE Goal
  BY <1>3, <1>13 DEF RecordLoaded, RecordStopped, PlayLoaded, PlayStopped
<1>14. CASE UnknownSerial(Head(answers))
  <2>1. UNCHANGED exit BY <1>14 DEF UnknownSerial, PlayStopped
  <2> QED BY <1>3, <2>1
<1>15. CASE Begins
  <2>1. UNCHANGED exit \/ Writes(Code(rdeck.id, "active")) BY <1>15 DEF Begins, Recording
  <2>2. CASE Writes(Code(rdeck.id, "active"))
    <3>1. exit'[id] = IF id = rdeck.id /\ id \in Rows THEN "active" ELSE exit[id]
      BY <1>1, <1>2, <2>2, Marks
    <3> QED BY <1>15, <3>1 DEF Goal
  <2> QED BY <1>3, <2>1, <2>2
<1>16. CASE /\ up /\ answers # <<>> /\ Head(answers).tag = "PY"
            /\ Head(answers).serial = pdeck.serial /\ Playing
  <2>1. UNCHANGED exit \/ (Airing /\ Writes(Code(pdeck.id, "playing")))
    BY <1>16 DEF Airing, Playing
  <2>2. CASE Airing /\ Writes(Code(pdeck.id, "playing"))
    <3>1. exit'[id] = IF id = pdeck.id /\ id \in Rows THEN "playing" ELSE exit[id]
      BY <1>1, <1>2, <2>2, Marks
    <3> QED BY <2>2, <3>1 DEF Goal
  <2> QED BY <1>3, <2>1, <2>2
<1>17. CASE Answer
  <2>1. CASE \E s : PlayLoaded(s) \/ PlayStopped(s) BY <1>13, <2>1
  <2>2. CASE RecordLoaded \/ RecordStopped BY <1>13, <2>2
  <2> QED BY <1>11, <1>12, <1>14, <1>15, <1>16, <1>17, <2>1, <2>2 DEF Answer, Begins
<1> QED BY <1>5, <1>6, <1>7, <1>8, <1>9, <1>10, <1>17 DEF Next, Goal
\* The kinds stay, a daemon that is down stays down until it is started, and a batch
\* goes on until it ends.
LEMMA KindStays == ASSUME [Next]_vars PROVE kind' = kind
<1>1. ASSUME NEW id \in Ids, NEW to, NEW code, Edit(id, to) \/ Notified(id) \/ BatchEnds(id, code)
      PROVE  kind' = kind
  BY <1>1 DEF Edit, Notified, BatchEnds, rows
<1>2. ASSUME NEW new, ReloadDecks(new) PROVE kind' = kind BY <1>2 DEF ReloadDecks
<1>3. CASE Answer
  BY <1>3 DEF Answer, RecordLoaded, Recording, RecordStopped, RecordUnloaded, PlayLoaded, Playing,
              PlayStopped, PlayUnloaded, UnknownSerial, Others
<1>4. CASE Crash \/ Restart \/ Due \/ RS \/ EX \/ StopDeck \/ RecordingEnds \/ PlaybackEnds
           \/ EventFinished \/ FreeEvents \/ UNCHANGED vars
  BY <1>4 DEF Crash, Restart, Due, RS, EX, StopDeck, RecordingEnds, PlaybackEnds, EventFinished,
              FreeEvents, vars, rows
<1> QED BY <1>1, <1>2, <1>3, <1>4 DEF Next

\* A daemon that is down stays down until it is started.
LEMMA UpStays == ASSUME [Next]_vars, ~Restart, up' PROVE up
<1>1. CASE Crash \/ Due \/ RS \/ EX \/ StopDeck \/ Answer
  BY <1>1 DEF Crash, Due, RS, EX, StopDeck, Answer
<1>2. ASSUME NEW id \in Ids, NEW to, NEW code, Edit(id, to) \/ Notified(id) \/ BatchEnds(id, code)
      PROVE  up
  BY <1>2 DEF Edit, Notified, BatchEnds
<1>3. ASSUME NEW new, ReloadDecks(new) PROVE up BY <1>3 DEF ReloadDecks
<1>4. CASE RecordingEnds \/ PlaybackEnds \/ EventFinished \/ FreeEvents \/ UNCHANGED vars
  BY <1>4 DEF RecordingEnds, PlaybackEnds, EventFinished, FreeEvents, vars
<1> QED BY <1>1, <1>2, <1>3, <1>4 DEF Next

\* A batch goes on until it ends; that it ended without a word is known until
\* the daemon starts again.
LEMMA ChildStays ==
  ASSUME [Next]_vars, ~Restart, NEW id \in child \cup mute, id \notin child' \cup mute'
  PROVE  \E code \in {"ok", "error"} : BatchEnds(id, code)
<1>1. ASSUME NEW i \in Ids, NEW code \in Endings, BatchEnds(i, code)
      PROVE  \E c \in {"ok", "error"} : BatchEnds(id, c)
  <2>1. i = id /\ code # "none" BY <1>1 DEF BatchEnds
  <2> QED BY <1>1, <2>1 DEF Endings
<1>2. ASSUME NEW i \in Ids, NEW to PROVE ~Edit(i, to) /\ ~Notified(i)
  BY DEF Edit, Notified, history
<1>3. ASSUME NEW new PROVE ~ReloadDecks(new) BY DEF ReloadDecks
<1>4. ~(Crash \/ RS \/ EX \/ StopDeck \/ RecordingEnds \/ PlaybackEnds \/ EventFinished
          \/ FreeEvents \/ UNCHANGED vars)
  BY DEF Crash, RS, EX, StopDeck, RecordingEnds, PlaybackEnds, EventFinished, FreeEvents,
         vars, history
<1>5. ~Due BY DEF Due, RecordingDue, PlayoutDue, MacroDue, SwitchDue, LoadDue
<1>6. ~Answer
  BY DEF Answer, RecordLoaded, Recording, RecordStopped, RecordUnloaded, PlayLoaded, Playing,
         PlayStopped, PlayUnloaded, UnknownSerial, Others, history
<1> QED BY <1>1, <1>2, <1>3, <1>4, <1>5, <1>6 DEF Next
-----------------------------------------------------------------------------

\* Every step keeps what is said of the batches: each that ends has written
\* its exit code, or is known to have not.
LEMMA LoadsStep == ASSUME Sane, Loads, [Next]_vars PROVE Loads'
<1> SUFFICES ASSUME up', NEW id \in Rows', exit'[id] = "loading"
             PROVE  kind'[id] = "load" /\ id \in child' \cup mute'
  BY DEF Loads
<1>1. id \in Ids /\ "loading" \in Underway BY DEF Rows, Underway
<1>2. id \in Rows BY <1>1, RowsDo
<1>3. kind' = kind BY KindStays
<1>4. CASE exit[id] # "loading"
  BY <1>1, <1>3, <1>4, CodesDo
<1>5. CASE exit[id] = "loading"
  <2>1. CASE Restart
    <3>1. exit \in [Ids -> Codes] BY DEF Sane, TypeOK
    <3>2. [i \in Ids |-> AfterRestart(exit[i])] \in [Ids -> Codes]
      BY <3>1 DEF AfterRestart, Codes
    <3>3. exit'[id] = AfterRestart(exit[id])
      BY <1>1, <1>2, <2>1, <3>1, <3>2, MarksAll DEF Restart
    <3> QED BY <1>5, <3>3 DEF AfterRestart
  <2>2. CASE ~Restart
    <3>1. up BY <2>2, UpStays
    <3>2. kind[id] = "load" /\ id \in child \cup mute BY <1>2, <1>5, <3>1 DEF Loads
    <3>3. CASE id \in child' \cup mute' BY <1>3, <3>2, <3>3
    <3>4. CASE id \notin child' \cup mute'
      <4>1. PICK code \in {"ok", "error"} : BatchEnds(id, code) BY <2>2, <3>2, <3>4, ChildStays
      <4>2. Writes(Code(id, code)) BY <3>2, <4>1 DEF BatchEnds
      <4>3. exit \in [Ids -> Codes] /\ code \in Codes BY DEF Sane, TypeOK, Codes
      <4>4. exit'[id] = code BY <1>1, <1>2, <4>2, <4>3, Marks
      <4> QED BY <4>4
    <3> QED BY <3>3, <3>4
  <2> QED BY <2>1, <2>2
<1> QED BY <1>4, <1>5

(* What steps do to the record deck.                                       *)

\* Of the record deck, p goes on where q ends, while the port stays as it is.
Hears(q, p) ==
  /\ IsSeq(p)
  /\ port = Nothing => (Silent(q) => Silent(p)) /\ (Closes(q) => Closes(p))
  /\ port # Nothing => (Opens(q) => Opens(p)) /\ (Rolls(q) => Rolls(p))

\* Nothing is added.
LEMMA HearsItself == ASSUME NEW q, IsSeq(q) PROVE Hears(q, q)
BY DEF Hears

\* One after the other.
LEMMA HearsHears == ASSUME NEW q, NEW p, NEW o, Hears(q, p), Hears(p, o) PROVE Hears(q, o)
BY DEF Hears

\* An answer about a playback is added.
LEMMA HearsMore ==
  ASSUME NEW q, IsSeq(q), NEW a, a.tag \notin RecordTags
  PROVE  Hears(q, Append(q, a))
BY TellsMore DEF Hears, TellsAs

\* Or read.
LEMMA HearsLess ==
  ASSUME NEW q, IsSeq(q), q # <<>>, Head(q).tag \notin RecordTags
  PROVE  Hears(q, Tail(q))
BY TellsLess DEF Hears, RecordTags

\* A playback is stopped.
LEMMA HearsPlays == ASSUME NEW q, IsSeq(q), NEW s PROVE Hears(q, q \o StopPlay(s))
<1>1. PICK S : q \in Seq(S) BY DEF IsSeq
<1> DEFINE a == [tag |-> "SP", serial |-> s]
<1>2. q \o <<>> = q /\ q \o <<a>> = Append(q, a) BY <1>1
<1>3. a.tag \notin RecordTags BY DEF RecordTags
<1> HIDE DEF a
<1>4. Hears(q, Append(q, a)) BY <1>3, HearsMore
<1>5. StopPlay(s) \in {<<>>, <<a>>} BY DEF StopPlay, a
<1> QED BY <1>2, <1>4, <1>5, HearsItself

\* What Shapes says of the port.
PortIs == IsPort(port) /\ (port.st = "empty" <=> ~Loaded)

\* The recording is stopped: the port stays loaded.
LEMMA HearsStops ==
  ASSUME PortIs, NEW q, IsSeq(q)
  PROVE  Hears(q, q \o StopRecord) /\ (Stopped(port) = Nothing <=> port = Nothing)
<1>1. PICK S : q \in Seq(S) BY DEF IsSeq
<1> DEFINE a == [tag |-> "SR"]
<1>2. q \o <<>> = q /\ q \o <<a>> = Append(q, a) BY <1>1
<1>3. StopRecord = IF port.st = "rolling" THEN <<a>> ELSE <<>> BY DEF StopRecord
<1>4. port.st = "rolling" => port # Nothing BY DEF PortIs, Loaded
<1>5. IsSeq(Append(q, a)) /\ (Opens(q) => Opens(Append(q, a))) /\ (Rolls(q) => Rolls(Append(q, a)))
  BY TellsRolling
<1> HIDE DEF a
<1>6. Hears(q, q \o StopRecord)
  <2>1. CASE port.st = "rolling" BY <1>2, <1>3, <1>4, <1>5, <2>1 DEF Hears
  <2>2. CASE port.st # "rolling" BY <1>2, <1>3, <2>2, HearsItself
  <2> QED BY <2>1, <2>2
<1>7. Stopped(port) # Nothing <=> Loaded BY Stops DEF PortIs
<1> QED BY <1>6, <1>7 DEF Loaded

\* A step after which the deck is where it was in its round.
Keeps ==
  /\ Resting => Resting'
  /\ Opening => Opening'
  /\ Rolling => Rolling' /\ rdeck'.id = rdeck.id

\* When the port stays as it is, and the deck's state goes with it.
LEMMA KeepsStep ==
  ASSUME Hears(answers, answers'), port' = Nothing <=> port = Nothing, rdeck'.id = rdeck.id,
         rdeck'.st = "recording" => rdeck.st = "recording",
         Rolling => rdeck'.st \in {"recording", "offline"}
  PROVE  Keeps
BY DEF Keeps, Hears, Resting, Opening, Rolling

\* And of which the record deck hears nothing.
LEMMA AsideStep ==
  ASSUME Hears(answers, answers'), UNCHANGED <<rdeck, port>>
  PROVE  Keeps
BY KeepsStep DEF Rolling

\* A start of an idle deck, whose queue is q and whose state afterwards is the deck's.
LEMMA OpensDeck ==
  ASSUME NEW e, NEW d, d \in RDecks, d.st = "idle", NEW q, IsSeq(q), StartRecording(e, d, q),
         \/ port = Nothing /\ Silent(q)
         \/ port # Nothing /\ Opens(q)
  PROVE  Resting' \/ Opening'
<1>1. rdeck' = [d EXCEPT !.id = e.id, !.cut = e] BY DEF StartRecording
<1>2. rdeck'.st # "recording" BY <1>1 DEF RDecks
<1> DEFINE l == [tag |-> "LR"]
           a == [tag |-> "RS"]
           p == [tag |-> "LP", serial |-> 0]
           name == IF Normalised(e) THEN [temp |-> e.id] ELSE e
<1>3. PICK S : q \in Seq(S) BY DEF IsSeq
<1>4. q \o <<l, a>> = Append(Append(q, l), a) BY <1>3
<1>5. l.tag = "LR" /\ a.tag = "RS" /\ p.tag \notin RecordTags BY DEF RecordTags
<1>6. \/ port = Nothing /\ port' = [st |-> "rolling", file |-> name] /\ answers' = q \o <<l, a>>
      \/ port = Nothing /\ port' = port /\ answers' = Append(q, p)
      \/ port # Nothing /\ port' = [port EXCEPT !.st = "rolling"] /\ answers' = Append(q, a)
  BY DEF StartRecording
<1>7. [st |-> "rolling", file |-> name] # Nothing BY DEF Nothing
<1>8. port # Nothing => [port EXCEPT !.st = "rolling"] # Nothing
  BY DEF Nothing
<1> HIDE DEF l, a, p, name
<1>9. CASE port = Nothing /\ port' = [st |-> "rolling", file |-> name] /\ answers' = q \o <<l, a>>
  <2>1. Opens(answers') BY <1>4, <1>5, <1>9, TellsLoad
  <2> QED BY <1>2, <1>7, <1>9, <2>1 DEF Opening
<1>10. CASE port = Nothing /\ port' = port /\ answers' = Append(q, p)
  <2>1. Silent(answers') BY <1>5, <1>10, TellsMore DEF TellsAs
  <2> QED BY <1>2, <1>10, <2>1 DEF Resting
<1>11. CASE port # Nothing /\ port' = [port EXCEPT !.st = "rolling"] /\ answers' = Append(q, a)
  <2>1. Opens(answers') BY <1>5, <1>11, TellsRolling
  <2> QED BY <1>2, <1>8, <1>11, <2>1 DEF Opening
<1> QED BY <1>6, <1>9, <1>10, <1>11

\* Caed has nothing of a dead daemon.
LEMMA DeadRests == ASSUME Dies PROVE Resting' /\ ~up'
<1>1. Silent(<<>>) BY DEF Silent
<1> QED BY <1>1 DEF Dies, Resting, ROff

\* Where the record deck is in its round.
Phases == Resting \/ Opening \/ Rolling

\* A deck that was given back too early stays so.
LEMMA ReturnedStays == ASSUME [Next]_vars, returned PROVE returned'
<1>1. ASSUME NEW i, NEW to, Edit(i, to) \/ Notified(i) \/ BatchEnds(i, to) PROVE returned'
  BY <1>1 DEF Edit, Notified, BatchEnds, history
<1>2. ASSUME NEW new, ReloadDecks(new) PROVE returned' BY <1>2 DEF ReloadDecks
<1>3. CASE Crash \/ Restart \/ EX \/ StopDeck \/ RS \/ RecordingEnds \/ PlaybackEnds \/ FreeEvents
           \/ EventFinished \/ Due \/ UNCHANGED vars
  BY <1>3 DEF Crash, Restart, EX, StopDeck, RS, RecordingEnds, PlaybackEnds, FreeEvents,
              EventFinished, Due, vars, history
<1>4. CASE Answer
  <2>1. ASSUME NEW s, RecordLoaded \/ Recording \/ RecordStopped \/ RecordUnloaded \/ PlayLoaded(s)
                      \/ Playing \/ PlayStopped(s) \/ PlayUnloaded
        PROVE  returned'
    BY <2>1 DEF RecordLoaded, Recording, RecordStopped, RecordUnloaded, PlayLoaded, Playing,
                PlayStopped, PlayUnloaded, history
  <2>2. CASE UnknownSerial(Head(answers))
    <3>1. UNCHANGED returned BY <2>2 DEF UnknownSerial, PlayStopped, history
    <3> QED BY <3>1
  <2>3. CASE \E s : PlayLoaded(s) \/ PlayStopped(s) BY <2>1, <2>3
  <2>4. CASE RecordLoaded \/ Recording \/ RecordStopped \/ RecordUnloaded \/ Playing \/ PlayUnloaded
    BY <2>1, <2>4
  <2> QED BY <1>4, <2>2, <2>3, <2>4 DEF Answer
<1> QED BY <1>1, <1>2, <1>3, <1>4 DEF Next

\* Of what the daemon finds when it starts, nothing is under way.
LEMMA RestartClears ==
  ASSUME Sane, Restart, NEW id \in Rows
  PROVE  exit'[id] \notin Underway
<1>1. exit \in [Ids -> Codes] /\ id \in Ids BY DEF Sane, TypeOK, Rows
<1>2. [i \in Ids |-> AfterRestart(exit[i])] \in [Ids -> Codes]
  BY <1>1 DEF AfterRestart, Codes
<1>3. exit'[id] = AfterRestart(exit[id]) BY <1>1, <1>2, MarksAll DEF Restart
<1> QED BY <1>3 DEF AfterRestart, Underway

\* What the invariants say of the deck's parts.
LEMMA DeckParts ==
  ASSUME IInv, Sane
  PROVE  /\ PortIs /\ IsSeq(answers) /\ rdeck \in RDecks
         /\ events \in Seq(Entries) /\ Distinct(events)
<1>1. rdeck \in RDecks BY DEF Sane, TypeOK, RDecks
<1>2. PortIs /\ IsSeq(answers) BY DEF IInv, Shapes, PortIs
<1> QED BY <1>1, <1>2 DEF Sane, TypeOK, Schedule, Entered

\* A start is reported: the deck rolls.
LEMMA BeginsDoes ==
  ASSUME IInv, Sane, Phases, Begins
  PROVE  Rolling' /\ rdeck'.id = rdeck.id
<1>1. IsSeq(answers) /\ rdeck \in RDecks BY DeckParts
<1>2. rdeck' = [rdeck EXCEPT !.st = "recording"] /\ answers' = Tail(answers) /\ port' = port
  BY DEF Begins, Recording
<1>3. rdeck'.st = "recording" /\ rdeck'.id = rdeck.id BY <1>1, <1>2 DEF RDecks
<1>4. answers # <<>> /\ Head(answers).tag = "RS" BY DEF Begins
<1>5. CASE Resting BY <1>1, <1>4, <1>5, TellsLess DEF Resting, RecordTags
<1>6. CASE Opening
  <2>1. Rolls(answers') BY <1>1, <1>2, <1>4, <1>6, TellsLess DEF Opening
  <2> QED BY <1>2, <1>3, <1>6, <2>1 DEF Opening, Rolling
<1>7. CASE Rolling
  <2>1. port # Nothing => Rolls(answers') BY <1>1, <1>2, <1>4, <1>7, TellsLess DEF Rolling
  <2>2. port = Nothing => Closes(answers') BY <1>1, <1>2, <1>4, <1>7, TellsLess DEF Rolling
  <2> QED BY <1>2, <1>3, <2>1, <2>2 DEF Rolling
<1> QED BY <1>5, <1>6, <1>7 DEF Phases
-----------------------------------------------------------------------------

\* What a step does to the record deck.
Turns ==
  \/ Keeps
  \/ (Resting' \/ Opening') /\ ~Rolling
  \/ Resting' /\ (~up' \/ Restart)
  \/ Begins
  \/ RecordUnloaded /\ Rolling /\ (Resting' \/ Opening')

\* The daemon starts: caed has nothing of it.
LEMMA RestartTurns == ASSUME Down, Restart PROVE Turns
<1>1. port' = Nothing /\ answers' = <<>> BY DEF Down, Restart, caed
<1>2. Silent(<<>>) BY DEF Silent
<1>3. rdeck'.st # "recording" BY DEF Restart, ROff
<1> QED BY <1>1, <1>2, <1>3 DEF Turns, Resting

\* An idle deck is started.
LEMMA StartTurns ==
  ASSUME IInv, Sane, Phases, NEW e, rdeck.st = "idle", StartRecording(e, rdeck, answers)
  PROVE  Turns
<1>1. IsSeq(answers) /\ rdeck \in RDecks BY DeckParts
<1>2. ~Rolling BY DEF Rolling
<1>3. (port = Nothing /\ Silent(answers)) \/ (port # Nothing /\ Opens(answers))
  BY <1>2 DEF Phases, Resting, Opening
<1>4. Resting' \/ Opening' BY <1>1, <1>3, OpensDeck
<1> QED BY <1>2, <1>4 DEF Turns

\* A timer runs out.
LEMMA DueTurns == ASSUME IInv, Sane, Phases, Due PROVE Turns
<1>1. IsSeq(answers) BY DeckParts
<1>2. PICK n \in DOMAIN events :
        RecordingDue(n) \/ PlayoutDue(n) \/ MacroDue(n) \/ SwitchDue(n) \/ LoadDue(n)
  BY DEF Due
<1>3. CASE UNCHANGED <<rdeck, port, answers>>
  BY <1>1, <1>3, HearsItself, AsideStep DEF Turns
<1>4. CASE MacroDue(n) \/ SwitchDue(n) \/ LoadDue(n)
  BY <1>3, <1>4 DEF MacroDue, SwitchDue, LoadDue, caed
<1>5. CASE RecordingDue(n)
  <2>1. \/ UNCHANGED <<rdeck, port, answers>>
        \/ rdeck.st = "idle" /\ StartRecording(events[n], rdeck, answers)
    BY <1>5 DEF RecordingDue
  <2> QED BY <1>3, <2>1, StartTurns
<1>6. CASE PlayoutDue(n)
  <2> DEFINE l == [tag |-> "LP", serial |-> pdeck.serial + 1]
             a == [tag |-> "PY", serial |-> pdeck.serial + 1]
  <2>1. PICK S : answers \in Seq(S) BY <1>1 DEF IsSeq
  <2>2. answers \o <<l, a>> = Append(Append(answers, l), a) BY <2>1
  <2>3. l.tag \notin RecordTags /\ a.tag \notin RecordTags BY DEF RecordTags
  <2>4. UNCHANGED <<rdeck, port>> BY <1>6 DEF PlayoutDue
  <2>5. answers' \in {answers, answers \o <<l, a>>, Append(answers, l)}
    BY <1>6 DEF PlayoutDue
  <2> HIDE DEF l, a
  <2>6. Hears(answers, Append(answers, l)) /\ IsSeq(Append(answers, l))
    BY <1>1, <2>3, HearsMore, TellsMore
  <2>7. Hears(Append(answers, l), Append(Append(answers, l), a)) BY <2>3, <2>6, HearsMore
  <2>8. Hears(answers, answers)
        /\ Hears(answers, Append(Append(answers, l), a))
    BY <1>1, <2>6, <2>7, HearsItself, HearsHears
  <2>9. Hears(answers, answers') BY <2>2, <2>5, <2>6, <2>8
  <2> QED BY <2>4, <2>9, AsideStep DEF Turns
<1> QED BY <1>2, <1>4, <1>5, <1>6

\* An RS macro.
LEMMA RSTurns == ASSUME IInv, Sane, Phases, RS PROVE Turns
<1>1. IsSeq(answers) /\ rdeck \in RDecks /\ events \in Seq(Entries) /\ Distinct(events)
  BY DeckParts
<1>2. CASE rdeck.st = "idle" /\ StartRmlRecording(events, rdeck, answers)
  <2>1. Dies \/ \E e : StartRecording(e, rdeck, answers) BY <1>1, <1>2, Rmls
  <2>2. CASE Dies BY <2>2, DeadRests DEF Turns
  <2> QED BY <1>2, <2>1, <2>2, StartTurns
<1>3. CASE rdeck' = [rdeck EXCEPT !.pending = TRUE] /\ UNCHANGED <<port, answers>>
  <2>1. rdeck'.id = rdeck.id /\ rdeck'.st = rdeck.st BY <1>1, <1>3 DEF RDecks
  <2>2. Rolling => rdeck.st \in {"recording", "offline"} BY DEF Rolling
  <2> QED BY <1>1, <1>3, <2>1, <2>2, HearsItself, KeepsStep DEF Turns
<1> QED BY <1>2, <1>3 DEF RS, caed

\* The recording is stopped, and the deck goes on.
LEMMA StopTurns ==
  ASSUME IInv, Sane, rdeck'.id = rdeck.id, rdeck'.st = rdeck.st,
         port' = Stopped(port), answers' = answers \o StopRecord
  PROVE  Turns
<1>1. IsSeq(answers) /\ PortIs BY DeckParts
<1>2. Rolling => rdeck.st \in {"recording", "offline"} BY DEF Rolling
<1> QED BY <1>1, <1>2, HearsStops, KeepsStep DEF Turns

\* Stops, from the daemon and from caed.
LEMMA StopDeckTurns == ASSUME IInv, Sane, StopDeck \/ RecordingEnds \/ PlaybackEnds PROVE Turns
<1>1. IsSeq(answers) /\ rdeck \in RDecks BY DeckParts
<1>2. CASE /\ rdeck' = [rdeck EXCEPT !.aborting = TRUE]
           /\ port' = Stopped(port) /\ answers' = answers \o StopRecord
  <2>1. rdeck'.id = rdeck.id /\ rdeck'.st = rdeck.st BY <1>1, <1>2 DEF RDecks
  <2> QED BY <1>2, <2>1, StopTurns
<1>3. CASE \E s : answers' = answers \o StopPlay(s) /\ UNCHANGED <<rdeck, port>>
  BY <1>1, <1>3, HearsPlays, AsideStep DEF Turns
<1>4. CASE StopDeck BY <1>2, <1>3, <1>4 DEF StopDeck
<1>5. CASE RecordingEnds BY <1>5, StopTurns DEF RecordingEnds, decks
<1>6. CASE PlaybackEnds BY <1>3, <1>6 DEF PlaybackEnds, decks
<1> QED BY <1>4, <1>5, <1>6

\* Decks are reloaded: one that is given back is one caed is done with.
LEMMA ReloadTurns == ASSUME IInv, Sane, ~returned', NEW new, ReloadDecks(new) PROVE Turns
<1> DEFINE r == rdeck.st = "recording" /\ "record" \notin new
           p == pdeck.st = "recording" /\ "play" \notin new
           q == answers \o (IF r THEN StopRecord ELSE <<>>)
<1>1. IsSeq(answers) /\ PortIs /\ rdeck \in RDecks BY DeckParts
<1>2. /\ port' = IF r THEN Stopped(port) ELSE port
      /\ answers' = q \o (IF p THEN StopPlay(pdeck.serial) ELSE <<>>)
      /\ rdeck' = Reloaded(rdeck, "record" \in new)
      /\ ~("record" \in new /\ rdeck.st = "offline" /\ ~RDeckQuiet(answers))
  BY DEF ReloadDecks
<1>3. \A o : IsSeq(o) => o \o <<>> = o
  <2>1. \A o, S : o \in Seq(S) => o \o <<>> = o OBVIOUS
  <2> QED BY <2>1 DEF IsSeq
<1>4. Hears(answers, q) /\ (port' = Nothing <=> port = Nothing)
  <2>1. CASE r BY <1>1, <1>2, <2>1, HearsStops
  <2>2. CASE ~r BY <1>1, <1>2, <1>3, <2>2, HearsItself
  <2> QED BY <2>1, <2>2
<1>5. IsSeq(q) BY <1>4 DEF Hears
<1> HIDE DEF q
<1>6. Hears(q, answers')
  <2>1. CASE p BY <1>2, <1>5, <2>1, HearsPlays
  <2>2. CASE ~p BY <1>2, <1>3, <1>5, <2>2, HearsItself
  <2> QED BY <2>1, <2>2
<1>7. Hears(answers, answers') BY <1>4, <1>6, HearsHears
<1>8. rdeck'.id = rdeck.id /\ (rdeck'.st = "recording" => rdeck.st = "recording")
  BY <1>1, <1>2 DEF Reloaded, RDecks
<1>9. ASSUME Rolling PROVE rdeck'.st \in {"recording", "offline"}
  <2>1. CASE rdeck.st = "recording" BY <1>1, <1>2, <2>1 DEF Reloaded, RDecks
  <2>2. CASE rdeck.st = "offline" /\ "record" \in new
    <3>1. RDeckQuiet(answers) BY <1>2, <2>2
    <3>2. Closes(answers) BY <1>9, <3>1 DEF RDeckQuiet, Rolling
    <3> QED BY <3>1, <3>2 DEF RDeckQuiet, Closes
  <2>3. CASE "record" \notin new BY <1>1, <1>2, <2>3 DEF Reloaded, RDecks
  <2> QED BY <1>9, <2>1, <2>2, <2>3 DEF Rolling
<1> QED BY <1>4, <1>7, <1>8, <1>9, KeepsStep DEF Turns
-----------------------------------------------------------------------------
(* Answers.                                                                *)

\* The port was loaded.
LEMMA LoadedTurns ==
  ASSUME IInv, Sane, Phases, answers # <<>>, Head(answers).tag = "LR", RecordLoaded
  PROVE  Turns
<1>1. IsSeq(answers) /\ rdeck \in RDecks BY DeckParts
<1>2. ~Rolling /\ ~Resting BY <1>1, TellsLess DEF Rolling, Resting, RecordTags
<1>3. Opens(Tail(answers)) /\ port # Nothing BY <1>1, <1>2, TellsLess DEF Phases, Opening
<1>4. rdeck'.st # "recording" /\ answers' = Tail(answers) /\ port' = port
  BY <1>1 DEF RecordLoaded, RDecks
<1> QED BY <1>2, <1>3, <1>4 DEF Turns, Opening

\* The recording was stopped, the port is unloaded.
LEMMA StoppedTurns ==
  ASSUME IInv, Sane, Phases, answers # <<>>, Head(answers).tag = "SR", RecordStopped
  PROVE  Turns
<1>1. IsSeq(answers) /\ rdeck \in RDecks BY DeckParts
<1>2. ~Resting /\ ~Opening BY <1>1, TellsLess DEF Resting, Opening, RecordTags
<1>3. rdeck' = rdeck /\ port' = Nothing
      /\ answers' = IF port = Nothing THEN Tail(answers)
                    ELSE Append(Tail(answers), [tag |-> "UR", file |-> port.file])
  BY DEF RecordStopped
<1>4. Closes(answers')
  <2>1. CASE port = Nothing BY <1>1, <1>2, <1>3, <2>1, TellsLess DEF Phases, Rolling
  <2>2. CASE port # Nothing
    <3>1. Rolls(Tail(answers)) /\ IsSeq(Tail(answers))
      BY <1>1, <1>2, <2>2, TellsLess DEF Phases, Rolling
    <3> QED BY <1>3, <2>2, <3>1, TellsUnload
  <2> QED BY <2>1, <2>2
<1>5. Rolling' BY <1>2, <1>3, <1>4 DEF Phases, Rolling
<1> QED BY <1>2, <1>3, <1>5 DEF Turns, Keeps

\* The port was unloaded: the deck is idle, or starts what was kept for it.
LEMMA UnloadedTurns ==
  ASSUME IInv, Sane, Phases, answers # <<>>, Head(answers).tag = "UR", RecordUnloaded
  PROVE  Turns
<1>1. /\ IsSeq(answers) /\ rdeck \in RDecks
      /\ events \in Seq(Entries) /\ Distinct(events)
  BY DeckParts
<1>2. ~Resting /\ ~Opening BY <1>1, TellsLess DEF Resting, Opening, RecordTags
<1>3. Rolling /\ port = Nothing /\ Silent(Tail(answers)) /\ IsSeq(Tail(answers))
  BY <1>1, <1>2, TellsLess DEF Phases, Rolling
<1>4. PICK es \in Seq(Entries), d \in RDecks : Distinct(es) /\ RunRmlRecordingCache(es, d)
  <2>1. CASE IndexOf(rdeck.id) = 0 BY <1>1, <2>1 DEF RecordUnloaded
  <2>2. CASE IndexOf(rdeck.id) # 0
    <3>1. IndexOf(rdeck.id) \in DOMAIN events BY <1>1, <2>2, Index
    <3>2. Left(IndexOf(rdeck.id)) \in Seq(Entries) /\ Distinct(Left(IndexOf(rdeck.id)))
      BY <3>1, Leaves
    <3>3. [rdeck EXCEPT !.id = -1] \in RDecks BY <1>1, RDeckWith
    <3>4. RunRmlRecordingCache(Left(IndexOf(rdeck.id)), [rdeck EXCEPT !.id = -1])
      BY <2>2 DEF RecordUnloaded
    <3> QED BY <3>2, <3>3, <3>4
  <2> QED BY <2>1, <2>2
<1>5. Idle(d) \in RDecks /\ Idle(d).st = "idle"
  <2>1. Idle(d) \in RDecks BY <1>4, RDeckWith DEF Idle
  <2>2. Idle(d).st = "idle" BY <1>4 DEF Idle, RDecks
  <2> QED BY <2>1, <2>2
<1>6. \/ Dies
      \/ \E e : StartRecording(e, Idle(d), Tail(answers))
      \/ rdeck' = Idle(d) /\ answers' = Tail(answers) /\ port' = port
  BY <1>4, Caches
<1>7. CASE Dies BY <1>7, DeadRests DEF Turns
<1>8. CASE \E e : StartRecording(e, Idle(d), Tail(answers))
  BY <1>3, <1>5, <1>8, OpensDeck DEF Turns
<1>9. CASE rdeck' = Idle(d) /\ answers' = Tail(answers) /\ port' = port
  BY <1>3, <1>5, <1>9 DEF Turns, Resting
<1> QED BY <1>6, <1>7, <1>8, <1>9

\* An answer about a playback.
LEMMA PlayTurns ==
  ASSUME IInv, Sane, answers # <<>>, Head(answers).tag \notin RecordTags,
         \/ Dies
         \/ /\ UNCHANGED <<rdeck, port>>
            /\ \/ answers' = Tail(answers)
               \/ \E s : answers' = Append(Tail(answers), [tag |-> "UP", serial |-> s])
  PROVE  Turns
<1>1. IsSeq(answers) BY DeckParts
<1>2. Hears(answers, Tail(answers)) /\ IsSeq(Tail(answers)) BY <1>1, HearsLess DEF Hears
<1>3. CASE Dies BY <1>3, DeadRests DEF Turns
<1>4. CASE UNCHANGED <<rdeck, port>> /\ answers' = Tail(answers)
  BY <1>2, <1>4, AsideStep DEF Turns
<1>5. ASSUME NEW s, UNCHANGED <<rdeck, port>>,
             answers' = Append(Tail(answers), [tag |-> "UP", serial |-> s])
      PROVE  Turns
  <2> DEFINE a == [tag |-> "UP", serial |-> s]
  <2>1. a.tag \notin RecordTags BY DEF RecordTags
  <2> HIDE DEF a
  <2>2. Hears(Tail(answers), Append(Tail(answers), a)) BY <1>2, <2>1, HearsMore
  <2>3. Hears(answers, answers') BY <1>2, <1>5, <2>2, HearsHears DEF a
  <2> QED BY <1>5, <2>3, AsideStep DEF Turns
<1> QED BY <1>3, <1>4, <1>5

\* Any answer.
LEMMA AnswerTurns == ASSUME IInv, Sane, Phases, Answer PROVE Turns
<1> DEFINE a == Head(answers)
           Heard == \/ Dies
                    \/ /\ UNCHANGED <<rdeck, port>>
                       /\ \/ answers' = Tail(answers)
                          \/ \E s : answers' = Append(Tail(answers), [tag |-> "UP", serial |-> s])
<1>1. up /\ answers # <<>> BY DEF Answer
<1>2. ASSUME NEW s, PlayLoaded(s) \/ PlayStopped(s) \/ Playing \/ PlayUnloaded PROVE Heard
  BY <1>2 DEF PlayLoaded, PlayStopped, Playing, PlayUnloaded
<1>3. ASSUME UnknownSerial(a) PROVE Heard BY <1>3 DEF UnknownSerial, PlayStopped
<1>4. \/ a.tag = "LR" /\ RecordLoaded
      \/ Begins
      \/ a.tag = "SR" /\ RecordStopped
      \/ a.tag = "UR" /\ RecordUnloaded
      \/ a.tag \notin RecordTags /\ Heard
  <2>1. {"LP", "PY", "SP", "UP"} \cap RecordTags = {} BY DEF RecordTags
  <2>2. CASE a.tag \in {"LP", "PY", "SP", "UP"}
             /\ \E s : PlayLoaded(s) \/ PlayStopped(s) \/ Playing \/ PlayUnloaded \/ UnknownSerial(a)
    <3> HIDE DEF Heard
    <3> QED BY <1>2, <1>3, <2>1, <2>2
  <2> HIDE DEF Heard
  <2> QED BY <1>1, <2>2 DEF Answer, Begins
<1>5. CASE Begins BY <1>5 DEF Turns
<1> QED BY <1>1, <1>4, <1>5, LoadedTurns, StoppedTurns, UnloadedTurns, PlayTurns

\* Any step.
LEMMA EveryTurn == ASSUME IInv, Sane, Down, Phases, ~returned', [Next]_vars PROVE Turns
<1>1. IsSeq(answers) BY DeckParts
<1>2. CASE UNCHANGED <<rdeck, caed>>
  BY <1>1, <1>2, HearsItself, AsideStep DEF Turns, caed
<1>3. ASSUME NEW i, NEW to, Edit(i, to) \/ Notified(i) \/ BatchEnds(i, to) PROVE Turns
  BY <1>2, <1>3 DEF Edit, Notified, BatchEnds, decks
<1>4. CASE EX \/ EventFinished \/ FreeEvents \/ UNCHANGED vars
  BY <1>2, <1>4 DEF EX, EventFinished, FreeEvents, vars, decks
<1>5. CASE Crash BY <1>5, DeadRests DEF Crash, Turns
<1> QED BY <1>3, <1>4, <1>5, RestartTurns, ReloadTurns, DueTurns, RSTurns, StopDeckTurns,
           AnswerTurns DEF Next

\* Every step keeps a dead daemon without anything of caed.
LEMMA DownStep == ASSUME Down, [Next]_vars PROVE Down'
<1>1. CASE Dies BY <1>1 DEF Dies, Down
<1>2. CASE UNCHANGED <<up, caed>> BY <1>2 DEF Down, caed
<1>3. CASE up' /\ up BY <1>3 DEF Down
<1>4. CASE Restart BY <1>4 DEF Restart, Down
<1>5. ASSUME NEW i, NEW to, Edit(i, to) \/ Notified(i) \/ BatchEnds(i, to) PROVE Down'
  BY <1>2, <1>5 DEF Edit, Notified, BatchEnds
<1>6. CASE RecordingEnds \/ PlaybackEnds
  <2>1. up BY <1>6 DEF RecordingEnds, PlaybackEnds, Down, Nothing
  <2> QED BY <1>3, <1>6, <2>1 DEF RecordingEnds, PlaybackEnds
<1>7. ASSUME NEW new, ReloadDecks(new) PROVE Down' BY <1>3, <1>7 DEF ReloadDecks
<1>8. CASE Crash BY <1>1, <1>8 DEF Crash
<1>9. CASE Due \/ EX \/ StopDeck BY <1>3, <1>9 DEF Due, EX, StopDeck
<1>10. CASE EventFinished \/ FreeEvents \/ UNCHANGED vars
  BY <1>2, <1>10 DEF EventFinished, FreeEvents, vars
<1>11. ASSUME NEW es, NEW d, NEW q, up, StartRmlRecording(es, d, q) PROVE Down'
  BY <1>1, <1>3, <1>11 DEF StartRmlRecording
<1>12. CASE RS
  <2>1. CASE StartRmlRecording(events, rdeck, answers) BY <1>11, <1>12, <2>1 DEF RS
  <2>2. CASE UNCHANGED up BY <1>3, <1>12, <2>2 DEF RS
  <2> QED BY <1>12, <2>1, <2>2 DEF RS
<1>13. ASSUME up, NEW es, NEW d, RunRmlRecordingCache(es, d) PROVE Down'
  BY <1>3, <1>11, <1>13 DEF RunRmlRecordingCache
<1>14. CASE Answer
  <2>1. ASSUME up, NEW s, RecordLoaded \/ Recording \/ RecordStopped \/ PlayLoaded(s)
                          \/ PlayStopped(s)
        PROVE  Down'
    BY <1>3, <2>1 DEF RecordLoaded, Recording, RecordStopped, PlayLoaded, PlayStopped, Others
  <2>2. ASSUME up, Playing \/ PlayUnloaded PROVE Down'
    BY <1>1, <1>3, <2>2 DEF Playing, PlayUnloaded
  <2>3. ASSUME up, UnknownSerial(Head(answers)) PROVE Down'
    <3>1. Dies \/ UNCHANGED up BY <2>3 DEF UnknownSerial, PlayStopped, Others
    <3> QED BY <1>1, <1>3, <2>3, <3>1
  <2>4. ASSUME up, RecordUnloaded PROVE Down' BY <1>13, <2>4 DEF RecordUnloaded
  <2>5. CASE \E s : PlayLoaded(s) \/ PlayStopped(s) BY <1>14, <2>1, <2>5 DEF Answer
  <2>6. CASE RecordLoaded \/ Recording \/ RecordStopped BY <1>14, <2>1, <2>6 DEF Answer
  <2> QED BY <1>14, <2>2, <2>3, <2>4, <2>5, <2>6 DEF Answer
<1> QED BY <1>4, <1>5, <1>6, <1>7, <1>8, <1>9, <1>10, <1>12, <1>14 DEF Next

\* Every step keeps what is said of the record deck.
LEMMA RecorderStep ==
  ASSUME IInv, Sane, Down, Recorder, [Next]_vars
  PROVE  Recorder'
<1> SUFFICES ASSUME ~returned' PROVE Recorder' BY DEF Recorder
<1>1. ~returned BY ReturnedStays
<1>2. Phases /\ (up => \A id \in Rows : exit[id] = "active" => rdeck.id = id /\ Rolling)
  BY <1>1 DEF Recorder, Phases
<1>3. Turns BY <1>2, EveryTurn
<1>4. Begins => Rolling' /\ rdeck'.id = rdeck.id BY <1>2, BeginsDoes
<1>5. Resting' \/ Opening' \/ Rolling' BY <1>2, <1>3, <1>4 DEF Turns, Keeps, Phases
<1>6. ASSUME up', NEW id \in Rows', exit'[id] = "active"
      PROVE  rdeck'.id = id /\ Rolling'
  <2>1. id \in Ids /\ "active" \in Underway BY DEF Rows, Underway
  <2>2. id \in Rows BY <1>6, <2>1, RowsDo
  <2>3. CASE exit[id] # "active"
    <3>1. id = rdeck.id /\ Begins BY <1>6, <2>1, <2>3, CodesDo
    <3> QED BY <1>4, <3>1
  <2>4. CASE exit[id] = "active"
    <3>1. ~Restart BY <1>6, <2>1, <2>2, RestartClears
    <3>2. up BY <1>6, <3>1, UpStays
    <3>3. rdeck.id = id /\ Rolling BY <1>2, <2>2, <2>4, <3>2
    <3>4. CASE Keeps BY <3>3, <3>4 DEF Keeps
    <3>5. CASE Begins BY <1>4, <3>3, <3>5
    <3>6. CASE RecordUnloaded
      <4>1. events \in Seq(Entries) /\ Distinct(events) BY DeckParts
      <4>2. CASE IndexOf(id) = 0
        <5>1. ~Named(events, id) BY <4>1, <4>2, Index
        <5>2. exit[id] \notin Underway
          BY <2>2, <3>2, <5>1 DEF Sane, Schedule, Unentered
        <5> QED BY <2>1, <2>4, <5>2
      <4>3. CASE IndexOf(id) # 0
        <5> DEFINE code == IF rdeck.aborting THEN "interrupted" ELSE "ok"
        <5>1. Writes(Code(id, code)) BY <3>3, <3>6, <4>3 DEF RecordUnloaded
        <5>2. code \in Codes /\ code # "active" BY DEF Codes
        <5>3. exit \in [Ids -> Codes] BY DEF Sane, TypeOK
        <5> HIDE DEF code
        <5>4. exit'[id] = code BY <2>1, <2>2, <5>1, <5>2, <5>3, Marks
        <5> QED BY <1>6, <5>2, <5>4
      <4> QED BY <4>2, <4>3
    <3> QED BY <1>3, <1>6, <3>1, <3>3, <3>4, <3>5, <3>6 DEF Turns
  <2> QED BY <2>3, <2>4
<1> QED BY <1>5, <1>6 DEF Recorder

(* What queues tell of the playbacks.                                      *)

\* What the answers in a queue are.
LEMMA Serials ==
  ASSUME NEW q \in Seq(Messages)
  PROVE  /\ IsSeq(q)
         /\ \A n \in DOMAIN q : n \in Nat /\ q[n] \in Messages
         /\ \A n \in DOMAIN q : q[n].tag \in PlayTags => q[n].serial \in Nat
         /\ {"LP", "PY", "SP", "UP"} = PlayTags
<1>1. \A n \in DOMAIN q : n \in Nat /\ q[n] \in Messages OBVIOUS
<1> QED BY <1>1, Answers DEF IsSeq, PlayTags

\* A queue with an answer more.
LEMMA LongerQueue ==
  ASSUME NEW q \in Seq(Messages), NEW a \in Messages
  PROVE  LET p == Append(q, a) IN
         /\ p \in Seq(Messages)
         /\ \A n \in DOMAIN q : n \in DOMAIN p /\ p[n] = q[n]
         /\ \A n \in DOMAIN p : \/ n \in DOMAIN q /\ p[n] = q[n]
                                \/ p[n] = a /\ \A m \in DOMAIN q : m < n
         /\ \E n \in DOMAIN p : p[n] = a /\ \A m \in DOMAIN q : m < n
<1> DEFINE p == Append(q, a)
           k == Len(q) + 1
<1>1. p \in Seq(Messages) OBVIOUS
<1>2. /\ Len(q) \in Nat /\ DOMAIN q = 1..Len(q) /\ DOMAIN p = 1..k
      /\ p[k] = a /\ \A n \in 1..Len(q) : p[n] = q[n]
  BY Added, Serials
<1> HIDE DEF p
<1>3. k \in DOMAIN p /\ \A m \in DOMAIN q : m < k BY <1>2
<1>4. \A n \in DOMAIN p : n \in DOMAIN q \/ n = k BY <1>2
<1>5. \A n \in DOMAIN q : n \in DOMAIN p /\ p[n] = q[n] BY <1>2
<1> HIDE DEF k
<1> QED BY <1>1, <1>2, <1>3, <1>4, <1>5 DEF p

\* An answer more that tells of no start, nor that the last playback, or an earlier one,
\* was loaded.
LEMMA ToldMore ==
  ASSUME NEW q \in Seq(Messages), NEW a \in Messages, a.tag # "PY", NEW pl, NEW last \in Nat,
         a.tag = "LP" => a.serial = 0 \/ a.serial > last
  PROVE  /\ ToldOf(q, pl, last) => ToldOf(Append(q, a), pl, last)
         /\ (a.tag = "LP" => a.serial = 0) =>
              (Flies(q, pl, last) => Flies(Append(q, a), pl, last))
<1> DEFINE p == Append(q, a)
<1>1. /\ \A n \in DOMAIN q : n \in DOMAIN p /\ p[n] = q[n]
      /\ \A n \in DOMAIN p : (n \in DOMAIN q /\ p[n] = q[n]) \/ p[n] = a
  BY LongerQueue
<1> HIDE DEF p
<1>2. \A n \in DOMAIN q : q[n].tag = "PY" => q[n].serial \in Nat BY Serials
<1>3. ASSUME ToldOf(q, pl, last) PROVE ToldOf(p, pl, last)
  <2> SUFFICES ASSUME NEW n \in DOMAIN p, p[n].tag = "PY"
               PROVE  /\ p[n].serial > 0 /\ p[n].serial <= last
                      /\ \A m \in DOMAIN p : m > n /\ p[m].tag = "LP" => p[m].serial # p[n].serial
                      /\ \/ p[n].serial \in pl \/ -p[n].serial \in pl
                         \/ \E m \in DOMAIN p : /\ m > n /\ p[m].tag = "UP"
                                                /\ p[m].serial = p[n].serial
    BY DEF ToldOf
  <2>1. n \in DOMAIN q /\ p[n] = q[n] BY <1>1
  <2>2. /\ q[n].serial > 0 /\ q[n].serial <= last /\ q[n].serial \in Nat
        /\ \A m \in DOMAIN q : m > n /\ q[m].tag = "LP" => q[m].serial # q[n].serial
        /\ \/ q[n].serial \in pl \/ -q[n].serial \in pl
           \/ \E m \in DOMAIN q : /\ m > n /\ q[m].tag = "UP"
                                  /\ q[m].serial = q[n].serial
    BY <1>2, <1>3, <2>1 DEF ToldOf
  <2>3. a.tag = "LP" => a.serial # q[n].serial BY <2>2
  <2> HIDE DEF ToldOf
  <2> QED BY <1>1, <2>1, <2>2, <2>3
<1>4. ASSUME a.tag = "LP" => a.serial = 0, Flies(q, pl, last) PROVE Flies(p, pl, last)
  <2>1. a.tag = "LP" => a.serial # last BY <1>4 DEF Flies
  <2>2. Airs(p, pl, last) BY <1>1, <1>4 DEF Flies, Airs
  <2> QED BY <1>1, <1>4, <2>1, <2>2 DEF Flies
<1> QED BY <1>3, <1>4 DEF p

\* The start of a playback that caed has.
LEMMA ToldStart ==
  ASSUME NEW q \in Seq(Messages), NEW pl, NEW last \in Nat, last > 0, last \in pl,
         ToldOf(q, pl, last), NEW a \in Messages, a.tag = "PY", a.serial = last
  PROVE  ToldOf(Append(q, a), pl, last)
<1> DEFINE p == Append(q, a)
<1>1. /\ \A n \in DOMAIN q : n \in DOMAIN p /\ p[n] = q[n]
      /\ \A n \in DOMAIN p : \/ n \in DOMAIN q /\ p[n] = q[n]
                             \/ p[n] = a /\ \A m \in DOMAIN q : m < n
      /\ p \in Seq(Messages)
  BY LongerQueue
<1>2. \A n \in DOMAIN p : n \in Nat BY <1>1, Serials
<1> HIDE DEF p
<1> SUFFICES ASSUME NEW n \in DOMAIN p, p[n].tag = "PY"
             PROVE  /\ p[n].serial > 0 /\ p[n].serial <= last
                    /\ \A m \in DOMAIN p : m > n /\ p[m].tag = "LP" => p[m].serial # p[n].serial
                    /\ \/ p[n].serial \in pl \/ -p[n].serial \in pl
                       \/ \E m \in DOMAIN p : /\ m > n /\ p[m].tag = "UP"
                                              /\ p[m].serial = p[n].serial
  BY DEF ToldOf, p
<1>3. CASE n \in DOMAIN q /\ p[n] = q[n]
  <2>1. /\ q[n].serial > 0 /\ q[n].serial <= last
        /\ \A m \in DOMAIN q : m > n /\ q[m].tag = "LP" => q[m].serial # q[n].serial
        /\ \/ q[n].serial \in pl \/ -q[n].serial \in pl
           \/ \E m \in DOMAIN q : /\ m > n /\ q[m].tag = "UP"
                                  /\ q[m].serial = q[n].serial
    BY <1>3 DEF ToldOf
  <2>2. \A m \in DOMAIN p : p[m].tag = "LP" => m \in DOMAIN q /\ p[m] = q[m] BY <1>1
  <2> QED BY <1>1, <1>3, <2>1, <2>2
<1>4. CASE p[n] = a /\ \A m \in DOMAIN q : m < n
  <2>1. \A m \in DOMAIN p : m > n => p[m] = a BY <1>1, <1>2, <1>4
  <2> QED BY <1>4, <2>1
<1> QED BY <1>1, <1>3, <1>4

\* An answer is read.
LEMMA ToldLess ==
  ASSUME NEW q \in Seq(Messages), q # <<>>, NEW pl, NEW last \in Nat
  PROVE  /\ Tail(q) \in Seq(Messages) /\ Head(q) \in Messages
         /\ ToldOf(q, pl, last) => ToldOf(Tail(q), pl, last)
         /\ ~(Head(q).tag = "UP" /\ Head(q).serial = last) =>
              (Flies(q, pl, last) => Flies(Tail(q), pl, last))
         /\ ToldOf(q, pl, last) /\ Head(q).tag = "PY" /\ Head(q).serial = last =>
              Flies(Tail(q), pl, last)
<1> DEFINE p == Tail(q)
<1>1. p \in Seq(Messages) /\ Head(q) \in Messages OBVIOUS
<1>2. /\ 1 \in DOMAIN q /\ q[1] = Head(q)
      /\ \A n \in DOMAIN p : n \in Nat /\ n + 1 \in DOMAIN q /\ q[n + 1] = p[n]
      /\ \A n \in DOMAIN q : n \in Nat /\ (n # 1 => n - 1 \in DOMAIN p /\ p[n - 1] = q[n])
  BY Shifts, Serials
<1> HIDE DEF p
<1>10. \A n \in DOMAIN p : n >= 1 BY <1>1
<1>3. ASSUME ToldOf(q, pl, last) PROVE ToldOf(p, pl, last)
  <2> SUFFICES ASSUME NEW n \in DOMAIN p, p[n].tag = "PY"
               PROVE  /\ p[n].serial > 0 /\ p[n].serial <= last
                      /\ \A m \in DOMAIN p : m > n /\ p[m].tag = "LP" => p[m].serial # p[n].serial
                      /\ \/ p[n].serial \in pl \/ -p[n].serial \in pl
                         \/ \E m \in DOMAIN p : /\ m > n /\ p[m].tag = "UP"
                                                /\ p[m].serial = p[n].serial
    BY DEF ToldOf
  <2>1. n \in Nat /\ n >= 1 /\ n + 1 \in DOMAIN q /\ q[n + 1] = p[n] BY <1>2, <1>10
  <2>2. /\ p[n].serial > 0 /\ p[n].serial <= last
        /\ \A m \in DOMAIN q : m > n + 1 /\ q[m].tag = "LP" => q[m].serial # p[n].serial
        /\ \/ p[n].serial \in pl \/ -p[n].serial \in pl
           \/ \E m \in DOMAIN q : /\ m > n + 1 /\ q[m].tag = "UP"
                                  /\ q[m].serial = p[n].serial
    BY <1>3, <2>1 DEF ToldOf
  <2>3. \A m \in DOMAIN p : m > n /\ p[m].tag = "LP" => p[m].serial # p[n].serial
    <3>1. \A m \in DOMAIN p : m \in Nat /\ (m > n => m + 1 > n + 1) BY <1>2, <2>1
    <3> QED BY <1>2, <2>2, <3>1
  <2>4. ASSUME NEW m \in DOMAIN q, m > n + 1, q[m].tag = "UP", q[m].serial = p[n].serial
        PROVE  \E k \in DOMAIN p : k > n /\ p[k].tag = "UP" /\ p[k].serial = p[n].serial
    <3>1. m \in Nat BY <1>2
    <3>2. m # 1 /\ m - 1 > n BY <2>1, <2>4, <3>1
    <3>3. m - 1 \in DOMAIN p /\ p[m - 1] = q[m] BY <1>2, <3>2
    <3> QED BY <2>4, <3>2, <3>3
  <2> QED BY <2>2, <2>3, <2>4
<1>4. ASSUME ~(q[1].tag = "UP" /\ q[1].serial = last), Flies(q, pl, last)
      PROVE  Flies(p, pl, last)
  <2>1. \A n \in DOMAIN q : q[n].tag = "UP" /\ q[n].serial = last =>
          \E m \in DOMAIN p : p[m].tag = "UP" /\ p[m].serial = last
    BY <1>2, <1>4
  <2> QED BY <1>2, <1>4, <2>1 DEF Flies, Airs
<1>5. ASSUME ToldOf(q, pl, last), q[1].tag = "PY", q[1].serial = last PROVE Flies(p, pl, last)
  <2>1. /\ last > 0
        /\ \A m \in DOMAIN q : m > 1 /\ q[m].tag = "LP" => q[m].serial # last
        /\ \/ last \in pl \/ -last \in pl
           \/ \E m \in DOMAIN q : m > 1 /\ q[m].tag = "UP" /\ q[m].serial = last
    BY <1>2, <1>5 DEF ToldOf
  <2>2. \A n \in DOMAIN p : n + 1 > 1 BY <1>2, <1>10
  <2>3. \A n \in DOMAIN p : p[n].tag = "LP" => p[n].serial # last BY <1>2, <2>1, <2>2
  <2>4. \A m \in DOMAIN q : m > 1 => m # 1 BY <1>2
  <2>5. Airs(p, pl, last) BY <1>2, <2>1, <2>4 DEF Airs
  <2> QED BY <2>1, <2>3, <2>5 DEF Flies
<1> QED BY <1>1, <1>2, <1>3, <1>4, <1>5 DEF p

\* A playback reaches its end, or is started: caed has it still.
LEMMA ToldOn ==
  ASSUME NEW q \in Seq(Messages), NEW last \in Nat, NEW pl, NEW more,
         \A t \in Nat : t > 0 /\ (t \in pl \/ -t \in pl) => t \in more \/ -t \in more
  PROVE  /\ ToldOf(q, pl, last) => ToldOf(q, more, last)
         /\ Flies(q, pl, last) => Flies(q, more, last)
<1>1. \A n \in DOMAIN q : q[n].tag = "PY" => q[n].serial \in Nat BY Serials
<1>2. ASSUME ToldOf(q, pl, last) PROVE ToldOf(q, more, last)
  BY <1>1, <1>2 DEF ToldOf
<1>3. ASSUME Flies(q, pl, last) PROVE Flies(q, more, last) BY <1>3 DEF Flies, Airs
<1> QED BY <1>2, <1>3

\* A later playback: what was told is told of an earlier one.
LEMMA ToldLater ==
  ASSUME NEW q \in Seq(Messages), NEW last \in Nat, NEW later \in Nat, last <= later, NEW pl,
         ToldOf(q, pl, last)
  PROVE  ToldOf(q, pl, later)
<1>1. \A n \in DOMAIN q : q[n].tag = "PY" => q[n].serial \in Nat BY Serials
<1> QED BY <1>1 DEF ToldOf

\* Caed unloads a playback, and says so.
LEMMA ToldUnload ==
  ASSUME NEW q \in Seq(Messages), NEW last \in Nat, NEW pl \in SUBSET Int, NEW t \in Nat,
         NEW a \in Messages, a.tag = "UP", a.serial = t
  PROVE  /\ ToldOf(q, pl, last) => ToldOf(Append(q, a), pl \ {-t}, last)
         /\ Flies(q, pl, last) => Flies(Append(q, a), pl \ {-t}, last)
<1> DEFINE p == Append(q, a)
           less == pl \ {-t}
<1>1. /\ \A n \in DOMAIN q : n \in DOMAIN p /\ p[n] = q[n]
      /\ \A n \in DOMAIN p : (n \in DOMAIN q /\ p[n] = q[n]) \/ p[n] = a
      /\ \E n \in DOMAIN p : p[n] = a /\ \A m \in DOMAIN q : m < n
      /\ p \in Seq(Messages)
  BY LongerQueue
<1>2. \A n \in DOMAIN q : n \in Nat /\ (q[n].tag = "PY" => q[n].serial \in Nat) BY Serials
<1>3. PICK k \in DOMAIN p : p[k] = a /\ \A m \in DOMAIN q : m < k BY <1>1
<1>10. k \in Nat BY <1>1, Serials
<1> HIDE DEF p
<1>4. \A s \in Nat : s > 0 /\ (s \in pl \/ -s \in pl) => s \in less \/ -s \in less \/ s = t
  OBVIOUS
<1> HIDE DEF less
<1>5. ASSUME ToldOf(q, pl, last) PROVE ToldOf(p, less, last)
  <2> SUFFICES ASSUME NEW n \in DOMAIN p, p[n].tag = "PY"
               PROVE  /\ p[n].serial > 0 /\ p[n].serial <= last
                      /\ \A m \in DOMAIN p : m > n /\ p[m].tag = "LP" => p[m].serial # p[n].serial
                      /\ \/ p[n].serial \in less \/ -p[n].serial \in less
                         \/ \E m \in DOMAIN p : /\ m > n /\ p[m].tag = "UP"
                                                /\ p[m].serial = p[n].serial
    BY DEF ToldOf
  <2>1. n \in DOMAIN q /\ p[n] = q[n] /\ n \in Nat BY <1>1, <1>2
  <2>2. /\ q[n].serial > 0 /\ q[n].serial <= last /\ q[n].serial \in Nat
        /\ \A m \in DOMAIN q : m > n /\ q[m].tag = "LP" => q[m].serial # q[n].serial
        /\ \/ q[n].serial \in pl \/ -q[n].serial \in pl
           \/ \E m \in DOMAIN q : /\ m > n /\ q[m].tag = "UP"
                                  /\ q[m].serial = q[n].serial
    BY <1>2, <1>5, <2>1 DEF ToldOf
  <2>3. k > n BY <1>3, <1>10, <2>1
  <2>4. \A m \in DOMAIN p : p[m].tag = "LP" => m \in DOMAIN q /\ p[m] = q[m] BY <1>1
  <2>5. \/ q[n].serial \in less \/ -q[n].serial \in less
        \/ \E m \in DOMAIN p : m > n /\ p[m].tag = "UP" /\ p[m].serial = q[n].serial
    BY <1>1, <1>3, <1>4, <2>2, <2>3
  <2> QED BY <2>1, <2>2, <2>4, <2>5
<1>6. ASSUME Flies(q, pl, last) PROVE Flies(p, less, last)
  <2>1. Airs(p, less, last) BY <1>1, <1>3, <1>4, <1>6 DEF Flies, Airs
  <2> QED BY <1>1, <1>6, <2>1 DEF Flies
<1> QED BY <1>5, <1>6 DEF p, less

\* A playback is stopped.
LEMMA ToldStop ==
  ASSUME NEW q \in Seq(Messages), NEW last \in Nat, NEW s \in Nat
  PROVE  /\ q \o StopPlay(s) \in Seq(Messages)
         /\ ToldOf(q, play, last) => ToldOf(q \o StopPlay(s), Ended(s), last)
         /\ Flies(q, play, last) => Flies(q \o StopPlay(s), Ended(s), last)
<1> DEFINE a == [tag |-> "SP", serial |-> s]
<1>1. a \in Messages /\ a.tag = "SP" BY Answers DEF PlayTags
<1>2. q \o <<>> = q /\ q \o <<a>> = Append(q, a) /\ Append(q, a) \in Seq(Messages) BY <1>1
<1>3. StopPlay(s) \in {<<>>, <<a>>} BY DEF StopPlay
<1> HIDE DEF a
<1>4. PICK o \in {q, Append(q, a)} : q \o StopPlay(s) = o BY <1>2, <1>3
<1>5. /\ o \in Seq(Messages)
      /\ ToldOf(q, play, last) => ToldOf(o, play, last)
      /\ Flies(q, play, last) => Flies(o, play, last)
  BY <1>1, <1>2, ToldMore
<1>6. \A t \in Nat : t > 0 /\ (t \in play \/ -t \in play) => t \in Ended(s) \/ -t \in Ended(s)
  BY DEF Ended
<1> QED BY <1>4, <1>5, <1>6, ToldOn

(* What steps do to the play deck.                                         *)

\* From what is told and caed has of the playbacks, o and po go on.
Goes(o, po) ==
  /\ o \in Seq(Messages)
  /\ Told => ToldOf(o, po, pdeck.serial)
  /\ Flies(answers, play, pdeck.serial) => Flies(o, po, pdeck.serial)

\* What the types say of the play deck's parts.
LEMMA PlayParts ==
  ASSUME Sane
  PROVE  /\ answers \in Seq(Messages) /\ pdeck \in PDecks /\ play \in SUBSET Int
         /\ pdeck.serial \in Nat /\ port \in Ports /\ rdeck \in RDecks
         /\ events \in Seq(Entries) /\ Distinct(events) /\ Goes(answers, play)
<1>1. pdeck \in PDecks /\ rdeck \in RDecks BY DEF Sane, TypeOK, PDecks, RDecks
<1>2. pdeck.serial \in Nat BY <1>1 DEF PDecks
<1>3. answers \in Seq(Messages) /\ play \in SUBSET Int /\ port \in Ports
  BY DEF Sane, TypeOK, Ports
<1>4. Goes(answers, play) BY <1>3 DEF Goes, Told
<1> QED BY <1>1, <1>2, <1>3, <1>4 DEF Sane, TypeOK, Schedule, Entered

\* An answer more that is not about a start or a load of the last playback.
LEMMA GoesMore ==
  ASSUME Sane, NEW q, NEW po, Goes(q, po), NEW a \in Messages, a.tag # "PY",
         a.tag = "LP" => a.serial = 0
  PROVE  Goes(Append(q, a), po)
<1>1. pdeck.serial \in Nat /\ q \in Seq(Messages) BY PlayParts DEF Goes
<1>2. Append(q, a) \in Seq(Messages) BY <1>1
<1>3. /\ ToldOf(q, po, pdeck.serial) => ToldOf(Append(q, a), po, pdeck.serial)
      /\ Flies(q, po, pdeck.serial) => Flies(Append(q, a), po, pdeck.serial)
  BY <1>1, ToldMore
<1> QED BY <1>2, <1>3 DEF Goes

\* An answer is read that is not the unload of the last playback.
LEMMA GoesLess ==
  ASSUME Sane, answers # <<>>, ~(Head(answers).tag = "UP" /\ Head(answers).serial = pdeck.serial)
  PROVE  Goes(Tail(answers), play)
BY PlayParts, ToldLess DEF Goes, Told

\* The recording is stopped.
LEMMA GoesStops == ASSUME Sane, NEW q, NEW po, Goes(q, po) PROVE Goes(q \o StopRecord, po)
<1> DEFINE a == [tag |-> "SR"]
<1>1. a \in Messages /\ a.tag = "SR" BY Answers
<1>2. q \in Seq(Messages) BY DEF Goes
<1>3. q \o <<>> = q /\ q \o <<a>> = Append(q, a) BY <1>1, <1>2
<1>4. StopRecord \in {<<>>, <<a>>} BY DEF StopRecord
<1> HIDE DEF a
<1> QED BY <1>1, <1>3, <1>4, GoesMore

\* A playback is stopped.
LEMMA GoesPlays ==
  ASSUME Sane, NEW q, Goes(q, play), NEW s \in Nat
  PROVE  Goes(q \o StopPlay(s), Ended(s))
BY PlayParts, ToldStop DEF Goes

\* Caed unloads a playback.
LEMMA GoesUnload ==
  ASSUME Sane, NEW q, Goes(q, play), NEW s \in Nat
  PROVE  Goes(Append(q, [tag |-> "UP", serial |-> s]), play \ {-s})
<1> DEFINE a == [tag |-> "UP", serial |-> s]
<1>1. a \in Messages /\ a.tag = "UP" /\ a.serial = s BY Answers DEF PlayTags
<1>2. q \in Seq(Messages) /\ pdeck.serial \in Nat /\ play \in SUBSET Int BY PlayParts DEF Goes
<1> HIDE DEF a
<1>3. Append(q, a) \in Seq(Messages) BY <1>1, <1>2
<1>4. /\ ToldOf(q, play, pdeck.serial) => ToldOf(Append(q, a), play \ {-s}, pdeck.serial)
      /\ Flies(q, play, pdeck.serial) => Flies(Append(q, a), play \ {-s}, pdeck.serial)
  BY <1>1, <1>2, ToldUnload
<1>5. Goes(Append(q, a), play \ {-s}) BY <1>3, <1>4 DEF Goes
<1> QED BY <1>5 DEF a

\* A recording is started: the refusal is told as the load of no playback.
LEMMA GoesStart ==
  ASSUME Sane, NEW q, Goes(q, play), NEW e, NEW d, StartRecording(e, d, q)
  PROVE  Goes(answers', play)
<1> DEFINE l == [tag |-> "LR"]
           a == [tag |-> "RS"]
           p == [tag |-> "LP", serial |-> 0]
<1>1. /\ l \in Messages /\ a \in Messages /\ p \in Messages
      /\ l.tag = "LR" /\ a.tag = "RS" /\ p.tag = "LP" /\ p.serial = 0
  BY Answers DEF PlayTags
<1>2. q \in Seq(Messages) BY DEF Goes
<1>3. q \o <<l, a>> = Append(Append(q, l), a) BY <1>1, <1>2
<1>4. answers' \in {q \o <<l, a>>, Append(q, p), Append(q, a)} BY DEF StartRecording
<1> HIDE DEF l, a, p
<1>5. Goes(Append(q, l), play) BY <1>1, GoesMore
<1>6. Goes(Append(Append(q, l), a), play) BY <1>1, <1>5, GoesMore
<1>7. Goes(Append(q, p), play) /\ Goes(Append(q, a), play) BY <1>1, GoesMore
<1> QED BY <1>3, <1>4, <1>6, <1>7
-----------------------------------------------------------------------------

\* What a step does to the play deck.
Spins ==
  /\ Told'
  /\ \/ returned' \/ ~up' \/ Restart \/ PlayUnloaded
     \/ OnAir => OnAir' /\ pdeck'.id = pdeck.id

\* The same playback goes on.
LEMMA GoesOn ==
  ASSUME Sane, Told, Goes(answers', play'), pdeck'.serial = pdeck.serial, pdeck'.id = pdeck.id,
         OnAir => returned' \/ pdeck'.st \in {"recording", "offline"}
  PROVE  Spins
BY DEF Spins, Goes, Told, OnAir

\* The daemon dies.
LEMMA DeadSpins == ASSUME Dies PROVE Spins
<1>1. Told' /\ ~up' BY DEF Dies, Told, ToldOf
<1> QED BY <1>1 DEF Spins

\* Nothing of the play deck changes but what is told.
LEMMA AsideSpins ==
  ASSUME Sane, Told, Goes(answers', play), UNCHANGED <<pdeck, play>>
  PROVE  Spins
BY GoesOn DEF OnAir

\* A playout is due: the deck is idle, or it is left alone.
LEMMA PlayoutSpins ==
  ASSUME Sane, Told, NEW n, PlayoutDue(n)
  PROVE  Spins
<1> DEFINE s == pdeck.serial + 1
           l == [tag |-> "LP", serial |-> s]
           a == [tag |-> "PY", serial |-> s]
<1>1. /\ answers \in Seq(Messages) /\ pdeck \in PDecks /\ pdeck.serial \in Nat
      /\ Goes(answers, play)
  BY PlayParts
<1>2. s \in Nat /\ s > 0 /\ s > pdeck.serial /\ pdeck.serial <= s BY <1>1
<1>3. /\ l \in Messages /\ a \in Messages /\ l.tag = "LP" /\ l.serial = s
      /\ a.tag = "PY" /\ a.serial = s
  BY <1>2, Answers DEF PlayTags
<1>4. answers \o <<l, a>> = Append(Append(answers, l), a) BY <1>1, <1>3
<1>5. CASE UNCHANGED <<pdeck, play, answers>> BY <1>1, <1>5, AsideSpins
<1>6. CASE /\ pdeck.st = "idle"
           /\ pdeck' = [pdeck EXCEPT !.id = events[n].id, !.idx = n, !.serial = s]
           /\ \/ play' = play \cup {s} /\ answers' = answers \o <<l, a>>
              \/ play' = play /\ answers' = Append(answers, l)
  <2>1. pdeck'.serial = s BY <1>1, <1>6 DEF PDecks
  <2> HIDE DEF s, l, a
  <2>2. ~OnAir BY <1>6 DEF OnAir
  <2>3. ToldOf(Append(answers, l), play, pdeck.serial) /\ Append(answers, l) \in Seq(Messages)
    BY <1>1, <1>2, <1>3, ToldMore DEF Told
  <2>4. ToldOf(Append(answers, l), play, s) BY <1>1, <1>2, <2>3, ToldLater
  <2>5. CASE play' = play \cup {s} /\ answers' = answers \o <<l, a>>
    <3>1. s \in play' /\ \A t \in Nat : t \in play \/ -t \in play => t \in play' \/ -t \in play'
      BY <2>5
    <3>2. ToldOf(Append(answers, l), play', s) BY <1>2, <2>3, <2>4, <3>1, ToldOn
    <3>3. ToldOf(Append(Append(answers, l), a), play', s)
      BY <1>2, <1>3, <2>3, <3>1, <3>2, ToldStart
    <3>4. Told' BY <1>4, <2>1, <2>5, <3>3 DEF Told
    <3> QED BY <2>2, <3>4 DEF Spins
  <2>6. CASE play' = play /\ answers' = Append(answers, l)
    <3>1. Told' BY <2>1, <2>4, <2>6 DEF Told
    <3> QED BY <2>2, <3>1 DEF Spins
  <2> QED BY <1>6, <2>5, <2>6
<1>7. \/ UNCHANGED <<pdeck, play, answers>>
      \/ /\ pdeck.st = "idle"
         /\ pdeck' = [pdeck EXCEPT !.id = events[n].id, !.idx = n, !.serial = s]
         /\ \/ play' = play \cup {s} /\ answers' = answers \o <<l, a>>
            \/ play' = play /\ answers' = Append(answers, l)
  BY DEF PlayoutDue
<1> QED BY <1>5, <1>6, <1>7

\* A timer runs out.
LEMMA DueSpins == ASSUME Sane, Told, Due PROVE Spins
<1>1. Goes(answers, play) BY PlayParts
<1>2. PICK n \in DOMAIN events :
        RecordingDue(n) \/ PlayoutDue(n) \/ MacroDue(n) \/ SwitchDue(n) \/ LoadDue(n)
  BY DEF Due
<1>3. CASE MacroDue(n) \/ SwitchDue(n) \/ LoadDue(n)
  BY <1>1, <1>3, AsideSpins DEF MacroDue, SwitchDue, LoadDue, caed
<1>4. CASE RecordingDue(n)
  <2>1. UNCHANGED <<pdeck, play>> /\ (answers' = answers \/ StartRecording(events[n], rdeck, answers))
    BY <1>4 DEF RecordingDue
  <2>2. Goes(answers', play) BY <1>1, <2>1, GoesStart
  <2> QED BY <2>1, <2>2, AsideSpins
<1> QED BY <1>2, <1>3, <1>4, PlayoutSpins

\* An RS macro.
LEMMA RSSpins == ASSUME Sane, Told, RS PROVE Spins
<1>1. Goes(answers, play) /\ events \in Seq(Entries) /\ Distinct(events) BY PlayParts
<1>2. CASE StartRmlRecording(events, rdeck, answers)
  <2>1. \/ Dies
        \/ UNCHANGED <<pdeck, play>> /\ \E e : StartRecording(e, rdeck, answers)
    BY <1>1, <1>2, Rmls
  <2>2. CASE UNCHANGED <<pdeck, play>> /\ \E e : StartRecording(e, rdeck, answers)
    BY <1>1, <2>2, GoesStart, AsideSpins
  <2> QED BY <2>1, <2>2, DeadSpins
<1>3. CASE UNCHANGED <<pdeck, play, answers>> BY <1>1, <1>3, AsideSpins
<1> QED BY <1>2, <1>3 DEF RS, caed

\* Stops, from the daemon and from caed.
LEMMA StopSpins ==
  ASSUME Sane, Told, StopDeck \/ RecordingEnds \/ PlaybackEnds
  PROVE  Spins
<1>1. Goes(answers, play) /\ pdeck.serial \in Nat /\ play \in SUBSET Int BY PlayParts
<1>2. CASE answers' = answers \o StopRecord /\ UNCHANGED <<pdeck, play>>
  BY <1>1, <1>2, GoesStops, AsideSpins
<1>3. ASSUME NEW s \in Nat, answers' = answers \o StopPlay(s), play' = Ended(s), pdeck' = pdeck
      PROVE  Spins
  <2>1. Goes(answers', play') BY <1>1, <1>3, GoesPlays
  <2> QED BY <1>3, <2>1, GoesOn DEF OnAir
<1>4. CASE StopDeck BY <1>1, <1>2, <1>3, <1>4 DEF StopDeck
<1>5. CASE RecordingEnds BY <1>2, <1>5 DEF RecordingEnds, decks
<1>6. CASE PlaybackEnds
  <2>1. PICK s \in play : s > 0 /\ play' = Ended(s) /\ answers' = answers \o StopPlay(s)
    BY <1>6 DEF PlaybackEnds
  <2>2. s \in Nat BY <1>1, <2>1
  <2>3. pdeck' = pdeck BY <1>6 DEF PlaybackEnds, decks
  <2> QED BY <1>3, <2>1, <2>2, <2>3
<1> QED BY <1>4, <1>5, <1>6

\* Decks are reloaded.
LEMMA ReloadSpins == ASSUME Sane, Told, NEW new, ReloadDecks(new) PROVE Spins
<1> DEFINE r == rdeck.st = "recording" /\ "record" \notin new
           p == pdeck.st = "recording" /\ "play" \notin new
           q == answers \o (IF r THEN StopRecord ELSE <<>>)
<1>1. /\ answers \in Seq(Messages) /\ pdeck \in PDecks /\ pdeck.serial \in Nat
      /\ Goes(answers, play)
  BY PlayParts
<1>2. /\ play' = IF p THEN Ended(pdeck.serial) ELSE play
      /\ answers' = q \o (IF p THEN StopPlay(pdeck.serial) ELSE <<>>)
      /\ pdeck' = Reloaded(pdeck, "play" \in new)
      /\ returned' \/ ~("play" \in new /\ pdeck.st = "offline" /\ ~PDeckQuiet)
  BY DEF ReloadDecks
<1>3. \A o \in Seq(Messages) : o \o <<>> = o OBVIOUS
<1>4. Goes(q, play)
  <2>1. CASE r BY <1>1, <2>1, GoesStops
  <2>2. CASE ~r BY <1>1, <1>3, <2>2
  <2> QED BY <2>1, <2>2
<1>5. q \in Seq(Messages) BY <1>4 DEF Goes
<1> HIDE DEF q
<1>6. Goes(answers', play')
  <2>1. CASE p BY <1>1, <1>2, <1>4, <2>1, GoesPlays
  <2>2. CASE ~p BY <1>2, <1>3, <1>4, <1>5, <2>2
  <2> QED BY <2>1, <2>2
<1>7. pdeck'.serial = pdeck.serial /\ pdeck'.id = pdeck.id BY <1>1, <1>2 DEF Reloaded, PDecks
<1>8. ASSUME OnAir PROVE returned' \/ pdeck'.st \in {"recording", "offline"}
  <2>1. CASE pdeck.st = "recording" BY <1>1, <1>2, <2>1 DEF Reloaded, PDecks
  <2>2. CASE pdeck.st = "offline" /\ "play" \in new
    <3>1. ~PDeckQuiet BY <1>8 DEF OnAir, Flies, Airs, PDeckQuiet
    <3> QED BY <1>2, <2>2, <3>1
  <2>3. CASE "play" \notin new BY <1>1, <1>2, <2>3 DEF Reloaded, PDecks
  <2> QED BY <1>8, <2>1, <2>2, <2>3 DEF OnAir
<1> QED BY <1>6, <1>7, <1>8, GoesOn
-----------------------------------------------------------------------------
(* Answers.                                                                *)

\* A playback's start is reported.
LEMMA AiringDoes ==
  ASSUME Sane, Told, Airing
  PROVE  Told' /\ OnAir' /\ pdeck'.id = pdeck.id
<1>1. answers \in Seq(Messages) /\ pdeck \in PDecks /\ pdeck.serial \in Nat BY PlayParts
<1>2. /\ answers # <<>> /\ Head(answers).tag = "PY" /\ Head(answers).serial = pdeck.serial
      /\ answers' = Tail(answers) /\ play' = play
      /\ pdeck' = [pdeck EXCEPT !.st = "recording"]
  BY DEF Airing
<1>3. pdeck'.st = "recording" /\ pdeck'.id = pdeck.id /\ pdeck'.serial = pdeck.serial
  BY <1>1, <1>2 DEF PDecks
<1>4. ToldOf(answers', play', pdeck'.serial) /\ Flies(answers', play', pdeck'.serial)
  BY <1>1, <1>2, <1>3, ToldLess DEF Told
<1> QED BY <1>3, <1>4 DEF Told, OnAir

\* Caed says that a playback has stopped.
LEMMA PlayStoppedSpins ==
  ASSUME Sane, Told, answers # <<>>, Head(answers).tag = "SP", PlayStopped(Head(answers).serial)
  PROVE  Spins
<1> DEFINE s == Head(answers).serial
<1>1. answers \in Seq(Messages) BY PlayParts
<1>2. s \in Nat
  <2>1. Head(answers) \in Messages BY <1>1
  <2> QED BY <2>1, Answers DEF PlayTags
<1>3. Goes(Tail(answers), play) BY GoesLess
<1>4. /\ play' = play \ {-s} /\ answers' = Append(Tail(answers), [tag |-> "UP", serial |-> s])
      /\ pdeck' = pdeck
  BY DEF PlayStopped
<1> HIDE DEF s
<1>5. Goes(answers', play') BY <1>2, <1>3, <1>4, GoesUnload
<1> QED BY <1>4, <1>5, GoesOn DEF OnAir

\* The record deck's handlers.
LEMMA RecordAnswerSpins ==
  ASSUME Sane, Told, answers # <<>>, Head(answers).tag \in {"LR", "RS", "SR", "UR"},
         RecordLoaded \/ Recording \/ RecordStopped \/ RecordUnloaded
  PROVE  Spins
<1>1. Goes(Tail(answers), play) BY GoesLess
<1>2. port.file \in Files /\ events \in Seq(Entries) /\ Distinct(events) BY PlayParts DEF Ports
<1>3. CASE RecordLoaded \/ Recording
  BY <1>1, <1>3, AsideSpins DEF RecordLoaded, Recording
<1>4. CASE RecordStopped
  <2> DEFINE a == [tag |-> "UR", file |-> port.file]
  <2>1. a \in Messages /\ a.tag = "UR" BY <1>2, Answers
  <2>2. answers' \in {Tail(answers), Append(Tail(answers), a)} /\ UNCHANGED <<pdeck, play>>
    BY <1>4 DEF RecordStopped
  <2> HIDE DEF a
  <2>3. Goes(Append(Tail(answers), a), play) BY <1>1, <2>1, GoesMore
  <2>4. Goes(answers', play) BY <1>1, <2>2, <2>3
  <2> QED BY <2>2, <2>4, AsideSpins
<1>5. CASE RecordUnloaded
  <2>1. PICK es, d : es \in Seq(Entries) /\ Distinct(es) /\ RunRmlRecordingCache(es, d)
    <3>1. CASE IndexOf(rdeck.id) = 0 BY <1>2, <1>5, <3>1 DEF RecordUnloaded
    <3>2. CASE IndexOf(rdeck.id) # 0
      <4>1. IndexOf(rdeck.id) \in DOMAIN events BY <1>2, <3>2, Index
      <4>2. Left(IndexOf(rdeck.id)) \in Seq(Entries) /\ Distinct(Left(IndexOf(rdeck.id)))
        BY <4>1, Leaves
      <4>3. RunRmlRecordingCache(Left(IndexOf(rdeck.id)), [rdeck EXCEPT !.id = -1])
        BY <1>5, <3>2 DEF RecordUnloaded
      <4> QED BY <4>2, <4>3
    <3> QED BY <3>1, <3>2
  <2>2. \/ Dies
        \/ UNCHANGED <<pdeck, play>> /\ answers' = Tail(answers)
        \/ /\ UNCHANGED <<pdeck, play>>
           /\ StartRecording([id |-> Dynamic, ver |-> "added"], Idle(d), Tail(answers))
    BY <2>1, Caches
  <2>3. CASE UNCHANGED <<pdeck, play>> /\ answers' = Tail(answers) BY <1>1, <2>3, AsideSpins
  <2>4. CASE UNCHANGED <<pdeck, play>> /\ \E e : StartRecording(e, Idle(d), Tail(answers))
    BY <1>1, <2>4, GoesStart, AsideSpins
  <2> QED BY <2>2, <2>3, <2>4, DeadSpins
<1> QED BY <1>3, <1>4, <1>5

\* The play deck's.
LEMMA PlayAnswerSpins ==
  ASSUME Sane, Told, up, answers # <<>>, NEW a, a = Head(answers),
         \/ a.tag = "LP" /\ a.serial \in {0, pdeck.serial} /\ PlayLoaded(a.serial)
         \/ a.tag = "PY" /\ a.serial = pdeck.serial /\ Playing
         \/ a.tag = "UP" /\ a.serial = pdeck.serial /\ PlayUnloaded
         \/ /\ a.tag \in {"LP", "PY", "SP", "UP"} /\ a.serial \notin {0, pdeck.serial}
            /\ a.tag # "SP" /\ UnknownSerial(a)
  PROVE  Spins
<1>1. answers \in Seq(Messages) /\ pdeck \in PDecks /\ pdeck.serial \in Nat BY PlayParts
<1>2. CASE a.tag = "LP" /\ a.serial \in {0, pdeck.serial} /\ PlayLoaded(a.serial)
  <2>1. Goes(Tail(answers), play) BY <1>2, GoesLess
  <2>2. play' = play /\ answers' = Tail(answers) BY <1>2 DEF PlayLoaded
  <2>3. CASE pdeck' = pdeck BY <2>1, <2>2, <2>3, AsideSpins
  <2>4. CASE a.serial = pdeck.serial /\ pdeck' = [pdeck EXCEPT !.st = "ready"]
    <3>1. pdeck'.serial = pdeck.serial /\ pdeck'.id = pdeck.id BY <1>1, <2>4 DEF PDecks
    <3>2. 1 \in DOMAIN answers /\ answers[1] = a BY Shifts, Serials, <1>1
    <3>3. ~OnAir BY <1>2, <2>4, <3>2 DEF OnAir, Flies
    <3> QED BY <2>1, <2>2, <3>1, <3>3, GoesOn
  <2> QED BY <1>2, <2>3, <2>4 DEF PlayLoaded
<1>3. CASE a.tag = "PY" /\ a.serial = pdeck.serial /\ Playing
  <2>1. Dies \/ Airing BY <1>3 DEF Playing, Airing
  <2> QED BY <2>1, AiringDoes, DeadSpins DEF Spins
<1>4. CASE a.tag = "UP" /\ a.serial = pdeck.serial /\ PlayUnloaded
  <2>1. Dies \/ (pdeck' = [pdeck EXCEPT !.st = "idle", !.id = -1, !.idx = 0]
                 /\ answers' = Tail(answers) /\ play' = play)
    BY <1>4 DEF PlayUnloaded
  <2>2. CASE pdeck' = [pdeck EXCEPT !.st = "idle", !.id = -1, !.idx = 0]
             /\ answers' = Tail(answers) /\ play' = play
    <3>1. pdeck'.serial = pdeck.serial BY <1>1, <2>2 DEF PDecks
    <3>2. ToldOf(Tail(answers), play, pdeck.serial) BY <1>1, ToldLess DEF Told
    <3>3. Told' BY <2>2, <3>1, <3>2 DEF Told
    <3> QED BY <1>4, <3>3 DEF Spins
  <2> QED BY <2>1, <2>2, DeadSpins
<1>5. CASE a.serial \notin {0, pdeck.serial} /\ a.tag # "SP" /\ UnknownSerial(a)
  <2>1. Dies \/ (answers' = Tail(answers) /\ UNCHANGED <<pdeck, play>>)
    BY <1>5 DEF UnknownSerial
  <2>2. Goes(Tail(answers), play) BY <1>5, GoesLess
  <2> QED BY <2>1, <2>2, AsideSpins, DeadSpins
<1> QED BY <1>2, <1>3, <1>4, <1>5

\* Any answer.
LEMMA AnswerSpins == ASSUME Sane, Told, Answer PROVE Spins
<1> DEFINE a == Head(answers)
<1>1. up /\ answers # <<>> BY DEF Answer
<1>2. \/ a.tag \in {"LR", "RS", "SR", "UR"}
         /\ (RecordLoaded \/ Recording \/ RecordStopped \/ RecordUnloaded)
      \/ a.tag = "LP" /\ a.serial \in {0, pdeck.serial} /\ PlayLoaded(a.serial)
      \/ a.tag = "PY" /\ a.serial = pdeck.serial /\ Playing
      \/ a.tag = "SP" /\ PlayStopped(a.serial)
      \/ a.tag = "UP" /\ a.serial = pdeck.serial /\ PlayUnloaded
      \/ /\ a.tag \in {"LP", "PY", "SP", "UP"} /\ a.serial \notin {0, pdeck.serial}
         /\ UnknownSerial(a)
  BY DEF Answer
<1>3. CASE a.tag \in {"LR", "RS", "SR", "UR"}
           /\ (RecordLoaded \/ Recording \/ RecordStopped \/ RecordUnloaded)
  BY <1>1, <1>3, RecordAnswerSpins
<1>4. CASE a.tag = "SP" /\ PlayStopped(a.serial) BY <1>1, <1>4, PlayStoppedSpins
<1>5. CASE a.tag = "SP" /\ UnknownSerial(a)
  <2>1. Dies \/ PlayStopped(a.serial) BY <1>5 DEF UnknownSerial
  <2> QED BY <1>1, <1>5, <2>1, PlayStoppedSpins, DeadSpins
<1> HIDE DEF a
<1>6. a = Head(answers) BY DEF a
<1> QED BY <1>1, <1>2, <1>3, <1>4, <1>5, <1>6, PlayAnswerSpins

\* Any step.
LEMMA EverySpin == ASSUME Sane, Down, Told, [Next]_vars PROVE Spins
<1>1. Goes(answers, play) BY PlayParts
<1>2. CASE UNCHANGED <<pdeck, caed>> BY <1>1, <1>2, AsideSpins DEF caed
<1>3. ASSUME NEW i, NEW to, Edit(i, to) \/ Notified(i) \/ BatchEnds(i, to) PROVE Spins
  BY <1>2, <1>3 DEF Edit, Notified, BatchEnds, decks
<1>4. CASE EX \/ EventFinished \/ FreeEvents \/ UNCHANGED vars
  BY <1>2, <1>4 DEF EX, EventFinished, FreeEvents, vars, decks
<1>5. CASE Crash BY <1>5, DeadSpins DEF Crash
<1>6. CASE Restart
  <2>1. Told' BY <1>6 DEF Restart, Down, Told, ToldOf, caed
  <2> QED BY <1>6, <2>1 DEF Spins
<1> QED BY <1>3, <1>4, <1>5, <1>6, ReloadSpins, DueSpins, RSSpins, StopSpins, AnswerSpins DEF Next

\* Every step keeps what is said of the play deck.
LEMMA PlayerStep ==
  ASSUME Sane, Down, Player, [Next]_vars
  PROVE  Player'
<1>1. Told BY DEF Player
<1>2. Spins BY <1>1, EverySpin
<1>3. ASSUME ~returned', up', NEW id \in Rows', exit'[id] = "playing"
      PROVE  pdeck'.id = id /\ OnAir'
  <2>1. id \in Ids /\ "playing" \in Underway BY DEF Rows, Underway
  <2>2. id \in Rows BY <1>3, <2>1, RowsDo
  <2>3. CASE exit[id] # "playing"
    <3>1. id = pdeck.id /\ Airing BY <1>3, <2>1, <2>3, CodesDo
    <3> QED BY <1>1, <3>1, AiringDoes
  <2>4. CASE exit[id] = "playing"
    <3>1. ~Restart BY <1>3, <2>1, <2>2, RestartClears
    <3>2. up /\ ~returned BY <1>3, <3>1, UpStays, ReturnedStays
    <3>3. pdeck.id = id /\ OnAir BY <2>2, <2>4, <3>2 DEF Player
    <3>4. ~PlayUnloaded
      <4> SUFFICES ASSUME PlayUnloaded PROVE FALSE OBVIOUS
      <4>1. events \in Seq(Entries) /\ Distinct(events) BY PlayParts
      <4>2. IndexOf(id) # 0
        <5>1. Named(events, id)
          BY <2>1, <2>2, <2>4, <3>2 DEF Sane, Schedule, Unentered
        <5> QED BY <4>1, <5>1, Index
      <4>3. Writes(Code(id, "ok")) BY <1>3, <3>3, <4>2 DEF PlayUnloaded, Dies
      <4>4. exit \in [Ids -> Codes] /\ "ok" \in Codes BY DEF Sane, TypeOK, Codes
      <4>5. exit'[id] = "ok" BY <2>1, <2>2, <4>3, <4>4, Marks
      <4> QED BY <1>3, <4>5
    <3> QED BY <1>2, <1>3, <3>1, <3>3, <3>4 DEF Spins
  <2> QED BY <2>3, <2>4
<1> QED BY <1>2, <1>3 DEF Player, Spins

(* The invariant, and what it says.                                        *)

\* At first nothing is under way.
LEMMA WholeInitially == ASSUME Init PROVE Whole
<1>1. Sane BY SaneInitially
<1>2. /\ up = TRUE /\ port = Nothing /\ play = {} /\ answers = <<>>
      /\ exit = [i \in Ids |-> "ok"] /\ Rows \subseteq Ids
  BY DEF Init, Rows
<1>3. rdeck.st # "recording" BY DEF Init, ROff
<1>4. Down BY <1>2 DEF Down
<1>5. \A id \in Rows : exit[id] = "ok" BY <1>2
<1>6. Loads BY <1>5 DEF Loads
<1>7. Recorder BY <1>2, <1>3, <1>5 DEF Recorder, Resting, Silent
<1>8. Player BY <1>2, <1>5 DEF Player, Told, ToldOf
<1> QED BY <1>1, <1>4, <1>6, <1>7, <1>8 DEF Whole, Sane

\* Every step keeps the invariant.
LEMMA WholeStep == ASSUME IInv, Whole, [Next]_vars PROVE Whole'
<1>1. Sane /\ Down /\ Loads /\ Recorder /\ Player BY DEF Whole, Sane
<1>2. Sane' BY <1>1, SaneStep
<1>3. Down' BY <1>1, DownStep
<1>4. Loads' BY <1>1, LoadsStep
<1>5. Recorder' BY <1>1, RecorderStep
<1>6. Player' BY <1>1, PlayerStep
<1> QED BY <1>2, <1>3, <1>4, <1>5, <1>6 DEF Whole, Sane

\* The invariant holds throughout.
LEMMA WholeInvariance == Spec => []Whole
<1>1. Init => IInv /\ Whole BY InitialState, WholeInitially
<1>2. IInv /\ Whole /\ [Next]_vars => IInv' /\ Whole' BY EveryStep, WholeStep
<1> QED BY <1>1, <1>2, PTL DEF Spec

\* The daemon's state has its types, whatever the ids and the bounds are.
THEOREM TypeCorrect == Spec => []TypeOK
<1>1. Whole => TypeOK BY DEF Whole
<1> QED BY <1>1, WholeInvariance, PTL

\* What was carried through is neither a row nor an entry any more: no notification
\* under way, edit, restart or late answer brings it back.
THEOREM CarriedOnce == Spec => []OnceOnly
<1>1. ASSUME Whole PROVE OnceOnly
  <2> SUFFICES ASSUME NEW id \in done, kind[id] # "play"
               PROVE  id \notin Rows /\ IndexOf(id) = 0
    BY DEF OnceOnly
  <2>1. events \in Seq(Entries) /\ Distinct(events) BY <1>1 DEF Whole, TypeOK, Schedule, Entered
  <2>2. id \notin Rows /\ ~Named(events, id) BY <1>1 DEF Whole, Schedule, Finished
  <2> QED BY <2>1, <2>2, Index
<1> QED BY <1>1, WholeInvariance, PTL

\* A row that says that it is recorded, played or transferred is, but for a transfer
\* whose child ended without a word since the daemon started.
THEOREM CodesAreLive == Spec => []ActiveIsLive
<1>1. ASSUME Whole, up, NEW id \in Rows
      PROVE  /\ exit[id] = "loading" => id \in child \cup mute
             /\ ~returned =>
                  /\ exit[id] = "active" => rdeck.id = id /\ (port # Nothing \/ Waits("UR"))
                  /\ exit[id] = "playing" => pdeck.id = id /\ (play # {} \/ Waits("UP"))
  <2>1. exit[id] = "loading" => id \in child \cup mute BY <1>1 DEF Whole, Loads
  <2>2. ASSUME ~returned, exit[id] = "active"
        PROVE  rdeck.id = id /\ (port # Nothing \/ Waits("UR"))
    <3>1. rdeck.id = id /\ Rolling BY <1>1, <2>2 DEF Whole, Recorder
    <3>2. port # Nothing \/ Closes(answers) BY <3>1 DEF Rolling
    <3> QED BY <3>1, <3>2 DEF Closes, Waits
  <2>3. ASSUME ~returned, exit[id] = "playing"
        PROVE  pdeck.id = id /\ (play # {} \/ Waits("UP"))
    <3>1. pdeck.id = id /\ OnAir BY <1>1, <2>3 DEF Whole, Player
    <3> QED BY <3>1 DEF OnAir, Flies, Airs, Waits
  <2> QED BY <2>1, <2>2, <2>3
<1>2. Whole => ActiveIsLive BY <1>1 DEF ActiveIsLive
<1> QED BY <1>2, WholeInvariance, PTL
-----------------------------------------------------------------------------
(* What is checked in.                                                     *)

\* The entries all come from other entries.
Within(es, fs) == \A n \in DOMAIN es : \E m \in DOMAIN fs : es[n] = fs[m]

\* An entry of the deck's event is to be normalised if the one it was started for was.
Agrees(es, d) == \A n \in DOMAIN es :
  d.id # -1 /\ es[n].id = d.id => (Normalised(es[n]) <=> Normalised(d.cut))

\* The daemon has not taken in yet that it is otherwise.
Levelled == ~relevelled => Agrees(events, rdeck)

\* The invariant of what is checked in.
Filing == Levelled /\ RightCut

\* What is left comes from what was there.
LEMMA LeftWithin ==
  ASSUME NEW es \in Seq(Entries), NEW n \in DOMAIN es
  PROVE  Within(RemoveAt(es, n), es)
<1> DEFINE a == SubSeq(es, 1, n - 1)
           b == SubSeq(es, n + 1, Len(es))
<1>1. Len(es) \in Nat /\ n \in 1..Len(es) /\ DOMAIN es = 1..Len(es) OBVIOUS
<1>2. /\ a \in Seq(Entries) /\ Len(a) = n - 1 /\ \A k \in 1..n - 1 : a[k] = es[k]
      /\ b \in Seq(Entries) /\ Len(b) = Len(es) - n
      /\ \A k \in 1..Len(es) - n : b[k] = es[n + k]
  BY <1>1
<1>3. RemoveAt(es, n) = a \o b BY DEF RemoveAt
<1> HIDE DEF a, b
<1>4. DOMAIN (a \o b) = 1..Len(a) + Len(b)
      /\ \A k \in 1..Len(a) + Len(b) : (a \o b)[k] = IF k <= Len(a) THEN a[k] ELSE b[k - Len(a)]
  BY <1>2, ConcatProperties
<1>5. ASSUME NEW k \in DOMAIN (a \o b) PROVE \E m \in DOMAIN es : (a \o b)[k] = es[m]
  <2>1. k \in 1..Len(es) - 1 /\ Len(a) = n - 1 BY <1>1, <1>2, <1>4
  <2>2. CASE k <= n - 1
    <3>1. k \in 1..n - 1 /\ k \in DOMAIN es BY <1>1, <2>1, <2>2
    <3> QED BY <1>2, <1>4, <2>1, <2>2, <3>1
  <2>3. CASE ~(k <= n - 1)
    <3>1. k - (n - 1) \in 1..Len(es) - n /\ n + (k - (n - 1)) \in DOMAIN es BY <1>1, <2>1, <2>3
    <3> QED BY <1>2, <1>4, <2>1, <2>3, <3>1
  <2> QED BY <2>2, <2>3
<1> QED BY <1>3, <1>5 DEF Within

\* And so it is when an event is carried through.
LEMMA CarriedWithin ==
  ASSUME Sane, NEW n \in DOMAIN events
  PROVE  Within(Left(n), events)
<1>1. events \in Seq(Entries) BY DEF Sane, TypeOK
<1>2. Within(events, events) BY DEF Within
<1> QED BY <1>1, <1>2, LeftWithin DEF Left

\* A deck that is not started anew, and entries that were there.
LEMMA StaysLevel ==
  ASSUME Sane, Levelled, kind' = kind, relevelled' = relevelled,
         rdeck'.id \in {rdeck.id, -1}, rdeck'.cut = rdeck.cut, Within(events', events)
  PROVE  Levelled'
<1>1. ASSUME ~relevelled', NEW n \in DOMAIN events', rdeck'.id # -1,
             events'[n].id = rdeck'.id
      PROVE  Normalised(events'[n]) <=> Normalised(rdeck.cut)
  <2>1. PICK m \in DOMAIN events : events'[n] = events[m] BY DEF Within
  <2> QED BY <1>1, <2>1 DEF Levelled, Agrees
<1> QED BY <1>1 DEF Levelled, Agrees, Normalised

\* A dead daemon has no entries.
LEMMA DeadLevel == ASSUME Dies PROVE Levelled'
<1>1. DOMAIN events' = {} BY DEF Dies
<1> QED BY <1>1 DEF Levelled, Agrees

\* A deck that is started for an entry.
LEMMA StartLevel ==
  ASSUME NEW e, NEW d \in RDecks, NEW q, StartRecording(e, d, q), kind' = kind,
         Distinct(events'), NEW m \in DOMAIN events', events'[m] = e
  PROVE  Levelled'
<1>1. rdeck'.id = e.id /\ rdeck'.cut = e BY DEF StartRecording, RDecks
<1>2. \A n \in DOMAIN events' : events'[n].id = e.id => events'[n] = e BY DEF Distinct
<1> QED BY <1>1, <1>2 DEF Levelled, Agrees, Normalised

\* A deck that is started for an RML recording, or a daemon that dies of it.
LEMMA RmlLevel ==
  ASSUME Sane, NEW es \in Seq(Entries), Distinct(es), NEW d \in RDecks, NEW q,
         StartRmlRecording(es, d, q), kind' = kind
  PROVE  Levelled' /\ (overlapped => overlapped')
<1> DEFINE e == [id |-> Dynamic, ver |-> "added"]
<1>1. CASE Dies /\ UNCHANGED overlapped BY <1>1, DeadLevel
<1>2. CASE events' = Append(es, e) /\ StartRecording(e, d, q) /\ Distinct(events')
  <2>1. e \in Entries BY RmlEntry
  <2>2. Len(es) + 1 \in DOMAIN Append(es, e) /\ Append(es, e)[Len(es) + 1] = e BY <2>1
  <2> HIDE DEF e
  <2>3. Levelled' BY <1>2, <2>2, StartLevel
  <2> QED BY <1>2, <2>3 DEF StartRecording
<1>3. (Dies /\ UNCHANGED overlapped) \/ Distinct(events') BY Rmls
<1> QED BY <1>1, <1>2, <1>3 DEF StartRmlRecording

\* The deck is idle again, or started for the RML recording that waited.
LEMMA CacheLevel ==
  ASSUME Sane, Levelled, NEW es \in Seq(Entries), Distinct(es), Within(es, events),
         NEW d \in RDecks, d.id \in {rdeck.id, -1}, d.cut = rdeck.cut,
         RunRmlRecordingCache(es, d), kind' = kind, relevelled' = relevelled
  PROVE  Levelled' /\ (overlapped => overlapped')
<1>1. Idle(d) \in RDecks BY RDeckWith
<1>2. Idle(d).id = d.id /\ Idle(d).cut = d.cut BY DEF Idle, RDecks
<1>3. CASE d.pending
  <2>1. StartRmlRecording(es, Idle(d), Tail(answers)) BY <1>3 DEF RunRmlRecordingCache
  <2> QED BY <1>1, <2>1, RmlLevel
<1>4. CASE ~d.pending
  <2>1. rdeck' = Idle(d) /\ events' = es /\ UNCHANGED overlapped
    BY <1>4 DEF RunRmlRecordingCache
  <2> QED BY <1>2, <2>1, StaysLevel
<1> QED BY <1>3, <1>4

\* A recording is over: what is taken for it is what caed recorded, unless it is
\* known to be not.
LEMMA UnloadedFiles ==
  ASSUME IInv, Sane, Filing, answers # <<>>, Head(answers).tag = "UR", RecordUnloaded
  PROVE  Filing'
<1> DEFINE n == IndexOf(rdeck.id)
<1>1. /\ IsSeq(answers) /\ rdeck \in RDecks
      /\ events \in Seq(Entries) /\ Distinct(events)
  BY DeckParts
<1>2. relevelled' = relevelled /\ kind' = kind BY DEF RecordUnloaded
<1>3. CASE n = 0
  <2>1. RunRmlRecordingCache(events, rdeck) /\ misfiled' = misfiled BY <1>3 DEF RecordUnloaded
  <2>2. Within(events, events) BY DEF Within
  <2>3. Levelled' /\ (overlapped => overlapped') BY <1>1, <1>2, <2>1, <2>2, CacheLevel DEF Filing
  <2> QED BY <1>2, <2>1, <2>3 DEF Filing, RightCut
<1>4. CASE n # 0
  <2>1. n \in DOMAIN events /\ events[n].id = rdeck.id BY <1>1, <1>4, Index
  <2>2. RunRmlRecordingCache(Left(n), [rdeck EXCEPT !.id = -1])
        /\ misfiled' = (misfiled \/ CheckedIn(n) # Head(answers).file)
    BY <1>4 DEF RecordUnloaded
  <2> HIDE DEF n
  <2>3. Left(n) \in Seq(Entries) /\ Distinct(Left(n)) /\ Within(Left(n), events)
    BY <2>1, Leaves, CarriedWithin
  <2>4. [rdeck EXCEPT !.id = -1] \in RDecks /\ [rdeck EXCEPT !.id = -1].id = -1
        /\ [rdeck EXCEPT !.id = -1].cut = rdeck.cut
    <3>1. [rdeck EXCEPT !.id = -1] \in RDecks BY <1>1, RDeckWith
    <3> QED BY <1>1, <3>1 DEF RDecks
  <2>5. Levelled' /\ (overlapped => overlapped')
    BY <1>2, <2>2, <2>3, <2>4, CacheLevel DEF Filing
  <2>6. ASSUME ~overlapped, ~relevelled PROVE CheckedIn(n) = Head(answers).file
    <3>1. Owed(answers)
      <4>1. 1 \in DOMAIN answers /\ answers[1].tag = "UR" BY <1>1, Read
      <4> QED BY <4>1 DEF Owed
    <3>2. rdeck.id = rdeck.cut.id /\ Reports(answers, Target)
      BY <2>6, <3>1 DEF IInv, OneRecording
    <3>3. Head(answers).file = Target BY <1>1, <3>2, ReadsUnload
    <3>4. rdeck.id # -1
      <4>1. events[n].id \in Ids \cup {Dynamic} BY <2>1, EntryIds DEF Sane
      <4> QED BY <2>1, <4>1, NoRow DEF Dynamic
    <3>5. Normalised(events[n]) <=> Normalised(rdeck.cut)
      BY <2>1, <2>6, <3>4 DEF Filing, Levelled, Agrees
    <3> QED BY <3>2, <3>3, <3>5 DEF CheckedIn, Target
  <2> QED BY <1>2, <2>2, <2>5, <2>6 DEF Filing, RightCut
<1> QED BY <1>3, <1>4

\* The daemon hears of a change: if it is the one, this is known.
LEMMA NotifiedFiles ==
  ASSUME Sane, Filing, NEW id \in Ids, Notified(id)
  PROVE  Filing'
<1> DEFINE n == IndexOf(id)
           rest == IF n = 0 THEN events ELSE RemoveAt(events, n)
           e == [id |-> id, ver |-> row[id]]
<1>1. UNCHANGED <<kind, rdeck, misfiled, overlapped>> /\ UpdateEvent(id)
      /\ relevelled' = \/ relevelled
                       \/ /\ rdeck.id = id /\ id \in Rows
                          /\ Normalised(e) # Normalised(rdeck.cut)
  BY DEF Notified, decks
<1>2. events \in Seq(Entries) /\ Distinct(events) BY DEF Sane, TypeOK, Schedule, Entered
<1>3. n # 0 => n \in DOMAIN events BY <1>2, Index
<1>4. rest \in Seq(Entries) /\ Within(rest, events)
  <2>1. CASE n = 0
    <3>1. Within(events, events) BY DEF Within
    <3> QED BY <1>2, <2>1, <3>1
  <2>2. CASE n # 0
    <3>1. n \in DOMAIN events /\ rest = RemoveAt(events, n) BY <1>3, <2>2
    <3> HIDE DEF n, rest
    <3> QED BY <1>2, <3>1, LeftWithin, Drops
  <2> QED BY <2>1, <2>2
<1>5. events' = IF id \in Rows THEN Append(rest, e) ELSE rest BY <1>1 DEF UpdateEvent
<1>6. e.id = id /\ (id \in Rows => e \in Entries) BY DEF Entries, Rows
<1>7. Normalised(e) \in BOOLEAN /\ Normalised(rdeck.cut) \in BOOLEAN BY DEF Normalised
<1> HIDE DEF n, rest, e
<1>8. \A m \in DOMAIN events' : \/ \E k \in DOMAIN events : events'[m] = events[k]
                                \/ id \in Rows /\ events'[m] = e
  <2>1. CASE id \in Rows
    <3>1. DOMAIN Append(rest, e) = 1..Len(rest) + 1 /\ DOMAIN rest = 1..Len(rest)
          /\ Len(rest) \in Nat /\ Append(rest, e)[Len(rest) + 1] = e
          /\ \A m \in 1..Len(rest) : Append(rest, e)[m] = rest[m]
      BY <1>4, <1>6, <2>1
    <3>2. \A m \in 1..Len(rest) + 1 : m = Len(rest) + 1 \/ m \in 1..Len(rest) BY <3>1
    <3> QED BY <1>4, <1>5, <2>1, <3>1, <3>2 DEF Within
  <2>2. CASE id \notin Rows BY <1>4, <1>5, <2>2 DEF Within
  <2> QED BY <2>1, <2>2
<1>9. ASSUME ~relevelled', NEW m \in DOMAIN events', rdeck.id # -1, events'[m].id = rdeck.id
      PROVE  Normalised(events'[m]) <=> Normalised(rdeck.cut)
  <2>1. CASE \E k \in DOMAIN events : events'[m] = events[k]
    BY <1>1, <1>9, <2>1 DEF Filing, Levelled, Agrees
  <2>2. CASE id \in Rows /\ events'[m] = e
    <3>1. Normalised(e) = Normalised(rdeck.cut) BY <1>1, <1>6, <1>9, <2>2
    <3> QED BY <2>2, <3>1
  <2> QED BY <1>8, <2>1, <2>2
<1>10. Levelled' BY <1>1, <1>9 DEF Levelled, Agrees, Normalised
<1> QED BY <1>1, <1>10 DEF Filing, RightCut

\* A timer runs out.
LEMMA DueFiles == ASSUME Sane, Filing, Due PROVE Filing'
<1>1. rdeck \in RDecks /\ events \in Seq(Entries) /\ Distinct(events)
  BY DEF Sane, TypeOK, RDecks, Schedule, Entered
<1>2. UNCHANGED <<misfiled, relevelled, kind>> BY DEF Due
<1>3. Within(events, events) BY DEF Within
<1>4. PICK n \in DOMAIN events :
        RecordingDue(n) \/ PlayoutDue(n) \/ MacroDue(n) \/ SwitchDue(n) \/ LoadDue(n)
  BY DEF Due
<1>5. CASE UNCHANGED <<rdeck, events, overlapped>>
  BY <1>2, <1>3, <1>5, StaysLevel DEF Filing, RightCut
<1>6. CASE RecordingDue(n)
  <2>1. events' = events BY <1>6 DEF RecordingDue
  <2>2. CASE StartRecording(events[n], rdeck, answers)
    <3>1. overlapped => overlapped' BY <2>2 DEF StartRecording
    <3>2. Levelled' BY <1>1, <1>2, <1>4, <2>1, <2>2, StartLevel
    <3> QED BY <1>2, <3>1, <3>2 DEF Filing, RightCut
  <2> QED BY <1>5, <1>6, <2>1, <2>2 DEF RecordingDue
<1>7. CASE SwitchDue(n)
  <2>1. events' = Left(n) /\ UNCHANGED <<rdeck, overlapped>> BY <1>7 DEF SwitchDue
  <2>2. Within(events', events) BY <1>4, <2>1, CarriedWithin
  <2> QED BY <1>2, <2>1, <2>2, StaysLevel DEF Filing, RightCut
<1>8. CASE PlayoutDue(n) \/ MacroDue(n) \/ LoadDue(n)
  BY <1>5, <1>8 DEF PlayoutDue, MacroDue, LoadDue, caed
<1> QED BY <1>4, <1>6, <1>7, <1>8

\* An RS macro is run.
LEMMA RSFiles == ASSUME Sane, Filing, RS PROVE Filing'
<1>1. rdeck \in RDecks /\ events \in Seq(Entries) /\ Distinct(events)
  BY DEF Sane, TypeOK, RDecks, Schedule, Entered
<1>2. UNCHANGED <<misfiled, relevelled, kind>> BY DEF RS
<1>3. Within(events, events) BY DEF Within
<1>4. CASE StartRmlRecording(events, rdeck, answers)
  <2>1. Levelled' /\ (overlapped => overlapped') BY <1>1, <1>2, <1>4, RmlLevel
  <2> QED BY <1>2, <2>1 DEF Filing, RightCut
<1>5. CASE rdeck' = [rdeck EXCEPT !.pending = TRUE] /\ UNCHANGED <<events, overlapped>>
  <2>1. rdeck'.id = rdeck.id /\ rdeck'.cut = rdeck.cut BY <1>1, <1>5 DEF RDecks
  <2> QED BY <1>2, <1>3, <1>5, <2>1, StaysLevel DEF Filing, RightCut
<1> QED BY <1>4, <1>5 DEF RS

\* An answer is read.
LEMMA AnswerFiles == ASSUME IInv, Sane, Filing, Answer PROVE Filing'
<1> DEFINE a == Head(answers)
<1>1. rdeck \in RDecks /\ Within(events, events) BY DEF Sane, TypeOK, RDecks, Within
<1>2. CASE Dies /\ UNCHANGED history
  BY <1>2, DeadLevel DEF Filing, RightCut, history
<1>3. CASE /\ rdeck'.id = rdeck.id /\ rdeck'.cut = rdeck.cut
           /\ Within(events', events) /\ UNCHANGED <<kind, history>>
  BY <1>3, StaysLevel DEF Filing, RightCut, history
<1>4. CASE a.tag = "UR" /\ RecordUnloaded
  BY <1>4, UnloadedFiles DEF Answer
<1>5. CASE RecordLoaded \/ Recording \/ RecordStopped
  <2>1. rdeck' = rdeck \/ \E t \in {"ready", "recording"} : rdeck' = [rdeck EXCEPT !.st = t]
    BY <1>5 DEF RecordLoaded, Recording, RecordStopped
  <2>2. rdeck'.id = rdeck.id /\ rdeck'.cut = rdeck.cut BY <1>1, <2>1 DEF RDecks
  <2>3. UNCHANGED <<kind, events, history>>
    BY <1>5 DEF RecordLoaded, Recording, RecordStopped, Others
  <2> QED BY <1>1, <1>3, <2>2, <2>3
<1>6. ASSUME NEW s, PlayLoaded(s) \/ PlayStopped(s) PROVE Filing'
  BY <1>1, <1>3, <1>6 DEF PlayLoaded, PlayStopped, Others
<1>7. CASE Playing
  <2>1. UNCHANGED history /\ (Dies \/ UNCHANGED <<rdeck, events>>) /\ kind' = kind
    BY <1>7 DEF Playing
  <2> QED BY <1>1, <1>2, <1>3, <2>1
<1>8. CASE PlayUnloaded
  <2>1. /\ UNCHANGED history /\ kind' = kind
        /\ \/ Dies
           \/ /\ UNCHANGED rdeck
              /\ \/ pdeck.idx \in DOMAIN events /\ events' = Left(pdeck.idx)
                 \/ UNCHANGED events
    BY <1>8 DEF PlayUnloaded
  <2> QED BY <1>1, <1>2, <1>3, <2>1, CarriedWithin
<1>9. CASE UnknownSerial(a)
  <2>1. \/ Dies /\ UNCHANGED history
        \/ PlayStopped(a.serial)
        \/ UNCHANGED <<kind, rdeck, events, history>>
    BY <1>9 DEF UnknownSerial, Others
  <2> QED BY <1>1, <1>2, <1>3, <1>6, <2>1
<1> QED BY <1>4, <1>5, <1>6, <1>7, <1>8, <1>9 DEF Answer

\* Every step keeps what is checked in what it should be.
LEMMA FilesStep == ASSUME IInv, Sane, Filing, [Next]_vars PROVE Filing'
<1>1. rdeck \in RDecks /\ events \in Seq(Entries) /\ Distinct(events)
  BY DEF Sane, TypeOK, RDecks, Schedule, Entered
<1>2. kind' = kind BY KindStays
<1>3. CASE /\ rdeck'.id = rdeck.id /\ rdeck'.cut = rdeck.cut
           /\ Within(events', events) /\ UNCHANGED <<misfiled, overlapped, relevelled>>
  BY <1>2, <1>3, StaysLevel DEF Filing, RightCut
<1>4. Within(events, events) BY DEF Within
<1>5. CASE Crash
  BY <1>5, DeadLevel DEF Crash, Filing, RightCut, history
<1>6. CASE Restart
  <2>1. rdeck'.id = -1 BY <1>6 DEF Restart, ROff
  <2>2. UNCHANGED <<misfiled, overlapped, relevelled>> BY <1>6 DEF Restart
  <2> QED BY <2>1, <2>2 DEF Filing, RightCut, Levelled, Agrees
<1>7. ASSUME NEW id \in Ids, NEW to, Edit(id, to) \/ BatchEnds(id, to) PROVE Filing'
  BY <1>3, <1>4, <1>7 DEF Edit, BatchEnds, decks, history
<1>8. ASSUME NEW new, ReloadDecks(new) PROVE Filing'
  <2>1. UNCHANGED <<events, misfiled, overlapped, relevelled>> BY <1>8 DEF ReloadDecks
  <2>2. rdeck'.id = rdeck.id /\ rdeck'.cut = rdeck.cut
    BY <1>1, <1>8 DEF ReloadDecks, Reloaded, RDecks
  <2> QED BY <1>3, <1>4, <2>1, <2>2
<1>9. CASE StopDeck
  <2>1. UNCHANGED <<events, misfiled, overlapped, relevelled>> BY <1>9 DEF StopDeck, history
  <2>2. rdeck'.id = rdeck.id /\ rdeck'.cut = rdeck.cut BY <1>1, <1>9 DEF StopDeck, RDecks
  <2> QED BY <1>3, <1>4, <2>1, <2>2
<1>10. CASE EX \/ RecordingEnds \/ PlaybackEnds \/ FreeEvents \/ UNCHANGED vars
  BY <1>3, <1>4, <1>10 DEF EX, RecordingEnds, PlaybackEnds, FreeEvents, vars, decks, history
<1>11. CASE EventFinished
  <2>1. UNCHANGED <<rdeck, misfiled, overlapped, relevelled>>
    BY <1>11 DEF EventFinished, decks, history
  <2>2. Within(events', events)
    <3>1. CASE IndexOf(pool.id) = 0 BY <1>4, <1>11, <3>1 DEF EventFinished
    <3>2. CASE IndexOf(pool.id) # 0
      <4>1. IndexOf(pool.id) \in DOMAIN events BY <1>1, <3>2, Index
      <4>2. events' = Left(IndexOf(pool.id)) BY <1>11, <3>2 DEF EventFinished
      <4> QED BY <4>1, <4>2, CarriedWithin
    <3> QED BY <3>1, <3>2
  <2> QED BY <1>3, <2>1, <2>2
<1> QED BY <1>5, <1>6, <1>7, <1>8, <1>9, <1>10, <1>11, NotifiedFiles, DueFiles, RSFiles,
           AnswerFiles DEF Next

\* What was recorded is checked in as the cut it was recorded for, or handed to
\* the child that converts it, unless the deck was not free when it was started,
\* or the daemon took in meanwhile that it is, or is not, to be normalised.
THEOREM CheckedInAsItsCut == Spec => []RightCut
<1>1. Init => IInv /\ Whole /\ Filing
  <2>1. Init => Levelled /\ RightCut BY DEF Init, Levelled, Agrees, RightCut, ROff
  <2> QED BY <2>1, InitialState, WholeInitially DEF Filing
<1>2. IInv /\ Whole /\ Filing /\ [Next]_vars => IInv' /\ Whole' /\ Filing'
  BY EveryStep, WholeStep, FilesStep DEF Whole, Sane
<1>3. Filing => RightCut BY DEF Filing
<1> QED BY <1>1, <1>2, <1>3, PTL DEF Spec
=============================================================================
