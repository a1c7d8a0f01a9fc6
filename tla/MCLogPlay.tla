----------------------------- MODULE MCLogPlay -----------------------------
(* Logs for TLC's runs of LogPlay. *)
EXTENDS LogPlay

Line(kind, tr) == [kind |-> kind, trans |-> tr, hard |-> 0, grace |-> "now",
                   fade |-> TRUE, ok |-> TRUE, file |-> TRUE]

Song(tr)       == Line("audio", tr)
Unfaded(tr)    == [Song(tr) EXCEPT !.fade = FALSE]
Unplayable(tr) == [Song(tr) EXCEPT !.ok = FALSE]     \* no playable cut
Unloadable(tr) == [Song(tr) EXCEPT !.file = FALSE]   \* caed cannot load it
At(line, t, g) == [line EXCEPT !.hard = t, !.grace = g]

\* Everything that can stand in a log without hard times.
AnyLine ==
  {Line(kind, tr) : kind \in {"macro", "sleeper", "async", "marker"},
                    tr \in {"Play", "Segue", "Stop"}}
  \union {[Line("audio", tr) EXCEPT !.fade = f, !.ok = g] :
            tr \in {"Play", "Segue", "Stop"}, f \in BOOLEAN, g \in BOOLEAN}
  \union {Unloadable(tr) : tr \in {"Play", "Segue", "Stop"}}
AnyLog == [Lines -> AnyLine]

\* Some of the logs that are Plain.
PlainLog ==
  [Lines -> {Unfaded(tr) : tr \in {"Play", "Segue"}} \union {Unplayable("Play")}
            \union {Line("marker", "Segue")}]
  \union [Lines -> {Song("Play"), Song("Stop"), Unplayable("Stop")}]

\* Songs for the operator.
Songs == {Song("Play"), Song("Segue"), Unfaded("Segue")}
SongLog == [Lines -> Songs]

\* Segues out of songs that fade, markers among them.
FadeLog == [Lines -> {Song("Segue"), Song("Play"), Line("marker", "Segue")}]

\* A few logs with macros.
MixedFew == {<<Song("Play"), Song("Segue"), Line("marker", "Segue")>>,
             <<Unfaded("Play"), Line("sleeper", "Segue"), Song("Play")>>,
             <<Song("Play"), Line("macro", "Play"), Unfaded("Segue")>>}

\* Hard start times: untimed and timed lines in any order, no time twice.
HardLog(timed, times, g) ==
  {l \in [Lines -> {Song("Play"), Song("Segue"), Line("marker", "Play")}
                   \union {At(x, t, gr) : x \in timed, t \in times, gr \in g}] :
     \A j, k \in Lines : l[j].hard = l[k].hard /\ l[j].hard # 0 => j = k}
HardNow  == HardLog({Song("Play"), Song("Stop"), Unplayable("Play"), Line("marker", "Play")},
                    {1, 2}, {"now", "next"})
HardWait == HardLog({Song("Play"), Song("Stop"), Line("marker", "Play")}, {1}, {"wait"})

\* One song with a hard start time that waits for what plays, among others.
OneWait ==
  {l \in HardWait : /\ l[1].hard = 0 /\ \E k \in Lines : l[k].hard # 0
                   /\ \A k \in Lines : l[k].kind = "audio"}

\* Such logs, the ones with macros and the plain ones.
EndsLog == OneWait \union MixedFew \union PlainLog

\* A hard start time behind a cart without a cut; a song follows.
RestartLog == {<<Song("Play"), Unplayable("Play"), At(Song("Play"), 2, "now"), Song("Play")>>}

\* Everything.
WholeLog == AnyLog \union HardNow
=============================================================================
