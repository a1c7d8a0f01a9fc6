------------------------------ MODULE Playlist ------------------------------
(***************************************************************************)
(* What a log machine promises of its lines, without cues, segues, timers  *)
(* and macros: each line is played at most once, on an output it keeps for *)
(* itself until it is over, and left to itself the machine starts the      *)
(* lines in the order of the log.  One event may end some lines and start  *)
(* others, and start and end a line that takes no time.                    *)
(*                                                                         *)
(* LogPlay implements it (LogPlay!Contract).                               *)
(***************************************************************************)
EXTENDS Integers

CONSTANTS NLines, NVoices

Lines == 1..NLines

VARIABLES
  state,   \* of each line: waiting, running, over
  voice,   \* the output it plays on, or 0
  steered  \* the operator, or a hard start time, chooses lines too

vars == <<state, voice, steered>>

Waiting == {k \in Lines : state[k] = "waiting"}
Runs    == {k \in Lines : state[k] = "running"}

Init ==
  /\ state = [k \in Lines |-> "waiting"]
  /\ voice = [k \in Lines |-> 0]
  /\ steered \in BOOLEAN

\* A line that is taken off gives its output back; the others keep theirs.
Keeps(start, end) ==
  /\ voice' \in [Lines -> 0..NVoices]
  /\ \A k \in Lines :
       /\ voice'[k] # 0 => state'[k] = "running"
       /\ k \in Runs \ end => voice'[k] = voice[k]
  /\ \A j, k \in Lines : voice'[j] # 0 /\ voice'[j] = voice'[k] => j = k

InOrder(start) == \A j \in start, k \in Lines \ Waiting : k < j

Event(start, end) ==
  /\ state' = [k \in Lines |-> CASE k \in end           -> "over"
                                 [] k \in start \ end   -> "running"
                                 [] OTHER               -> state[k]]
  /\ Keeps(start, end)
  /\ steered' \/ InOrder(start)
  /\ steered => steered'

Next ==
  \E start \in SUBSET Waiting :
    \E end \in SUBSET (Runs \union start) : Event(start, end)

Spec == Init /\ [][Next]_vars
=============================================================================
