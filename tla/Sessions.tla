------------------------------ MODULE Sessions ------------------------------
(***************************************************************************)
(* What a client of the audio engine may rely on, without streams, timers  *)
(* and callbacks: a play session that was loaded has an output of its own, *)
(* is told "playing" and "stopped" in turn and only after it was loaded,   *)
(* and its handle names nothing else while the connection lasts.           *)
(*                                                                         *)
(* Caed implements it (Caed!Contract).                                     *)
(***************************************************************************)
EXTENDS Integers

CONSTANTS
  Clients,    \* connections
  MaxSerial,  \* bound: loads by one connection
  Slots,      \* outputs
  NoSlot,
  LateStops   \* TRUE: the end of a session may be told to the next one on its
              \* output, which never played

Handles == Clients \X (1..MaxSerial)

VARIABLES
  slot,   \* the output of each session, or NoSlot
  heard,  \* what the client last heard of each session
  next    \* the next serial number of each client

vars == <<slot, heard, next>>

Init ==
  /\ slot = [h \in Handles |-> NoSlot]
  /\ heard = [h \in Handles |-> "none"]
  /\ next = [c \in Clients |-> 1]

\* Only the next handle of a client can be loaded, on an output nobody has.
Load(c) ==
  /\ next[c] <= MaxSerial
  /\ next' = [next EXCEPT ![c] = @ + 1]
  /\ \E o \in Slots :
       /\ \A h \in Handles : slot[h] # o
       /\ slot' = [slot EXCEPT ![<<c, next[c]>>] = o]
  /\ heard' = [heard EXCEPT ![<<c, next[c]>>] = "loaded"]

Refuse(c) ==
  /\ next[c] <= MaxSerial
  /\ next' = [next EXCEPT ![c] = @ + 1]
  /\ UNCHANGED <<slot, heard>>

Unload(h) ==
  /\ slot[h] # NoSlot
  /\ slot' = [slot EXCEPT ![h] = NoSlot]
  /\ heard' = [heard EXCEPT ![h] = "none"]
  /\ UNCHANGED next

Start(h) ==
  /\ heard[h] \in {"loaded", "stopped"}
  /\ heard' = [heard EXCEPT ![h] = "playing"]
  /\ UNCHANGED <<slot, next>>

\* Sessions come to their end, or are stopped; several may be told at once.
Stop ==
  \E ended \in SUBSET {h \in Handles : \/ heard[h] = "playing"
                                       \/ LateStops /\ heard[h] = "loaded"} :
    /\ heard' = [h \in Handles |-> IF h \in ended THEN "stopped" ELSE heard[h]]
    /\ UNCHANGED <<slot, next>>

\* The connections of "gone" are lost, with their sessions.
Lose(gone) ==
  /\ slot' = [h \in Handles |-> IF h[1] \in gone THEN NoSlot ELSE slot[h]]
  /\ heard' = [h \in Handles |-> IF h[1] \in gone THEN "none" ELSE heard[h]]
  /\ \/ UNCHANGED next
     \/ next' = [c \in Clients |-> IF c \in gone THEN 1 ELSE next[c]]

\* A client that has no session starts to count again.
Connect(c) ==
  /\ \A h \in Handles : h[1] = c => slot[h] = NoSlot
  /\ next' = [next EXCEPT ![c] = 1]
  /\ UNCHANGED <<slot, heard>>

Next ==
  \/ \E c \in Clients : Load(c) \/ Refuse(c) \/ Connect(c)
  \/ \E h \in Handles : Unload(h) \/ Start(h)
  \/ Stop
  \/ \E gone \in SUBSET Clients : Lose(gone)

Spec == Init /\ [][Next]_vars
=============================================================================
