----------------------------- MODULE MCLogLock -----------------------------
(* Values for the constants of LogLock in TLC's run. *)
EXTENDS LogLock
CONSTANTS u1, u2, l1, l2
EveryKind == AllKinds
=============================================================================
