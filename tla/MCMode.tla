------------------------------- MODULE MCMode -------------------------------
(* Requests for TLC's runs of Mode. *)
EXTENDS Mode, TLC

CONSTANTS a, b, h1, h2

Client(db, nfs) == [mode |-> "client", db |-> db, nfs |-> nfs]
Server == [mode |-> "server", db |-> None, nfs |-> None]

\* Each mode, two servers to be a client of, and a client of none.
EveryRequest == {Standalone, Server, Client(h1, h1), Client(h2, h2),
                 Client(h1, None)}

\* Bound: a third request only after two that did not meet.
Explored == overlapped => asked <= 2

SameTabs == Permutations(Tabs)
=============================================================================
