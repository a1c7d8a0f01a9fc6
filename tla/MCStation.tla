----------------------------- MODULE MCStation -----------------------------
(* The daemons the rest of the station talks to, for TLC's run of Station. *)
EXTENDS Station

CONSTANTS p1, p2

Few == <<"ripcd", "rdpadd", "rdpadengined">>
=============================================================================
