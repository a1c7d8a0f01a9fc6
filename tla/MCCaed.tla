------------------------------- MODULE MCCaed -------------------------------
(* Values for the constants of Caed in TLC's runs. *)
EXTENDS Caed, TLC

CONSTANTS c1, c2, card0, jack

OneCard      == [k \in {card0} |-> jack]
Clients      == Permutations({c1, c2})
AllLengths   == {0, 1}
=============================================================================
