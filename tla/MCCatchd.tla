------------------------------ MODULE MCCatchd ------------------------------
(* Values for the constants of Catchd in TLC's runs. *)
EXTENDS Catchd
EveryKind == {<<"record", "play">>, <<"import", "record">>, <<"macro", "record">>,
              <<"switch", "load">>, <<"play", "play">>}
Playouts  == {<<"record", "play">>, <<"switch", "play">>}
=============================================================================
