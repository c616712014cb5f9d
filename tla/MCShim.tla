------------------------------- MODULE MCShim -------------------------------
(* Values of Shim's constants for TLC.                                     *)
EXTENDS Shim

Sub(closed, ws, tags) == [closed |-> closed, ws |-> ws, tags |-> tags]

Cloud == [s1 |-> Sub(TRUE, {2}, <<>>), s2 |-> Sub(FALSE, {0, 1}, <<"site">>)]

(* A job ends early, is ended by its limit, or loses its node.             *)
Ended == {<<"complete", 1>>, <<"timeout", 3>>, <<"infrafail", 1>>}

Both == <<"luasocket", "cli">>
=============================================================================
