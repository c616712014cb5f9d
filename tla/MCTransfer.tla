----------------------------- MODULE MCTransfer -----------------------------
(* Values of Transfer's constants for TLC.                                 *)
EXTENDS Transfer

Regimes == {{"kill"}, {"kill", "io"}, {"kill", "power", "io"}}
=============================================================================
