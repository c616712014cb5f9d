------------------------------ MODULE MCDurable -----------------------------
(* Values of Durable's constants for TLC.                                  *)
EXTENDS Durable

Cfg(b0, te, on, pct) ==
  [C |-> 1, TS |-> 0, TE |-> te, B0 |-> b0, BillInfraFailures |-> FALSE,
   K |-> 0, BurstEnabled |-> on, BurstCeilingPct |-> pct, BurstDrawCap |-> 0]

Plain  == {Cfg(3, 3, FALSE, 1)}
Bursty == {Cfg(4, 3, TRUE, 3)}

Toggles == {<<FALSE, 0, 0>>, <<TRUE, 2, 0>>}

(* Nothing is claimed past an event that spoils the log.                   *)
Unspoiled == ~spoiled
=============================================================================
