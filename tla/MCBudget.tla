------------------------------ MODULE MCBudget ------------------------------
(* Values of Budget's constants for TLC.                                   *)
EXTENDS Budget

Cfg(b0, te, bill, k, on, pct, cap) ==
  [C |-> 1, TS |-> 0, TE |-> te, B0 |-> b0, BillInfraFailures |-> bill,
   K |-> k, BurstEnabled |-> on, BurstCeilingPct |-> pct,
   BurstDrawCap |-> cap]

(* Money: no burst, with the legacy rate ceiling off and on.               *)
MoneyConfigs == {Cfg(5, 3, FALSE, 0, FALSE, 1, 0),
                 Cfg(5, 3, TRUE, 2, FALSE, 1, 0)}
MoneyRates == {0, 2}
MoneyRuntimes == {-1, 1, 3}
MoneyWindows == {<<1, 3>>, <<2, 2>>}

(* Burst: r0 = 4/3, ceiling 3 of 4, with and without a draw cap, and with  *)
(* the rate ceiling on.                                                    *)
BurstNewConfigs == {Cfg(4, 3, FALSE, 0, TRUE, 3, 0),
                    Cfg(4, 3, FALSE, 0, TRUE, 3, 1),
                    Cfg(4, 3, FALSE, 2, TRUE, 3, 0)}
BurstRetune == {<<TRUE, 1, 0>>, <<TRUE, 5, 0>>}
=============================================================================
