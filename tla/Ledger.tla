------------------------------- MODULE Ledger -------------------------------
(***************************************************************************)
(* What an account's escrow ledger promises its owner (budget.go), with no *)
(* word of jobs, arrays, rates, bursts or logs: money is held out of the   *)
(* balance before work starts, is spent only out of its own hold, and what *)
(* is not spent returns.  A hold never grows.  Once its job runs nothing   *)
(* but its settlement touches it; an array's hold is settled in parts.     *)
(***************************************************************************)
EXTENDS Integers

VARIABLES balance,   \* units free
          holds,     \* key -> [amount, state]: units held; "waiting" for a
                     \* job to run, "running", or "parts" for an array
          spent      \* units billed or written off

Init ==
  /\ balance \in Nat
  /\ holds = [k \in {} |-> 0]
  /\ spent = 0

Others(k) == [x \in DOMAIN holds \ {k} |-> holds[x]]

With(k, hold) ==
  [x \in DOMAIN holds \cup {k} |-> IF x = k THEN hold ELSE holds[x]]

(* The administrator adds money, or takes free money out.                  *)
Fund ==
  /\ balance' \in Nat
  /\ UNCHANGED <<holds, spent>>

(* A gate holds the whole cost, and only what the balance has.             *)
Hold(k) ==
  /\ k \notin DOMAIN holds
  /\ \E st \in {"waiting", "parts"} :
       holds' = With(k, [amount |-> balance - balance', state |-> st])
  /\ balance' \in 0 .. balance
  /\ UNCHANGED spent

(* A hold is lowered while its job waits; then the job runs.               *)
Lower(k) ==
  /\ k \in DOMAIN holds /\ holds[k].state = "waiting"
  /\ holds' = With(k, [holds[k] EXCEPT !.amount = @ - (balance' - balance)])
  /\ balance' \in balance .. balance + holds[k].amount
  /\ UNCHANGED spent

Run(k) ==
  /\ k \in DOMAIN holds /\ holds[k].state = "waiting"
  /\ holds' = With(k, [holds[k] EXCEPT !.state = "running"])
  /\ UNCHANGED <<balance, spent>>

(* A hold is settled, spent or returned: whole, or an array's in parts.    *)
Settle(k) ==
  LET paid == spent' - spent
  IN  /\ k \in DOMAIN holds
      /\ spent' \in spent .. spent + holds[k].amount
      /\ balance' \in balance .. balance + holds[k].amount - paid
      /\ \/ /\ holds' = Others(k)
            /\ balance' + spent' = balance + spent + holds[k].amount
         \/ /\ holds[k].state = "parts"
            /\ holds' = With(k, [holds[k] EXCEPT
                                  !.amount = @ - paid - (balance' - balance)])

Next ==
  \/ Fund
  \/ \E k \in DOMAIN holds \cup DOMAIN holds' :
       Hold(k) \/ Lower(k) \/ Run(k) \/ Settle(k)

Spec == Init /\ [][Next]_<<balance, holds, spent>>
=============================================================================
