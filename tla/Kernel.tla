------------------------------- MODULE Kernel -------------------------------
(***************************************************************************)
(* The transitions of one budget (src/internal/budget) as functions from a *)
(* budget record to a result.  Every method of Budget runs under bd.mu, so *)
(* each is one step; the modules that extend this one supply the state the *)
(* steps act on: a live budget (Budget), or a budget with its log.         *)
(*                                                                         *)
(* A result is a record                                                    *)
(*    ok   the method returned a nil error                                 *)
(*    bd   the budget afterwards (a failed method may have changed it)     *)
(*    log  the commands appended to the write-ahead log: <<>> or <<cmd>>   *)
(* The last argument of a logged method, wal, tells whether the append     *)
(* succeeds; it is TRUE while the log is replayed.                         *)
(*                                                                         *)
(* Units and Seconds are integers (int64 in the code; amounts are assumed  *)
(* to stay below 2^63).  The float64 fields are rationals: BurstCeilingPct *)
(* is a numerator over PctDen, and K is an integer.                        *)
(***************************************************************************)
EXTENDS Integers, Sequences, Functions

CONSTANT PctDen     \* denominator of BurstCeilingPct

ASSUME PctDenAssumption == PctDen \in Nat \ {0}

Put(f, k, v) == [x \in DOMAIN f \cup {k} |-> IF x = k THEN v ELSE f[x]]
Drop(f, k)   == Restrict(f, DOMAIN f \ {k})

Rejected(bd) == [ok |-> FALSE, bd |-> bd, log |-> <<>>]

(* Append cmd and commit `after'; when the append fails the method returns *)
(* its error and leaves the budget as it stood when logCmd was called.     *)
logCmd(before, after, cmd, wal) ==
  IF wal THEN [ok |-> TRUE, bd |-> after, log |-> <<cmd>>]
         ELSE Rejected(before)

NoTask == [started |-> FALSE, settled |-> FALSE, burstResv |-> 0]

(* New and NewDurableBurst: cfg is what the account's creation fixes.      *)
NewDurableBurst(cfg) ==
  [C |-> cfg.C, TS |-> cfg.TS, TE |-> cfg.TE,
   B |-> cfg.B0, ReservedTotal |-> 0, Consumed |-> 0, WriteOff |-> 0,
   B0 |-> cfg.B0, BillInfraFailures |-> cfg.BillInfraFailures, K |-> cfg.K,
   BurstEnabled    |-> cfg.BurstEnabled,
   BurstCeilingPct |-> IF cfg.BurstEnabled THEN cfg.BurstCeilingPct ELSE 0,
   BurstDrawCap    |-> IF cfg.BurstEnabled THEN cfg.BurstDrawCap ELSE 0,
   burstPot |-> 0, fracAcc |-> 0, rLive |-> 0, lastTouch |-> cfg.TS,
   escrows |-> [j \in {} |-> 0], arrays |-> [a \in {} |-> 0],
   status |-> "Active"]

-----------------------------------------------------------------------------
(* The burst token bucket (burst.go).                                      *)

window(p)       == p.TE - p.TS
r0Floor(p)      == p.B0 \div window(p)
burstCeiling(p) == (p.BurstCeilingPct * p.B0) \div PctDen

(* Mutant: lastTouch is not moved, so the same idle time is banked again.  *)
AccrueAgain(bd, now) ==
  LET pot == bd.burstPot +
             ((bd.B0 - bd.rLive * window(bd)) * (now - bd.lastTouch))
               \div window(bd)
  IN  IF pot <= bd.burstPot \/ pot > burstCeiling(bd) THEN bd
      ELSE [bd EXCEPT !.burstPot = pot]

(* Fast-forward the bucket to now.  A clock that did not advance banks     *)
(* nothing but still moves lastTouch, backwards too.                       *)
accrue(bd, now) ==
  LET dt        == now - bd.lastTouch
      T         == window(bd)
      unusedNum == bd.B0 - bd.rLive * T
      acc       == bd.fracAcc + unusedNum * dt
      pot       == bd.burstPot + acc \div T
      full      == pot >= burstCeiling(bd)
  IN  IF ~bd.BurstEnabled THEN bd
      ELSE IF dt <= 0 \/ unusedNum <= 0 THEN [bd EXCEPT !.lastTouch = now]
      ELSE [bd EXCEPT !.lastTouch = now,
                      !.burstPot  = IF full THEN burstCeiling(bd) ELSE pot,
                      !.fracAcc   = IF full THEN 0 ELSE acc % T]

(* Tokens a job of rate c and walltime w reserves: the last arriver pays   *)
(* for the part of its burn above max(rLive, floor(r0)).                   *)
burstReserveForRate(bd, c, w) ==
  LET base   == IF bd.rLive < r0Floor(bd) THEN r0Floor(bd) ELSE bd.rLive
      excess == (bd.rLive + c) - base
  IN  (IF excess < 0 THEN 0 ELSE excess) * w

(* The pure copy of accrue and the reservation that the lock-free dispatch *)
(* query uses (dispatch.go); p is a budget or a published ReadView.        *)
projectBurstPot(p, now) ==
  LET T         == window(p)
      dt        == now - p.lastTouch
      unusedNum == p.B0 - p.rLive * T
      pot       == p.burstPot + (p.fracAcc + unusedNum * dt) \div T
  IN  IF T <= 0 \/ dt <= 0 \/ unusedNum <= 0 THEN p.burstPot
      ELSE IF pot > burstCeiling(p) THEN burstCeiling(p) ELSE pot

(* Mutant: the base is the live burn alone, without the r0 floor.          *)
ReserveAboveLive(p, c, w) == c * w

burstReserve(p, c, w) ==
  LET r0f    == p.B0 \div window(p)
      base   == IF p.rLive < r0f THEN r0f ELSE p.rLive
      excess == (p.rLive + c) - base
  IN  IF window(p) <= 0 THEN 0 ELSE (IF excess < 0 THEN 0 ELSE excess) * w

burstDispatchVerdict(p, c, w, now) ==
  LET resv == burstReserve(p, c, w)
  IN  \/ ~p.BurstEnabled
      \/ resv <= 0
      \/ /\ p.BurstDrawCap > 0 => resv <= p.BurstDrawCap
         /\ resv <= projectBurstPot(p, now)

MayDispatch(view, c, w, now) == burstDispatchVerdict(view, c, w, now)

(* What publishLocked stores for the lock-free readers (readview.go).      *)
publishLocked(bd) ==
  [f \in {"B", "burstPot", "rLive", "fracAcc", "lastTouch", "B0", "TS", "TE",
          "BurstEnabled", "BurstCeilingPct", "BurstDrawCap"} |-> bd[f]]

-----------------------------------------------------------------------------
(* One job, one escrow (budget.go).                                        *)

RateOrFlat(bd, c) == IF c <= 0 THEN bd.C ELSE c

rateOK(bd, cost, now) ==
  \/ bd.K <= 0
  \/ /\ now < bd.TE
     /\ (bd.ReservedTotal + cost) * (bd.TE - now) <= bd.K * bd.B

(* The checks shared by the two gates and the dry run.                     *)
Solvent(bd, cost, now) ==
  /\ bd.status = "Active"
  /\ bd.TS <= now /\ now < bd.TE
  /\ cost <= bd.B
  /\ rateOK(bd, cost, now)

SubmitAt(bd, jobID, c, w, now, wal) ==
  LET rate == RateOrFlat(bd, c)
      cost == rate * w
      esc  == [C |-> rate, Reserved |-> cost, W |-> w, Started |-> FALSE,
               BurstResv |-> 0, Submitted |-> now]
  IN  IF Solvent(bd, cost, now) /\ jobID \notin DOMAIN bd.escrows
      THEN logCmd(bd,
                  [bd EXCEPT !.B = @ - cost, !.ReservedTotal = @ + cost,
                             !.escrows = Put(@, jobID, esc)],
                  [kind |-> "submit", id |-> jobID, c |-> rate, w |-> w,
                   now |-> now], wal)
      ELSE Rejected(bd)

(* Mutant: a dry run that forgets the burst verdict.                       *)
SimulateNoBurst(bd, c, w, now) == Solvent(bd, RateOrFlat(bd, c) * w, now)

Simulate(bd, c, w, now) ==
  LET rate == RateOrFlat(bd, c)
  IN  Solvent(bd, rate * w, now) /\ burstDispatchVerdict(bd, rate, w, now)

(* The dispatch gate of Start and StartTask on a bucket already accrued.   *)
BurstResvFor(b, c, w) ==
  IF b.BurstEnabled THEN burstReserveForRate(b, c, w) ELSE 0

BurstGate(b, resv) ==
  resv > 0 => /\ b.BurstDrawCap > 0 => resv <= b.BurstDrawCap
              /\ resv <= b.burstPot

Burning(b, c) == IF b.BurstEnabled THEN [b EXCEPT !.rLive = @ + c] ELSE b

(* A rejected dispatch keeps its accrual; on the path that reserves no     *)
(* tokens rLive is raised before the command is logged.                    *)
Start(bd, jobID, now, wal) ==
  LET e       == bd.escrows[jobID]
      b       == accrue(bd, now)
      resv    == BurstResvFor(b, e.C, e.W)
      burning == Burning(b, e.C)
  IN  IF jobID \notin DOMAIN bd.escrows THEN Rejected(bd)
      ELSE IF e.Started THEN [ok |-> TRUE, bd |-> bd, log |-> <<>>]
      ELSE IF ~BurstGate(b, resv) THEN Rejected(b)
      ELSE logCmd(IF resv > 0 THEN b ELSE burning,
                  [burning EXCEPT !.burstPot = @ - resv,
                     !.escrows[jobID].Started = TRUE,
                     !.escrows[jobID].BurstResv = resv],
                  [kind |-> "start", id |-> jobID, now |-> now], wal)

Clamp(x, hi) == IF x < 0 THEN 0 ELSE IF x > hi THEN hi ELSE x

(* Move a reservation of `held' units out of the books: `used' is billed   *)
(* or written off, the tail goes back to the balance.                      *)
Bill(b, held, used, writeOff) ==
  [b EXCEPT !.ReservedTotal = @ - held,
            !.B = @ + (held - used),
            !.WriteOff = IF writeOff THEN @ + used ELSE @,
            !.Consumed = IF writeOff THEN @ ELSE @ + used]

(* Mutants: a job that never started stops burning too; the returned tail  *)
(* is not capped by the ceiling.                                           *)
StopUnstarted(b, c, w, started, resv, runtime) ==
  IF ~b.BurstEnabled THEN b
  ELSE [b EXCEPT !.rLive = IF @ < c THEN 0 ELSE @ - c]

StopUncapped(b, c, w, started, resv, runtime) ==
  IF ~b.BurstEnabled \/ ~started THEN b
  ELSE [b EXCEPT !.rLive = IF @ < c THEN 0 ELSE @ - c,
                 !.burstPot = @ + (resv * (w - runtime)) \div w]

(* A dispatched job or task stops burning; its unused token tail returns.  *)
StopBurning(b, c, w, started, resv, runtime) ==
  LET pot == b.burstPot + (resv * (w - runtime)) \div w
  IN  IF ~b.BurstEnabled \/ ~started THEN b
      ELSE [b EXCEPT !.rLive = IF @ < c THEN 0 ELSE @ - c,
                     !.burstPot = IF ~(resv > 0 /\ w > 0) THEN @
                                  ELSE IF pot > burstCeiling(b)
                                       THEN burstCeiling(b) ELSE pot]

settle(bd, jobID, runtime, writeOff, now) ==
  LET e    == bd.escrows[jobID]
      rt   == Clamp(runtime, e.W)
      paid == Bill(accrue(bd, now), e.Reserved, e.C * rt, writeOff)
      done == StopBurning(paid, e.C, e.W, e.Started, e.BurstResv, rt)
  IN  [done EXCEPT !.escrows = Drop(@, jobID)]

Settled(bd, jobID, runtime, writeOff, now, cmd, wal) ==
  IF jobID \notin DOMAIN bd.escrows THEN Rejected(bd)
  ELSE logCmd(bd, settle(bd, jobID, runtime, writeOff, now), cmd, wal)

Complete(bd, jobID, runtime, now, wal) ==
  Settled(bd, jobID, runtime, FALSE, now,
          [kind |-> "complete", id |-> jobID, runtime |-> runtime,
           now |-> now], wal)

Timeout(bd, jobID, now, wal) ==
  Settled(bd, jobID, bd.escrows[jobID].W, FALSE, now,
          [kind |-> "timeout", id |-> jobID, now |-> now], wal)

Cancel(bd, jobID, elapsed, now, wal) ==
  Settled(bd, jobID, IF bd.escrows[jobID].Started THEN elapsed ELSE 0,
          FALSE, now,
          [kind |-> "cancel", id |-> jobID, elapsed |-> elapsed,
           now |-> now], wal)

InfraFail(bd, jobID, elapsed, now, wal) ==
  Settled(bd, jobID, elapsed, ~bd.BillInfraFailures, now,
          [kind |-> "infrafail", id |-> jobID, elapsed |-> elapsed,
           now |-> now], wal)

(* The only method that commits even when the append fails.                *)
Lapse(bd, wal) ==
  [ok |-> TRUE, bd |-> [bd EXCEPT !.status = "Lapsed"],
   log |-> IF wal THEN <<[kind |-> "lapse"]>> ELSE <<>>]

TopUpXfer(bd, amount, xfer, now, wal) ==
  IF amount <= 0 THEN Rejected(bd)
  ELSE logCmd(bd, [bd EXCEPT !.B = @ + amount, !.B0 = @ + amount],
              [kind |-> "topup", amount |-> amount, xfer |-> xfer,
               now |-> now], wal)

(* Mutants: the allocation keeps what left the balance; the balance is not *)
(* checked.                                                                *)
WithdrawKeepsB0(bd, amount, xfer, now, wal) ==
  IF amount <= 0 \/ amount > bd.B THEN Rejected(bd)
  ELSE logCmd(bd, [bd EXCEPT !.B = @ - amount], [kind |-> "withdraw"], wal)

WithdrawUnchecked(bd, amount, xfer, now, wal) ==
  IF amount <= 0 THEN Rejected(bd)
  ELSE logCmd(bd, [bd EXCEPT !.B = @ - amount, !.B0 = @ - amount],
              [kind |-> "withdraw"], wal)

WithdrawXfer(bd, amount, xfer, now, wal) ==
  IF amount <= 0 \/ amount > bd.B THEN Rejected(bd)
  ELSE logCmd(bd, [bd EXCEPT !.B = @ - amount, !.B0 = @ - amount],
              [kind |-> "withdraw", amount |-> amount, xfer |-> xfer,
               now |-> now], wal)

(* Mutants: the escrow's own hold is not lowered; a started job is         *)
(* repriced.                                                               *)
RepriceKeepsHold(bd, jobID, newRate, now, wal) ==
  LET e     == bd.escrows[jobID]
      delta == (e.C - newRate) * e.W
  IN  IF jobID \notin DOMAIN bd.escrows \/ e.Started \/ newRate > e.C
      THEN Rejected(bd)
      ELSE logCmd(bd, [bd EXCEPT !.escrows[jobID].C = newRate,
                                 !.ReservedTotal = @ - delta,
                                 !.B = @ + delta], [kind |-> "reprice"], wal)

RepriceStarted(bd, jobID, newRate, now, wal) ==
  LET e     == bd.escrows[jobID]
      delta == (e.C - newRate) * e.W
  IN  IF jobID \notin DOMAIN bd.escrows \/ newRate > e.C
      THEN Rejected(bd)
      ELSE logCmd(bd, [bd EXCEPT !.escrows[jobID].C = newRate,
                                 !.escrows[jobID].Reserved = @ - delta,
                                 !.ReservedTotal = @ - delta,
                                 !.B = @ + delta], [kind |-> "reprice"], wal)

Reprice(bd, jobID, newRate, now, wal) ==
  LET e     == bd.escrows[jobID]
      delta == (e.C - newRate) * e.W
  IN  IF \/ jobID \notin DOMAIN bd.escrows
         \/ e.Started
         \/ newRate <= 0 \/ newRate > e.C
      THEN Rejected(bd)
      ELSE logCmd(bd,
                  [bd EXCEPT !.escrows[jobID].C = newRate,
                             !.escrows[jobID].Reserved = @ - delta,
                             !.ReservedTotal = @ - delta,
                             !.B = @ + delta],
                  [kind |-> "reprice", id |-> jobID, c |-> newRate,
                   now |-> now], wal)

SetRate(bd, c, now, wal) ==
  IF c <= 0 THEN Rejected(bd)
  ELSE logCmd(bd, [bd EXCEPT !.C = c],
              [kind |-> "setrate", c |-> c, now |-> now], wal)

(* Mutant: an empty window is accepted.                                    *)
SetWindowEmpty(bd, ts, te, now, wal) ==
  IF ts > te THEN Rejected(bd)
  ELSE logCmd(bd, [bd EXCEPT !.TS = ts, !.TE = te],
              [kind |-> "setwindow"], wal)

SetWindow(bd, ts, te, now, wal) ==
  IF ts >= te THEN Rejected(bd)
  ELSE logCmd(bd, [bd EXCEPT !.TS = ts, !.TE = te],
              [kind |-> "setwindow", ts |-> ts, te |-> te, now |-> now], wal)

BurstConfigOK(enabled, pct, cap) ==
  IF enabled THEN 0 < pct /\ pct <= PctDen /\ cap >= 0
             ELSE pct = 0 /\ cap = 0

SetBurst(bd, enabled, pct, cap, now, wal) ==
  LET off  == [bd EXCEPT !.BurstEnabled = FALSE, !.BurstCeilingPct = 0,
                         !.BurstDrawCap = 0, !.burstPot = 0, !.rLive = 0,
                         !.fracAcc = 0]
      from == IF bd.BurstEnabled THEN accrue(bd, now)
              ELSE [bd EXCEPT !.BurstEnabled = TRUE, !.lastTouch = now]
      on   == [from EXCEPT !.BurstCeilingPct = pct, !.BurstDrawCap = cap]
      over == on.burstPot > burstCeiling(on)
  IN  IF ~BurstConfigOK(enabled, pct, cap) THEN Rejected(bd)
      ELSE logCmd(bd,
                  IF ~enabled THEN off
                  ELSE IF over THEN [on EXCEPT !.burstPot = burstCeiling(on),
                                               !.fracAcc = 0]
                  ELSE on,
                  [kind |-> "setburst", on |-> enabled, pct |-> pct,
                   amount |-> cap, now |-> now], wal)

-----------------------------------------------------------------------------
(* One submission, N tasks (array.go).                                     *)

slice(ae) == ae.C * ae.W

SubmitArrayAt(bd, arrayID, c, n, w, now, wal) ==
  LET rate == RateOrFlat(bd, c)
      cost == rate * w * n
      esc  == [C |-> rate, W |-> w, N |-> n, Remaining |-> n,
               Reserved |-> cost, Submitted |-> now,
               tasks |-> [i \in 0 .. (n - 1) |-> NoTask]]
  IN  IF /\ n > 0 /\ w > 0
         /\ arrayID \notin DOMAIN bd.arrays
         /\ Solvent(bd, cost, now)
      THEN logCmd(bd,
                  [bd EXCEPT !.B = @ - cost, !.ReservedTotal = @ + cost,
                             !.arrays = Put(@, arrayID, esc)],
                  [kind |-> "submitarray", id |-> arrayID, c |-> rate,
                   n |-> n, w |-> w, now |-> now], wal)
      ELSE Rejected(bd)

HasTask(bd, arrayID, idx) ==
  arrayID \in DOMAIN bd.arrays /\ idx \in DOMAIN bd.arrays[arrayID].tasks

Unsettled(bd, arrayID, idx) ==
  HasTask(bd, arrayID, idx) /\ ~bd.arrays[arrayID].tasks[idx].settled

StartTask(bd, arrayID, idx, now, wal) ==
  LET ae      == bd.arrays[arrayID]
      b       == accrue(bd, now)
      resv    == BurstResvFor(b, ae.C, ae.W)
      burning == Burning(b, ae.C)
  IN  IF ~Unsettled(bd, arrayID, idx) THEN Rejected(bd)
      ELSE IF ae.tasks[idx].started
           THEN [ok |-> TRUE, bd |-> bd, log |-> <<>>]
      ELSE IF ~BurstGate(b, resv) THEN Rejected(b)
      ELSE logCmd(IF resv > 0 THEN b ELSE burning,
                  [burning EXCEPT !.burstPot = @ - resv,
                     !.arrays[arrayID].tasks[idx].started = TRUE,
                     !.arrays[arrayID].tasks[idx].burstResv = resv],
                  [kind |-> "starttask", id |-> arrayID, idx |-> idx,
                   now |-> now], wal)

settleTask(bd, arrayID, idx, runtime, writeOff, now) ==
  LET ae   == bd.arrays[arrayID]
      ts   == ae.tasks[idx]
      rt   == Clamp(runtime, ae.W)
      paid == Bill(accrue(bd, now), slice(ae), ae.C * rt, writeOff)
      done == StopBurning(paid, ae.C, ae.W, ts.started, ts.burstResv, rt)
      left == [ae EXCEPT !.Reserved = @ - slice(ae), !.Remaining = @ - 1,
                         !.tasks[idx].settled = TRUE]
  IN  [done EXCEPT !.arrays = IF left.Remaining = 0 THEN Drop(@, arrayID)
                              ELSE [@ EXCEPT ![arrayID] = left]]

logTaskCmd(kind, arrayID, idx, runtime, now) ==
  [kind |-> kind, id |-> arrayID, idx |-> idx, runtime |-> runtime,
   now |-> now]

(* Mutant: a task already settled is settled again.                        *)
SettledTwice(bd, arrayID, idx, runtime, writeOff, now, cmd, wal) ==
  IF wal /\ HasTask(bd, arrayID, idx)
  THEN [ok |-> TRUE, log |-> <<cmd>>,
        bd |-> settleTask(bd, arrayID, idx, runtime, writeOff, now)]
  ELSE Rejected(bd)

(* The array exits log their command before settleTask validates the task, *)
(* so a settle that is then refused has left a record in the log.          *)
SettledTask(bd, arrayID, idx, runtime, writeOff, now, cmd, wal) ==
  LET open == Unsettled(bd, arrayID, idx)
  IN  IF ~wal THEN Rejected(bd)
      ELSE [ok |-> open, log |-> <<cmd>>,
            bd |-> IF open
                   THEN settleTask(bd, arrayID, idx, runtime, writeOff, now)
                   ELSE bd]

CompleteTask(bd, arrayID, idx, runtime, now, wal) ==
  SettledTask(bd, arrayID, idx, runtime, FALSE, now,
              logTaskCmd("completetask", arrayID, idx, runtime, now), wal)

TimeoutTask(bd, arrayID, idx, now, wal) ==
  IF arrayID \notin DOMAIN bd.arrays THEN Rejected(bd)
  ELSE SettledTask(bd, arrayID, idx, bd.arrays[arrayID].W, FALSE, now,
                   logTaskCmd("timeouttask", arrayID, idx, 0, now), wal)

CancelTask(bd, arrayID, idx, elapsed, now, wal) ==
  IF ~HasTask(bd, arrayID, idx) THEN Rejected(bd)
  ELSE SettledTask(bd, arrayID, idx,
                   IF bd.arrays[arrayID].tasks[idx].started THEN elapsed ELSE 0,
                   FALSE, now,
                   logTaskCmd("canceltask", arrayID, idx, elapsed, now), wal)

InfraFailTask(bd, arrayID, idx, elapsed, now, wal) ==
  IF arrayID \notin DOMAIN bd.arrays THEN Rejected(bd)
  ELSE SettledTask(bd, arrayID, idx, elapsed, ~bd.BillInfraFailures, now,
                   logTaskCmd("infrafailtask", arrayID, idx, elapsed, now), wal)
=============================================================================
