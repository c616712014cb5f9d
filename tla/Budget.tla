------------------------------- MODULE Budget -------------------------------
(***************************************************************************)
(* One live budget of the daemon: the record guarded by bd.mu, the         *)
(* lock-free ReadView published beside it, and the logical clock the       *)
(* callers read.  One action per method of Budget; concurrent handlers     *)
(* serialise on bd.mu, so their interleavings are the interleavings of     *)
(* these actions.                                                          *)
(*                                                                         *)
(* The handlers read the clock before they take the lock, so a method may  *)
(* run with a `now' up to Skew seconds behind the latest one used (never   *)
(* before the budget was created: the clock starts Skew after that).       *)
(***************************************************************************)
EXTENDS Kernel, Coins

CONSTANTS
  JobIDs, ArrayIDs,  \* keys of the two escrow maps
  Rates,             \* rates a gate may pass; <= 0 asks for the flat rate
  NewRates,          \* rates an admin or a BIND may set
  Walltimes,         \* requested walltimes
  Runtimes,          \* runtimes reported at settle, as they arrive
  TaskCounts,        \* array sizes
  TaskIdxs,          \* task indices a caller may name
  Amounts,           \* top-up and withdraw amounts
  Windows,           \* <<ts, te>> pairs for SetWindow
  BurstConfigs,      \* <<enabled, pct, cap>> triples for SetBurst
  NewConfigs,        \* configurations a budget is created with
  WalOutcomes,       \* may an append succeed (TRUE), fail (FALSE)?
  MaxClock, Skew,    \* bound on the clock; staleness of a caller's clock
  MaxB0              \* bound on the allocation top-ups may reach

NewConfig ==
  [C : Nat \ {0}, TS : Int, TE : Int, B0 : Nat, BillInfraFailures : BOOLEAN,
   K : Int, BurstEnabled : BOOLEAN, BurstCeilingPct : 1 .. PctDen,
   BurstDrawCap : Nat]

ASSUME InputAssumption ==
  /\ Rates \subseteq Int /\ NewRates \subseteq Int
  /\ Walltimes \subseteq Nat /\ Runtimes \subseteq Int
  /\ TaskCounts \subseteq Int /\ TaskIdxs \subseteq Int /\ Amounts \subseteq Int
  /\ Windows \subseteq Int \X Int
  /\ BurstConfigs \subseteq BOOLEAN \X Int \X Int
  /\ NewConfigs \subseteq NewConfig
  /\ \A cfg \in NewConfigs : cfg.TS < cfg.TE
  /\ WalOutcomes \subseteq BOOLEAN
  /\ MaxClock \in Nat /\ Skew \in Nat /\ MaxB0 \in Nat

VARIABLES bd,     \* the budget
          view,   \* the ReadView last published
          clock   \* the latest clock reading any caller has used

vars == <<bd, view, clock>>

Init ==
  /\ \E cfg \in NewConfigs : /\ bd = NewDurableBurst(cfg)
                              /\ clock = cfg.TS + Skew
  /\ view = publishLocked(bd)

Nows == (clock - Skew) .. clock

(* A method that defers publishLocked refreshes the view on every return;  *)
(* one that settles publishes from the settle core, on success only.       *)
Publish(r) ==
  /\ bd' = r.bd
  /\ view' = publishLocked(r.bd)
  /\ UNCHANGED clock

PublishIfOK(r) ==
  /\ bd' = r.bd
  /\ view' = IF r.ok THEN publishLocked(r.bd) ELSE view
  /\ UNCHANGED clock

-----------------------------------------------------------------------------
DoSubmit(j, c, w) ==
  \E now \in Nows, wal \in WalOutcomes :
    Publish(SubmitAt(bd, j, c, w, now, wal))

DoStart(j) ==
  \E now \in Nows, wal \in WalOutcomes : Publish(Start(bd, j, now, wal))

DoComplete(j, rt) ==
  \E now \in Nows, wal \in WalOutcomes :
    PublishIfOK(Complete(bd, j, rt, now, wal))

DoTimeout(j) ==
  \E now \in Nows, wal \in WalOutcomes :
    PublishIfOK(Timeout(bd, j, now, wal))

DoCancel(j, rt) ==
  \E now \in Nows, wal \in WalOutcomes :
    PublishIfOK(Cancel(bd, j, rt, now, wal))

DoInfraFail(j, rt) ==
  \E now \in Nows, wal \in WalOutcomes :
    PublishIfOK(InfraFail(bd, j, rt, now, wal))

DoReprice(j, c) ==
  \E now \in Nows, wal \in WalOutcomes :
    Publish(Reprice(bd, j, c, now, wal))

DoSubmitArray(a, c, n, w) ==
  \E now \in Nows, wal \in WalOutcomes :
    Publish(SubmitArrayAt(bd, a, c, n, w, now, wal))

DoStartTask(a, i) ==
  \E now \in Nows, wal \in WalOutcomes :
    Publish(StartTask(bd, a, i, now, wal))

DoCompleteTask(a, i, rt) ==
  \E now \in Nows, wal \in WalOutcomes :
    PublishIfOK(CompleteTask(bd, a, i, rt, now, wal))

DoTimeoutTask(a, i) ==
  \E now \in Nows, wal \in WalOutcomes :
    PublishIfOK(TimeoutTask(bd, a, i, now, wal))

DoCancelTask(a, i, rt) ==
  \E now \in Nows, wal \in WalOutcomes :
    PublishIfOK(CancelTask(bd, a, i, rt, now, wal))

DoInfraFailTask(a, i, rt) ==
  \E now \in Nows, wal \in WalOutcomes :
    PublishIfOK(InfraFailTask(bd, a, i, rt, now, wal))

DoTopUp(amt) ==
  /\ bd.B0 + amt <= MaxB0
  /\ \E now \in Nows, wal \in WalOutcomes :
       Publish(TopUpXfer(bd, amt, "", now, wal))

DoWithdraw(amt) ==
  \E now \in Nows, wal \in WalOutcomes :
    Publish(WithdrawXfer(bd, amt, "", now, wal))

DoSetRate(c) ==
  \E now \in Nows, wal \in WalOutcomes : Publish(SetRate(bd, c, now, wal))

DoSetWindow(win) ==
  \E now \in Nows, wal \in WalOutcomes :
    Publish(SetWindow(bd, win[1], win[2], now, wal))

DoSetBurst(b) ==
  \E now \in Nows, wal \in WalOutcomes :
    Publish(SetBurst(bd, b[1], b[2], b[3], now, wal))

(* Lapse neither publishes nor reports a failed append.                    *)
DoLapse ==
  /\ \E wal \in WalOutcomes : bd' = Lapse(bd, wal).bd
  /\ UNCHANGED <<view, clock>>

(* Report and BurstSnapshot accrue the bucket they report: an unlogged,    *)
(* unpublished change made by a read.                                      *)
Report ==
  /\ \E now \in Nows : bd' = accrue(bd, now)
  /\ UNCHANGED <<view, clock>>

Tick ==
  /\ clock < MaxClock
  /\ clock' = clock + 1
  /\ UNCHANGED <<bd, view>>

-----------------------------------------------------------------------------
JobStep(j) ==
  \/ \E c \in Rates, w \in Walltimes : DoSubmit(j, c, w)
  \/ DoStart(j)
  \/ DoTimeout(j)
  \/ \E rt \in Runtimes :
       DoComplete(j, rt) \/ DoCancel(j, rt) \/ DoInfraFail(j, rt)
  \/ \E c \in NewRates : DoReprice(j, c)

ArrayStep(a) ==
  \/ \E c \in Rates, n \in TaskCounts, w \in Walltimes :
       DoSubmitArray(a, c, n, w)
  \/ \E i \in TaskIdxs :
       \/ DoStartTask(a, i)
       \/ DoTimeoutTask(a, i)
       \/ \E rt \in Runtimes : \/ DoCompleteTask(a, i, rt)
                               \/ DoCancelTask(a, i, rt)
                               \/ DoInfraFailTask(a, i, rt)

AdminStep ==
  \/ \E amt \in Amounts : DoTopUp(amt) \/ DoWithdraw(amt)
  \/ \E c \in NewRates : DoSetRate(c)
  \/ \E win \in Windows : DoSetWindow(win)
  \/ \E b \in BurstConfigs : DoSetBurst(b)
  \/ DoLapse

Next ==
  \/ \E j \in JobIDs : JobStep(j)
  \/ \E a \in ArrayIDs : ArrayStep(a)
  \/ AdminStep
  \/ Report
  \/ Tick

Spec == Init /\ [][Next]_vars

-----------------------------------------------------------------------------
Escrow ==
  [C : Nat \ {0}, Reserved : Int, W : Nat, Started : BOOLEAN,
   BurstResv : Int, Submitted : Int]

Task == [started : BOOLEAN, settled : BOOLEAN, burstResv : Int]

IsArrayEscrow(ae) ==
  ae \in [C : Nat \ {0}, W : Nat \ {0}, N : Nat \ {0}, Remaining : Int,
         Reserved : Int, Submitted : Int, tasks : [0 .. (ae.N - 1) -> Task]]

Typed(b) ==
  /\ b \in [C : Nat \ {0}, TS : Int, TE : Int, B : Int,
           ReservedTotal : Int, Consumed : Int, WriteOff : Int, B0 : Int,
           BillInfraFailures : BOOLEAN, K : Int, BurstEnabled : BOOLEAN,
           BurstCeilingPct : 0 .. PctDen, BurstDrawCap : Nat,
           burstPot : Int, fracAcc : Int, rLive : Int, lastTouch : Int,
           escrows : [DOMAIN b.escrows -> Escrow], arrays : {b.arrays},
           status : {"Active", "Lapsed"}]
  /\ b.TS < b.TE
  /\ DOMAIN b.escrows \subseteq JobIDs
  /\ DOMAIN b.arrays \subseteq ArrayIDs
  /\ b.arrays = [a \in DOMAIN b.arrays |-> b.arrays[a]]
  /\ \A a \in DOMAIN b.arrays : IsArrayEscrow(b.arrays[a])

(* Types.  Amounts are only integers here: that none is negative is what   *)
(* NoOverdraft and PermissionEarned say.                                   *)
TypeOK == Typed(bd) /\ clock \in Int

(* Conservation (budget.go ConservationOK): every unit ever allocated is   *)
(* in exactly one of balance, reservations, billed or written off.         *)
Conserved(b) == b.B0 = b.B + b.ReservedTotal + b.Consumed + b.WriteOff

ConservationOK == Conserved(bd)

(* The denormalised ReservedTotal that the rate check reads without a scan *)
(* is what the live escrows hold: no settle, reprice or refused submit     *)
(* strands a reservation or releases one twice.                            *)
EscrowHolds(b) == [j \in DOMAIN b.escrows |-> b.escrows[j].Reserved]
ArrayHolds(b)  == [a \in DOMAIN b.arrays |-> b.arrays[a].Reserved]

HoldsAddUp(b) ==
  b.ReservedTotal = Total(EscrowHolds(b)) + Total(ArrayHolds(b))

ReservedIsHeld == HoldsAddUp(bd)

(* No overdraft: the balance, and every part of the books, stays           *)
(* non-negative whatever the interleaving of gates, settles, reprices and  *)
(* withdrawals.                                                            *)
NoneNegative(b) ==
  b.B >= 0 /\ b.ReservedTotal >= 0 /\ b.Consumed >= 0 /\ b.WriteOff >= 0

NoOverdraft == NoneNegative(bd)

(* Every escrow holds what its settles will need: a job's its frozen rate  *)
(* times its funded walltime, so that the tail settle computes is never    *)
(* negative, repriced or not; an array's one slice per task still          *)
(* unsettled, and a live array has one (the equality settleTask panics     *)
(* on).  A task settled twice would break it while conservation held.      *)
Funded(e) == e.Reserved = e.C * e.W

Open(ae) == {i \in DOMAIN ae.tasks : ~ae.tasks[i].settled}

SlicesOK(ae) ==
  /\ ae.Reserved = ae.Remaining * slice(ae)
  /\ ae.Remaining = Cardinality(Open(ae))
  /\ ae.Remaining > 0

EscrowsFunded ==
  /\ \A j \in DOMAIN bd.escrows : Funded(bd.escrows[j])
  /\ \A a \in DOMAIN bd.arrays : SlicesOK(bd.arrays[a])

(* The aggregate burn rate the burst gate compares with r0 is the sum of   *)
(* the rates of the jobs and tasks now running (budget.go, field rLive).   *)
Running(ae) == {i \in DOMAIN ae.tasks :
                  ae.tasks[i].started /\ ~ae.tasks[i].settled}

LiveBurn(b) ==
  Total([j \in DOMAIN b.escrows |->
           IF b.escrows[j].Started THEN b.escrows[j].C ELSE 0]) +
  Total([a \in DOMAIN b.arrays |->
           b.arrays[a].C * Cardinality(Running(b.arrays[a]))])

RLiveIsLiveBurn == bd.BurstEnabled => bd.rLive = LiveBurn(bd)

(* A withdrawal may leave the pot above the ceiling it lowers, but no step *)
(* fills the pot past the ceiling: accrual, the return of an unused tail   *)
(* and a retune all stop there (burst.go, accrue; budget.go, settle).      *)
CeilingCaps ==
  [][bd'.burstPot > bd.burstPot => bd'.burstPot <= burstCeiling(bd')]_bd

(* Permission comes only from idle pace and is never overspent: the tokens *)
(* in the pot and in live reservations never exceed what the sustainable   *)
(* rate r0 = B0/T of the largest allocation the account may reach has      *)
(* earned since the window opened, and none of them, nor the remainder,    *)
(* leaves its bounds (burst.go, BurstBoundsOK).                            *)
TokensOut(b) ==
  b.burstPot +
  Total([j \in DOMAIN b.escrows |-> b.escrows[j].BurstResv]) +
  Cardinality(UNION {UNION {{<<a, i>>} \X (1 .. b.arrays[a].tasks[i].burstResv) :
                              i \in Running(b.arrays[a])} :
                     a \in DOMAIN b.arrays})

PermissionEarned ==
  /\ bd.burstPot >= 0 /\ bd.fracAcc \in 0 .. (window(bd) - 1)
  /\ \A j \in DOMAIN bd.escrows : bd.escrows[j].BurstResv >= 0
  /\ bd.BurstEnabled =>
       TokensOut(bd) * window(bd) + bd.fracAcc <= MaxB0 * (bd.lastTouch - bd.TS)

(* The lock-free dispatch answer computed from the published view is the   *)
(* answer the authoritative Start gate would give (dispatch.go).           *)
GateWouldStart(b, c, w) ==
  LET a == accrue(b, clock)
  IN  BurstGate(a, BurstResvFor(a, c, w))

DispatchAgrees ==
  \A c \in NewRates, w \in Walltimes :
    MayDispatch(view, c, w, clock) <=> GateWouldStart(bd, c, w)

(* The dry run is honest: Simulate admits exactly when a submit followed   *)
(* at once by a dispatch would both be accepted (simulate.go).             *)
SimulateAgrees ==
  \A j \in JobIDs \ DOMAIN bd.escrows, c \in Rates, w \in Walltimes :
    LET s == SubmitAt(bd, j, c, w, clock, TRUE)
    IN  Simulate(bd, c, w, clock) <=>
          s.ok /\ Start(s.bd, j, clock, TRUE).ok

(* A budget implements the ledger its owner is promised (Ledger): whatever *)
(* the order of gates, binds, settles, reprices and admin verbs, a bill    *)
(* comes only out of the hold of its own job or array, never out of the    *)
(* balance or another hold; a hold never grows, and nothing takes money    *)
(* out from under a started job.                                           *)
HoldsOf(b) ==
  [k \in ({"job"} \X DOMAIN b.escrows) \cup ({"array"} \X DOMAIN b.arrays) |->
     IF k[1] = "job"
     THEN [amount |-> b.escrows[k[2]].Reserved,
           state |-> IF b.escrows[k[2]].Started THEN "running" ELSE "waiting"]
     ELSE [amount |-> b.arrays[k[2]].Reserved, state |-> "parts"]]

Promise == INSTANCE Ledger WITH
  balance <- bd.B, holds <- HoldsOf(bd), spent <- bd.Consumed + bd.WriteOff

LedgerKept == Promise!Spec
=============================================================================
