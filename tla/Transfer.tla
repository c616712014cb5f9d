------------------------------ MODULE Transfer ------------------------------
(***************************************************************************)
(* obol transfer (transfer.go): money moves between two accounts by a      *)
(* withdraw on one budget and a top-up on the other, each logged in its    *)
(* own write-ahead log under the transfer's id, with a journal record that *)
(* lets the next start finish a transfer a crash has cut in two.           *)
(*                                                                         *)
(* Each account is a Kernel budget and its log.  A log entry keeps the     *)
(* budget its command left, so that opening the account is reading the     *)
(* last entry: that replay rebuilds exactly that is shown in Durable.      *)
(* Burst is off; transfers move money only.                                *)
(***************************************************************************)
EXTENDS Kernel, Coins, Sequences

CONSTANTS
  Accounts,       \* the accounts of the registry
  Xfers,          \* transfer ids, each minted at most once
  Amounts,        \* amounts asked for
  Alls,           \* {TRUE} or {}: is the whole balance asked for
  Opening,        \* balance each account is created with
  Faults,         \* the faults of a behaviour are one of these: subsets of
                  \* {"kill", "power", "io"}, io for a write, rename or
                  \* unlink that returns an error
  MaxLog,         \* log length at which gates stop
  MaxCrashes

(* An account is created with no debt; an id is never empty (mintXferID).  *)
ASSUME TransferAssumption ==
  /\ IsFiniteSet(Accounts) /\ Opening \in Nat /\ Amounts \subseteq Int
  /\ "" \notin Xfers

VARIABLES
  bds,       \* account -> budget in memory
  logs,      \* account -> its log, a sequence of [kind, xfer, after]
  synced,    \* account -> entries on stable storage
  open,      \* account -> is its log handle open
  journal,   \* records in the transfers directory
  pc,        \* transfer -> next step of the goroutine in Registry.Transfer
  rec,       \* transfer -> its record, once decided
  status,    \* "up", "closing", "down", "recovering", "refused"
  crashes,
  faults,    \* the faults that may happen
  lost       \* history: has a power loss cut a leg of a transfer off a log

history == <<faults, lost>>
vars == <<bds, logs, synced, open, journal, pc, rec, status, crashes, history>>

Record == [XferID : Xfers, From : Accounts, To : Accounts, Amount : Nat]
NoRecord == [XferID |-> "none"]

NewAccount(a) ==
  NewDurableBurst([C |-> 1, TS |-> 0, TE |-> 9, B0 |-> Opening,
                   BillInfraFailures |-> FALSE, K |-> 0,
                   BurstEnabled |-> FALSE, BurstCeilingPct |-> 0,
                   BurstDrawCap |-> 0])

Init ==
  /\ bds = [a \in Accounts |-> NewAccount(a)]
  /\ logs = [a \in Accounts |-> <<>>]
  /\ synced = [a \in Accounts |-> 0] /\ open = [a \in Accounts |-> TRUE]
  /\ journal = {} /\ status = "up" /\ crashes = 0
  /\ lost = FALSE /\ faults \in Faults
  /\ pc = [x \in Xfers |-> "idle"] /\ rec = [x \in Xfers |-> NoRecord]

(* HasXfer: does the log hold a leg of kind k tagged x.                    *)
HasXfer(log, k, x) ==
  \E i \in 1 .. Len(log) : log[i].kind = k /\ log[i].xfer = x

(* A logged call on account a; r is the method's result.                   *)
Commit(a, r, x) ==
  /\ bds' = [bds EXCEPT ![a] = r.bd]
  /\ logs' = [logs EXCEPT ![a] =
                IF r.log = <<>> THEN @
                ELSE Append(@, [kind |-> r.log[1].kind, xfer |-> x,
                                after |-> r.bd])]

(* Whether an append to a's log can succeed, or fail.                      *)
Outcomes(a) ==
  IF ~open[a] THEN {FALSE}
  ELSE IF "io" \in faults THEN {TRUE, FALSE} ELSE {TRUE}

Running == status \in {"up", "closing"}

-----------------------------------------------------------------------------
(* Registry.Transfer, one step per file operation and per budget call.     *)

(* Mutant: a transfer from an account to itself.                           *)
DecideSelf(x, from, to, amt) ==
  /\ status = "up" /\ pc[x] = "idle"
  /\ amt > 0 /\ amt <= bds[from].B
  /\ rec' = [rec EXCEPT ![x] = [XferID |-> x, From |-> from, To |-> to,
                                Amount |-> amt]]
  /\ pc' = [pc EXCEPT ![x] = "journal"]
  /\ UNCHANGED <<bds, logs, synced, open, journal, status, crashes, history>>

(* Decide the amount and refuse an impossible move before journaling.      *)
Decide(x, from, to, amt) ==
  /\ status = "up" /\ pc[x] = "idle" /\ from # to
  /\ amt > 0 /\ amt <= bds[from].B
  /\ rec' = [rec EXCEPT ![x] = [XferID |-> x, From |-> from, To |-> to,
                                Amount |-> amt]]
  /\ pc' = [pc EXCEPT ![x] = "journal"]
  /\ UNCHANGED <<bds, logs, synced, open, journal, status, crashes, history>>

writeTransferRecord(x) ==
  /\ Running /\ pc[x] = "journal"
  /\ \/ /\ journal' = journal \cup {rec[x]}
        /\ pc' = [pc EXCEPT ![x] = "withdraw"]
     \/ "io" \in faults /\ pc' = [pc EXCEPT ![x] = "done"] /\ UNCHANGED journal
  /\ UNCHANGED <<bds, logs, synced, open, rec, status, crashes, history>>

Withdraw(x) ==
  /\ Running /\ pc[x] = "withdraw"
  /\ \E ok \in Outcomes(rec[x].From) :
       LET r == WithdrawXfer(bds[rec[x].From], rec[x].Amount, x, 0, ok)
       IN  /\ Commit(rec[x].From, r, x)
           /\ pc' = [pc EXCEPT ![x] = IF r.ok THEN "deposit" ELSE "delete"]
  /\ UNCHANGED <<synced, open, journal, rec, status, crashes, history>>

(* Mutant: the record is deleted whether or not the deposit was made.      *)
DepositOrDrop(x) ==
  /\ Running /\ pc[x] = "deposit"
  /\ \E ok \in Outcomes(rec[x].To) :
       Commit(rec[x].To, TopUpXfer(bds[rec[x].To], rec[x].Amount, x, 0, ok), x)
  /\ pc' = [pc EXCEPT ![x] = "delete"]
  /\ UNCHANGED <<synced, open, journal, rec, status, crashes, history>>

(* A deposit that fails leaves the record for the next start.              *)
Deposit(x) ==
  /\ Running /\ pc[x] = "deposit"
  /\ \E ok \in Outcomes(rec[x].To) :
       LET r == TopUpXfer(bds[rec[x].To], rec[x].Amount, x, 0, ok)
       IN  /\ Commit(rec[x].To, r, x)
           /\ pc' = [pc EXCEPT ![x] = IF r.ok THEN "delete" ELSE "done"]
  /\ UNCHANGED <<synced, open, journal, rec, status, crashes, history>>

deleteTransferRecord(x) ==
  /\ Running /\ pc[x] = "delete"
  /\ \/ journal' = journal \ {rec[x]}
     \/ "io" \in faults /\ UNCHANGED journal
  /\ pc' = [pc EXCEPT ![x] = "done"]
  /\ UNCHANGED <<bds, logs, synced, open, rec, status, crashes, history>>

TransferStep(x) ==
  \/ writeTransferRecord(x) \/ Withdraw(x) \/ Deposit(x)
  \/ deleteTransferRecord(x)

-----------------------------------------------------------------------------
(* The rest of the daemon: a gate drains the source between the check and  *)
(* the withdraw, and a settle bills it; the committers fsync each log on   *)
(* their own.                                                              *)
Gate(a) ==
  /\ Running /\ Len(logs[a]) < MaxLog
  /\ \E ok \in Outcomes(a) :
       Commit(a, SubmitAt(bds[a], "job", 0, 1, 0, ok), "")
  /\ UNCHANGED <<synced, open, journal, pc, rec, status, crashes, history>>

Settle(a) ==
  /\ Running
  /\ \E ok \in Outcomes(a) :
       Commit(a, Complete(bds[a], "job", 1, 0, ok), "")
  /\ UNCHANGED <<synced, open, journal, pc, rec, status, crashes, history>>

(* Mutant: off by one.                                                     *)
SyncAhead(a) ==
  /\ status # "down" /\ open[a] /\ synced[a] < Len(logs[a])
  /\ synced' = [synced EXCEPT ![a] = Len(logs[a]) + 1]
  /\ UNCHANGED <<bds, logs, open, journal, pc, rec, status, crashes, history>>

Sync(a) ==
  /\ status # "down" /\ open[a] /\ synced[a] < Len(logs[a])
  /\ synced' = [synced EXCEPT ![a] = Len(logs[a])]
  /\ UNCHANGED <<bds, logs, open, journal, pc, rec, status, crashes, history>>

(* A shutdown closes the logs one by one while handlers may still run.     *)
CloseLog(a) ==
  /\ Running /\ open[a] /\ crashes < MaxCrashes
  /\ status' = "closing"
  /\ open' = [open EXCEPT ![a] = FALSE]
  /\ synced' = [synced EXCEPT ![a] = Len(logs[a])]
  /\ UNCHANGED <<bds, logs, journal, pc, rec, crashes, history>>

(* The process ends, shut down or killed: its goroutines are gone.         *)
Exit ==
  /\ status' = "down" /\ crashes' = crashes + 1
  /\ pc' = [x \in Xfers |-> IF pc[x] = "idle" THEN "idle" ELSE "done"]
  /\ open' = [a \in Accounts |-> FALSE]

Kill ==
  /\ "kill" \in faults /\ status # "down" /\ status # "refused"
  /\ crashes < MaxCrashes /\ Exit
  /\ UNCHANGED <<bds, logs, synced, journal, rec, history>>

Stop ==
  /\ status = "closing" /\ \A a \in Accounts : ~open[a]
  /\ crashes < MaxCrashes /\ Exit
  /\ UNCHANGED <<bds, logs, synced, journal, rec, history>>

(* A power loss keeps of each log a prefix with what was fsynced.  The     *)
(* transfers directory is taken to survive as it was.                      *)
PowerLoss ==
  /\ "power" \in faults /\ status # "down" /\ status # "refused"
  /\ crashes < MaxCrashes /\ Exit
  /\ \E keep \in [Accounts -> UNION {synced[a] .. Len(logs[a]) :
                                       a \in Accounts}] :
       /\ \A a \in Accounts : keep[a] \in synced[a] .. Len(logs[a])
       /\ logs' = [a \in Accounts |-> SubSeq(logs[a], 1, keep[a])]
       /\ synced' = keep
       /\ lost' = (lost \/ \E a \in Accounts :
                            \E i \in (keep[a] + 1) .. Len(logs[a]) :
                              logs[a][i].xfer # "")
  /\ UNCHANGED <<bds, journal, rec, faults>>

-----------------------------------------------------------------------------
(* NewRegistry: open every account, then finish the journaled transfers,   *)
(* with nothing else running.                                              *)
Opened(a) ==
  IF logs[a] = <<>> THEN NewAccount(a) ELSE logs[a][Len(logs[a])].after

NewRegistry ==
  /\ status \in {"down", "refused"}
  /\ bds' = [a \in Accounts |-> Opened(a)]
  /\ synced' = [a \in Accounts |-> Len(logs[a])]
  /\ open' = [a \in Accounts |-> TRUE]
  /\ status' = "recovering"
  /\ UNCHANGED <<logs, journal, pc, rec, crashes, history>>

withdrew(t)  == HasXfer(logs[t.From], "withdraw", t.XferID)
deposited(t) == HasXfer(logs[t.To], "topup", t.XferID)

(* Mutant: the deposit is not looked for.                                  *)
CompleteAgain(t) ==
  /\ status = "recovering" /\ withdrew(t)
  /\ Len(logs[t.To]) < MaxLog + 2
  /\ Commit(t.To, TopUpXfer(bds[t.To], t.Amount, t.XferID, 0, TRUE), t.XferID)
  /\ UNCHANGED <<synced, open, journal, pc, rec, status, crashes, history>>

(* completeTransfer: the deposit is made when only the withdraw is logged; *)
(* an error, or a deposit without a withdraw, stops the daemon.            *)
completeTransfer(t) ==
  /\ status = "recovering"
  /\ \/ /\ withdrew(t) /\ ~deposited(t)
        /\ \E ok \in Outcomes(t.To) :
             LET r == TopUpXfer(bds[t.To], t.Amount, t.XferID, 0, ok)
             IN  /\ Commit(t.To, r, t.XferID)
                 /\ status' = IF r.ok THEN status ELSE "refused"
     \/ /\ ~withdrew(t) /\ deposited(t)
        /\ status' = "refused" /\ UNCHANGED <<bds, logs>>
  /\ UNCHANGED <<synced, open, journal, pc, rec, crashes, history>>

recoverTransfers(t) ==
  /\ status = "recovering" /\ (withdrew(t) <=> deposited(t))
  /\ \/ journal' = journal \ {t} /\ UNCHANGED status
     \/ "io" \in faults /\ status' = "refused" /\ UNCHANGED journal
  /\ UNCHANGED <<bds, logs, synced, open, pc, rec, crashes, history>>

(* Mutant: the daemon serves before the journal is empty.                  *)
ServeEarly ==
  /\ status = "recovering"
  /\ status' = "up"
  /\ UNCHANGED <<bds, logs, synced, open, journal, pc, rec, crashes, history>>

Serve ==
  /\ status = "recovering" /\ journal = {}
  /\ status' = "up"
  /\ UNCHANGED <<bds, logs, synced, open, journal, pc, rec, crashes, history>>

Recovery ==
  \/ NewRegistry \/ Serve
  \/ \E t \in journal : completeTransfer(t) \/ recoverTransfers(t)

Next ==
  \/ \E x \in Xfers, from, to \in Accounts :
       \/ \E amt \in Amounts : Decide(x, from, to, amt)
       \/ \E all \in Alls : Decide(x, from, to, bds[from].B)
  \/ \E x \in Xfers : TransferStep(x)
  \/ \E a \in Accounts : Gate(a) \/ Settle(a) \/ Sync(a) \/ CloseLog(a)
  \/ Kill \/ Stop \/ PowerLoss
  \/ Recovery

(* A handler runs on, a shutdown ends, and the daemon is started again     *)
(* when it is down (its unit restarts it).  Nothing makes anyone ask for a *)
(* transfer, submit a job, sync or crash.                                  *)
Fairness ==
  /\ \A x \in Xfers : WF_vars(TransferStep(x))
  /\ WF_vars(status = "closing" /\ \E a \in Accounts : CloseLog(a))
  /\ WF_vars(Stop) /\ WF_vars(Recovery)

Spec == Init /\ [][Next]_vars /\ Fairness

-----------------------------------------------------------------------------
(* Types.                                                                  *)
TypeOK ==
  /\ DOMAIN bds = Accounts
  /\ \A a \in Accounts : synced[a] \in 0 .. Len(logs[a])
  /\ open \in [Accounts -> BOOLEAN]
  /\ journal \subseteq Record
  /\ pc \in [Xfers -> {"idle", "journal", "withdraw", "deposit", "delete",
                        "done"}]
  /\ rec \in [Xfers -> Record \cup {NoRecord}]
  /\ status \in {"up", "closing", "down", "recovering", "refused"}
  /\ crashes \in Nat /\ lost \in BOOLEAN /\ faults \in Faults

(* Money is never created or destroyed (transfer.go): at every moment, a   *)
(* crash included, the allocations the logs rebuild and the amounts whose  *)
(* record says they are between two accounts make up what there was.  It   *)
(* rests on the legs that were made: not after a power loss that cuts one. *)
InFlight == {t \in journal : withdrew(t) /\ ~deposited(t)}

MoneyConserved ==
  ~lost =>
    Total([a \in Accounts |-> Opened(a).B0]) +
      Total([t \in InFlight |-> t.Amount]) = Cardinality(Accounts) * Opening

(* Each leg is made at most once (transfer.go, the XferID tag), whatever   *)
(* crashes, power losses and recoveries there are.                         *)
Legs(a, k, x) ==
  {i \in 1 .. Len(logs[a]) : logs[a][i].kind = k /\ logs[a][i].xfer = x}

LegsOnce ==
  \A x \in {y \in Xfers : rec[y] # NoRecord} :
    /\ Cardinality(Legs(rec[x].From, "withdraw", x)) <= 1
    /\ Cardinality(Legs(rec[x].To, "topup", x)) <= 1

(* A transfer implements an atomic move in two steps (Move): in what the   *)
(* logs rebuild the amount leaves one account once, then reaches the other *)
(* once, whatever is killed, shut down, restarted or refused by the disk   *)
(* between the journal's write, the two legs and its removal.  A power     *)
(* loss may cut a leg that was made, so those behaviours map to a stutter. *)
Kept == "power" \notin faults

Leg(x) == IF Kept /\ rec[x] # NoRecord /\ withdrew(rec[x]) /\ ~deposited(rec[x])
          THEN [to |-> rec[x].To, amount |-> rec[x].Amount]
          ELSE [to |-> "home", amount |-> 0]

Abstract == INSTANCE Move WITH
  alloc <- [a \in Accounts |-> IF Kept THEN Opened(a).B0 ELSE Opening],
  under <- [x \in Xfers |-> Leg(x)],
  moved <- {x \in Xfers : Kept /\ rec[x] # NoRecord /\ deposited(rec[x])}

MovesAtomically == Abstract!Spec

(* Money withdrawn arrives, crash or shutdown in between or not, and its   *)
(* record does not stay behind; unless the disk fails, when both wait for  *)
(* the next start.                                                         *)
TransferCompletes ==
  faults = {"kill"} =>
    \A x \in Xfers :
      /\ (rec[x] # NoRecord /\ withdrew(rec[x])) ~>
           (rec[x] # NoRecord /\ deposited(rec[x]))
      /\ (rec[x] \in journal) ~> (rec[x] \notin journal)
=============================================================================
