------------------------------- MODULE Durable ------------------------------
(***************************************************************************)
(* A budget and its state directory: the write-ahead log, the snapshot,    *)
(* the group-commit fsync, crashes and recovery (durable.go, snapshot.go,  *)
(* wal.go).                                                                *)
(*                                                                         *)
(* The log file is a sequence of units, two per record: the 8-byte header  *)
(* and the payload.  Offsets count units.  A header without its payload is *)
(* what a failed second write, or a power loss between the two, leaves.    *)
(*                                                                         *)
(* A process crash keeps the page cache, so it keeps the whole file; a     *)
(* power loss keeps any prefix that contains what an fsync has covered.    *)
(* The snapshot's rename is not followed by an fsync of the directory, so  *)
(* a power loss may bring back an earlier snapshot.                        *)
(***************************************************************************)
EXTENDS Kernel, FiniteSetsExt, SequencesExt

CONSTANTS
  JobIDs, ArrayIDs, Rates, NewRates, Walltimes, Runtimes, TaskCounts,
  TaskIdxs, Amounts, Windows, BurstConfigs, NewConfigs,   \* as in Budget
  Lapses,            \* {"lapse"} or {}: is Lapse called
  AppendOutcomes,    \* subset of {"ok", "fail", "torn"}
  Crashes,           \* subset of {"kill", "power"}
  TornTails,         \* may a power loss cut a record in two
  SyncFails,         \* may an fsync return an error
  MaxClock, MaxUnits, MaxCrashes, MaxSnapshots

ASSUME DurableAssumption ==
  /\ \A cfg \in NewConfigs : cfg.TS \in Int
  /\ AppendOutcomes \subseteq {"ok", "fail", "torn"}

VARIABLES
  bd,       \* the budget in memory
  clock,    \* the daemon's clock
  status,   \* "up", "down", or "refused" when OpenBudget returned an error
  file,     \* wal.log as a reader sees it
  durable,  \* how many of its units an fsync has covered
  wal,      \* the WAL handle: counters, sticky error, fsync in flight
  snap,     \* snapshot.json
  snaps,    \* the snapshots a power loss may leave in its place
  origin,   \* the snapshot written at creation
  crashes,  \* number of crashes so far
  spoiled   \* history: has an event happened that replay does not survive

vars == <<bd, clock, status, file, durable, wal, snap, snaps, origin, crashes,
          spoiled>>
disk == <<file, durable, snap, snaps, origin, spoiled>>

-----------------------------------------------------------------------------
(* A command executed through the method it names: live when a handler     *)
(* calls it, and by applyCommand when it is replayed.                      *)
Exec(b, c, ok) ==
  CASE c.kind = "submit"    -> SubmitAt(b, c.id, c.c, c.w, c.now, ok)
    [] c.kind = "start"     -> Start(b, c.id, c.now, ok)
    [] c.kind = "complete"  -> Complete(b, c.id, c.runtime, c.now, ok)
    [] c.kind = "timeout"   -> Timeout(b, c.id, c.now, ok)
    [] c.kind = "cancel"    -> Cancel(b, c.id, c.elapsed, c.now, ok)
    [] c.kind = "infrafail" -> InfraFail(b, c.id, c.elapsed, c.now, ok)
    [] c.kind = "lapse"     -> Lapse(b, ok)
    [] c.kind = "topup"     -> TopUpXfer(b, c.amount, c.xfer, c.now, ok)
    [] c.kind = "withdraw"  -> WithdrawXfer(b, c.amount, c.xfer, c.now, ok)
    [] c.kind = "reprice"   -> Reprice(b, c.id, c.c, c.now, ok)
    [] c.kind = "setrate"   -> SetRate(b, c.c, c.now, ok)
    [] c.kind = "setwindow" -> SetWindow(b, c.ts, c.te, c.now, ok)
    [] c.kind = "setburst"  -> SetBurst(b, c.on, c.pct, c.amount, c.now, ok)
    [] c.kind = "submitarray" ->
         SubmitArrayAt(b, c.id, c.c, c.n, c.w, c.now, ok)
    [] c.kind = "starttask"    -> StartTask(b, c.id, c.idx, c.now, ok)
    [] c.kind = "completetask" ->
         CompleteTask(b, c.id, c.idx, c.runtime, c.now, ok)
    [] c.kind = "timeouttask"  -> TimeoutTask(b, c.id, c.idx, c.now, ok)
    [] c.kind = "canceltask"   ->
         CancelTask(b, c.id, c.idx, c.runtime, c.now, ok)
    [] c.kind = "infrafailtask" ->
         InfraFailTask(b, c.id, c.idx, c.runtime, c.now, ok)

applyCommand(b, c) == Exec(b, c, TRUE)

(* The intact records from offset off: replayWAL stops at the end of the   *)
(* file or at the first record that is not whole.                          *)
IntactFrom(f, off, n) ==
  \A i \in 1 .. n : /\ off + 2 * i <= Len(f)
                    /\ f[off + 2 * i - 1].part = "hdr"
                    /\ f[off + 2 * i].part = "pay"

replayWAL(f, off) ==
  LET n == Max({k \in 0 .. Len(f) : IntactFrom(f, off, k)})
  IN  [i \in 1 .. n |-> f[off + 2 * i].cmd]

ConservationOKArrays(b) ==
  /\ b.B0 = b.B + b.ReservedTotal + b.Consumed + b.WriteOff
  /\ \A a \in DOMAIN b.arrays :
       b.arrays[a].Reserved = b.arrays[a].Remaining * slice(b.arrays[a])

(* A snapshot copies every field of the budget.                            *)
captureSnapshot(b, off) == [state |-> b, WALOffset |-> off]
budgetFromSnapshot(s) == s.state

(* OpenBudget: the snapshot, then the records past its offset; a record    *)
(* that does not apply, or books that do not balance, refuse the directory.*)
OpenBudget(s, f) ==
  LET Step(r, c) == IF r.ok THEN applyCommand(r.bd, c) ELSE r
      r == FoldLeft(Step, [ok |-> TRUE, bd |-> budgetFromSnapshot(s),
                           log |-> <<>>],
                    replayWAL(f, s.WALOffset))
  IN  [ok |-> r.ok /\ ConservationOKArrays(r.bd), bd |-> r.bd]

(* Mutant: the written offset of a reopened log starts at zero.            *)
OpenWALAtZero(size) ==
  [writeOff |-> 0, syncedOff |-> size, syncErr |-> FALSE,
   syncing |-> FALSE, target |-> 0, reach |-> 0, opened |-> size]

(* OpenWAL takes the size of the file for what is written and synced.      *)
(* `opened', the size it was opened at, is history.                        *)
OpenWAL(size) ==
  [writeOff |-> size, syncedOff |-> size, syncErr |-> FALSE,
   syncing |-> FALSE, target |-> 0, reach |-> 0, opened |-> size]

-----------------------------------------------------------------------------
Init ==
  /\ \E cfg \in NewConfigs : /\ bd = NewDurableBurst(cfg)
                             /\ clock = cfg.TS
  /\ snap = captureSnapshot(bd, 0) /\ snaps = {snap} /\ origin = snap
  /\ file = <<>> /\ durable = 0 /\ wal = OpenWAL(0)
  /\ status = "up" /\ crashes = 0 /\ spoiled = FALSE

(* Two budgets that differ only in how far their buckets were accrued; the *)
(* time of the last accrual means nothing while burst is off.              *)
UpToDate(b) == [accrue(b, clock) EXCEPT !.lastTouch = clock]

Same(b1, b2) == UpToDate(b1) = UpToDate(b2)

(* What the callers ask for, as the commands the methods log.              *)
JobRequests ==
  UNION {
    {[kind |-> "submit", id |-> j, c |-> c, w |-> w, now |-> clock] :
       j \in JobIDs, c \in Rates, w \in Walltimes},
    {[kind |-> k, id |-> j, now |-> clock] :
       k \in {"start", "timeout"}, j \in JobIDs},
    {[kind |-> "complete", id |-> j, runtime |-> rt, now |-> clock] :
       j \in JobIDs, rt \in Runtimes},
    {[kind |-> k, id |-> j, elapsed |-> rt, now |-> clock] :
       k \in {"cancel", "infrafail"}, j \in JobIDs, rt \in Runtimes},
    {[kind |-> "reprice", id |-> j, c |-> c, now |-> clock] :
       j \in JobIDs, c \in NewRates}}

ArrayRequests ==
  UNION {
    {[kind |-> "submitarray", id |-> a, c |-> c, n |-> n, w |-> w,
      now |-> clock] :
       a \in ArrayIDs, c \in Rates, n \in TaskCounts, w \in Walltimes},
    {[kind |-> "starttask", id |-> a, idx |-> i, now |-> clock] :
       a \in ArrayIDs, i \in TaskIdxs},
    {logTaskCmd(k, a, i, rt, clock) :
       k \in {"completetask", "timeouttask", "canceltask", "infrafailtask"},
       a \in ArrayIDs, i \in TaskIdxs, rt \in Runtimes}}

AdminRequests ==
  UNION {
    {[kind |-> k, amount |-> amt, xfer |-> "", now |-> clock] :
       k \in {"topup", "withdraw"}, amt \in Amounts},
    {[kind |-> "setrate", c |-> c, now |-> clock] : c \in NewRates},
    {[kind |-> "setwindow", ts |-> x[1], te |-> x[2], now |-> clock] :
       x \in Windows},
    {[kind |-> "setburst", on |-> x[1], pct |-> x[2], amount |-> x[3],
      now |-> clock] : x \in BurstConfigs},
    {[kind |-> k] : k \in Lapses}}

(* Append: refused once an fsync has failed; otherwise two writes, either  *)
(* of which may fail, and the offset advances only after both.             *)
Append2(outcome, cmd) ==
  /\ file' = CASE outcome = "ok"   -> file \o <<[part |-> "hdr", cmd |-> cmd],
                                                [part |-> "pay", cmd |-> cmd]>>
               [] outcome = "torn" -> file \o <<[part |-> "hdr", cmd |-> cmd]>>
               [] outcome = "fail" -> file
  /\ wal' = IF outcome = "ok" THEN [wal EXCEPT !.writeOff = @ + 2] ELSE wal

(* A change of the pace at which the bucket fills: what was accrued at the *)
(* old pace by calls that are not logged is accrued at the new on replay.  *)
Repaces(cmd) ==
  bd.BurstEnabled /\ cmd.kind \in {"topup", "withdraw", "setwindow"}

(* A method call: its command is appended before the budget changes.  Three*)
(* things spoil the log: a half-written record, which stays in the file, a *)
(* failed call that has changed the budget (Lapse; Start with burst), and  *)
(* a change of pace.                                                       *)
Call(cmd) ==
  LET r == Exec(bd, cmd, TRUE)
  IN  /\ status = "up" /\ Len(file) < MaxUnits
      /\ IF r.log = <<>>
         THEN bd' = r.bd /\ UNCHANGED <<file, wal, spoiled>>
         ELSE \E outcome \in IF wal.syncErr THEN {"fail"} ELSE AppendOutcomes :
                /\ Append2(outcome, r.log[1])
                /\ bd' = Exec(bd, cmd, outcome = "ok").bd
                /\ spoiled' = (spoiled \/ outcome = "torn" \/
                               (outcome = "ok" /\ Repaces(cmd)) \/
                               (outcome = "fail" /\ ~Same(bd', bd)))
      /\ UNCHANGED <<clock, status, durable, snap, snaps, origin, crashes>>

(* Report accrues without logging.                                         *)
Report ==
  /\ status = "up"
  /\ bd' = accrue(bd, clock)
  /\ UNCHANGED <<clock, status, wal, crashes, disk>>

Tick ==
  /\ clock < MaxClock
  /\ clock' = clock + 1
  /\ UNCHANGED <<bd, status, wal, crashes, disk>>

(* flushOnce: the offset is read, the fsync runs off the lock, and what    *)
(* was written when it began is then counted as synced.                    *)
FlushBegin ==
  /\ status = "up" /\ ~wal.syncing /\ ~wal.syncErr
  /\ wal.syncedOff < wal.writeOff
  /\ wal' = [wal EXCEPT !.syncing = TRUE, !.target = wal.writeOff,
                        !.reach = Len(file)]
  /\ UNCHANGED <<bd, clock, status, crashes, disk>>

(* Mutant: what was written during the fsync is counted as synced.         *)
FlushEndAll ==
  /\ status = "up" /\ wal.syncing
  /\ durable' = wal.reach
  /\ wal' = [wal EXCEPT !.syncing = FALSE, !.syncedOff = wal.writeOff]
  /\ UNCHANGED <<bd, clock, status, file, snap, snaps, origin, crashes, spoiled>>

FlushEnd ==
  /\ status = "up" /\ wal.syncing
  /\ durable' = wal.reach
  /\ wal' = [wal EXCEPT !.syncing = FALSE, !.syncedOff = wal.target]
  /\ UNCHANGED <<bd, clock, status, file, snap, snaps, origin, crashes, spoiled>>

FlushFails ==
  /\ SyncFails /\ status = "up" /\ wal.syncing
  /\ wal' = [wal EXCEPT !.syncing = FALSE, !.syncErr = TRUE]
  /\ UNCHANGED <<bd, clock, status, crashes, disk>>

(* Mutant: the snapshot claims only what is synced, and holds more.        *)
SnapshotAtSynced ==
  /\ status = "up" /\ Cardinality(snaps) < MaxSnapshots
  /\ snap' = captureSnapshot(bd, wal.syncedOff)
  /\ snaps' = snaps \cup {snap'}
  /\ UNCHANGED <<bd, clock, status, file, durable, wal, origin, crashes, spoiled>>

(* Snapshot: the offset is the one written, synced or not.                 *)
Snapshot ==
  /\ status = "up" /\ Cardinality(snaps) < MaxSnapshots
  /\ snap' = captureSnapshot(bd, wal.writeOff)
  /\ snaps' = snaps \cup {snap'}
  /\ UNCHANGED <<bd, clock, status, file, durable, wal, origin, crashes, spoiled>>

(* Close: the committer has stopped; fsync what the counters say is not.   *)
Close ==
  /\ status = "up" /\ ~wal.syncing
  /\ crashes < MaxCrashes /\ crashes' = crashes + 1
  /\ durable' = IF ~wal.syncErr /\ wal.syncedOff < wal.writeOff
                THEN Len(file) ELSE durable
  /\ status' = "down" /\ bd' = budgetFromSnapshot(snap) /\ wal' = OpenWAL(0)
  /\ UNCHANGED <<clock, file, snap, snaps, origin, spoiled>>

Kill ==
  /\ "kill" \in Crashes /\ status = "up"
  /\ crashes < MaxCrashes /\ crashes' = crashes + 1
  /\ status' = "down" /\ bd' = budgetFromSnapshot(snap) /\ wal' = OpenWAL(0)
  /\ UNCHANGED <<clock, disk>>

(* The prefixes of the file a power loss may leave.                        *)
Survivors ==
  {n \in durable .. Len(file) :
     TornTails \/ n = 0 \/ n = durable \/ file[n].part = "pay"}

(* It spoils the log when it leaves half a record, or a snapshot whose     *)
(* offset lies beyond the end of the file.                                 *)
PowerLoss ==
  /\ "power" \in Crashes /\ status = "up"
  /\ crashes < MaxCrashes /\ crashes' = crashes + 1
  /\ \E s \in snaps, n \in Survivors :
       /\ file' = SubSeq(file, 1, n) /\ durable' = n
       /\ snap' = s /\ snaps' = {s}
       /\ spoiled' = (spoiled \/ n < s.WALOffset \/
                      (n > 0 /\ file[n].part = "hdr"))
  /\ status' = "down" /\ bd' = budgetFromSnapshot(snap') /\ wal' = OpenWAL(0)
  /\ UNCHANGED <<clock, origin>>

Recover ==
  LET r == OpenBudget(snap, file)
  IN  /\ status = "down"
      /\ status' = IF r.ok THEN "up" ELSE "refused"
      /\ bd' = IF r.ok THEN r.bd ELSE bd
      /\ wal' = OpenWAL(Len(file))
      /\ UNCHANGED <<clock, crashes, disk>>

Next ==
  \/ \E cmd \in JobRequests \cup ArrayRequests \cup AdminRequests : Call(cmd)
  \/ Report \/ Tick
  \/ FlushBegin \/ FlushEnd \/ FlushFails
  \/ Snapshot
  \/ Close \/ Kill \/ PowerLoss \/ Recover

Spec == Init /\ [][Next]_vars

-----------------------------------------------------------------------------
(* Types: the offsets are ordered and lie within the file.                 *)
TypeOK ==
  /\ status \in {"up", "down", "refused"}
  /\ clock \in Int /\ crashes \in Nat
  /\ durable \in 0 .. Len(file)
  /\ wal.writeOff \in 0 .. Len(file) /\ wal.syncedOff \in 0 .. wal.writeOff
  /\ wal.syncErr \in BOOLEAN /\ wal.syncing \in BOOLEAN
  /\ snap \in snaps /\ \A s \in snaps : s.WALOffset \in Nat

(* Were the daemon killed now, OpenBudget would accept the directory and   *)
(* rebuild the budget in memory.                                           *)
Rebuilt ==
  status = "up" =>
    LET r == OpenBudget(snap, file) IN r.ok /\ Same(r.bd, bd)

(* Replay is exact (wal.go, type Command): were the daemon killed now, the *)
(* budget in memory would be rebuilt, every acknowledged call included and *)
(* none applied twice; whatever kills, closes, power losses, failed writes *)
(* and fsyncs, snapshots and recoveries there were, up to one of the five  *)
(* events that spoil the log.                                              *)
ReplayExact == ~spoiled => Rebuilt

(* What fsyncs promise: all that the counter of this handle covers, once   *)
(* it has moved, and before that what earlier handles have made durable.   *)
Promised == IF wal.syncedOff > wal.opened THEN wal.syncedOff ELSE durable

(* A power loss costs only unsynced commands: whatever prefix survives,    *)
(* recovery accepts it and rebuilds the budget as it was after some point  *)
(* of the history that has every synced command before it (wal.go, WAL);   *)
(* a torn tail and a snapshot ahead of the file included, the first time.  *)
PowerSafe ==
  (status = "up" /\ ~spoiled) =>
    LET history == {UpToDate(OpenBudget(origin, SubSeq(file, 1, m)).bd) :
                      m \in Promised .. Len(file)}
    IN  \A s \in snaps, n \in Survivors :
          LET r == OpenBudget(s, SubSeq(file, 1, n))
          IN  r.ok /\ UpToDate(r.bd) \in history

(* Every logged command re-applies: no history of calls makes the state    *)
(* directory one that OpenBudget refuses (durable.go, applyCommand).       *)
RecoveryAccepted == status # "refused"
=============================================================================
