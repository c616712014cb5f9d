# Obol in TLA+

Obol is a money gate in front of a Slurm cluster. A job is admitted only if its
account can pay for its whole walltime; that cost is escrowed at submit, billed
for what ran at the end, and the rest refunded. This directory holds a TLA+
model of the Go daemon (`src/internal/budget`, `src/internal/daemon`,
`src/cmd/obold`) and of its Slurm side (`src/internal/shim`, `src/seam`), TLC runs
over small instances of it, and TLAPS proofs, for every instance, of the books and
the burst bucket of a budget, the group commit, transfers, the account registry,
the path of a submission, the daemon's handlers and routing tables, and of the two
refinements.

    tlc -workers 2 -config money.cfg MCBudget           # one run; PROJECT.json lists all
    tlapm BudgetProofs.tla                              # one proof module

## 1. The system

| Part | State | Operations | Correct when |
|---|---|---|---|
| Escrow kernel (`budget.go`, `simulate.go`, `status.go`) | balance `B`, allocation `B0`, `ReservedTotal`, `Consumed`, `WriteOff`, the escrows, status | `SubmitAt`, `Start`, `Complete`, `Timeout`, `Cancel`, `InfraFail`, `Reprice`, `TopUpXfer`, `WithdrawXfer`, `SetRate`, `SetWindow`, `SetBurst`, `Lapse`, `Report`, `Simulate` | no unit is created or lost, the balance never goes negative, `ReservedTotal` is the sum of the escrows, every escrow can pay its whole walltime |
| Array escrows (`array.go`) | one escrow per array, one `taskState` per task | `SubmitArrayAt`, `StartTask`, the four task settles | a slice per open task, no task settled twice |
| Burst bucket (`burst.go`) | `burstPot`, `fracAcc`, `rLive`, `lastTouch` | `accrue`, reservation at start, refund at settle | `0 <= pot <= ceiling`, `rLive` is the live burn, permission is earned before it is spent |
| Dispatch view (`dispatch.go`, `readview.go`) | the published `ReadView` | `publishLocked`, `MayDispatch` | the lock-free answer is the gate's |
| Log (`wal.go`) | `wal.log`, `writeOff`, `syncedOff`, a sticky error, a nudge channel, the committer | `Append`, `committer`, `flushOnce`, `Flush`, `Close` | what counts as synced is on disk, barriers hold and return, every append is synced |
| Durability (`durable.go`, `snapshot.go`) | `snapshot.json` with an offset into the log | create, `Snapshot`, `OpenBudget`, `applyCommand` | recovery rebuilds exactly the state that was acknowledged |
| Transfers (`transfer.go`) | journal records beside the accounts | `Transfer`, `recoverTransfers`, `completeTransfer` | money never appears, disappears, or moves twice |
| Registry (`registry.go`, `accountmeta.go`) | name to budget and name to access list in memory; per account a directory with `snapshot.json` and `account.json` | `discover`, bootstrap, `create`, `Create`, `SetAccess`, sweeps, `Close` | what was created or attached is there after a restart |
| Authorisation (`access.go`, checks in `server.go`) | a cache of OS identities | `authorize`, `requireAdmin`, `canRead`, `dispatchTransport` | nobody uses an account by an identity error, a stale cache or the lack of an identity |
| Pricing (`cost.go`) | tables fixed at start | `perSecond`, `worstRate`, `rate`, `Weights.Rate` | a gate escrows the dearest rate the job can meet, a bind only lowers it |
| Handlers (`server.go`, `funding.go`) | `tokenBudget`, `tokenLegs`, `jobToToken`, `tokenArrayN`, in memory only | GATE, BIND, SETTLE, RECONCILE | multi-source funding is all or nothing, whatever is held can be routed, jobs cost rate times runtime |
| Janitors (`janitor.go`, `runJanitor`) | none | sweep of unbound escrows on a ticker, sweep of orphans from `squeue` | no running job is refunded, nothing stays stuck |
| Submit shim (`job_submit.lua`, `obol_transport.lua`, `failmode.go`) | one attempt at a time; the token it stamps into `admin_comment` | luasocket, FFI and CLI in turn, each with a timeout, then the partition's fail policy | no unfunded job enters a partition that fails closed, a job is billed once however many gates were asked |
| Slurm side (`seam/slurm`) | none | prolog (BIND), jobcomp and epilog (SETTLE) | late, doubled or missing calls do no harm |

How the parts interact. Every connection is a goroutine in a handler. A handler
reads the clock, then calls budget methods one at a time; each method runs under
that budget's mutex, appends its command to the log before it changes memory,
and publishes a `ReadView`. The routing tables have a mutex of their own. No two
locks are held together, so a multi-source gate, bind or settle, a sweep and a
transfer are sequences of independent critical sections: this is where the hard
behaviour is. An attach reads a list in one critical section and puts it back in
another. The fsync runs later, off every lock. A shutdown closes the
listener and then the logs without waiting for handlers that are still running.

What is hard: sequences of critical sections interleaved with each other (gates
racing for a balance both have read, a bind against a settle, a janitor against
both), records applied after a crash that were written by a run which took other
steps, the order in which two logs reach the disk, hooks that come late, twice or
never, a plugin that gives up on a gate which is granted all the same, and a
token bucket with a remainder that two clocks advance.
`PROJECT.json` lists the hazards, each at its line, with the properties aimed
at it.

## 2. Modules

| Module | Models | State and steps |
|---|---|---|
| `Kernel` | every method of `Budget` | operators from a budget record to `[ok, bd, log]`, shared by all other modules; a failed append (`wal = FALSE`) returns the record as it stood at `logCmd` |
| `Coins` | sums | `Total(f)` |
| `Ledger` | what an account promises | a balance, holds and what is spent; holds are taken, lowered, run and settled |
| `Budget` | one live budget | `bd`, `view`, `clock`; one action per method, so interleavings of handlers are interleavings of actions; `Skew` lets a method run with an older clock reading; implements `Ledger` (`LedgerKept`) |
| `Durable` | a budget and its directory | the log file as a sequence of headers and payloads, the snapshot, the WAL handle's counters; append, fsync begin and end, snapshot, close, kill, power loss, recovery by replay |
| `WAL` | the goroutines of one log handle | appenders, committer, flushers, closer; a step is one critical section, channel operation or fsync |
| `Move` | what a transfer promises | an amount leaves one account, then reaches the other, once each |
| `Transfer` | transfers between accounts | per-transfer program counter through `Registry.Transfer`, two logs, the journal, shutdown, kill, power loss, recovery; implements `Move` (`MovesAtomically`) |
| `Pricing` | node types and resource weights | operators |
| `Seam` | the daemon between Slurm and the budgets | budgets, routing tables, one slot per handler goroutine holding what it has read, two janitors, Slurm and its hooks as environment; prices from `Pricing` |
| `Accounts` | the registry and the checks in front of the handlers | the two files of each account, the two maps in memory, the identity cache, a slot per handler; creation in two steps, attach in two steps, boot, kill, group changes |
| `Shim` | a submission from the plugin to its settlement | the plugin's attempts, frames sent, verdicts written, the token on the job, one budget, its routes; the daemon's handlers are single steps |
| `MC*` | values for TLC | |
| `CoinsProofs` | sums of money | lemmas only: adding, removing, changing one entry, induction in the form of a set |
| `SeamInvariants` | what the proofs about `Seam` speak of | definitions only: the inductive invariants and the kinds of step, over the variables of `Seam` |
| `BudgetProofs`, `DurableProofs`, `WALProofs`, `TransferProofs`, `SeamProofs`, `AccountsProofs`, `ShimProofs` | theorems | the inductive invariant of the module each extends, and what follows from it |

`Kernel` is composed five ways: `Budget` (one account, all methods), `Durable`
(with a log), `Transfer` (several accounts with logs), `Seam` (several accounts
with routing) and `Shim` (one account with the plugin). What one composition
shows the next assumes: `Durable` shows that replay rebuilds a budget, so
`Transfer` keeps in a log entry the budget its command left, and `Seam`, `Shim`
and `Accounts` let budgets survive a restart as they are. `Accounts` decides who
may call, `Seam` what the calls of those who may do to each other.

Definitions whose comment begins with "Mutant" are not part of the model: each is
a plausible wrong version of the definition it precedes, and `PROJECT.json` names
the property that rejects it.

Abstractions. Ids, tokens and names are model values. Units and seconds are
integers; int64 overflow is assumed away (`cost := c * w` is unchecked in the
code). The float64 `BurstCeilingPct` is a fraction over `PctDen`, and `K` an
integer. Walltimes are not negative. `AllowRequeue` is stored and never read by
the kernel, and left out. In `Durable` an 8-byte header and a payload are two
units, and a record is intact exactly when its header is followed by its payload
(that the CRC detects every other damage is assumed). In `Seam` burst is off,
authorisation and the wire are left to `Accounts` and `Shim`, the two lookups at
the head of BIND and SETTLE are one step, and a rollback cancels the tasks of one
array leg in one step (no route leads to them yet). In `Accounts` a budget is its
opening balance, users and groups are one list, requests are well formed and
carry both the account they name and the one it resolves to, and one lookup
outcome stands for the two of `canRead`. In
`Shim` an admin comment is a sequence of tags, and a timeout may come at any time
after a send. The daemon calls neither `Snapshot`, `Lapse` nor `Flush` today; they
are methods of the package with tests, and modelled as such.

Faults. `Seam.Faults` and `Transfer.Faults` are sets of faults that may come
together: in `Seam` each fault of such a set happens at most once, in `Transfer`
a behaviour draws one set at the start. History variables name the events after
which a property has nothing to promise, each with its row in the tables below:
`Durable.spoiled`, `Transfer.lost`, `Accounts.half` and `Accounts.raced`.
`Durable.spoiled` has five: a record half written, a torn tail, a snapshot ahead
of the file after a power loss, a failed call that has changed memory, and a
top-up, withdrawal or new window with burst on: each changes the pace of a bucket
that reads may have accrued. The last is broader than the fault, which needs such a
read before the change.

## 3. What TLC checks

Passing runs. Deadlock is checked except where a finite set of submissions, or a
closed log, lets the system stop.

| Run | Question | Instance |
|---|---|---|
| `money` | do the books of one account survive every order of jobs, array tasks, admin verbs and failed appends, and is every step one a ledger may take? `ConservationOK`, `ReservedIsHeld`, `NoOverdraft`, `EscrowsFunded`, `LedgerKept` | a job and an array, rates flat and 2, walltimes 0 to 2, runtimes -1, 1, 3 (below zero, inside, beyond), array sizes 0 and 3 (a task settled twice does not show with 2), indices 0 to 3 (one wrong), with and without the legacy rate ceiling |
| `burst` | is permission earned, capped and returned, and do the dispatch answer and the dry run agree with the gate? `RLiveIsLiveBurn`, `PermissionEarned`, `DispatchAgrees`, `SimulateAgrees`, `CeilingCaps` | a job and an array of 2 tasks; pace 4/3, so that every accrual has a remainder; ceiling 3 of 4; plain, with a draw cap, and with the rate ceiling; retunes, top-ups and withdrawals of 1; the clock does not run back and burst is not switched off |
| `durable` | does recovery rebuild the state, burst bucket included, and is only what no fsync covered lost? `ReplayExact`, `PowerSafe` | burst on at first, 3 records, a kill or a power loss, 2 snapshots (the one at creation included), appends that fail or are cut, fsyncs that fail, torn tails, burst toggles, `Lapse`; behaviours end at an event that spoils the log |
| `group_commit` | are `Flush` and `Close` barriers, does `syncedOff` tell the truth, is every append synced and does every barrier return? `SyncedIsDurable`, `Barrier`, `EveryAppendSynced`, `BarriersReturn` | 2 appenders, a flusher, committer, closer, 3 records, fsync errors |
| `transfer` | is each leg made once, is money conserved, is a transfer an atomic move, does withdrawn money arrive and its record go? `LegsOnce`, `MoneyConserved`, `MovesAtomically`, `TransferCompletes` | 2 accounts, 2 transfers of 1 or of everything, gates and settles between, shutdowns, 2 crashes; kills only, with I/O errors, and with power losses too |
| `seam` | is funding all or nothing, is what is held routed, do the tables shrink, do legs agree and bills come out, with rival gates and doubled hooks? `AllOrNothing`, `Routed`, `TablesReclaimed`, `LegsAgree`, `BillExact` | an array of 3 tasks and a job over both accounts in opposite order, and a job on one of them: 4 units or 2 at rate 2, so that any two collide; priced flat, by node (dearest at the gate, cheap at the bind) and by resources on a dearer node; 2 concurrent handlers |
| `seam_reclaim` | do the two janitors return every reservation of a job, and does reconcile spare what was bound when `squeue` ran? `EscrowReclaimed`, `ReconcileSparesBound` | a job with two legs, 2 handlers, binds after the job's end, both settle hooks, lost hooks; a crash, or a leg refused and its rollback not written, or a leg whose settle fails |
| `accounts` | does every accepted creation and attach last, and is nobody let in by a stale or missing identity to the account he names? `CreatedKept`, `AccessKept`, `AccessHonoured` | 2 users, a group, root and a TCP client; an account from the configuration and one created; 2 requests of 2 handlers, failing writes and lookups, a change of groups, a kill |
| `submit` | is a job in a partition that fails closed funded, a submission billed once, and an escrow nobody waits for returned? `ClosedFunded`, `BilledOnce`, `StraysReclaimed` | a submission that fails closed and one that fails open, the latter with a tag of another tool and perhaps no time limit; luasocket, then CLI; lost frames, late verdicts, a crash; jobs that complete, time out or lose their node |

Bounds. Two contenders and one unit of contention are what the races need: every
hazard found so far shows with two handlers, two accounts and two crashes. The
clock needs to reach the TTL. `MaxB0`, `MaxLog`, `MaxUnits`, `MaxClock`,
`MaxCrashes`, `MaxKills`, `MaxChanges`, `MaxRequests`, `MaxSnapshots` and
`MaxWrites` bound what would grow without end; in `Seam` and `Shim` a gate is
asked early enough for its escrow to age out before the clock stops, so that the
bound does not decide `EscrowReclaimed` or `StraysReclaimed`. The `seam` run has
no janitors and nothing in it depends on time, so its clock stands. Symmetry (of
handlers) is used in runs without liveness properties only.

Divergences. Three runs end in a violation: each states what a comment or
document of the repository says, and shows a history of the code that contradicts
it; the quotes are under `findings` in `PROJECT.json`.

| Run | What happens |
|---|---|
| `refused_task_settle` | a settle of a task already settled, or of an array already closed, is logged before it is refused; the log cannot be replayed and the account does not open |
| `catch_all` | while `default` is the only account, a job that names an account nobody created is paid from it (`registry.go:220`); `authorize` looks for the list of the name the job gave, finds none and allows (`access.go:73`), so a user who is not on the list of `default` spends its money (`configuration.md:57`: "only these users may fund jobs from this account") |
| `sweep_race` | the unbound sweep refunds a job started between its scan and its refund |

TLC shows the following as well. The second column says which setting of a passing
run brings it out, or which condition of a property leaves it out; it is the
reason the run or the property is as it is.

| What happens | Shown by | Where |
|---|---|---|
| `dispatch.go:16` says the lock-free answer can "never drift from the real gate"; a `Report` with an older clock reading moves `lastTouch` back and publishes nothing, and the two differ | `burst` with `Skew = 1`: `DispatchAgrees`, `PermissionEarned` | `burst.go:28` |
| `burst.go:70`: "0 <= burstPot <= ceiling"; a withdrawal lowers the ceiling below the pot | the reason `CeilingCaps` speaks of steps that fill the pot | `budget.go:413` |
| `budget.go:89` calls `rLive` the sum over live jobs; burst switched off and on around a start or a settle leaves it different | `burst` with `<<FALSE, 0, 0>>` in `BurstConfigs`: `RLiveIsLiveBurn` | `budget.go:547` |
| `durable.go:9`: commands are logged "before the mutation commits"; when the append fails `Start` has raised `rLive`, and `Lapse` takes effect all the same | the reason `ReplayExact` looks at `spoiled` | `budget.go:218`, `budget.go:343` |
| `wal.go:62`: a torn tail "fails the length/crc check on replay and is discarded"; it is skipped but not cut off, and records appended behind it are hidden from every later replay | the same; `durable` with `NewConfigs <- Plain`, one snapshot, no `BurstConfigs`, `Lapses`, failing appends or `CONSTRAINT`: `Rebuilt` | `durable.go:97` |
| a record whose second write fails hides every later one from replay | the same | `wal.go:162` |
| `wal.go:118`: "Using the written (not synced) offset is correct"; after a power loss the file ends before the snapshot's offset and new records are skipped | the same | `wal.go:125` |
| `wal.go:16`: replay "reproduces state exactly"; permission accrued by a read is not logged, and when the pace changes before the next logged call, replay refuses a start that was accepted | the same | `status.go:44` |
| `wal.go:91`: "an existing file is already durable"; a log reopened after a kill, or after an fsync that failed, counts unsynced bytes as synced | the reason `Promised` looks at `opened` | `wal.go:105` |
| `transfer.go:26`: "Money is never created or destroyed."; the two logs are fsynced independently, and a power loss can keep one leg of a finished transfer and lose the other | the reasons `MoneyConserved` looks at `lost` and `MovesAtomically` at `Kept` | `transfer.go:173` |
| `operations.md:142`: reconcile refunds started escrows not in the live set; it refunds a live job bound after the set was translated, and after a restart, which empties `jobToToken`, any live job | the reasons `ReconcileSparesBound` looks at `bound` and at crashes | `server.go:811`, `server.go:820` |
| `operations.md:155`: "Together they guarantee no escrow stays stuck."; an array with one task started and one never started is left to neither janitor | `seam_reclaim` with an array of 2 tasks on one account and `Opening = 4`: `EscrowReclaimed` | `janitor.go:71` |
| `server.go:673`: "Legs can't diverge."; a failed append in the loop, which ignores errors, or a kill inside it, leaves the legs at two rates | `seam` with `{"bind"}` in `Faults`: `LegsAgree`, `BillExact`; with `{"crash"}`: `LegsAgree` | `server.go:677` |
| the same loop against a settle that overtakes it: one leg is billed at the node's rate, the other at the worst case | `seam` with `LateBinds = TRUE`: `BillExact` | `server.go:676` |
| `server.go:326`: "no job is left partially funded"; a rollback whose append fails leaves a rejected job's escrow, until a janitor returns it | `seam` with `{"gate", "rollback"}` in `Faults`: `AllOrNothing`; `seam_reclaim` shows the return | `server.go:362` |
| `server.go:731`: "any stuck leg ages out via the unbound-token janitor"; a leg whose settle fails has started, so that janitor passes it by; no hook reaches it either, and only reconcile returns it | `seam` with `{"settle"}` in `Faults`: `Routed`; `seam_reclaim` needs both janitors | `server.go:737` |
| `server.go:591`: entries are dropped so the tables "don't grow unbounded"; those of a submission the janitors refunded stay | the reason `TablesReclaimed` looks at `swept` | `server.go:122` |
| `seam/README.md:22`: "a double-fire is a no-op"; the epilog names no task and drops the routing of a whole multi-source array | `seam` with `Epilog = TRUE`: `Routed` | `server.go:737` |
| `CHANGELOG.md:400`: "Runtime changes are **durable and restart-safe**"; of two attaches that overlap, one that was answered OK is lost | the reason `AccessKept` looks at `raced` | `server.go:1181` |
| the same; a creation cut off between `snapshot.json` and `account.json` leaves, at the next start, an account open to everyone, and a second creation of it keeps the first balance | the reason `CreatedKept` looks at `half` | `registry.go:140` |

Seen while translating the Slurm side and the gate; the model follows the code.

| What the text says | What the code does |
|---|---|
| `job_submit.lua:5`: "make one loopback GATE call" | up to three: each transport that gives no verdict in time may have been read by the daemon all the same |
| `obol_transport.lua:153`: `timeout_ms` is "a hard cap" | it caps each of the two in-process transports, and the CLI has its own |
| `failmode.go:30`: "never block users for a daemon hiccup" | when a gate is answered too late, the next attempt of the same submission can be rejected for want of the money the first one holds, and a verdict is final |
| `obol-prolog.sh:23`: the token is "possibly among other space-separated tags" | the `sed` keeps the first word of the comment; a token behind another tool's tag is not found, and the job is never bound (`Stamped`) |
| `obol-prolog.sh:66`, `obol-jobcomp.sh:51`: the task's index is `ArrayTaskId` | the kernel numbers an array's tasks from 0 to N - 1; an array such as `5-9` names indices out of that range |
| `server.go:378`: rejects "if the sources' flat rates disagree" | from the second source on the rate is the first one's, and the comparison cannot fail (`server.go:393`) |
| a job without a time limit | costs nothing over an in-process transport, and is refused by the CLI before it connects |

An attach that takes the last member off a list opens the account to everyone; the
tests say so (`topup_test.go:281`), and `AccessHonoured` allows it.

Fairness. `WAL`: a goroutine inside a call goes on, the runtime's `select` takes
the done case if it is offered again and again, and fsync returns; nobody is
obliged to call `Append`, `Flush` or `Close`. `Transfer`: a handler goes on, a
shutdown ends, and a daemon that is down is started again
(`Restart=on-failure` in `deploy/parallelcluster/install-obol.sh`); nothing
obliges anyone to transfer, sync or crash. `Seam`: handlers and sweeps go on, the
clock advances, the ticker of `runJanitor` comes back to every account (strong
fairness of a sweep that finds something: it is offered again at each tick, and
one account's sweep does not stop another's), and `obol reconcile` is run
periodically, as `docs/operations.md` tells the operator. `Shim`: the plugin
returns, its timeouts being hard; the daemon reads what was sent and is started
again, its sweep runs on the ticker, and the clock advances. Slurm owes nothing:
no job need start or end and no hook need arrive. `Accounts`, `Budget` and
`Durable` state no fairness and claim no liveness.

## 4. What is proved

TLAPS proves these for every value of the constants: any sets of jobs, arrays,
rates, walltimes, runtimes and amounts, any clock skew, any configuration, any
number of goroutines, accounts, transfers, users, handlers, submissions and
transports. The assumptions are those of the modules, which every run evaluates:
a percentage denominator above zero, windows that are not empty at creation,
walltimes that are not negative, finite key sets (`Kernel`, `Budget`); finitely
many accounts, a natural opening balance and transfer ids that are not the empty
tag (`TransferAssumption`); users who are neither root nor remote and a
configuration that names an account once, which `validate` enforces
(`AccountsAssumption`); at least one transport, natural rates and walltimes
(`ShimAssumption`); submissions with at least one source and one task, flat rates
above zero, finitely many accounts and handlers (`SeamAssumption`), and prices that
`validate` accepts (`PricesAssumption`).

Some theorems have hypotheses of their own, on the faults, hooks or settings that
occur. Each leaves out a case in which the property does not hold of the code, most
of them rows of the tables above; the text says which.

### A budget (`BudgetProofs`)

`BudgetProofs` shows `IInv`, which says that `clock` is an integer and
`Books(bd)`:

- the record is well typed (`Typed`);
- `B + ReservedTotal + Consumed + WriteOff = B0`;
- `ReservedTotal` is the sum of what the escrows and the arrays hold
  (`HoldsAddUp`);
- no column is negative;
- an escrow holds its rate times its walltime, an array a slice for each task
  still open, with `Remaining` the number of those tasks.

None is inductive alone: conservation at a settle needs that the escrow holds
what is refunded and billed; that the balance stays positive needs that the used
part does not exceed the escrow, hence the frozen rate and the clamp; that the sum
follows `ReservedTotal` needs the number of open tasks. One lemma per method
shows that it keeps `Books` whether it succeeds, is refused or cannot be logged;
`accrue` and the other bucket operations are shown once to leave money alone. From
`BooksBalance` follow `TypeCorrect`, `Conservation`, `ReservedExact`,
`NeverOverdrawn` and `FundedToTheEnd`, and further:

- `PotCapped` (`CeilingCaps`): no step raises the burst pot past its ceiling. Each
  place that adds to the pot caps it against the rate as it is then; what the
  proof adds is that no later line of the same method lowers that ceiling.
- `SimulateHonest` (`SimulateAgrees`): the dry run admits exactly when a submit and
  then a dispatch at that moment would both succeed. The submit leaves the rate
  total, the pot and the window as the dispatch test needs them.
- `DispatchExact` (`DispatchAgrees`): the answer computed from the published view is
  that of the gate under the lock. It needs `Fresh`, that the view agrees with the
  budget up to an accrual, and `ASSUME Skew = 0`: with clocks that disagree, an
  accrual that moves `lastTouch` back banks the same seconds twice, and the answer
  differs for as long as that lasts. The run checks it with the clocks agreeing too.
- `BurnExact` (`RLiveIsLiveBurn`): while burst is on, `rLive` is the sum of the rates
  of what runs. A settle must subtract what its start added, so the rate of a
  started escrow may not change, and a task may count once. Hypotheses: no append
  fails (`Start` raises `rLive` before it logs), and no `SetBurst` turns burst on
  that was off (`NeverTurnedOn`: it does not count the jobs that run by then).
- `TokensEarned` (`PermissionEarned`): tokens in the pot and in reservations, scaled
  by the window, with the remainder of the division, stay within what the pace has
  earned. The invariant `Earned` adds that `rLive` is not negative, since accrual
  earns `B0 - rLive * window` per second, and does not ask that burst be on, so
  that it survives a `SetBurst`. It rests on `Fresh` for the order of the clock
  readings. Hypotheses: `Skew = 0`; no window a `SetWindow` would accept, since the
  property counts from the start of the window and a new one starts the count anew
  with the old tokens in the pot; and `MaxB0` bounds the allocation at creation as
  it does at every top-up.

`LedgerImplemented` says that `Budget` implements `Ledger`
(`LedgerKept`): under the mapping that keeps of an escrow or an array its hold and
whether it has started, every method is one step of the ledger or a stutter. The
method lemmas of `BudgetProofs` give each step as one of a few moves (`Moved`), and
each move is shown to be a ledger step.

### The log (`WALProofs`)

`SyncedTruthful`, `FlushIsBarrier` and `TypeCorrect` follow from `WInv`: types,
`syncedOff <= durable`, and for each goroutine that syncs what it carries
between two critical sections (`Carries`): the target it read is durable once its
fsync is done, and its mark is covered once its `flushOnce` has ended without
error.

### The directory of a budget (`DurableProofs`)

`TypeCorrect` (`TypeOK`): the offsets of the log stay in order, synced within
written within the file, through failed and torn appends, overlapping or failing
fsyncs, closes, kills, power losses and recoveries. The invariant `DInv` adds the
fsync in flight: what it will claim lies within what was written when it began.

### Transfers (`TransferProofs`)

`IInv` has these parts:

- every leg in a log is tagged with a decided transfer and stands on its own
  account (`Tags`), and is there once (`Once`);
- a goroutine's place tells which legs are made and whether its record is in the
  journal (`Progress`);
- outside the journal both legs are made or none, unless a power loss has cut a
  leg (`Journaled`, `Unlost`);
- memory is what the log rebuilds (`Mirrors`);
- between two legs the allocation does not change (`Flat`), so a power loss that
  cuts no leg cuts no money.

Every action is shown `Good`: it keeps `IInv`, and the money stays where it is
(`Still`), leaves an account (`Leaves`) or arrives (`Arrives`). `OnceOnly`
(`LegsOnce`) is `Once`, read as a cardinality. `NoMoneyLost` (`MoneyConserved`)
sums the three kinds of step over all accounts and transfers. `MoveImplemented`
(`MovesAtomically`) maps them to the steps of `Move`. It speaks of behaviours
whose faults do not include a power loss: the others map to a stutter, since a
power loss may cut a leg that was made.

### Handlers and routing (`SeamInvariants`, `SeamProofs`)

`SeamInvariants` has the definitions, `SeamProofs` the lemmas and theorems. The
state of `Seam` is read as items: an item is an account with an open escrow, or with
an open task of an array; `ItemsOf(s)` are those of submission `s`. The proof has
three layers.

1. What each method of `Kernel` does to the items of an account with burst off: it
   adds some (`Submit`), lights one (`Start`), reprices one, closes one with its
   bill, or changes nothing.
2. `Types`, the typing invariant. It says what each slot of a handler may hold
   (`Slots`): the legs of a plan climb through the sources and share out the need of
   the submission (`PlanOK`, from `fundingPlan`), the legs of a route share out all
   of it (`Whole`), no submission is gated by two handlers (`OneGate`). Every action
   is then shown to be one of a few kinds of step (`Moves`), each stated by its
   effect on items, tables and slots; the proofs below argue about the kinds only.
3. An invariant per property, each on top of `Covered`: what a submission holds lies
   in the legs its handler or its route knows, with the walltime of the leg, and
   what a gate has placed is all held.

- `FundingAllOrNothing` (`AllOrNothing`), by `Backed`: a rollback has left nothing
  of the legs and tasks before its own (`Left`). That the recorded legs hold the
  whole walltime is `Covered` with the sum over the legs, by induction on their
  number. Hypothesis: the append of a rollback does not fail.
- `HeldIsRouted` (`Routed`), by `Tracked`: a settle of a job has left nothing before
  its own leg; `tokenArrayN` is at least the number of open tasks plus the handlers
  about to drop one, which is what keeps the route until the last task. Hypotheses:
  no append of a settle fails, and the completion hook names the task
  (`Epilog = FALSE`). Binds may be late and janitors at work.
- `LegsAtOneRate` (`LegsAgree`), by `Rated`: an item is at the gate's rate or at the
  final one, a started item at the final one, and a bind has repriced every leg
  before its own. Two binds of one job in the loop at once reprice to the same
  rate. Hypotheses: no append of a bind fails, and no crash, which may stop the loop
  half way.
- `TablesAreReclaimed` (`TablesReclaimed`), by `Shrinking`: a routed job that has not
  ended holds its escrow; whatever the tables name holds its escrow or is about to
  be dropped by a settle that nothing can stop; the count of an array is exact; a
  bind is over before its job ends. All of it is about submissions no janitor has
  swept, whose entries do stay. Hypotheses: no late binds and no hook without a
  task, the two other cases in which entries stay. The janitors may be at work, on
  this submission or on others, and faults and crashes may occur; the run, whose
  `Janitors` is empty, shows the instance without them.

### The registry (`AccountsProofs`)

`IInv` says that one creation at a time holds the lock (`Creating`), that memory
mirrors the files from `discover` on (`Mirrors`), that a snapshot without its
`account.json` is a creation under way or one that was cut (`Files`), that an
attach that overlapped no other holds the list as it is plus its own change
(`Attaching`), what was promised of each list (`Promised`), that the identity
cache holds only groups the user has had in this life (`Cached`), and that a
request has been resolved to the account it names or to the catch-all
(`Resolved`). From it follow
`TypeCorrect`, `CreationsKept` (`CreatedKept`), `ListsKept` (`AccessKept`) and the
action property `AccessAdmitted` (`AccessHonoured`). Two exceptions are in the
properties themselves: a creation cut between its two files (`half`), and attaches
to one account that overlap (`raced`). `AccessHonoured`, and with it the theorem,
judges a request by the list of the account it resolves to, and speaks of requests
that name that account; the others go through the catch-all, of which the run
`catch_all` shows that the list is not honoured.

### A submission (`ShimProofs`)

`SInv` says, for each token: one that was not sent is nowhere (`Unsent`); one still
to be read has no answer, escrow or bill (`Pending`); an escrow holds its job's
whole walltime (`Held`); an allowed token is funded until its job ends or the sweep
comes (`Allowed`); only the token a job carries is billed, for what it ran
(`Paid`). For each submission it says which token the job carries (`Carries`) and
that a bound job runs or has run under it (`Bound`). The books (`Books`) relate
the balance to the holds and to what was billed. `FailsClosed` (`ClosedFunded`),
`PaysOnce` (`BilledOnce`) and `TypeCorrect` follow. `Unsent` is what makes the
retry over a second transport harmless, `Pending` what makes a verdict that comes
after the timeout harmless.

### Only model-checked

- Liveness (`EveryAppendSynced`, `BarriersReturn`, `TransferCompletes`,
  `EscrowReclaimed`, `StraysReclaimed`): out of the prover's reach.
- `ReplayExact` and `PowerSafe` of `Durable`: replay is a fold over the log that
  stops at the first damaged record, and that it agrees with memory needs an
  induction over logs with an operator as its hypothesis, which none of the provers
  can instantiate.
- `BillExact` of `Seam`: `SeamProofs` has the bill of each leg and task and the rate
  it is taken at; that the legs' shares of a runtime add up to it is left to TLC.
- `ReconcileSparesBound`, which relates three moments of a reconcile.
- `Pricing`, which is arithmetic on tables; the proofs use that rates are natural
  numbers.

Where an induction over numbers is needed (sums over legs and tasks), it is done with
a set: `NatSet` says that a set of naturals with 0 and every successor has all of
them, and `LargestNat` that a bounded one has a largest.

## 5. What is not modelled

- JSON, frame encoding and checksums, flags and output of the command line, socket
  modes, reading a peer credential from a socket: parsing and I/O without state of
  their own. What `validate` guarantees of a configuration is an assumption
  (`AccountsAssumption`, `PricesAssumption`).
- Array specifications and source lists as the plugin parses them: `Seam` starts
  from what they say.
- The audit log as a view; `HasXfer`, which decides recovery, is in `Transfer`.
- The reference C plugin, which only asks `MayDispatch` and sets a priority.
- `OrphanConsumeFull`, the other policy of `SweepOrphans`: only tests call it.
- The sync-off mode of the log, used by tests.
- The Broadcast of `flushOnce`: the wait of `Flush` is a guard in `WAL`. No flusher
  sleeps in it, since its own `flushOnce` has covered its mark or set the error
  (`Carries` in `WALProofs`).
- A reply the plugin cannot decode: it goes to the fail policy without a try of the
  next transport (`job_submit.lua:154`), and in `Shim` replies arrive whole or not
  at all. `failmode.go` is the Go model of the plugin's fail policy; `Shim` is
  translated from the plugin.
- Burst in `Seam` and snapshots in `Transfer`: the daemon takes none, and the
  bucket is settled per budget in `Budget`.
- Loss of the transfers directory itself: `Transfer` takes it to survive a power
  loss, although the rename is not followed by an fsync of the directory. A log
  reopened after a kill counts as synced, as `wal.go:105` has it; what a power loss
  does to such a log is in `Durable` (`opened`).
- int64 overflow (`budget.go:165`), which the code does not check.

## 6. Plan

1. Done: the daemon and its Slurm side modelled and checked; the books and the
   bucket of a budget, the group commit, transfers, the registry, the path of a
   submission and the daemon's routing proved; an account and a transfer each
   proved to implement an abstract one.
2. Left: `BillExact` for every number of legs, from `Rated` and `Shrinking`;
   `ReconcileSparesBound`; replay.
