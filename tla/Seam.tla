-------------------------------- MODULE Seam --------------------------------
(***************************************************************************)
(* The daemon between Slurm and the budgets (server.go, funding.go,        *)
(* janitor.go, registry.go): the GATE, BIND and SETTLE handlers with their *)
(* routing tables, multi-source funding, and the two janitors, with Slurm  *)
(* and its hooks as the environment.                                       *)
(*                                                                         *)
(* A step is one critical section: one budget method under bd.mu, or one   *)
(* access to the tables under s.mu.  Each goroutine in a handler has a     *)
(* slot; what it has read stays in the slot while others run.              *)
(*                                                                         *)
(* Budgets are Kernel budgets with burst off, and survive a crash exactly  *)
(* (Durable).  The tables are memory only.  Authorisation and the wire     *)
(* are left out: every request is well formed and allowed.  A submission's *)
(* token is its name; its escrow keys are <<s, 0>>, or <<s, k>> for the    *)
(* leg funded by source k.                                                 *)
(***************************************************************************)
EXTENDS Kernel, Pricing

CONSTANTS
  Accounts,
  Submissions,    \* s |-> [sources, multi, n, w, types, tres, node]: sources
                  \* in order, is the job multi-source, task count (1: not an
                  \* array), walltime, the node types of its partition, the
                  \* resources it asks for, the node type it is placed on
  Handlers,       \* slots for concurrent handlers
  Opening,        \* opening balance of each account
  FlatRates,      \* the accounts' flat rates
  Reports,        \* <<kind, runtime>> pairs a completion hook may report
  TTL,            \* -unbound-ttl
  Janitors,       \* subset of {"unbound", "reconcile"}
  LateBinds,      \* may a BIND still be in flight when its job ends
  Epilog,         \* is the fallback hook installed: it gives no task index
  MaxClock,
  Faults          \* sets of faults that may happen together, each once

ASSUME SeamAssumption ==
  /\ IsFiniteSet(Accounts) /\ IsFiniteSet(Handlers)
  /\ \A s \in DOMAIN Submissions :
       LET sub == Submissions[s]
       IN  /\ sub.sources \in Seq(Accounts) /\ sub.sources # <<>>
           /\ sub.multi \in BOOLEAN /\ sub.n \in Nat \ {0} /\ sub.w \in Nat
           /\ IsFiniteSet(sub.types)
           /\ \A r \in DOMAIN Weights : sub.tres[r] \in Nat
  /\ Opening \in Nat /\ TTL \in Nat /\ MaxClock \in Nat
  /\ \A a \in Accounts : FlatRates[a] \in Nat \ {0}
  /\ Reports \subseteq {"complete", "timeout", "cancel", "infrafail"} \X Int
  /\ LateBinds \in BOOLEAN /\ Epilog \in BOOLEAN

Subs == DOMAIN Submissions
Jobs == UNION {{s} \X (0 .. (Submissions[s].n - 1)) : s \in Subs}

IsArray(s) == Submissions[s].n > 1
IsMulti(s) == Submissions[s].multi

VARIABLES
  bds,          \* account -> budget
  clock,
  routes,       \* tokenBudget and tokenLegs: token -> legs
  jobToToken,   \* Slurm job id -> token
  tokenArrayN,  \* array token -> tasks not yet settled
  h,            \* handler slot -> what its goroutine is doing
  sweep, recon, \* the two janitors' goroutines
  granted,      \* what GATE has answered: "no", "asked", "yes", "rejected"
  slurm,        \* job -> "new", "queued", "running", "gone"
  report,       \* job -> what its completion hooks report
  billed,       \* history: units billed or written off per submission
  swept,        \* history: submissions a janitor has touched
  faults        \* faults so far: "crash", or a call whose append failed

tables == <<routes, jobToToken, tokenArrayN>>
tally  == <<billed, faults>>
env    == <<granted, slurm, report>>
vars   == <<bds, clock, tables, h, sweep, recon, env, tally, swept>>

Idle == [op |-> "idle"]
Empty == [x \in {} |-> 0]

NewAccount(a) ==
  NewDurableBurst([C |-> FlatRates[a], TS |-> 0, TE |-> MaxClock + 1,
                   B0 |-> Opening, BillInfraFailures |-> FALSE, K |-> 0,
                   BurstEnabled |-> FALSE, BurstCeilingPct |-> 0,
                   BurstDrawCap |-> 0])

Init ==
  /\ bds = [a \in Accounts |-> NewAccount(a)]
  /\ clock = 0 /\ faults = {}
  /\ routes = Empty /\ jobToToken = Empty /\ tokenArrayN = Empty
  /\ h = [p \in Handlers |-> Idle] /\ sweep = Idle /\ recon = Idle
  /\ granted = [s \in Subs |-> "no"]
  /\ slurm = [j \in Jobs |-> "new"]
  /\ report = [j \in Jobs |-> <<"none", 0>>]
  /\ billed = [s \in Subs |-> 0] /\ swept = {}

Spent(b) == b.Consumed + b.WriteOff

(* A budget call by account a for submission s, whose append succeeds or   *)
(* is the fault f.                                                         *)
Allowed(f) == f \notin faults /\ \E F \in Faults : faults \cup {f} \subseteq F

Wals(f) == {wal \in BOOLEAN : wal \/ Allowed(f)}

Call(a, r, s, f, wal) ==
  /\ bds' = [bds EXCEPT ![a] = r.bd]
  /\ billed' = [billed EXCEPT ![s] = @ + (Spent(r.bd) - Spent(bds[a]))]
  /\ faults' = IF wal THEN faults ELSE faults \cup {f}

Busy(p, g) == h' = [h EXCEPT ![p] = g]

-----------------------------------------------------------------------------
(* Multi-source funding (funding.go): each source in order funds the whole *)
(* units of cost c it can, until `need' units are funded.                  *)
Fill(acc, i, capacity) ==
  LET wi == IF capacity > acc.need THEN acc.need ELSE capacity
  IN  IF acc.need = 0 \/ capacity <= 0 THEN acc
      ELSE [legs |-> Append(acc.legs, [Index |-> i, W |-> wi]),
            need |-> acc.need - wi]

fundingPlan(balances, c, need) ==
  LET plan[i \in 0 .. Len(balances)] ==
        IF i = 0 THEN [legs |-> <<>>, need |-> need]
        ELSE Fill(plan[i - 1], i, balances[i] \div c)
      last == plan[Len(balances)]
  IN  IF c <= 0 \/ need <= 0 THEN [legs |-> <<>>, fundable |-> FALSE]
      ELSE [legs |-> last.legs, fundable |-> last.need = 0]
(* Mutant: every leg is billed the whole runtime.                          *)
LegRuntimeWhole(legs, k, runtime) == Clamp(runtime, legs[k].w)

(* The part of a runtime that falls into leg k's time slice.               *)
legRuntime(legs, k, runtime) ==
  LET prefix == Total([i \in 1 .. (k - 1) |-> legs[i].w])
  IN  Clamp((IF runtime < 0 THEN 0 ELSE runtime) - prefix, legs[k].w)

(* The array leg that owns global task g.                                  *)
legForTask(legs, g) ==
  CHOOSE k \in 1 .. Len(legs) :
    legs[k].first <= g /\ g < legs[k].first + legs[k].n

-----------------------------------------------------------------------------
(* GATE (handleGate).                                                      *)

GateRate(s) == effectiveRate(Submissions[s].types, Submissions[s].tres)

Submit(b, s, key, c, n, w, now, wal) ==
  IF IsArray(s) THEN SubmitArrayAt(b, key, c, n, w, now, wal)
                ELSE SubmitAt(b, key, c, w, now, wal)

Leg(s, a, key, w, first, n) ==
  [a |-> a, key |-> key, w |-> w, first |-> first,
   n |-> IF IsArray(s) THEN n ELSE 0]

Answer(s, a) == granted' = [granted EXCEPT ![s] = a]

(* One source: escrow, then record the route.                              *)
handleGate(p, s) ==
  LET sub == Submissions[s]
      a   == sub.sources[1]
  IN  /\ h[p] = Idle /\ granted[s] = "no" /\ ~IsMulti(s)
      /\ clock + TTL <= MaxClock
      /\ \E wal \in Wals("gate") :
           LET r == Submit(bds[a], s, <<s, 0>>, GateRate(s), sub.n, sub.w, clock,
                          wal)
           IN  /\ Call(a, r, s, "gate", wal)
               /\ IF r.ok
                  THEN /\ Busy(p, [op |-> "record", s |-> s,
                                   legs |-> <<Leg(s, a, <<s, 0>>, sub.w, 0,
                                                  sub.n)>>])
                       /\ Answer(s, "asked")
                  ELSE Answer(s, "rejected") /\ UNCHANGED h
      /\ UNCHANGED <<clock, tables, sweep, recon, slurm, report, swept>>

(* Several sources: one rate for all legs.  Without a node or resource     *)
(* price it is the first source's flat rate: the comparison with the       *)
(* others compares that rate with itself.                                  *)
resolveSources(s) ==
  IF GateRate(s) # 0 THEN GateRate(s) ELSE bds[Submissions[s].sources[1]].C

(* Read each balance ...                                                   *)
handleGateMultiSource(p, s) ==
  /\ h[p] = Idle /\ granted[s] = "no" /\ IsMulti(s)
  /\ clock + TTL <= MaxClock
  /\ Busy(p, [op |-> "read", s |-> s, c |-> resolveSources(s), bal |-> <<>>])
  /\ Answer(s, "asked")
  /\ UNCHANGED <<bds, clock, tables, sweep, recon, slurm, report, tally, swept>>

(* ... plan by whole seconds, or by whole tasks for an array ...           *)
readBalance(p) ==
  LET g    == h[p]
      sub  == Submissions[g.s]
      bal  == Append(g.bal, bds[sub.sources[Len(g.bal) + 1]].B)
      plan == IF IsArray(g.s) THEN fundingPlan(bal, g.c * sub.w, sub.n)
              ELSE fundingPlan(bal, g.c, sub.w)
  IN  /\ g.op = "read"
      /\ IF Len(bal) < Len(sub.sources)
         THEN Busy(p, [g EXCEPT !.bal = bal]) /\ UNCHANGED granted
         ELSE IF plan.fundable
         THEN /\ Busy(p, [op |-> "place", s |-> g.s, c |-> g.c,
                          plan |-> plan.legs, legs |-> <<>>, now |-> clock])
              /\ UNCHANGED granted
         ELSE Busy(p, Idle) /\ Answer(g.s, "rejected")
      /\ UNCHANGED <<bds, clock, tables, sweep, recon, slurm, report, tally,
                     swept>>

(* ... place the legs one by one ...                                       *)
placeLeg(p) ==
  LET g   == h[p]
      sub == Submissions[g.s]
      lp  == g.plan[Len(g.legs) + 1]
      a   == sub.sources[lp.Index]
      key == <<g.s, lp.Index>>
      w   == IF IsArray(g.s) THEN sub.w ELSE lp.W
      first == Total([i \in 1 .. Len(g.legs) |-> g.legs[i].n])
      legs == Append(g.legs, Leg(g.s, a, key, w, first, lp.W))
  IN  /\ g.op = "place"
      /\ \E wal \in Wals("gate") :
           LET r == Submit(bds[a], g.s, key, g.c, lp.W, w, g.now, wal)
           IN  /\ Call(a, r, g.s, "gate", wal)
               /\ Busy(p, IF ~r.ok
                          THEN [op |-> "rollback", s |-> g.s, legs |-> g.legs,
                                k |-> 1, i |-> 0]
                          ELSE IF Len(legs) = Len(g.plan)
                          THEN [op |-> "record", s |-> g.s, legs |-> legs]
                          ELSE [g EXCEPT !.legs = legs])
      /\ UNCHANGED <<clock, tables, sweep, recon, env, swept>>

(* Mutant: only the first task of an array leg is cancelled.               *)
CancelFirst(l, i) == FALSE

(* ... and when one is refused cancel those placed, task by task, then     *)
(* reject.                                                                 *)
MoreTasks(l, i) == i + 1 < l.n

rollback(p) ==
  LET g == h[p]
      l == g.legs[g.k]
      b == bds[l.a]
  IN  /\ g.op = "rollback"
      /\ IF g.k > Len(g.legs)
         THEN /\ Busy(p, Idle) /\ Answer(g.s, "rejected")
              /\ UNCHANGED <<bds, tally>>
         ELSE /\ \E wal \in Wals("rollback") :
                   Call(l.a, IF IsArray(g.s)
                             THEN CancelTask(b, l.key, g.i, 0, clock, wal)
                             ELSE Cancel(b, l.key, 0, clock, wal),
                        g.s, "rollback", wal)
              /\ Busy(p, IF MoreTasks(l, g.i) THEN [g EXCEPT !.i = @ + 1]
                         ELSE [g EXCEPT !.k = @ + 1, !.i = 0])
              /\ UNCHANGED granted
      /\ UNCHANGED <<clock, tables, sweep, recon, slurm, report, swept>>

recordRoute(p) ==
  LET g == h[p]
  IN  /\ g.op = "record"
      /\ routes' = Put(routes, g.s, g.legs)
      /\ tokenArrayN' = IF IsArray(g.s)
                        THEN Put(tokenArrayN, g.s, Submissions[g.s].n)
                        ELSE tokenArrayN
      /\ Busy(p, Idle) /\ Answer(g.s, "yes")
      /\ slurm' = [j \in Jobs |-> IF j[1] = g.s THEN "queued" ELSE slurm[j]]
      /\ UNCHANGED <<bds, clock, jobToToken, sweep, recon, report, tally, swept>>

-----------------------------------------------------------------------------
(* BIND (handleBind, handleBindMultiSource), called by the prolog of a     *)
(* running job: look the token up, record the job id, reprice every leg to *)
(* the node's rate, start every leg.  A task starts only in the leg that   *)
(* owns it.  Errors of reprice and start change nothing here.              *)
NodeRate(s) == rate(Submissions[s].node)

handleBind(p, j) ==
  /\ h[p] = Idle /\ slurm[j] = "running" /\ j[1] \in DOMAIN routes
  /\ Busy(p, [op |-> "bind", s |-> j[1], j |-> j, legs |-> routes[j[1]],
              k |-> 1])
  /\ UNCHANGED <<bds, clock, tables, sweep, recon, env, tally, swept>>

bindRecord(p) ==
  LET g == h[p]
  IN  /\ g.op = "bind"
      /\ jobToToken' = Put(jobToToken, g.j, g.s)
      /\ Busy(p, [g EXCEPT !.op = IF IsArray(g.s) \/ NodeRate(g.s) = 0
                                  THEN "start" ELSE "reprice"])
      /\ UNCHANGED <<bds, clock, routes, tokenArrayN, sweep, recon, env, tally,
                     swept>>

(* Mutant: only the first leg is repriced.                                 *)
RepriceFirst(p) ==
  LET g == h[p]
      l == g.legs[1]
  IN  /\ g.op = "reprice"
      /\ Call(l.a, Reprice(bds[l.a], l.key, NodeRate(g.s), clock, TRUE), g.s,
              "bind", TRUE)
      /\ Busy(p, [g EXCEPT !.op = "start", !.k = 1])
      /\ UNCHANGED <<clock, tables, sweep, recon, env, swept>>

bindReprice(p) ==
  LET g == h[p]
      l == g.legs[g.k]
  IN  /\ g.op = "reprice"
      /\ \E wal \in Wals("bind") :
           Call(l.a, Reprice(bds[l.a], l.key, NodeRate(g.s), clock, wal), g.s,
                "bind", wal)
      /\ Busy(p, IF g.k < Len(g.legs) THEN [g EXCEPT !.k = @ + 1]
                 ELSE [g EXCEPT !.op = "start", !.k = 1])
      /\ UNCHANGED <<clock, tables, sweep, recon, env, swept>>

bindStart(p) ==
  LET g == h[p]
      k == IF IsArray(g.s) THEN legForTask(g.legs, g.j[2]) ELSE g.k
      l == g.legs[k]
  IN  /\ g.op = "start"
      /\ \E wal \in Wals("bind") :
           Call(l.a,
                IF IsArray(g.s)
                THEN StartTask(bds[l.a], l.key, g.j[2] - l.first, clock, wal)
                ELSE Start(bds[l.a], l.key, clock, wal),
                g.s, "bind", wal)
      /\ Busy(p, IF IsArray(g.s) \/ g.k = Len(g.legs) THEN Idle
                 ELSE [g EXCEPT !.k = @ + 1])
      /\ UNCHANGED <<clock, tables, sweep, recon, env, swept>>

-----------------------------------------------------------------------------
(* SETTLE (handleSettle and its variants), called by the completion hooks  *)
(* with the job id: find the token, settle every leg with its share of the *)
(* runtime or the one task, then drop the routing.  A request that names   *)
(* no task (idx FALSE, the epilog) is handled as a job's.                  *)
handleSettle(p, j, idx) ==
  /\ h[p] = Idle /\ slurm[j] = "gone" /\ report[j][1] # "none"
  /\ j \in DOMAIN jobToToken /\ jobToToken[j] \in DOMAIN routes
  /\ Busy(p, [op |-> "settle", s |-> jobToToken[j], j |-> j,
              legs |-> routes[jobToToken[j]], k |-> 1,
              task |-> idx /\ IsArray(jobToToken[j])])
  /\ UNCHANGED <<bds, clock, tables, sweep, recon, env, tally, swept>>

SettleJob(b, key, kind, rt, wal) ==
  CASE kind = "complete"  -> Complete(b, key, rt, clock, wal)
    [] kind = "timeout"   -> Timeout(b, key, clock, wal)
    [] kind = "cancel"    -> Cancel(b, key, rt, clock, wal)
    [] kind = "infrafail" -> InfraFail(b, key, rt, clock, wal)

SettleTask(b, key, i, kind, rt, wal) ==
  CASE kind = "complete"  -> CompleteTask(b, key, i, rt, clock, wal)
    [] kind = "timeout"   -> TimeoutTask(b, key, i, clock, wal)
    [] kind = "cancel"    -> CancelTask(b, key, i, rt, clock, wal)
    [] kind = "infrafail" -> InfraFailTask(b, key, i, rt, clock, wal)

(* One leg of a job.  A refused settle keeps the route of a one-source     *)
(* job; a multi-source job goes on with its other legs and loses it.       *)
settleLeg(p) ==
  LET g  == h[p]
      l  == g.legs[g.k]
      rt == IF IsMulti(g.s) THEN legRuntime(g.legs, g.k, report[g.j][2])
            ELSE report[g.j][2]
  IN  /\ g.op = "settle" /\ ~g.task
      /\ \E wal \in Wals("settle") :
           LET r == SettleJob(bds[l.a], l.key, report[g.j][1], rt, wal)
           IN  /\ Call(l.a, r, g.s, "settle", wal)
               /\ Busy(p, IF g.k < Len(g.legs) THEN [g EXCEPT !.k = @ + 1]
                          ELSE IF r.ok \/ IsMulti(g.s) THEN [g EXCEPT !.op = "drop"]
                          ELSE Idle)
      /\ UNCHANGED <<clock, tables, sweep, recon, env, swept>>

settleArrayTask(p) ==
  LET g == h[p]
      l == g.legs[legForTask(g.legs, g.j[2])]
  IN  /\ g.op = "settle" /\ g.task
      /\ \E wal \in Wals("settle") :
           LET r == SettleTask(bds[l.a], l.key, g.j[2] - l.first, report[g.j][1],
                               report[g.j][2], wal)
           IN  /\ Call(l.a, r, g.s, "settle", wal)
               /\ Busy(p, IF r.ok THEN [g EXCEPT !.op = "drop"] ELSE Idle)
      /\ UNCHANGED <<clock, tables, sweep, recon, env, swept>>

(* Mutants: the count is compared with 0, or with 2; the job id stays.     *)
DropAt(p, limit, jobs) ==
  LET g    == h[p]
      n    == tokenArrayN[g.s]
      last == ~g.task \/ (g.s \in DOMAIN tokenArrayN /\ n <= limit)
  IN  /\ g.op = "drop"
      /\ jobToToken' = jobs
      /\ routes' = IF last THEN Drop(routes, g.s) ELSE routes
      /\ tokenArrayN' = IF ~g.task \/ g.s \notin DOMAIN tokenArrayN
                        THEN tokenArrayN
                        ELSE IF last THEN Drop(tokenArrayN, g.s)
                        ELSE [tokenArrayN EXCEPT ![g.s] = n - 1]
      /\ Busy(p, Idle)
      /\ UNCHANGED <<bds, clock, sweep, recon, env, tally, swept>>

DropLate(p)     == DropAt(p, 0, Drop(jobToToken, h[p].j))
DropEarly(p)    == DropAt(p, 2, Drop(jobToToken, h[p].j))
DropKeepsJob(p) == DropAt(p, 1, jobToToken)

(* Settled task by task, an array keeps its route until the count of its   *)
(* tasks runs out.                                                         *)
dropRoute(p) ==
  LET g    == h[p]
      n    == tokenArrayN[g.s]
      last == ~g.task \/ (g.s \in DOMAIN tokenArrayN /\ n <= 1)
  IN  /\ g.op = "drop"
      /\ jobToToken' = Drop(jobToToken, g.j)
      /\ routes' = IF last THEN Drop(routes, g.s) ELSE routes
      /\ tokenArrayN' = IF ~g.task \/ g.s \notin DOMAIN tokenArrayN
                        THEN tokenArrayN
                        ELSE IF last THEN Drop(tokenArrayN, g.s)
                        ELSE [tokenArrayN EXCEPT ![g.s] = n - 1]
      /\ Busy(p, Idle)
      /\ UNCHANGED <<bds, clock, sweep, recon, env, tally, swept>>

-----------------------------------------------------------------------------
(* The janitors collect under the lock and cancel afterwards, one escrow   *)
(* at a time.  An item is <<key, task>>, task -1 for a job's escrow.       *)
Unbound(b) ==
  {<<key, -1>> : key \in {k \in DOMAIN b.escrows :
                            /\ ~b.escrows[k].Started
                            /\ clock - b.escrows[k].Submitted >= TTL}} \cup
  UNION {{<<key, i>> : i \in {t \in DOMAIN b.arrays[key].tasks :
                                ~b.arrays[key].tasks[t].settled}} :
         key \in {k \in DOMAIN b.arrays :
                    /\ clock - b.arrays[k].Submitted >= TTL
                    /\ \A t \in DOMAIN b.arrays[k].tasks :
                         ~b.arrays[k].tasks[t].started}}

Orphans(b, live) ==
  {<<key, -1>> : key \in {k \in DOMAIN b.escrows :
                            b.escrows[k].Started /\ k \notin live}} \cup
  UNION {{<<key, i>> : i \in {t \in DOMAIN b.arrays[key].tasks :
                                /\ b.arrays[key].tasks[t].started
                                /\ ~b.arrays[key].tasks[t].settled}} :
         key \in DOMAIN b.arrays \ live}

(* Both janitors refund in full.                                           *)
Refund(a, item, wal) ==
  /\ Call(a, IF item[2] = -1 THEN Cancel(bds[a], item[1], 0, clock, wal)
             ELSE CancelTask(bds[a], item[1], item[2], 0, clock, wal),
          item[1][1], "sweep", wal)
  /\ swept' = swept \cup {item[1][1]}

(* SweepUnbound on one account, from the daemon's ticker.                  *)
SweepUnbound(a) ==
  /\ "unbound" \in Janitors /\ sweep = Idle
  /\ sweep' = IF Unbound(bds[a]) = {} THEN Idle
              ELSE [op |-> "sweep", a |-> a, todo |-> Unbound(bds[a])]
  /\ UNCHANGED <<bds, clock, tables, h, recon, env, tally, swept>>

sweepCancel ==
  /\ sweep # Idle
  /\ \E item \in sweep.todo, wal \in Wals("sweep") :
       /\ Refund(sweep.a, item, wal)
       /\ sweep' = IF sweep.todo = {item} THEN Idle
                   ELSE [sweep EXCEPT !.todo = @ \ {item}]
  /\ UNCHANGED <<clock, tables, h, recon, env>>

(* The items an account holds for jobs and tasks that have started.        *)
Bound(b) == Orphans(b, {})

(* RECONCILE: squeue lists the live jobs; the handler translates them to   *)
(* escrow keys, then sweeps account after account.  `bound' is history:    *)
(* what had started when the list was made.                                *)
squeue ==
  /\ "reconcile" \in Janitors /\ recon = Idle
  /\ recon' = [op |-> "listed",
               live |-> {j \in Jobs : slurm[j] \in {"queued", "running"}},
               bound |-> UNION {Bound(bds[a]) : a \in Accounts}]
  /\ UNCHANGED <<bds, clock, tables, h, sweep, env, tally, swept>>

(* Mutant: a master token is not expanded to its legs.                     *)
ReconcileMasterOnly ==
  /\ recon.op = "listed"
  /\ recon' = [op |-> "sweep", live |-> recon.live, bound |-> recon.bound,
               keys |-> {<<jobToToken[j], 0>> :
                           j \in recon.live \cap DOMAIN jobToToken},
               left |-> Accounts, a |-> CHOOSE a \in Accounts : TRUE,
               todo |-> {}]
  /\ UNCHANGED <<bds, clock, tables, h, sweep, env, tally, swept>>

handleReconcile ==
  LET toks == {jobToToken[j] : j \in recon.live \cap DOMAIN jobToToken}
      keys == {<<s, 0>> : s \in toks} \cup
              UNION {{routes[s][k].key : k \in 1 .. Len(routes[s])} :
                     s \in toks \cap DOMAIN routes}
  IN  /\ recon.op = "listed"
      /\ recon' = [op |-> "sweep", live |-> recon.live, bound |-> recon.bound,
                   keys |-> keys, left |-> Accounts,
                   a |-> CHOOSE a \in Accounts : TRUE, todo |-> {}]
      /\ UNCHANGED <<bds, clock, tables, h, sweep, env, tally, swept>>

(* Mutant: the sweep stops after the first account.                        *)
SweepOneAccount(a) ==
  /\ recon.op = "sweep" /\ recon.todo = {} /\ recon.left = Accounts
  /\ a = CHOOSE b \in Accounts : TRUE
  /\ LET todo == Orphans(bds[a], recon.keys)
     IN  recon' = IF todo = {} THEN Idle
                  ELSE [recon EXCEPT !.a = a, !.todo = todo, !.left = {}]
  /\ UNCHANGED <<bds, clock, tables, h, sweep, env, tally, swept>>

SweepOrphans(a) ==
  /\ recon.op = "sweep" /\ recon.todo = {} /\ a \in recon.left
  /\ LET todo == Orphans(bds[a], recon.keys)
     IN  recon' = IF todo = {} /\ recon.left = {a} THEN Idle
                  ELSE [recon EXCEPT !.a = a, !.todo = todo, !.left = @ \ {a}]
  /\ UNCHANGED <<bds, clock, tables, h, sweep, env, tally, swept>>

reconCancel ==
  /\ recon.op = "sweep"
  /\ \E item \in recon.todo, wal \in Wals("sweep") :
       /\ Refund(recon.a, item, wal)
       /\ recon' = IF recon.todo = {item} /\ recon.left = {} THEN Idle
                   ELSE [recon EXCEPT !.todo = @ \ {item}]
  /\ UNCHANGED <<clock, tables, h, sweep, env>>

-----------------------------------------------------------------------------
(* Slurm: a queued job starts or is cancelled; a running job ends.  Hooks  *)
(* are called late, twice or never.                                        *)
SlurmStart(j) ==
  /\ slurm[j] = "queued"
  /\ slurm' = [slurm EXCEPT ![j] = "running"]
  /\ UNCHANGED <<bds, clock, tables, h, sweep, recon, granted, report, tally,
                 swept>>

Binding(p, j) == h[p].op \in {"bind", "reprice", "start"} /\ h[p].j = j

SlurmEnd(j) ==
  /\ \/ /\ slurm[j] = "running"
        /\ LateBinds \/ \A p \in Handlers : ~Binding(p, j)
        /\ \E r \in Reports : report' = [report EXCEPT ![j] = r]
     \/ slurm[j] = "queued" /\ UNCHANGED report
  /\ slurm' = [slurm EXCEPT ![j] = "gone"]
  /\ UNCHANGED <<bds, clock, tables, h, sweep, recon, granted, tally, swept>>

(* Time stops where a gate that has yet to escrow could not age out.       *)
Tick ==
  /\ clock < MaxClock
  /\ \A p \in Handlers : h[p].op = "read" => clock + TTL < MaxClock
  /\ clock' = clock + 1
  /\ UNCHANGED <<bds, tables, h, sweep, recon, env, tally, swept>>

(* A crash and restart: the budgets come back, the goroutines and the      *)
(* routing tables do not.  A submission whose GATE was cut off has no      *)
(* token, so no job of it names one.                                       *)
Restart ==
  /\ Allowed("crash") /\ faults' = faults \cup {"crash"}
  /\ routes' = Empty /\ jobToToken' = Empty /\ tokenArrayN' = Empty
  /\ h' = [p \in Handlers |-> Idle] /\ sweep' = Idle /\ recon' = Idle
  /\ granted' = [s \in Subs |-> IF granted[s] = "asked" THEN "lost"
                                ELSE granted[s]]
  /\ UNCHANGED <<bds, clock, slurm, report, billed, swept>>

-----------------------------------------------------------------------------
HandlerStep(p) ==
  \/ readBalance(p) \/ placeLeg(p) \/ rollback(p) \/ recordRoute(p)
  \/ bindRecord(p) \/ bindReprice(p) \/ bindStart(p)
  \/ settleLeg(p) \/ settleArrayTask(p) \/ dropRoute(p)

Next ==
  \/ \E p \in Handlers, s \in Subs : handleGate(p, s) \/ handleGateMultiSource(p, s)
  \/ \E p \in Handlers, j \in Jobs :
       \/ handleBind(p, j) \/ handleSettle(p, j, TRUE)
       \/ Epilog /\ handleSettle(p, j, FALSE)
  \/ \E p \in Handlers : HandlerStep(p)
  \/ \E a \in Accounts : SweepUnbound(a) \/ SweepOrphans(a)
  \/ sweepCancel \/ squeue \/ handleReconcile \/ reconCancel
  \/ \E j \in Jobs : SlurmStart(j) \/ SlurmEnd(j)
  \/ Tick \/ Restart

(* Handlers run on; the clock advances; the ticker drives the unbound      *)
(* sweep of every account, and the recommended timer drives reconcile.     *)
(* Nothing makes Slurm submit, start or end a job, or a hook arrive.       *)
Fairness ==
  /\ \A p \in Handlers : WF_vars(HandlerStep(p))
  /\ \A a \in Accounts : SF_vars(SweepUnbound(a) /\ sweep' # sweep)
  /\ WF_vars(sweepCancel)
  /\ WF_vars(squeue) /\ WF_vars(handleReconcile) /\ WF_vars(reconCancel)
  /\ WF_vars(\E a \in Accounts : SweepOrphans(a))
  /\ WF_vars(Tick)

Spec == Init /\ [][Next]_vars /\ Fairness

-----------------------------------------------------------------------------
(* Types.                                                                  *)
Token == Subs \X Nat

TypeOK ==
  /\ \A a \in Accounts : DOMAIN bds[a].escrows \cup DOMAIN bds[a].arrays
                            \subseteq Token
  /\ clock \in 0 .. MaxClock /\ faults \in SUBSET UNION Faults
  /\ DOMAIN routes \subseteq Subs
  /\ \A s \in DOMAIN routes : \A k \in 1 .. Len(routes[s]) :
       routes[s][k].a \in Accounts /\ routes[s][k].key \in Token
  /\ DOMAIN jobToToken \subseteq Jobs /\ Range(jobToToken) \subseteq Subs
  /\ \A s \in DOMAIN tokenArrayN : tokenArrayN[s] \in 1 .. Submissions[s].n
  /\ \A p \in Handlers :
       h[p].op \in {"idle", "read", "place", "rollback", "record", "bind",
                    "reprice", "start", "settle", "drop"}
  /\ granted \in [Subs -> {"no", "asked", "yes", "rejected", "lost"}]
  /\ slurm \in [Jobs -> {"new", "queued", "running", "gone"}]
  /\ billed \in [Subs -> Nat] /\ swept \subseteq Subs

(* What the accounts hold for a submission.                                *)
HeldJobs(a, s) == {k \in DOMAIN bds[a].escrows : k[1] = s}
HeldArrays(a, s) == {k \in DOMAIN bds[a].arrays : k[1] = s}
Holds(a, s) == HeldJobs(a, s) \cup HeldArrays(a, s) # {}
Held(s) == \E a \in Accounts : Holds(a, s)

Over(s) == \A j \in Jobs : j[1] = s => slurm[j] = "gone"

(* What an account holds, as items; walltime held over all legs and tasks. *)
Open(b) ==
  {<<k, -1>> : k \in DOMAIN b.escrows} \cup
  UNION {{<<k, i>> : i \in {t \in DOMAIN b.arrays[k].tasks :
                             ~b.arrays[k].tasks[t].settled}} :
         k \in DOMAIN b.arrays}

Wall(b, x) == IF x[2] = -1 THEN b.escrows[x[1]].W ELSE b.arrays[x[1]].W

ItemsOf(s) ==
  UNION {{a} \X {x \in Open(bds[a]) : x[1][1] = s} : a \in Accounts}

Funded(s) == Total([y \in ItemsOf(s) |-> Wall(bds[y[1]], y[2])])

(* Multi-source funding is all or nothing (server.go,                      *)
(* handleGateMultiSource): a submission the gate has rejected holds no     *)
(* escrow in any account, and one whose route is being recorded holds its  *)
(* whole walltime, whatever gates ran between its reads and its escrows.   *)
AllOrNothing ==
  /\ \A s \in Subs : granted[s] = "rejected" => ~Held(s)
  /\ \A p \in Handlers :
       (h[p].op = "record" /\ h[p].s \notin swept) =>
         Funded(h[p].s) = Submissions[h[p].s].n * Submissions[h[p].s].w

(* BIND and SETTLE carry a token or a job id and no account (server.go):   *)
(* until the daemon restarts, whatever an admitted submission still holds  *)
(* can be routed, hooks that are called twice or race each other included. *)
Routed ==
  \A s \in Subs :
    (granted[s] = "yes" /\ Held(s) /\ "crash" \notin faults) => s \in DOMAIN routes

(* The tables do not grow unbounded (server.go, handleSettle): when a      *)
(* submission holds nothing and no handler is at work, no table names it.  *)
(* A janitor's refund leaves the entries of what it refunded.              *)
TablesReclaimed ==
  \A s \in Subs \ swept :
    (granted[s] = "yes" /\ ~Held(s) /\ \A p \in Handlers : h[p] = Idle) =>
      /\ s \notin DOMAIN routes \cup DOMAIN tokenArrayN
      /\ s \notin Range(jobToToken)

(* Legs can't diverge (server.go, handleBindMultiSource): outside the loop *)
(* that reprices them, the legs held for a job all have the same rate.     *)
LegsAgree ==
  \A s \in Subs :
    (\A p \in Handlers : h[p].op = "reprice" => h[p].s # s) =>
      \A a, b \in Accounts : \A k \in HeldJobs(a, s), l \in HeldJobs(b, s) :
        bds[a].escrows[k].C = bds[b].escrows[l].C

(* The total billed is the job's true cost (funding.go, legRuntime; SETTLE *)
(* in server.go): a submission settled by its hooks alone, once or twice,  *)
(* one leg or many, has cost its rate times its runtime, capped at its     *)
(* walltime, and the whole walltime on a timeout.                          *)
Rate(s) ==
  LET gate == RateOrFlat(NewAccount(Submissions[s].sources[1]), GateRate(s))
  IN  IF IsArray(s) \/ NodeRate(s) \notin 1 .. gate THEN gate ELSE NodeRate(s)

Cost(j) ==
  LET w == Submissions[j[1]].w
  IN  Rate(j[1]) * (IF report[j][1] = "timeout" THEN w ELSE Clamp(report[j][2], w))

BillExact ==
  \A s \in Subs :
    (granted[s] = "yes" /\ Over(s) /\ ~Held(s) /\ s \notin swept) =>
      billed[s] = Total([j \in {i \in Jobs : i[1] = s} |-> Cost(j)])

(* The unbound sweep only ever touches never-started escrows               *)
(* (operations.md): no step of it refunds a job that has started.          *)
SweepsUnstartedOnly ==
  [][sweepCancel =>
       \A a \in Accounts : \A k \in DOMAIN bds[a].escrows :
         bds[a].escrows[k].Started => k \in DOMAIN bds'[a].escrows]_vars

(* Reconcile refunds started escrows that are not in the live set it was   *)
(* handed (operations.md, handleReconcile in server.go): a job or task of  *)
(* that set which had started when squeue made it, and still runs, is not  *)
(* refunded until the daemon restarts and forgets its job id.  Binds,      *)
(* settles, failed appends and sweeps under way meanwhile do not matter.   *)
Refunded ==
  {i \in UNION {Bound(bds[a]) : a \in Accounts} :
     i \notin UNION {Bound(bds'[a]) : a \in Accounts}}

JobOf(i) ==
  LET s     == i[1][1]
      leg   == CHOOSE k \in 1 .. Len(routes[s]) : routes[s][k].key = i[1]
      first == IF s \in DOMAIN routes THEN routes[s][leg].first ELSE 0
  IN  <<s, IF i[2] = -1 THEN 0 ELSE first + i[2]>>

ReconcileSparesBound ==
  [][reconCancel /\ "crash" \notin faults =>
       \A i \in Refunded \cap recon.bound :
         JobOf(i) \notin recon.live \/ slurm[JobOf(i)] = "gone"]_vars

(* Together the janitors guarantee that no escrow stays stuck              *)
(* (operations.md): when its jobs are over, its gate was lost in a crash   *)
(* or rejected and rolled back, a submission comes to hold nothing, hooks  *)
(* called or not, the append of the rollback or of a leg's settle failing  *)
(* or not.                                                                 *)
EscrowReclaimed ==
  \A s \in Subs :
    (Over(s) \/ granted[s] \in {"lost", "rejected"}) ~> ~Held(s)
=============================================================================
