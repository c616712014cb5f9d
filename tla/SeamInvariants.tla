--------------------------- MODULE SeamInvariants ---------------------------
(***************************************************************************)
(* What the proofs about routing, multi-source funding and billing say of  *)
(* a state (the inductive invariants) and of a step (the kinds of step).   *)
(***************************************************************************)
EXTENDS Seam

-----------------------------------------------------------------------------
(* The budgets of this model: burst off, escrows under tokens, an array as *)
(* long as one of its tasks is open.                                       *)
TaskRecord == [started : BOOLEAN, settled : BOOLEAN, burstResv : {0}]

TaskMaps == UNION {[0 .. (n - 1) -> TaskRecord] : n \in Nat}

EscrowRecord ==
  [C : Nat \ {0}, Reserved : Int, W : Nat, Started : BOOLEAN, BurstResv : {0},
   Submitted : Nat]

OpenTasks(ae) == {i \in DOMAIN ae.tasks : ~ae.tasks[i].settled}

ArrayRecord ==
  [C : Nat \ {0}, W : Nat, N : Nat, Remaining : Nat \ {0}, Reserved : Int,
   Submitted : Nat, tasks : TaskMaps]

Counts(ae) ==
  IsFiniteSet(OpenTasks(ae)) /\ Cardinality(OpenTasks(ae)) = ae.Remaining

ArrayEscrow == {ae \in ArrayRecord : Counts(ae)}

EscrowMaps == UNION {[T -> EscrowRecord] : T \in SUBSET Token}

ArrayMaps == UNION {[T -> ArrayEscrow] : T \in SUBSET Token}

PlainRecord(a) ==
  [C : {FlatRates[a]}, TS : {0}, TE : {MaxClock + 1}, B : Int,
   ReservedTotal : Int, Consumed : Nat, WriteOff : Nat, B0 : {Opening},
   BillInfraFailures : {FALSE}, K : {0}, BurstEnabled : {FALSE},
   BurstCeilingPct : {0}, BurstDrawCap : {0}, burstPot : {0}, fracAcc : {0},
   rLive : {0}, lastTouch : {0}, escrows : EscrowMaps, arrays : ArrayMaps,
   status : {"Active"}]

(* The rate of an item.                                                    *)
ItemRate(b, x) == IF x[2] = -1 THEN b.escrows[x[1]].C ELSE b.arrays[x[1]].C

-----------------------------------------------------------------------------
(* What the methods do to what a budget holds.                             *)
SameItem(b, b2, x) ==
  Wall(b2, x) = Wall(b, x) /\ ItemRate(b2, x) = ItemRate(b, x)

(* New items X, waiting, at rate c for w seconds each.                     *)
Gains(b, b2, X, c, w) ==
  /\ X \cap Open(b) = {} /\ Open(b2) = Open(b) \cup X
  /\ \A x \in Open(b) : SameItem(b, b2, x)
  /\ \A x \in X : Wall(b2, x) = w /\ ItemRate(b2, x) = c
  /\ Bound(b2) = Bound(b) /\ Spent(b2) = Spent(b)

(* Item x is closed, `used' of it billed or written off.                   *)
Loses(b, b2, x, used) ==
  /\ x \in Open(b) /\ Open(b2) = Open(b) \ {x}
  /\ \A y \in Open(b2) : SameItem(b, b2, y)
  /\ Bound(b2) = Bound(b) \ {x}
  /\ used \in Nat /\ Spent(b2) = Spent(b) + used

(* Item x is dispatched.                                                   *)
Lights(b, b2, x) ==
  /\ Open(b2) = Open(b) /\ \A y \in Open(b) : SameItem(b, b2, y)
  /\ Bound(b2) = Bound(b) \cup ({x} \cap Open(b)) /\ Spent(b2) = Spent(b)

(* Item x is repriced to c.                                                *)
Lowers(b, b2, x, c) ==
  /\ Open(b2) = Open(b) /\ \A y \in Open(b) \ {x} : SameItem(b, b2, y)
  /\ Wall(b2, x) = Wall(b, x) /\ ItemRate(b2, x) = c
  /\ Bound(b2) = Bound(b) /\ Spent(b2) = Spent(b)

-----------------------------------------------------------------------------
(* A submit escrows items X, or is refused.                                *)
Admits(a, b, X, c, w, r) ==
  \/ r.ok = FALSE /\ r.bd = b
  \/ r.ok = TRUE /\ r.bd \in PlainRecord(a) /\ Gains(b, r.bd, X, c, w)

(* An exit of an item that is open closes it and bills `used'; one that    *)
(* finds nothing open, or whose append fails, is refused.                  *)
Exits(a, b, x, wal, used, r) ==
  /\ r.bd \in PlainRecord(a)
  /\ (x \notin Open(b) \/ wal = FALSE) => r.ok = FALSE /\ r.bd = b
  /\ (x \in Open(b) /\ wal = TRUE) => r.ok = TRUE /\ Loses(b, r.bd, x, used)

(* What an exit of each kind bills.                                        *)
Due(b, x, kind, rt) ==
  IF kind = "timeout" THEN Wall(b, x)
  ELSE IF kind = "cancel" /\ x \notin Bound(b) THEN 0
  ELSE Clamp(rt, Wall(b, x))

-----------------------------------------------------------------------------
(* What a submission asks for.                                             *)
SubRecord(s) ==
  /\ Submissions[s].sources \in Seq(Accounts) /\ Len(Submissions[s].sources) > 0
  /\ Submissions[s].n \in Nat \ {0} /\ Submissions[s].w \in Nat
  /\ \A i \in 1 .. Len(Submissions[s].sources) :
       Submissions[s].sources[i] \in Accounts

(* Units a submission needs: seconds, or tasks.                            *)
Need(s) == IF IsArray(s) THEN Submissions[s].n ELSE Submissions[s].w

(* The rate of a gate with several sources.                                *)
C0(s) ==
  IF GateRate(s) # 0 THEN GateRate(s) ELSE FlatRates[Submissions[s].sources[1]]

-----------------------------------------------------------------------------
(* Units planned from the first k legs.                                    *)
PSum(plan, k) == Total([i \in 1 .. k |-> plan[i].W])

PlanLegs(n) == Seq([Index : 1 .. n, W : Nat \ {0}])

Climbs(plan) ==
  \A k, l \in 1 .. Len(plan) : k < l => plan[k].Index < plan[l].Index

(* A plan over the first i sources, `need' units in all.                   *)
Partial(acc, i, need) ==
  /\ acc.legs \in PlanLegs(i) /\ acc.need \in Nat /\ Climbs(acc.legs)
  /\ PSum(acc.legs, Len(acc.legs)) + acc.need = need

-----------------------------------------------------------------------------
(* The legs of a submission.                                               *)
Width(s, l) == IF IsArray(s) THEN l.n ELSE l.w

(* Units funded by the first k legs.                                       *)
Off(s, L, k) == Total([i \in 1 .. k |-> Width(s, L[i])])

LegRecord ==
  [a : Accounts, key : Token, w : Nat, first : Nat, n : Nat]

(* Legs as a gate places them: keys in the order of the sources, and the   *)
(* tasks of an array split without gap or overlap.                         *)
LegOK(s, L, k) ==
  /\ L[k].key[1] = s
  /\ IsArray(s) => /\ L[k].n > 0 /\ L[k].w = Submissions[s].w
                   /\ L[k].first = Off(s, L, k - 1)
  /\ ~IsArray(s) => L[k].n = 0

Ascends(L) == \A k, l \in 1 .. Len(L) : k < l => L[k].key[2] < L[l].key[2]

Placed(s, L) ==
  /\ L \in Seq(LegRecord) /\ Ascends(L)
  /\ \A k \in 1 .. Len(L) : LegOK(s, L, k)

(* ... of which there are enough.                                          *)
Whole(s, L) == Placed(s, L) /\ Len(L) > 0 /\ Off(s, L, Len(L)) = Need(s)

(* A leg that may be placed after L, and the legs with it.                 *)
Fits(s, L, l) ==
  /\ Placed(s, L) /\ l \in LegRecord /\ l.key[1] = s
  /\ \A k \in 1 .. Len(L) : L[k].key[2] < l.key[2]
  /\ IsArray(s) => /\ l.n > 0 /\ l.w = Submissions[s].w
                   /\ l.first = Off(s, L, Len(L))
  /\ ~IsArray(s) => l.n = 0

Longer(s, L, l, M) ==
  /\ Placed(s, M) /\ Len(M) = Len(L) + 1 /\ M[Len(L) + 1] = l
  /\ \A k \in 1 .. Len(L) : M[k] = L[k]
  /\ Off(s, M, Len(M)) = Off(s, L, Len(L)) + Width(s, l)

-----------------------------------------------------------------------------
(* What the accounts hold for a submission, and what a call changes of it. *)
WallOf(y) == Wall(bds[y[1]], y[2])

RateOf(y) == ItemRate(bds[y[1]], y[2])

LitsOf(s) == {y \in ItemsOf(s) : y[2] \in Bound(bds[y[1]])}

Budgets ==
  /\ DOMAIN bds = Accounts /\ bds = [a \in Accounts |-> bds[a]]
  /\ \A a \in Accounts : bds[a] \in PlainRecord(a) /\ IsFiniteSet(Open(bds[a]))
  /\ billed \in [Subs -> Nat]

Alike(y) == WallOf(y)' = WallOf(y) /\ RateOf(y)' = RateOf(y)

Same(t) ==
  /\ ItemsOf(t)' = ItemsOf(t) /\ LitsOf(t)' = LitsOf(t)
  /\ billed'[t] = billed[t]
  /\ \A y \in ItemsOf(t) : Alike(y)

Quiet == \A t \in Subs : Same(t)

Others(s) == \A t \in Subs \ {s} : Same(t)

(* New items Y for s, at rate c for w seconds each.                        *)
Grew(s, Y, c, w) ==
  /\ Others(s)
  /\ Y \cap ItemsOf(s) = {} /\ ItemsOf(s)' = ItemsOf(s) \cup Y
  /\ LitsOf(s)' = LitsOf(s) /\ billed'[s] = billed[s]
  /\ \A y \in ItemsOf(s) : Alike(y)
  /\ \A y \in Y : WallOf(y)' = w /\ RateOf(y)' = c

(* Item y of s is closed, `used' of it billed or written off.              *)
Shut(s, y, used) ==
  /\ Others(s)
  /\ y \in ItemsOf(s) /\ ItemsOf(s)' = ItemsOf(s) \ {y}
  /\ LitsOf(s)' = LitsOf(s) \ {y}
  /\ used \in Nat /\ billed'[s] = billed[s] + used
  /\ \A z \in ItemsOf(s) \ {y} : Alike(z)

(* Item y of s, if it is open, is dispatched.                              *)
Lit(s, y) ==
  /\ Others(s)
  /\ ItemsOf(s)' = ItemsOf(s) /\ billed'[s] = billed[s]
  /\ LitsOf(s)' = LitsOf(s) \cup ({y} \cap ItemsOf(s))
  /\ \A z \in ItemsOf(s) : Alike(z)

(* Item y of s is repriced to c.                                           *)
Lowered(s, y, c) ==
  /\ Others(s)
  /\ y \in ItemsOf(s) \ LitsOf(s)
  /\ ItemsOf(s)' = ItemsOf(s) /\ LitsOf(s)' = LitsOf(s) /\ billed'[s] = billed[s]
  /\ \A z \in ItemsOf(s) \ {y} : Alike(z)
  /\ WallOf(y)' = WallOf(y) /\ RateOf(y)' = c

(* An exit of item y: it is closed, or was not open, or the append failed. *)
Closes(s, y, used, f) ==
  \/ Shut(s, y, used) /\ faults' = faults
  \/ Quiet /\ (y \notin ItemsOf(s) \/ f \in faults')

-----------------------------------------------------------------------------
(* What the handlers, the tables and the janitors hold.                    *)
GateOps == {"read", "place", "rollback", "record"}

BindOps == {"bind", "reprice", "start"}

DoneOps == {"settle", "drop"}

Sources(s) == Len(Submissions[s].sources)

PlanOK(s, plan) ==
  plan \in PlanLegs(Sources(s)) /\ Climbs(plan) /\ PSum(plan, Len(plan)) = Need(s)

ReadSlot(g) ==
  /\ g \in [op : {"read"}, s : Subs, c : Nat \ {0}, bal : Seq(Int)]
  /\ g.c = C0(g.s) /\ Len(g.bal) < Sources(g.s)

(* The legs placed follow the plan.                                        *)
Follows(s, L, plan) ==
  /\ Len(L) < Len(plan)
  /\ \A k \in 1 .. Len(L) :
       L[k].key = <<s, plan[k].Index>> /\ Width(s, L[k]) = plan[k].W

PlaceSlot(g) ==
  /\ g \in [op : {"place"}, s : Subs, c : Nat \ {0}, plan : PlanLegs(Sources(g.s)),
            legs : Seq(LegRecord), now : Nat]
  /\ g.c = C0(g.s) /\ PlanOK(g.s, g.plan) /\ Placed(g.s, g.legs)
  /\ Follows(g.s, g.legs, g.plan)

RollbackSlot(g) ==
  /\ g \in [op : {"rollback"}, s : Subs, legs : Seq(LegRecord), k : Nat \ {0}, i : Nat]
  /\ Placed(g.s, g.legs)

RecordSlot(g) ==
  /\ g \in [op : {"record"}, s : Subs, legs : Seq(LegRecord)]
  /\ Whole(g.s, g.legs)

BindSlot(g) ==
  /\ g \in [op : BindOps, s : Subs, j : Jobs, legs : Seq(LegRecord), k : Nat]
  /\ Whole(g.s, g.legs) /\ g.k \in 1 .. Len(g.legs) /\ g.j[1] = g.s
  /\ g.op = "reprice" => ~IsArray(g.s) /\ NodeRate(g.s) > 0

DoneSlot(g) ==
  /\ g \in [op : DoneOps, s : Subs, j : Jobs, legs : Seq(LegRecord), k : Nat,
            task : BOOLEAN]
  /\ Whole(g.s, g.legs) /\ g.k \in 1 .. Len(g.legs) /\ g.j[1] = g.s
  /\ g.task = TRUE => IsArray(g.s)
  /\ Epilog = FALSE /\ IsArray(g.s) => g.task = TRUE

Slot(g) ==
  \/ g = Idle
  \/ ReadSlot(g) \/ PlaceSlot(g) \/ RollbackSlot(g) \/ RecordSlot(g)
  \/ BindSlot(g) \/ DoneSlot(g)

(* A handler past the gate works on the legs that are routed.              *)
Routes(g) ==
  /\ granted[g.s] = "yes"
  /\ g.s \in DOMAIN routes => routes[g.s] = g.legs
  /\ g.op \in BindOps => slurm[g.j] \in {"running", "gone"}
  /\ g.op \in DoneOps => slurm[g.j] = "gone" /\ report[g.j] \in Reports

Slots ==
  /\ DOMAIN h = Handlers /\ h = [p \in Handlers |-> h[p]]
  /\ \A p \in Handlers :
       /\ Slot(h[p])
       /\ h[p].op \in GateOps => granted[h[p].s] = "asked"
       /\ h[p].op \in BindOps \cup DoneOps => Routes(h[p])

(* One handler gates a submission.                                         *)
OneGate ==
  \A p, q \in Handlers :
    (h[p].op \in GateOps /\ h[q].op \in GateOps /\ h[p].s = h[q].s) => p = q

Tables ==
  /\ DOMAIN routes \subseteq Subs
  /\ \A s \in DOMAIN routes : granted[s] = "yes" /\ Whole(s, routes[s])
  /\ DOMAIN jobToToken \subseteq Jobs
  /\ \A j \in DOMAIN jobToToken :
       /\ jobToToken[j] = j[1] /\ granted[j[1]] = "yes"
       /\ slurm[j] \in {"running", "gone"}
  /\ DOMAIN tokenArrayN \subseteq Subs
  /\ \A s \in DOMAIN tokenArrayN :
       /\ IsArray(s) /\ granted[s] = "yes"
       /\ tokenArrayN[s] \in 1 .. Submissions[s].n

Items == Token \X Int

Sweeping ==
  \/ sweep = Idle
  \/ sweep.op = "sweep" /\ sweep.a \in Accounts /\ sweep.todo \subseteq Items
       /\ DOMAIN sweep = {"op", "a", "todo"}

Reconciling ==
  \/ recon.op \in {"idle", "listed"}
  \/ /\ recon.op = "sweep" /\ recon.todo \subseteq Items
     /\ recon.left \subseteq Accounts /\ (recon.todo # {} => recon.a \in Accounts)
     /\ DOMAIN recon = {"op", "live", "bound", "keys", "left", "a", "todo"}

World ==
  /\ clock \in 0 .. MaxClock /\ faults \in SUBSET UNION Faults
  /\ granted \in [Subs -> {"no", "asked", "yes", "rejected", "lost"}]
  /\ slurm \in [Jobs -> {"new", "queued", "running", "gone"}]
  /\ DOMAIN report = Jobs
  /\ \A j \in Jobs : report[j] = <<"none", 0>> \/ report[j] \in Reports
  /\ swept \subseteq Subs

Types ==
  Budgets /\ World /\ Slots /\ OneGate /\ Tables /\ Sweeping /\ Reconciling

(* What no step undoes: a grant, the legs of a route, the start and the    *)
(* end of a job.                                                           *)
Steady ==
  /\ \A s \in Subs : granted[s] = "yes" => granted'[s] = "yes"
  /\ \A s \in Subs : granted[s] = "yes" /\ s \in DOMAIN routes' =>
                       s \in DOMAIN routes /\ routes'[s] = routes[s]
  /\ \A j \in Jobs : granted[j[1]] = "yes" /\ slurm[j] \in {"running", "gone"} =>
                       slurm'[j] \in {"running", "gone"}
  /\ \A j \in Jobs : granted[j[1]] = "yes" /\ slurm[j] = "gone" =>
                       slurm'[j] = "gone" /\ report'[j] = report[j]

-----------------------------------------------------------------------------
(* What the handlers' calls do.                                            *)
NoFault(f) == \A F \in Faults : f \notin F

(* The items a leg escrows.                                                *)
Slice(s, l) ==
  {l.a} \X ({l.key} \X (IF IsArray(s) THEN 0 .. (l.n - 1) ELSE {-1}))

(* A gate's call for a leg, and what it does: all of the leg, or nothing.  *)
Asks(s, l, c, n, now, wal, r) ==
  /\ Budgets /\ World /\ s \in Subs /\ l \in LegRecord /\ l.key[1] = s
  /\ c \in Nat /\ n \in Nat /\ now \in Nat /\ (IsArray(s) => l.n = n)
  /\ wal \in Wals("gate") /\ r = Submit(bds[l.a], s, l.key, c, n, l.w, now, wal)
  /\ Call(l.a, r, s, "gate", wal)

Escrows(s, l, c, r) ==
  /\ Budgets' /\ faults' \in SUBSET UNION Faults
  /\ \/ r.ok = FALSE /\ Quiet
     \/ r.ok = TRUE /\ Grew(s, Slice(s, l), RateOrFlat(bds[l.a], c), l.w)

(* A leg more is placed, or the gate gives up.                             *)
Placing(p, g) ==
  \E l, M, g2 :
    /\ Fits(g.s, g.legs, l) /\ Longer(g.s, g.legs, l, M)
    /\ Grew(g.s, Slice(g.s, l), C0(g.s), l.w)
    /\ h' = [h EXCEPT ![p] = g2] /\ g2.s = g.s /\ g2.legs = M
    /\ RecordSlot(g2) \/ PlaceSlot(g2)

GivingUp(p, g) ==
  /\ Quiet
  /\ h' = [h EXCEPT ![p] = [op |-> "rollback", s |-> g.s, legs |-> g.legs,
                            k |-> 1, i |-> 0]]

(* Item i of a leg.                                                        *)
LegItem(s, l, i) == <<l.a, <<l.key, IF IsArray(s) THEN i ELSE -1>> >>

(* One item of a placed leg is cancelled, or there are none left.          *)
Cancelling(p, g) ==
  LET l == g.legs[g.k]
  IN  /\ g.k \in 1 .. Len(g.legs) /\ granted' = granted
      /\ Closes(g.s, LegItem(g.s, l, g.i), 0, "rollback")
      /\ \E g2 :
           /\ h' = [h EXCEPT ![p] = g2] /\ RollbackSlot(g2)
           /\ g2.s = g.s /\ g2.legs = g.legs
           /\ g.i + 1 < l.n => g2.k = g.k /\ g2.i = g.i + 1
           /\ ~(g.i + 1 < l.n) => g2.k = g.k + 1 /\ g2.i = 0

Rejecting(p, g) ==
  /\ Quiet /\ g.k > Len(g.legs) /\ h' = [h EXCEPT ![p] = Idle]
  /\ granted' = [granted EXCEPT ![g.s] = "rejected"]

(* A leg is repriced to the node's rate, unless the append fails, or it    *)
(* has started, is gone or costs less.                                     *)
Repricing(p, g) ==
  LET y == LegItem(g.s, g.legs[g.k], 0)
  IN  /\ \/ Lowered(g.s, y, NodeRate(g.s)) /\ NodeRate(g.s) <= RateOf(y)
         \/ /\ Quiet
            /\ \/ "bind" \in faults'
               \/ y \notin ItemsOf(g.s) \ LitsOf(g.s) \/ RateOf(y) < NodeRate(g.s)
      /\ \E g2 :
           /\ h' = [h EXCEPT ![p] = g2] /\ BindSlot(g2)
           /\ g2.s = g.s /\ g2.legs = g.legs /\ g2.j = g.j
           /\ g.k < Len(g.legs) => g2.op = "reprice" /\ g2.k = g.k + 1
           /\ g.k = Len(g.legs) => g2.op = "start" /\ g2.k = 1

(* The task of a job, within the leg that owns it.                         *)
LegOf(g) == IF IsArray(g.s) THEN legForTask(g.legs, g.j[2]) ELSE g.k

ItemOf(g) ==
  LegItem(g.s, g.legs[LegOf(g)], g.j[2] - g.legs[LegOf(g)].first)

(* The item is dispatched, unless the append fails.                        *)
Starting(p, g) ==
  /\ Lit(g.s, ItemOf(g)) \/ (Quiet /\ "bind" \in faults')
  /\ \E g2 :
       /\ h' = [h EXCEPT ![p] = g2]
       /\ IsArray(g.s) \/ g.k = Len(g.legs) => g2 = Idle
       /\ ~IsArray(g.s) /\ g.k < Len(g.legs) =>
            /\ BindSlot(g2) /\ g2.s = g.s /\ g2.legs = g.legs /\ g2.j = g.j
            /\ g2.op = "start" /\ g2.k = g.k + 1

(* A leg of a job is settled, unless it is gone or the append fails.       *)
MovesOn(g, g2) ==
  /\ DoneSlot(g2) /\ g2.s = g.s /\ g2.legs = g.legs /\ g2.j = g.j /\ g2.task = g.task
  /\ g.k < Len(g.legs) => g2.op = "settle" /\ g2.k = g.k + 1
  /\ g.k = Len(g.legs) => g2.op = "drop" /\ g2.k = g.k

LegShare(g) ==
  IF IsMulti(g.s) THEN legRuntime(g.legs, g.k, report[g.j][2]) ELSE report[g.j][2]

LegBill(g, y) ==
  RateOf(y) * Due(bds[y[1]], y[2], report[g.j][1], LegShare(g))

SettlingLeg(p, g) ==
  LET y == <<g.legs[g.k].a, <<g.legs[g.k].key, -1>> >>
  IN  \E g2 :
        /\ h' = [h EXCEPT ![p] = g2]
        /\ \/ Shut(g.s, y, LegBill(g, y)) /\ faults' = faults /\ MovesOn(g, g2)
           \/ /\ Quiet /\ (y \notin ItemsOf(g.s) \/ "settle" \in faults')
              /\ \/ MovesOn(g, g2) /\ (g.k < Len(g.legs) \/ IsMulti(g.s))
                 \/ g2 = Idle /\ ~IsMulti(g.s) /\ g.k = Len(g.legs)

(* The task of an array is settled, unless it is gone or the append fails. *)
TaskBill(g) ==
  RateOf(ItemOf(g)) *
    Due(bds[ItemOf(g)[1]], ItemOf(g)[2], report[g.j][1], report[g.j][2])

SettlingTask(p, g) ==
  \/ /\ Shut(g.s, ItemOf(g), TaskBill(g)) /\ faults' = faults
     /\ \E g2 :
          /\ h' = [h EXCEPT ![p] = g2]
          /\ DoneSlot(g2) /\ g2.s = g.s /\ g2.legs = g.legs /\ g2.j = g.j
          /\ g2.task = g.task /\ g2.op = "drop"
  \/ /\ Quiet /\ h' = [h EXCEPT ![p] = Idle]
     /\ ItemOf(g) \notin ItemsOf(g.s) \/ "settle" \in faults'

-----------------------------------------------------------------------------
(* Balances read make a plan.                                              *)
Reading(p, g) ==
  \E g2 :
    /\ h' = [h EXCEPT ![p] = g2]
    /\ \/ g2 = Idle /\ granted' = [granted EXCEPT ![g.s] = "rejected"]
       \/ ReadSlot(g2) /\ g2.s = g.s /\ granted' = granted
       \/ PlaceSlot(g2) /\ g2.s = g.s /\ g2.legs = <<>> /\ granted' = granted

(* A handler goes on with its submission, or ends.                         *)
GoesOn(g, g2) ==
  \/ g2 = Idle
  \/ Slot(g2) /\ g2.s = g.s /\ g.op \in GateOps /\ g2.op \in GateOps
  \/ /\ Slot(g2) /\ g2.s = g.s /\ g2.legs = g.legs /\ g2.j = g.j
     /\ \/ g.op \in BindOps /\ g2.op \in BindOps
        \/ g.op \in DoneOps /\ g2.op \in DoneOps

(* A gate's route is recorded.                                             *)
Recorded(p, g) ==
  /\ RecordSlot(g) /\ g.s \in Subs /\ g.op \in GateOps /\ granted[g.s] = "asked"
  /\ g.s \notin DOMAIN routes /\ g.s \notin DOMAIN tokenArrayN
  /\ DOMAIN routes' = DOMAIN routes \cup {g.s} /\ routes'[g.s] = g.legs
  /\ \A s \in DOMAIN routes \ {g.s} : routes'[s] = routes[s]
  /\ IsArray(g.s) =>
       /\ DOMAIN tokenArrayN' = DOMAIN tokenArrayN \cup {g.s}
       /\ tokenArrayN'[g.s] = Submissions[g.s].n
       /\ \A s \in DOMAIN tokenArrayN \ {g.s} : tokenArrayN'[s] = tokenArrayN[s]
  /\ ~IsArray(g.s) => tokenArrayN' = tokenArrayN
  /\ h' = [h EXCEPT ![p] = Idle] /\ granted' = [granted EXCEPT ![g.s] = "yes"]

Settles(p, j) ==
  \E g2 :
    /\ h[p] = Idle /\ h' = [h EXCEPT ![p] = g2] /\ DoneSlot(g2)
    /\ g2.op = "settle" /\ g2.s = j[1] /\ g2.j = j /\ g2.k = 1
    /\ j[1] \in DOMAIN routes /\ g2.legs = routes[j[1]]
    /\ j \in DOMAIN jobToToken
    /\ slurm[j] = "gone" /\ report[j] \in Reports

(* The job id is recorded.                                                 *)
BoundJob(g, g2) ==
  /\ BindSlot(g) /\ g.op = "bind" /\ g.s \in Subs /\ g.j \in Jobs /\ g.j[1] = g.s
  /\ DOMAIN jobToToken' = DOMAIN jobToToken \cup {g.j} /\ jobToToken'[g.j] = g.s
  /\ \A j \in DOMAIN jobToToken \ {g.j} : jobToToken'[j] = jobToToken[j]
  /\ BindSlot(g2) /\ g2.s = g.s /\ g2.j = g.j /\ g2.legs = g.legs /\ g2.k = g.k
  /\ g2.op = IF IsArray(g.s) \/ NodeRate(g.s) = 0 THEN "start" ELSE "reprice"

BindsOn(p, g) == \E g2 : h' = [h EXCEPT ![p] = g2] /\ BoundJob(g, g2)

(* The routing of a settled job is dropped.                                *)
Last(g) ==
  g.task = FALSE \/ (g.s \in DOMAIN tokenArrayN /\ tokenArrayN[g.s] <= 1)

DropTables(g) ==
  /\ DOMAIN jobToToken' = DOMAIN jobToToken \ {g.j}
  /\ \A j \in DOMAIN jobToToken \ {g.j} : jobToToken'[j] = jobToToken[j]
  /\ Last(g) => DOMAIN routes' = DOMAIN routes \ {g.s}
  /\ ~Last(g) => DOMAIN routes' = DOMAIN routes
  /\ \A s \in DOMAIN routes' : routes'[s] = routes[s]
  /\ g.task = TRUE /\ Last(g) => DOMAIN tokenArrayN' = DOMAIN tokenArrayN \ {g.s}
  /\ g.task = FALSE \/ ~Last(g) => DOMAIN tokenArrayN' = DOMAIN tokenArrayN
  /\ \A s \in DOMAIN tokenArrayN' \ {g.s} : tokenArrayN'[s] = tokenArrayN[s]
  /\ g.s \in DOMAIN tokenArrayN' =>
       tokenArrayN'[g.s] = IF g.task = TRUE THEN tokenArrayN[g.s] - 1
                           ELSE tokenArrayN[g.s]

-----------------------------------------------------------------------------
(* The kinds of step.                                                      *)
Keeps == routes' = routes /\ jobToToken' = jobToToken /\ tokenArrayN' = tokenArrayN

(* A gate works on its submission alone: it is refused, reads on, plans,   *)
(* escrows one leg, gives up, cancels an item, or rejects.                 *)
GateFrame(p, s, g2, v) ==
  /\ h' = [h EXCEPT ![p] = g2] /\ granted' = [granted EXCEPT ![s] = v]
  /\ Keeps /\ slurm' = slurm /\ report' = report /\ swept' = swept
  /\ \/ h[p] = Idle /\ granted[s] = "no"
     \/ h[p].op \in GateOps /\ h[p].s = s /\ granted[s] = "asked"

Asking(p, s) == granted[s] = "no" \/ h[p].op = "read"

Refusal(p, s, g2, v) == Quiet /\ Asking(p, s) /\ g2 = Idle /\ v = "rejected"

ReadsOn(p, s, g2, v) ==
  /\ Quiet /\ Asking(p, s) /\ ReadSlot(g2) /\ g2.s = s /\ v = "asked"
  /\ IsMulti(s) \/ h[p].op = "read"

Plans(p, s, g2, v) ==
  /\ Quiet /\ h[p].op = "read" /\ v = "asked"
  /\ PlaceSlot(g2) /\ g2.s = s /\ g2.legs = <<>>

Admission(p, s, g2, v) ==
  /\ granted[s] = "no" /\ v = "asked"
  /\ RecordSlot(g2) /\ g2.s = s /\ Whole(s, g2.legs) /\ Len(g2.legs) = 1
  /\ Grew(s, Slice(s, g2.legs[1]), C0(s), g2.legs[1].w)

PlacesOne(p, s, g2, v) ==
  /\ PlaceSlot(h[p]) /\ h[p].s = s /\ v = "asked" /\ g2.s = s
  /\ RecordSlot(g2) \/ PlaceSlot(g2)
  /\ \E l : /\ Fits(s, h[p].legs, l) /\ Longer(s, h[p].legs, l, g2.legs)
            /\ Grew(s, Slice(s, l), C0(s), l.w)

GivesUp(p, s, g2, v) ==
  /\ Quiet /\ PlaceSlot(h[p]) /\ h[p].s = s /\ v = "asked"
  /\ g2 = [op |-> "rollback", s |-> s, legs |-> h[p].legs, k |-> 1, i |-> 0]

CancelsOne(p, s, g2, v) ==
  LET g == h[p]
      l == g.legs[g.k]
  IN  /\ RollbackSlot(g) /\ g.s = s /\ v = "asked" /\ g.k \in 1 .. Len(g.legs)
      /\ Closes(s, LegItem(s, l, g.i), 0, "rollback")
      /\ RollbackSlot(g2) /\ g2.s = s /\ g2.legs = g.legs
      /\ g.i + 1 < l.n => g2.k = g.k /\ g2.i = g.i + 1
      /\ ~(g.i + 1 < l.n) => g2.k = g.k + 1 /\ g2.i = 0

Rejects(p, s, g2, v) ==
  /\ Quiet /\ RollbackSlot(h[p]) /\ h[p].s = s /\ h[p].k > Len(h[p].legs)
  /\ g2 = Idle /\ v = "rejected"

GateMove(p, s, g2, v) ==
  \/ Refusal(p, s, g2, v) \/ ReadsOn(p, s, g2, v) \/ Plans(p, s, g2, v)
  \/ Admission(p, s, g2, v) \/ PlacesOne(p, s, g2, v) \/ GivesUp(p, s, g2, v)
  \/ CancelsOne(p, s, g2, v) \/ Rejects(p, s, g2, v)

GateStep == \E p \in Handlers, s \in Subs : \E g2, v :
              GateFrame(p, s, g2, v) /\ GateMove(p, s, g2, v)

(* A route is recorded.                                                    *)
RecordStep(p, g) ==
  /\ Quiet /\ jobToToken' = jobToToken /\ report' = report /\ swept' = swept
  /\ g = h[p] /\ g.op = "record" /\ Recorded(p, g)
  /\ slurm' = [j \in Jobs |-> IF j[1] = g.s THEN "queued" ELSE slurm[j]]

(* A hook arrives; a handler past its gate calls a budget, or ends.        *)
PastFrame(p, g2) ==
  /\ h' = [h EXCEPT ![p] = g2] /\ granted' = granted /\ slurm' = slurm
  /\ report' = report /\ swept' = swept

BindArrives(p, j, g2) ==
  /\ PastFrame(p, g2) /\ Keeps /\ Quiet /\ faults' = faults
  /\ h[p] = Idle /\ BindSlot(g2) /\ g2.op = "bind" /\ g2.s = j[1] /\ g2.j = j
  /\ g2.k = 1 /\ j[1] \in DOMAIN routes /\ g2.legs = routes[j[1]]
  /\ slurm[j] = "running"

SettleArrives(p, j, g2) ==
  /\ PastFrame(p, g2) /\ Keeps /\ Quiet /\ faults' = faults
  /\ h[p] = Idle /\ DoneSlot(g2) /\ g2.op = "settle" /\ g2.s = j[1] /\ g2.j = j
  /\ g2.k = 1 /\ j[1] \in DOMAIN routes /\ g2.legs = routes[j[1]]
  /\ j \in DOMAIN jobToToken /\ slurm[j] = "gone" /\ report[j] \in Reports

BindsJob(p, g, g2) ==
  /\ PastFrame(p, g2) /\ Quiet /\ faults' = faults
  /\ routes' = routes /\ tokenArrayN' = tokenArrayN
  /\ g = h[p] /\ BoundJob(g, g2)

Works(p, g) ==
  /\ g = h[p] /\ Keeps
  /\ \/ BindSlot(g) /\ g.op = "reprice" /\ Repricing(p, g)
     \/ BindSlot(g) /\ g.op = "start" /\ Starting(p, g)
     \/ DoneSlot(g) /\ g.op = "settle" /\ g.task = FALSE /\ SettlingLeg(p, g)
     \/ /\ DoneSlot(g) /\ g.op = "settle" /\ g.task = TRUE /\ IsArray(g.s)
        /\ SettlingTask(p, g)

CallStep(p, g) ==
  /\ Works(p, g) /\ granted' = granted /\ slurm' = slurm /\ report' = report
  /\ swept' = swept

DropStep(p, g) ==
  /\ PastFrame(p, Idle) /\ Quiet /\ faults' = faults
  /\ g = h[p] /\ DoneSlot(g) /\ g.op = "drop" /\ DropTables(g)

(* A janitor refunds an item; a crash; the rest touches no escrow, no slot *)
(* and no table.                                                           *)
RefundStep ==
  /\ h' = h /\ Keeps /\ granted' = granted /\ slurm' = slurm /\ report' = report
  /\ sweep # Idle \/ recon # Idle
  /\ \E s \in Subs, a \in Accounts, x \in Items :
       /\ x[1][1] = s /\ Closes(s, <<a, x>>, 0, "sweep")
       /\ swept' = swept \cup {s}

CrashStep ==
  /\ Quiet /\ "crash" \in faults' /\ swept' = swept
  /\ routes' = Empty /\ jobToToken' = Empty /\ tokenArrayN' = Empty
  /\ h' = [p \in Handlers |-> Idle] /\ slurm' = slurm /\ report' = report
  /\ granted' = [s \in Subs |-> IF granted[s] = "asked" THEN "lost" ELSE granted[s]]

IdleStep ==
  /\ Quiet /\ h' = h /\ Keeps /\ granted' = granted /\ swept' = swept
  /\ faults' = faults
  /\ \/ slurm' = slurm /\ report' = report
     \/ \E j \in Jobs : SlurmStart(j) \/ SlurmEnd(j)

HandlerMoves(p) ==
  \/ \E g : RecordStep(p, g) \/ CallStep(p, g) \/ DropStep(p, g)
  \/ \E g, g2 : BindsJob(p, g, g2)
  \/ \E j \in Jobs : \E g2 : BindArrives(p, j, g2) \/ SettleArrives(p, j, g2)

Moves == GateStep \/ RefundStep \/ CrashStep \/ IdleStep \/ \E p \in Handlers : HandlerMoves(p)

-----------------------------------------------------------------------------
(* What a submission holds belongs to the legs its handlers and its route  *)
(* know of; what a gate has placed and no janitor touched is all held.     *)
Slices(s, L) == UNION {Slice(s, L[k]) : k \in 1 .. Len(L)}

Covers(s, L) ==
  \A y \in ItemsOf(s) : \E k \in 1 .. Len(L) : y \in Slice(s, L[k]) /\ WallOf(y) = L[k].w

Holding(g) ==
  /\ g.op = "read" => ItemsOf(g.s) = {}
  /\ g.op \in {"place", "record"} \cup BindOps \cup DoneOps => Covers(g.s, g.legs)
  /\ g.op \in {"place", "record"} /\ g.s \notin swept =>
       Slices(g.s, g.legs) \subseteq ItemsOf(g.s)

Covered ==
  /\ \A s \in Subs : granted[s] = "no" => ItemsOf(s) = {}
  /\ \A p \in Handlers : \A g : h[p] = g => Holding(g)
  /\ \A s \in Subs : \A L : s \in DOMAIN routes /\ routes[s] = L => Covers(s, L)

(* What is held can only shrink; a gate's can only when a janitor is at it. *)
Thin(t) == ItemsOf(t)' \subseteq ItemsOf(t) /\ \A y \in ItemsOf(t)' : WallOf(y)' = WallOf(y)

Spared(t) == Thin(t) /\ (t \notin swept' => t \notin swept /\ ItemsOf(t)' = ItemsOf(t))

Bystanders(p) ==
  \A q \in Handlers \ {p}, t \in Subs :
    /\ h[q].op \in GateOps /\ h[q].s = t => Spared(t)
    /\ h[q].op \in BindOps \cup DoneOps /\ h[q].s = t => Thin(t)

-----------------------------------------------------------------------------
(* The legs of a submission share out its walltime, item by item.          *)
Prefix(s, L, m) == UNION {Slice(s, L[k]) : k \in 1 .. m}

Unit(s) == IF IsArray(s) THEN Submissions[s].w ELSE 1

-----------------------------------------------------------------------------
(* What the steps past the gates leave.                                    *)
HandlerFrame(p, g2) ==
  /\ h' = [h EXCEPT ![p] = g2] /\ g2.op \notin GateOps /\ swept' = swept
  /\ Bystanders(p) /\ \A t \in Subs : Thin(t)
  /\ \A t \in Subs : granted'[t] = granted[t] \/ granted'[t] = "yes"

(* What the janitors and the world outside leave.                          *)
RestFrame ==
  /\ h' = h /\ Keeps /\ granted' = granted /\ \A t \in Subs : Thin(t)
  /\ \A q \in Handlers, t \in Subs : h[q].op \in GateOps /\ h[q].s = t => Spared(t)

-----------------------------------------------------------------------------
(* What is left for a rollback to cancel, and nothing once it has rejected.*)
Left(s, L, k, i) ==
  \A y \in ItemsOf(s) : \E m \in 1 .. Len(L) :
    y \in Slice(s, L[m]) /\ m >= k /\ (m = k /\ IsArray(s) => y[2][2] >= i)

Undone(g) == g.op = "rollback" => Left(g.s, g.legs, g.k, g.i)

Backed ==
  /\ \A s \in Subs : granted[s] = "rejected" => ItemsOf(s) = {}
  /\ \A p \in Handlers : \A g : h[p] = g => Undone(g)

-----------------------------------------------------------------------------
(* A settle has dealt with the legs before its own; the count of an array  *)
(* covers the tasks that are open and the ones about to be dropped; what   *)
(* is admitted and held is routed.                                         *)
Drops(s) == {p \in Handlers : h[p].op = "drop" /\ h[p].s = s /\ h[p].task = TRUE}

Finishing(g) ==
  g.op \in DoneOps /\ ~IsArray(g.s) =>
    \A y \in ItemsOf(g.s) : g.op = "settle" /\ \E m \in 1 .. Len(g.legs) :
      y \in Slice(g.s, g.legs[m]) /\ m >= g.k

Counted(s) ==
  s \in DOMAIN routes /\ IsArray(s) =>
    /\ s \in DOMAIN tokenArrayN
    /\ Cardinality(ItemsOf(s)) + Cardinality(Drops(s)) <= tokenArrayN[s]

Reached(s) ==
  "crash" \notin faults /\ granted[s] = "yes" /\ ItemsOf(s) # {} => s \in DOMAIN routes

Tracked ==
  /\ \A p \in Handlers : \A g : h[p] = g => Finishing(g)
  /\ \A s \in Subs : Counted(s) /\ Reached(s)

-----------------------------------------------------------------------------
(* An item is at the rate of its gate, or at its final one, and at the     *)
(* final one once it runs.                                                 *)
Priced(s) ==
  \A y \in ItemsOf(s) :
    /\ RateOf(y) \in {C0(s), Rate(s)}
    /\ granted[s] # "yes" => RateOf(y) = C0(s)
    /\ y \in LitsOf(s) => granted[s] = "yes" /\ RateOf(y) = Rate(s)

(* A bind has repriced the legs before its own, and starts none before all.*)
Repriced(g) ==
  /\ g.op = "bind" => g.k = 1
  /\ g.op = "start" => \A y \in ItemsOf(g.s) : RateOf(y) = Rate(g.s)
  /\ g.op = "reprice" =>
       \A y \in ItemsOf(g.s) : \A m \in 1 .. Len(g.legs) :
         y \in Slice(g.s, g.legs[m]) /\ m < g.k => RateOf(y) = Rate(g.s)

Rated ==
  /\ \A s \in Subs : Priced(s)
  /\ \A p \in Handlers : \A g : h[p] = g => Repriced(g)

(* What is held only shrinks, and only an admitted submission's is         *)
(* repriced or started, at its final rate.                                 *)
Kept(t) ==
  /\ ItemsOf(t)' \subseteq ItemsOf(t)
  /\ \A y \in ItemsOf(t)' :
       RateOf(y)' = RateOf(y) \/ (granted[t] = "yes" /\ RateOf(y)' = Rate(t))
  /\ \A y \in LitsOf(t)' :
       y \in LitsOf(t) \/ (granted[t] = "yes" /\ RateOf(y)' = Rate(t))

-----------------------------------------------------------------------------
(* The legs of a submission, unless a handler is repricing them.           *)
Repricer(s) == \E p \in Handlers : h[p].op = "reprice" /\ h[p].s = s

Agree(s) ==
  ~Repricer(s) => \A y, z \in ItemsOf(s) : RateOf(y) = RateOf(z)

Even(t) == \A y \in ItemsOf(t)' : y \in ItemsOf(t) /\ RateOf(y)' = RateOf(y)

-----------------------------------------------------------------------------
(* The item of an array's task, within its legs; is anything open for job  *)
(* j, routed as its token is.                                              *)
TaskItem(L, j) ==
  LegItem(j[1], L[legForTask(L, j[2])], j[2] - L[legForTask(L, j[2])].first)

Opened(j) ==
  /\ IsArray(j[1]) => TaskItem(routes[j[1]], j) \in ItemsOf(j[1])
  /\ ~IsArray(j[1]) => ItemsOf(j[1]) # {}

(* One source, one leg.                                                    *)
Solo(g) ==
  /\ g.op \in {"read", "place"} => IsMulti(g.s)
  /\ g.op \in {"record"} \cup BindOps \cup DoneOps => IsMulti(g.s) \/ Len(g.legs) = 1

(* A bind is over before its job is.                                       *)
AtWork(g) ==
  g.op \in BindOps =>
    slurm[g.j] = "running" /\ (g.s \notin swept => g.s \in DOMAIN routes)

(* A settle that will drop job j, whatever its other legs answer.          *)
Closer(g, j) ==
  /\ g.op \in DoneOps /\ g.j = j
  /\ g.op = "drop" \/ (~IsArray(j[1]) /\ IsMulti(j[1]))

Closed(j) == \E p \in Handlers : \E g : h[p] = g /\ Closer(g, j)

(* A routed job that is not over holds its escrow; one the tables name     *)
(* holds it or is about to be dropped; the count of an array is exact.     *)
Alive(j) == j[1] \in DOMAIN routes /\ slurm[j] # "gone" => Opened(j)

InTables(j) ==
  j \in DOMAIN jobToToken \/ (~IsArray(j[1]) /\ j[1] \in DOMAIN routes)

Named(j) == InTables(j) => (j[1] \in DOMAIN routes /\ Opened(j)) \/ Closed(j)

Reckoned(s) ==
  IsArray(s) =>
    /\ (s \in DOMAIN routes) <=> (s \in DOMAIN tokenArrayN)
    /\ s \in DOMAIN routes =>
         tokenArrayN[s] = Cardinality(ItemsOf(s)) + Cardinality(Drops(s))

(* All of it for the submissions no janitor has swept.                     *)
Shrinking ==
  /\ \A p \in Handlers : \A g : h[p] = g => Solo(g) /\ AtWork(g)
  /\ \A s \in Subs : \A L : s \in DOMAIN routes /\ routes[s] = L => IsMulti(s) \/ Len(L) = 1
  /\ \A j \in Jobs : j[1] \notin swept => Alive(j) /\ Named(j)
  /\ \A s \in Subs \ swept : Reckoned(s)

(* A settle that will drop the job of t, which is over.                    *)
Ends(t, g2) ==
  ~IsArray(t) /\ \E j \in Jobs : j[1] = t /\ slurm[j] = "gone" /\ Closer(g2, j)
=============================================================================
