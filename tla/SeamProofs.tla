----------------------------- MODULE SeamProofs -----------------------------
(***************************************************************************)
(* Routing, multi-source funding and billing between Slurm and the budgets,*)
(* for any set of accounts, submissions and concurrent handlers, any       *)
(* prices, and any interleaving of gates, binds, settles and janitors.     *)
(***************************************************************************)
EXTENDS SeamInvariants, CoinsProofs

-----------------------------------------------------------------------------
(* The fields of such a budget.                                            *)
LEMMA PlainFields ==
  ASSUME NEW a, NEW b \in PlainRecord(a)
  PROVE  /\ b.C = FlatRates[a] /\ b.B \in Int /\ b.ReservedTotal \in Int
         /\ b.Consumed \in Nat /\ b.WriteOff \in Nat /\ b.BurstEnabled = FALSE
         /\ b.BillInfraFailures = FALSE /\ b.burstPot = 0
         /\ b.escrows \in EscrowMaps /\ b.arrays \in ArrayMaps
  BY DEF PlainRecord

(* A table of escrows, by its domain and its values.                       *)
LEMMA EscrowMap ==
  ASSUME NEW f
  PROVE  f \in EscrowMaps <=>
           /\ DOMAIN f \subseteq Token /\ f = [t \in DOMAIN f |-> f[t]]
           /\ \A t \in DOMAIN f : f[t] \in EscrowRecord
<1>1. ASSUME f \in EscrowMaps
      PROVE  /\ DOMAIN f \subseteq Token /\ f = [t \in DOMAIN f |-> f[t]]
             /\ \A t \in DOMAIN f : f[t] \in EscrowRecord
  <2>1. PICK T \in SUBSET Token : f \in [T -> EscrowRecord]
    BY <1>1 DEF EscrowMaps
  <2> QED
    BY <2>1
<1>2. ASSUME DOMAIN f \subseteq Token, f = [t \in DOMAIN f |-> f[t]],
             \A t \in DOMAIN f : f[t] \in EscrowRecord
      PROVE  f \in EscrowMaps
  <2>1. f \in [DOMAIN f -> EscrowRecord]
    BY <1>2
  <2> QED
    BY <1>2, <2>1 DEF EscrowMaps
<1> QED
  BY <1>1, <1>2

(* A table of arrays, the same way.                                        *)
LEMMA ArrayMap ==
  ASSUME NEW f
  PROVE  f \in ArrayMaps <=>
           /\ DOMAIN f \subseteq Token /\ f = [t \in DOMAIN f |-> f[t]]
           /\ \A t \in DOMAIN f : f[t] \in ArrayEscrow
<1>1. ASSUME f \in ArrayMaps
      PROVE  /\ DOMAIN f \subseteq Token /\ f = [t \in DOMAIN f |-> f[t]]
             /\ \A t \in DOMAIN f : f[t] \in ArrayEscrow
  <2>1. PICK T \in SUBSET Token : f \in [T -> ArrayEscrow]
    BY <1>1 DEF ArrayMaps
  <2> QED
    BY <2>1
<1>2. ASSUME DOMAIN f \subseteq Token, f = [t \in DOMAIN f |-> f[t]],
             \A t \in DOMAIN f : f[t] \in ArrayEscrow
      PROVE  f \in ArrayMaps
  <2>1. f \in [DOMAIN f -> ArrayEscrow]
    BY <1>2
  <2> QED
    BY <1>2, <2>1 DEF ArrayMaps
<1> QED
  BY <1>1, <1>2

(* The tasks of an array are numbered from 0.                              *)
LEMMA TaskMap ==
  ASSUME NEW f \in TaskMaps
  PROVE  /\ DOMAIN f \subseteq Nat /\ f = [i \in DOMAIN f |-> f[i]]
         /\ \A i \in DOMAIN f : f[i] \in TaskRecord
<1>1. PICK n \in Nat : f \in [0 .. (n - 1) -> TaskRecord]
  BY DEF TaskMaps
<1> QED
  BY <1>1

(* Changing the tasks of an array and not their numbers.                   *)
LEMMA TaskMapUpdate ==
  ASSUME NEW f \in TaskMaps, NEW i \in DOMAIN f, NEW t \in TaskRecord
  PROVE  [f EXCEPT ![i] = t] \in TaskMaps
<1>1. PICK n \in Nat : f \in [0 .. (n - 1) -> TaskRecord]
  BY DEF TaskMaps
<1>2. [f EXCEPT ![i] = t] \in [0 .. (n - 1) -> TaskRecord]
  BY <1>1
<1> QED
  BY <1>2 DEF TaskMaps

(* The items of a budget: its escrows, and the open tasks of its arrays.   *)
LEMMA OpenIs ==
  ASSUME NEW a, NEW b \in PlainRecord(a)
  PROVE  /\ \A x \in Open(b) : x = <<x[1], x[2]>> /\ x[1] \in Token /\ x[2] \in Int
         /\ \A k : <<k, -1>> \in Open(b) <=> k \in DOMAIN b.escrows
         /\ \A k, i : i # -1 => (<<k, i>> \in Open(b) <=> Unsettled(b, k, i))
         /\ \A k, i : Unsettled(b, k, i) => i \in Nat /\ i # -1 /\ k \in Token
<1>1. DOMAIN b.escrows \subseteq Token
  BY PlainFields, EscrowMap
<1>2. ASSUME NEW k \in DOMAIN b.arrays
      PROVE  k \in Token /\ DOMAIN b.arrays[k].tasks \subseteq Nat
  <2>1. k \in Token /\ b.arrays[k] \in ArrayEscrow
    BY PlainFields, ArrayMap
  <2>2. b.arrays[k].tasks \in TaskMaps
    BY <2>1 DEF ArrayEscrow, ArrayRecord
  <2> QED
    BY <2>1, <2>2, TaskMap
<1>3. \A k, i : Unsettled(b, k, i) => i \in Nat /\ i # -1 /\ k \in Token
  BY <1>2 DEF Unsettled, HasTask
<1>4. ASSUME NEW x \in Open(b)
      PROVE  x = <<x[1], x[2]>> /\ x[1] \in Token /\ x[2] \in Int
  BY <1>1, <1>2 DEF Open
<1>5. ASSUME NEW k PROVE <<k, -1>> \in Open(b) <=> k \in DOMAIN b.escrows
  BY <1>2 DEF Open
<1>6. ASSUME NEW k, NEW i, i # -1
      PROVE  <<k, i>> \in Open(b) <=> Unsettled(b, k, i)
  BY <1>6 DEF Open, Unsettled, HasTask
<1> QED
  BY <1>3, <1>4, <1>5, <1>6

(* The items that have started.                                            *)
LEMMA BoundIs ==
  ASSUME NEW a, NEW b \in PlainRecord(a)
  PROVE  /\ Bound(b) \subseteq Open(b)
         /\ \A k : <<k, -1>> \in Bound(b) <=>
              k \in DOMAIN b.escrows /\ b.escrows[k].Started
         /\ \A k, i : i # -1 =>
              (<<k, i>> \in Bound(b) <=>
                 Unsettled(b, k, i) /\ b.arrays[k].tasks[i].started)
<1>1. ASSUME NEW k \in DOMAIN b.arrays
      PROVE  k \in Token /\ DOMAIN b.arrays[k].tasks \subseteq Nat
  <2>1. k \in Token /\ b.arrays[k] \in ArrayEscrow
    BY PlainFields, ArrayMap
  <2>2. b.arrays[k].tasks \in TaskMaps
    BY <2>1 DEF ArrayEscrow, ArrayRecord
  <2> QED
    BY <2>1, <2>2, TaskMap
<1>2. Bound(b) \subseteq Open(b)
  BY DEF Bound, Orphans, Open
<1>3. ASSUME NEW k
      PROVE  <<k, -1>> \in Bound(b) <=>
               k \in DOMAIN b.escrows /\ b.escrows[k].Started
  BY <1>1 DEF Bound, Orphans
<1>4. ASSUME NEW k, NEW i, i # -1
      PROVE  <<k, i>> \in Bound(b) <=>
               Unsettled(b, k, i) /\ b.arrays[k].tasks[i].started
  BY <1>4 DEF Bound, Orphans, Unsettled, HasTask
<1> QED
  BY <1>2, <1>3, <1>4

-----------------------------------------------------------------------------
(* The methods.                                                            *)

(* The fields of a result: a refusal, ...                                  *)
LEMMA RefusedIs ==
  ASSUME NEW x, NEW r, r = Rejected(x)
  PROVE  r.ok = FALSE /\ r.bd = x
  BY DEF Rejected

(* The fields of an escrow.                                                *)
LEMMA EscrowFields ==
  ASSUME NEW a, NEW b \in PlainRecord(a), NEW k \in DOMAIN b.escrows
  PROVE  /\ k \in Token /\ b.escrows[k] \in EscrowRecord
         /\ b.escrows[k].C \in Nat \ {0} /\ b.escrows[k].W \in Nat
         /\ b.escrows[k].Reserved \in Int /\ b.escrows[k].Started \in BOOLEAN
         /\ Wall(b, <<k, -1>>) = b.escrows[k].W
         /\ ItemRate(b, <<k, -1>>) = b.escrows[k].C
<1>1. k \in Token /\ b.escrows[k] \in EscrowRecord
  BY PlainFields, EscrowMap
<1>2. /\ Wall(b, <<k, -1>>) = b.escrows[k].W
      /\ ItemRate(b, <<k, -1>>) = b.escrows[k].C
  BY DEF Wall, ItemRate
<1> QED
  BY <1>1, <1>2 DEF EscrowRecord

(* The fields of an array.                                                 *)
LEMMA ArrayFields ==
  ASSUME NEW a, NEW b \in PlainRecord(a), NEW k \in DOMAIN b.arrays
  PROVE  /\ k \in Token /\ b.arrays[k] \in ArrayRecord /\ Counts(b.arrays[k])
         /\ b.arrays[k].C \in Nat \ {0} /\ b.arrays[k].W \in Nat
         /\ b.arrays[k].Reserved \in Int /\ b.arrays[k].Remaining \in Nat \ {0}
         /\ b.arrays[k].tasks \in TaskMaps
         /\ \A i : i # -1 => /\ Wall(b, <<k, i>>) = b.arrays[k].W
                             /\ ItemRate(b, <<k, i>>) = b.arrays[k].C
<1>1. k \in Token /\ b.arrays[k] \in ArrayEscrow
  BY PlainFields, ArrayMap
<1>2. b.arrays[k] \in ArrayRecord /\ Counts(b.arrays[k])
  BY <1>1 DEF ArrayEscrow
<1>3. \A i : i # -1 => /\ Wall(b, <<k, i>>) = b.arrays[k].W
                       /\ ItemRate(b, <<k, i>>) = b.arrays[k].C
  BY DEF Wall, ItemRate
<1> QED
  BY <1>1, <1>2, <1>3 DEF ArrayRecord

(* Two budgets with the same arrays differ in their escrows alone, ...     *)
LEMMA SameArrays ==
  ASSUME NEW a, NEW b \in PlainRecord(a), NEW b2 \in PlainRecord(a),
         b2.arrays = b.arrays
  PROVE  \A x : x[2] # -1 =>
           /\ x \in Open(b2) <=> x \in Open(b)
           /\ x \in Bound(b2) <=> x \in Bound(b)
           /\ SameItem(b, b2, x)
<1> SUFFICES ASSUME NEW x, x[2] # -1
             PROVE  /\ x \in Open(b2) <=> x \in Open(b)
                    /\ x \in Bound(b2) <=> x \in Bound(b)
                    /\ SameItem(b, b2, x)
  OBVIOUS
<1>1. SameItem(b, b2, x)
  BY DEF SameItem, Wall, ItemRate
<1>2. x \in Open(b2) <=> x \in Open(b)
  BY DEF Open
<1>3. x \in Bound(b2) <=> x \in Bound(b)
  BY DEF Bound, Orphans
<1> QED
  BY <1>1, <1>2, <1>3

(* ... and two budgets with the same escrows in their arrays alone.        *)
LEMMA SameEscrows ==
  ASSUME NEW a, NEW b \in PlainRecord(a), NEW b2 \in PlainRecord(a),
         b2.escrows = b.escrows
  PROVE  \A x : x[2] = -1 =>
           /\ x \in Open(b2) <=> x \in Open(b)
           /\ x \in Bound(b2) <=> x \in Bound(b)
           /\ SameItem(b, b2, x)
<1> SUFFICES ASSUME NEW x, x[2] = -1
             PROVE  /\ x \in Open(b2) <=> x \in Open(b)
                    /\ x \in Bound(b2) <=> x \in Bound(b)
                    /\ SameItem(b, b2, x)
  OBVIOUS
<1>1. SameItem(b, b2, x)
  BY DEF SameItem, Wall, ItemRate
<1>2. ASSUME x \in Open(b) \cup Open(b2) PROVE x = <<x[1], -1>>
  BY <1>2, OpenIs
<1>3. x \in Open(b2) <=> x \in Open(b)
  BY <1>2, OpenIs
<1>4. x \in Bound(b2) <=> x \in Bound(b)
  BY <1>2, <1>3, BoundIs
<1> QED
  BY <1>1, <1>3, <1>4

(* A gate escrows the whole walltime, or changes nothing.                  *)
LEMMA SubmitDoes ==
  ASSUME NEW a \in Accounts, NEW b \in PlainRecord(a), NEW k \in Token,
         NEW c \in Nat, NEW w \in Nat, NEW now \in Nat, NEW wal \in BOOLEAN,
         NEW r, r = SubmitAt(b, k, c, w, now, wal)
  PROVE  \/ r.ok = FALSE /\ r.bd = b
         \/ /\ r.ok = TRUE /\ r.bd \in PlainRecord(a)
            /\ Gains(b, r.bd, {<<k, -1>>}, RateOrFlat(b, c), w)
<1> DEFINE rt == RateOrFlat(b, c)
           cost == rt * w
           e == [C |-> rt, Reserved |-> cost, W |-> w, Started |-> FALSE,
                 BurstResv |-> 0, Submitted |-> now]
           f == Put(b.escrows, k, e)
           b2 == [b EXCEPT !.B = @ - cost, !.ReservedTotal = @ + cost,
                           !.escrows = f]
           cmd == [kind |-> "submit", id |-> k, c |-> rt, w |-> w,
                   now |-> now]
<1>1. /\ b.C = FlatRates[a] /\ b.B \in Int /\ b.ReservedTotal \in Int
      /\ b.Consumed \in Nat /\ b.WriteOff \in Nat /\ b.escrows \in EscrowMaps
  BY PlainFields
<1>2. rt \in Nat \ {0}
  BY <1>1, SeamAssumption DEF RateOrFlat
<1> HIDE DEF rt
<1>3. cost \in Nat
  BY <1>2
<1>4. \/ r = Rejected(b)
      \/ k \notin DOMAIN b.escrows /\ r = logCmd(b, b2, cmd, wal)
  BY DEF SubmitAt, rt
<1> HIDE DEF b2, cmd
<1>5. CASE r = Rejected(b)
  BY <1>5, RefusedIs
<1>6. CASE k \notin DOMAIN b.escrows /\ r = logCmd(b, b2, cmd, wal)
  <2>1. \/ r.ok = FALSE /\ r.bd = b
        \/ r.ok = TRUE /\ r.bd = b2
    BY <1>6 DEF logCmd, Rejected
  <2>2. e \in EscrowRecord /\ e.W = w /\ e.C = rt /\ e.Started = FALSE
    BY <1>2, <1>3 DEF EscrowRecord
  <2> HIDE DEF e, cost
  <2>3. /\ DOMAIN f = DOMAIN b.escrows \cup {k} /\ f[k] = e
        /\ \A u \in DOMAIN b.escrows : f[u] = b.escrows[u]
        /\ f = [u \in DOMAIN f |-> f[u]]
    BY <1>6 DEF Put
  <2>4. f \in EscrowMaps
    BY <1>1, <2>2, <2>3, EscrowMap
  <2> HIDE DEF f
  <2>5. b.B - cost \in Int /\ b.ReservedTotal + cost \in Int
    BY <1>1, <1>3
  <2>6. /\ b2 \in PlainRecord(a) /\ b2.escrows = f /\ b2.arrays = b.arrays
        /\ b2.Consumed = b.Consumed /\ b2.WriteOff = b.WriteOff
    BY <2>4, <2>5 DEF PlainRecord, b2
  <2>7. Spent(b2) = Spent(b)
    BY <2>6 DEF Spent
  <2> DEFINE x0 == <<k, -1>>
  <2>8. /\ \A x : x[2] # -1 => /\ x \in Open(b2) <=> x \in Open(b)
                               /\ x \in Bound(b2) <=> x \in Bound(b)
                               /\ SameItem(b, b2, x)
    BY <2>6, SameArrays
  <2>9. ASSUME NEW x, x[2] = -1
        PROVE  /\ x \in Open(b2) <=> x \in Open(b) \/ x = x0
               /\ x \in Bound(b2) <=> x \in Bound(b)
               /\ x \in Open(b) => SameItem(b, b2, x)
    <3>1. ASSUME x \in Open(b) \cup Open(b2) PROVE x = <<x[1], -1>>
      BY <2>6, <2>9, <3>1, OpenIs
    <3>2. x \in Open(b2) <=> x \in Open(b) \/ x = x0
      BY <2>3, <2>6, <3>1, OpenIs
    <3>3. x \in Bound(b2) <=> x \in Bound(b)
      BY <1>6, <2>2, <2>3, <2>6, <3>1, BoundIs
    <3>4. x \in Open(b) => SameItem(b, b2, x)
      BY <2>3, <2>6, <2>9, <3>1, OpenIs DEF SameItem, Wall, ItemRate
    <3> QED
      BY <3>2, <3>3, <3>4
  <2>10. x0[2] = -1 /\ x0[1] = k /\ x0 \notin Open(b)
    BY <1>6, OpenIs
  <2>11. Wall(b2, x0) = w /\ ItemRate(b2, x0) = rt
    BY <2>2, <2>3, <2>6, <2>10 DEF Wall, ItemRate
  <2> HIDE DEF x0
  <2>12. Open(b2) = Open(b) \cup {x0}
    BY <2>8, <2>9, <2>10
  <2>13. Bound(b2) = Bound(b)
    BY <2>8, <2>9
  <2>14. \A x \in Open(b) : SameItem(b, b2, x)
    BY <2>8, <2>9
  <2>15. Gains(b, b2, {x0}, rt, w)
    BY <2>7, <2>10, <2>11, <2>12, <2>13, <2>14 DEF Gains
  <2> QED
    BY <2>1, <2>6, <2>15 DEF x0, rt
<1> QED
  BY <1>4, <1>5, <1>6

(* A clamped time is a natural, and the walltime clamps to itself.         *)
LEMMA ClampNat ==
  ASSUME NEW x \in Int, NEW hi \in Nat
  PROVE  /\ Clamp(x, hi) \in Nat /\ Clamp(x, hi) <= hi
         /\ Clamp(hi, hi) = hi /\ Clamp(0, hi) = 0
  BY DEF Clamp

(* A dispatch lights the job's escrow and moves no money.                  *)
LEMMA StartDoes ==
  ASSUME NEW a, NEW b \in PlainRecord(a), NEW k, NEW now, NEW wal \in BOOLEAN,
         NEW r, r = Start(b, k, now, wal)
  PROVE  /\ r.bd \in PlainRecord(a)
         /\ r.bd = b \/ Lights(b, r.bd, <<k, -1>>)
         /\ wal = TRUE => Lights(b, r.bd, <<k, -1>>)
<1> DEFINE e == b.escrows[k]
           x0 == <<k, -1>>
           b2 == [b EXCEPT !.burstPot = @ - 0, !.escrows[k].Started = TRUE,
                           !.escrows[k].BurstResv = 0]
           cmd == [kind |-> "start", id |-> k, now |-> now]
<1>1. /\ b.BurstEnabled = FALSE /\ b.burstPot = 0 /\ b.escrows \in EscrowMaps
  BY PlainFields
<1>0. \A x : SameItem(b, b, x)
  BY DEF SameItem
<1>2. CASE k \notin DOMAIN b.escrows
  <2>1. r.bd = b
    BY <1>2 DEF Start, Rejected
  <2>2. x0 \notin Open(b)
    BY <1>2, OpenIs
  <2> QED
    BY <1>0, <2>1, <2>2 DEF Lights
<1>3. CASE k \in DOMAIN b.escrows
  <2>1. e \in EscrowRecord /\ k \in Token
    BY <1>3, EscrowFields
  <2>2. CASE e.Started
    <3>1. r.bd = b
      BY <1>3, <2>2 DEF Start
    <3>2. x0 \in Bound(b)
      BY <1>3, <2>2, BoundIs
    <3> QED
      BY <1>0, <3>1, <3>2 DEF Lights
  <2>3. CASE ~e.Started
    <3>1. accrue(b, now) = b
      BY <1>1 DEF accrue
    <3>2. BurstResvFor(b, e.C, e.W) = 0 /\ Burning(b, e.C) = b /\ BurstGate(b, 0)
      BY <1>1 DEF BurstResvFor, Burning, BurstGate
    <3>3. r = logCmd(b, b2, cmd, wal)
      BY <1>3, <2>3, <3>1, <3>2 DEF Start
    <3> HIDE DEF cmd, b2
    <3>4. (wal = TRUE => r.bd = b2) /\ (wal = FALSE => r.bd = b)
      BY <3>3 DEF logCmd, Rejected
    <3> DEFINE e2 == [e EXCEPT !.Started = TRUE, !.BurstResv = 0]
               f == [b.escrows EXCEPT ![k] = e2]
    <3>5. b2 = [b EXCEPT !.burstPot = 0, !.escrows = f]
      <4>1. b.burstPot - 0 = 0
        BY <1>1
      <4>2. DOMAIN b = DOMAIN b2 /\ "burstPot" \in DOMAIN b /\ "escrows" \in DOMAIN b
        BY DEF PlainRecord, b2
      <4>3. b2.escrows = f
        <5>1. b2.escrows = [b.escrows EXCEPT ![k] = [[b.escrows[k] EXCEPT !.Started = TRUE]
                                                      EXCEPT !.BurstResv = 0]]
          BY <1>3, <4>2 DEF b2
        <5> QED
          BY <5>1
      <4> QED
        BY <4>1, <4>2, <4>3 DEF b2
    <3>6. e2 \in EscrowRecord /\ e2.Started = TRUE /\ e2.W = e.W /\ e2.C = e.C
      BY <2>1 DEF EscrowRecord
    <3> HIDE DEF e2, e
    <3>7. /\ DOMAIN f = DOMAIN b.escrows /\ f[k] = e2
          /\ \A u \in DOMAIN b.escrows \ {k} : f[u] = b.escrows[u]
          /\ f = [u \in DOMAIN f |-> f[u]]
      BY <1>3
    <3>8. f \in EscrowMaps
      BY <1>1, <3>6, <3>7, EscrowMap
    <3> HIDE DEF f
    <3>9. /\ b2 \in PlainRecord(a) /\ b2.escrows = f /\ b2.arrays = b.arrays
          /\ b2.Consumed = b.Consumed /\ b2.WriteOff = b.WriteOff
      BY <3>5, <3>8 DEF PlainRecord
    <3>10. Spent(b2) = Spent(b)
      BY <3>9 DEF Spent
    <3>11. /\ \A x : x[2] # -1 => /\ x \in Open(b2) <=> x \in Open(b)
                                  /\ x \in Bound(b2) <=> x \in Bound(b)
                                  /\ SameItem(b, b2, x)
      BY <3>9, SameArrays
    <3>12. x0[2] = -1 /\ x0[1] = k /\ x0 \in Open(b)
      BY <1>3, OpenIs
    <3>13. ASSUME NEW x, x[2] = -1
           PROVE  /\ x \in Open(b2) <=> x \in Open(b)
                  /\ x \in Bound(b2) <=> x \in Bound(b) \/ x = x0
                  /\ x \in Open(b) => SameItem(b, b2, x)
      <4>1. ASSUME x \in Open(b) \cup Open(b2) PROVE x = <<x[1], -1>>
        BY <3>9, <3>13, <4>1, OpenIs
      <4>2. x \in Open(b2) <=> x \in Open(b)
        BY <3>7, <3>9, <4>1, OpenIs
      <4>3. x \in Bound(b2) <=> x \in Bound(b) \/ x = x0
        BY <1>3, <3>6, <3>7, <3>9, <3>12, <4>1, BoundIs
      <4>4. x \in Open(b) => SameItem(b, b2, x)
        BY <3>6, <3>7, <3>9, <3>13, <4>1, OpenIs DEF SameItem, Wall, ItemRate, e
      <4> QED
        BY <4>2, <4>3, <4>4
    <3> HIDE DEF x0
    <3>14. Open(b2) = Open(b) /\ \A x \in Open(b) : SameItem(b, b2, x)
      BY <3>11, <3>13
    <3>15. Bound(b2) = Bound(b) \cup ({x0} \cap Open(b))
      BY <3>11, <3>12, <3>13
    <3>16. Lights(b, b2, x0)
      BY <3>10, <3>14, <3>15 DEF Lights
    <3> QED
      BY <3>4, <3>9, <3>16 DEF x0
  <2> QED
    BY <2>2, <2>3
<1> QED
  BY <1>2, <1>3

(* A reprice lowers the rate of an escrow that waits, or changes nothing.  *)
LEMMA RepriceDoes ==
  ASSUME NEW a, NEW b \in PlainRecord(a), NEW k, NEW c \in Int, NEW now,
         NEW wal \in BOOLEAN, NEW r, r = Reprice(b, k, c, now, wal)
  PROVE  /\ r.bd \in PlainRecord(a)
         /\ \/ r.bd = b
            \/ /\ <<k, -1>> \in Open(b) \ Bound(b) /\ c <= ItemRate(b, <<k, -1>>)
               /\ Lowers(b, r.bd, <<k, -1>>, c)
         /\ ( /\ wal = TRUE /\ <<k, -1>> \in Open(b) \ Bound(b)
              /\ c > 0 /\ c <= ItemRate(b, <<k, -1>>) ) =>
              Lowers(b, r.bd, <<k, -1>>, c)
<1> DEFINE e == b.escrows[k]
           x0 == <<k, -1>>
           delta == (e.C - c) * e.W
           can == k \in DOMAIN b.escrows /\ ~e.Started /\ c > 0 /\ c <= e.C
           b2 == [b EXCEPT !.escrows[k].C = c, !.escrows[k].Reserved = @ - delta,
                           !.ReservedTotal = @ - delta, !.B = @ + delta]
           cmd == [kind |-> "reprice", id |-> k, c |-> c, now |-> now]
<1>1. /\ b.B \in Int /\ b.ReservedTotal \in Int /\ b.escrows \in EscrowMaps
  BY PlainFields
<1>2. CASE ~can
  <2>1. r.bd = b
    <3>1. \/ k \notin DOMAIN b.escrows \/ e.Started \/ c <= 0 \/ c > e.C
      <4>1. k \in DOMAIN b.escrows => e.C \in Nat
        BY EscrowFields
      <4> QED
        BY <1>2, <4>1
    <3> QED
      BY <3>1 DEF Reprice, Rejected
  <2>2. ASSUME <<k, -1>> \in Open(b) \ Bound(b), c > 0,
               c <= ItemRate(b, <<k, -1>>)
        PROVE  FALSE
    <3>1. k \in DOMAIN b.escrows /\ ~e.Started
      BY <2>2, OpenIs, BoundIs
    <3>2. ItemRate(b, <<k, -1>>) = e.C
      BY <3>1, EscrowFields
    <3> QED
      BY <1>2, <2>2, <3>1, <3>2
  <2> QED
    BY <2>1, <2>2
<1>3. CASE can
  <2>1. /\ e \in EscrowRecord /\ k \in Token /\ e.C \in Nat /\ e.W \in Nat
        /\ e.Reserved \in Int
    BY <1>3, EscrowFields
  <2>2. delta \in Int
    BY <2>1
  <2>3. r = logCmd(b, b2, cmd, wal)
    BY <1>3, <2>1 DEF Reprice
  <2> HIDE DEF cmd, b2, delta
  <2>4. (wal = TRUE => r.bd = b2) /\ (wal = FALSE => r.bd = b)
    BY <2>3 DEF logCmd, Rejected
  <2> DEFINE e2 == [e EXCEPT !.C = c, !.Reserved = e.Reserved - delta]
             f == [b.escrows EXCEPT ![k] = e2]
  <2>5. /\ b2 = [b EXCEPT !.escrows = f, !.ReservedTotal = b.ReservedTotal - delta,
                          !.B = b.B + delta]
    <3>1. /\ DOMAIN b = DOMAIN b2 /\ "B" \in DOMAIN b /\ "escrows" \in DOMAIN b
          /\ "ReservedTotal" \in DOMAIN b
      BY DEF PlainRecord, b2
    <3>2. b2.escrows = f
      <4>1. /\ DOMAIN e = DOMAIN e2 /\ "C" \in DOMAIN e /\ "Reserved" \in DOMAIN e
        BY <2>1 DEF EscrowRecord
      <4>2. b2.escrows =
              [[b.escrows EXCEPT ![k] = [b.escrows[k] EXCEPT !.C = c]]
                  EXCEPT ![k] = [[b.escrows EXCEPT ![k] =
                                   [b.escrows[k] EXCEPT !.C = c]][k]
                     EXCEPT !.Reserved = @ - delta]]
        BY <1>3, <3>1 DEF b2
      <4> QED
        BY <1>3, <4>1, <4>2
    <3> QED
      BY <3>1, <3>2 DEF b2
  <2>6. e.Reserved - delta \in Int /\ c \in Nat \ {0}
    BY <1>3, <2>1, <2>2
  <2>7. e2 \in EscrowRecord /\ e2.Started = e.Started /\ e2.W = e.W /\ e2.C = c
    BY <2>1, <2>6 DEF EscrowRecord
  <2> HIDE DEF e2
  <2>8. /\ DOMAIN f = DOMAIN b.escrows /\ f[k] = e2
        /\ \A u \in DOMAIN b.escrows \ {k} : f[u] = b.escrows[u]
        /\ f = [u \in DOMAIN f |-> f[u]]
    BY <1>3
  <2>9. f \in EscrowMaps
    BY <1>1, <2>7, <2>8, EscrowMap
  <2> HIDE DEF f
  <2>10. b.B + delta \in Int /\ b.ReservedTotal - delta \in Int
    BY <1>1, <2>2
  <2>11. /\ b2 \in PlainRecord(a) /\ b2.escrows = f /\ b2.arrays = b.arrays
         /\ b2.Consumed = b.Consumed /\ b2.WriteOff = b.WriteOff
    BY <2>5, <2>9, <2>10 DEF PlainRecord
  <2>12. Spent(b2) = Spent(b)
    BY <2>11 DEF Spent
  <2>13. /\ \A x : x[2] # -1 => /\ x \in Open(b2) <=> x \in Open(b)
                                /\ x \in Bound(b2) <=> x \in Bound(b)
                                /\ SameItem(b, b2, x)
    BY <2>11, SameArrays
  <2>14. x0[2] = -1 /\ x0[1] = k /\ x0 \in Open(b) \ Bound(b)
    BY <1>3, OpenIs, BoundIs
  <2>15. ASSUME NEW x, x[2] = -1
         PROVE  /\ x \in Open(b2) <=> x \in Open(b)
                /\ x \in Bound(b2) <=> x \in Bound(b)
                /\ x \in Open(b) \ {x0} => SameItem(b, b2, x)
    <3>1. ASSUME x \in Open(b) \cup Open(b2) PROVE x = <<x[1], -1>>
      BY <2>11, <2>15, <3>1, OpenIs
    <3>2. x \in Open(b2) <=> x \in Open(b)
      BY <2>8, <2>11, <3>1, OpenIs
    <3>3. x \in Bound(b2) <=> x \in Bound(b)
      <4>1. ASSUME NEW u \in DOMAIN b.escrows
            PROVE  f[u].Started = b.escrows[u].Started
        BY <2>7, <2>8
      <4>2. ASSUME x \in Open(b)
            PROVE  x \in Bound(b2) <=> x \in Bound(b)
        <5>1. x[1] \in DOMAIN b.escrows /\ x = <<x[1], -1>>
          BY <3>1, <4>2, OpenIs
        <5> QED
          BY <2>8, <2>11, <4>1, <5>1, BoundIs
      <4> QED
        BY <2>11, <3>2, <4>2, BoundIs
    <3>4. x \in Open(b) \ {x0} => SameItem(b, b2, x)
      BY <2>8, <2>11, <2>15, <3>1, OpenIs DEF SameItem, Wall, ItemRate
    <3> QED
      BY <3>2, <3>3, <3>4
  <2>16. Wall(b2, x0) = Wall(b, x0) /\ ItemRate(b2, x0) = c
    BY <2>7, <2>8, <2>11, <2>14 DEF Wall, ItemRate
  <2> HIDE DEF x0
  <2>17. Open(b2) = Open(b) /\ Bound(b2) = Bound(b)
    BY <2>13, <2>15
  <2>18. \A y \in Open(b) \ {x0} : SameItem(b, b2, y)
    BY <2>13, <2>15
  <2>19. Lowers(b, b2, x0, c)
    BY <2>12, <2>16, <2>17, <2>18 DEF Lowers
  <2>20. c <= ItemRate(b, x0)
    BY <1>3, EscrowFields DEF x0
  <2> QED
    BY <2>4, <2>11, <2>14, <2>19, <2>20 DEF x0
<1> QED
  BY <1>2, <1>3

(* settle closes the escrow and bills the time it is given.                *)
LEMMA SettleDoes ==
  ASSUME NEW a, NEW b \in PlainRecord(a), NEW k \in DOMAIN b.escrows, NEW rt \in Int,
         NEW wo \in BOOLEAN, NEW now
  PROVE  /\ settle(b, k, rt, wo, now) \in PlainRecord(a)
         /\ Loses(b, settle(b, k, rt, wo, now), <<k, -1>>,
                  ItemRate(b, <<k, -1>>) * Clamp(rt, Wall(b, <<k, -1>>)))
<1> DEFINE e == b.escrows[k]
           x0 == <<k, -1>>
           used == e.C * Clamp(rt, e.W)
           b1 == [b EXCEPT !.ReservedTotal = @ - e.Reserved,
                           !.B = @ + (e.Reserved - used),
                           !.WriteOff = IF wo THEN @ + used ELSE @,
                           !.Consumed = IF wo THEN @ ELSE @ + used]
           f == Drop(b.escrows, k)
           b2 == [b1 EXCEPT !.escrows = f]
<1>1. /\ b.BurstEnabled = FALSE /\ b.B \in Int /\ b.ReservedTotal \in Int
      /\ b.Consumed \in Nat /\ b.WriteOff \in Nat /\ b.escrows \in EscrowMaps
  BY PlainFields
<1>2. /\ e.C \in Nat \ {0} /\ e.W \in Nat /\ e.Reserved \in Int
      /\ Wall(b, x0) = e.W /\ ItemRate(b, x0) = e.C
  BY EscrowFields
<1>4. used \in Nat
  <2>1. Clamp(rt, e.W) \in Nat
    BY <1>2, ClampNat
  <2> QED
    BY <1>2, <2>1
<1>5. accrue(b, now) = b
  BY <1>1 DEF accrue
<1>6. Bill(b, e.Reserved, used, wo) = b1
  BY DEF Bill
<1> HIDE DEF used
<1>7. /\ b.B + (e.Reserved - used) \in Int /\ b.ReservedTotal - e.Reserved \in Int
      /\ b.WriteOff + used \in Nat /\ b.Consumed + used \in Nat
  BY <1>1, <1>2, <1>4
<1> HIDE DEF e
<1>8. /\ b1 \in PlainRecord(a) /\ b1.escrows = b.escrows /\ b1.BurstEnabled = FALSE
      /\ b1.arrays = b.arrays
      /\ b1.WriteOff = IF wo THEN b.WriteOff + used ELSE b.WriteOff
      /\ b1.Consumed = IF wo THEN b.Consumed ELSE b.Consumed + used
  BY <1>1, <1>7 DEF PlainRecord
<1> HIDE DEF b1
<1>9. StopBurning(b1, e.C, e.W, e.Started, e.BurstResv, Clamp(rt, e.W)) = b1
  BY <1>8 DEF StopBurning
<1>10. settle(b, k, rt, wo, now) = b2
  BY <1>5, <1>6, <1>8, <1>9 DEF settle, e, used
<1>11. /\ DOMAIN f = DOMAIN b.escrows \ {k}
       /\ \A u \in DOMAIN f : f[u] = b.escrows[u]
       /\ f = [u \in DOMAIN f |-> f[u]]
  BY DEF Drop, Restrict
<1>12. f \in EscrowMaps
  BY <1>1, <1>11, EscrowMap
<1> HIDE DEF f
<1>13. /\ b2 \in PlainRecord(a) /\ b2.escrows = f /\ b2.arrays = b.arrays
       /\ b2.Consumed = b1.Consumed /\ b2.WriteOff = b1.WriteOff
  BY <1>8, <1>12 DEF PlainRecord
<1> HIDE DEF b2
<1>14. Spent(b2) = Spent(b) + used
  BY <1>1, <1>4, <1>8, <1>13 DEF Spent
<1>15. /\ \A x : x[2] # -1 => /\ x \in Open(b2) <=> x \in Open(b)
                              /\ x \in Bound(b2) <=> x \in Bound(b)
                              /\ SameItem(b, b2, x)
  BY <1>13, SameArrays
<1>16. x0[2] = -1 /\ x0[1] = k /\ x0 \in Open(b)
  BY OpenIs
<1>17. ASSUME NEW x, x[2] = -1
       PROVE  /\ x \in Open(b2) <=> x \in Open(b) \ {x0}
              /\ x \in Bound(b2) <=> x \in Bound(b) \ {x0}
              /\ x \in Open(b) \ {x0} => SameItem(b, b2, x)
  <2>1. ASSUME x \in Open(b) \cup Open(b2) PROVE x = <<x[1], -1>>
    BY <1>13, <1>17, <2>1, OpenIs
  <2>2. x \in Open(b2) <=> x \in Open(b) \ {x0}
    BY <1>11, <1>13, <2>1, OpenIs
  <2>3. x \in Bound(b2) <=> x \in Bound(b) \ {x0}
    BY <1>11, <1>13, <2>1, BoundIs
  <2>4. x \in Open(b) \ {x0} => SameItem(b, b2, x)
    BY <1>11, <1>13, <1>17, <2>1, OpenIs DEF SameItem, Wall, ItemRate
  <2> QED
    BY <2>2, <2>3, <2>4
<1> HIDE DEF x0
<1>18. /\ Open(b2) = Open(b) \ {x0} /\ Bound(b2) = Bound(b) \ {x0}
       /\ \A y \in Open(b2) : SameItem(b, b2, y)
  BY <1>15, <1>16, <1>17
<1>19. Loses(b, b2, x0, used)
  BY <1>4, <1>14, <1>16, <1>18 DEF Loses
<1> QED
  BY <1>2, <1>10, <1>13, <1>19 DEF used, e, x0

(* The exits of a job.                                                     *)
LEMMA SettledDoes ==
  ASSUME NEW a, NEW b \in PlainRecord(a), NEW k, NEW rt, NEW wo \in BOOLEAN,
         NEW now, NEW cmd, NEW wal \in BOOLEAN, k \in DOMAIN b.escrows => rt \in Int,
         NEW r, r = Settled(b, k, rt, wo, now, cmd, wal)
  PROVE  Exits(a, b, <<k, -1>>, wal,
               ItemRate(b, <<k, -1>>) * Clamp(rt, Wall(b, <<k, -1>>)), r)
<1> DEFINE x0 == <<k, -1>>
           used == ItemRate(b, x0) * Clamp(rt, Wall(b, x0))
<1>1. x0 \in Open(b) <=> k \in DOMAIN b.escrows
  BY OpenIs
<1>2. CASE k \notin DOMAIN b.escrows
  <2>1. r.ok = FALSE /\ r.bd = b
    BY <1>2 DEF Settled, Rejected
  <2> HIDE DEF x0
  <2> QED
    BY <1>1, <1>2, <2>1 DEF Exits, x0
<1>3. CASE k \in DOMAIN b.escrows
  <2> DEFINE b2 == settle(b, k, rt, wo, now)
  <2>1. r = logCmd(b, b2, cmd, wal)
    BY <1>3 DEF Settled
  <2>2. rt \in Int
    BY <1>3
  <2>3. b2 \in PlainRecord(a) /\ Loses(b, b2, x0, used)
    BY <1>3, <2>2, SettleDoes
  <2> HIDE DEF b2
  <2>4. /\ wal = TRUE => r.ok = TRUE /\ r.bd = b2
        /\ wal = FALSE => r.ok = FALSE /\ r.bd = b
    BY <2>1 DEF logCmd, Rejected
  <2> HIDE DEF x0, used
  <2>5. Exits(a, b, x0, wal, used, r)
    BY <1>1, <1>3, <2>3, <2>4 DEF Exits
  <2> QED
    BY <2>5 DEF x0, used
<1> QED
  BY <1>2, <1>3

(* What a cancel bills when nothing is reported.                           *)
LEMMA CancelDoes ==
  ASSUME NEW a, NEW b \in PlainRecord(a), NEW k, NEW now, NEW wal \in BOOLEAN,
         NEW r, r = Cancel(b, k, 0, now, wal)
  PROVE  Exits(a, b, <<k, -1>>, wal, 0, r)
<1> DEFINE x0 == <<k, -1>>
           wo == FALSE
<1>1. PICK cmd, rt : rt = 0 /\ r = Settled(b, k, rt, wo, now, cmd, wal)
  <2>1. r = Settled(b, k, IF b.escrows[k].Started THEN 0 ELSE 0, wo, now,
                    [kind |-> "cancel", id |-> k, elapsed |-> 0, now |-> now], wal)
    BY DEF Cancel
  <2>2. (IF b.escrows[k].Started THEN 0 ELSE 0) = 0
    OBVIOUS
  <2> QED
    BY <2>1, <2>2
<1>2. wo \in BOOLEAN /\ rt \in Int
  BY <1>1
<1> HIDE DEF wo
<1>3. Exits(a, b, x0, wal, ItemRate(b, x0) * Clamp(rt, Wall(b, x0)), r)
  BY <1>1, <1>2, SettledDoes
<1>4. CASE x0 \notin Open(b)
  BY <1>3, <1>4 DEF Exits
<1>5. CASE x0 \in Open(b)
  <2>1. k \in DOMAIN b.escrows
    BY <1>5, OpenIs
  <2>2. ItemRate(b, x0) \in Nat /\ Wall(b, x0) \in Nat
    BY <2>1, EscrowFields
  <2>3. ItemRate(b, x0) * Clamp(rt, Wall(b, x0)) = 0
    BY <1>1, <2>2, ClampNat
  <2> QED
    BY <1>3, <2>3
<1> QED
  BY <1>4, <1>5

(* SETTLE of a job bills what its kind says.                               *)
LEMMA SettleJobDoes ==
  ASSUME NEW a, NEW b \in PlainRecord(a), NEW k, NEW rt \in Int, NEW wal \in BOOLEAN,
         NEW kind \in {"complete", "timeout", "cancel", "infrafail"},
         NEW r, r = SettleJob(b, k, kind, rt, wal)
  PROVE  Exits(a, b, <<k, -1>>, wal,
               ItemRate(b, <<k, -1>>) * Due(b, <<k, -1>>, kind, rt), r)
<1> DEFINE x0 == <<k, -1>>
           wo == FALSE
           wt == TRUE
<1>0. wo \in BOOLEAN /\ wt \in BOOLEAN
  OBVIOUS
<1>1. x0 \in Open(b) <=> k \in DOMAIN b.escrows
  BY OpenIs
<1>2. x0 \in Open(b) =>
        /\ Wall(b, x0) \in Nat /\ b.escrows[k].W = Wall(b, x0)
        /\ b.escrows[k].Started \in BOOLEAN
        /\ x0 \in Bound(b) <=> b.escrows[k].Started
  BY <1>1, EscrowFields, BoundIs
<1>3. b.BillInfraFailures = FALSE
  BY PlainFields
<1> HIDE DEF wo, wt
<1>4. CASE kind = "complete"
  <2>1. PICK cmd : r = Settled(b, k, rt, wo, clock, cmd, wal)
    BY <1>4 DEF SettleJob, Complete, wo
  <2>2. Exits(a, b, x0, wal, ItemRate(b, x0) * Clamp(rt, Wall(b, x0)), r)
    BY <1>0, <2>1, SettledDoes
  <2> QED
    BY <1>4, <2>2 DEF Due
<1>5. CASE kind = "timeout"
  <2>1. PICK cmd, el : /\ el = b.escrows[k].W
                       /\ r = Settled(b, k, el, wo, clock, cmd, wal)
    BY <1>5 DEF SettleJob, Timeout, wo
  <2>2. k \in DOMAIN b.escrows => el \in Int
    BY <1>1, <1>2, <2>1
  <2>3. Exits(a, b, x0, wal, ItemRate(b, x0) * Clamp(el, Wall(b, x0)), r)
    BY <1>0, <2>1, <2>2, SettledDoes
  <2>4. x0 \in Open(b) => Clamp(el, Wall(b, x0)) = Wall(b, x0)
    BY <1>2, <2>1, ClampNat
  <2>5. Due(b, x0, kind, rt) = Wall(b, x0)
    BY <1>5 DEF Due
  <2> HIDE DEF x0
  <2> QED
    BY <2>3, <2>4, <2>5 DEF Exits, x0
<1>6. CASE kind = "cancel"
  <2>1. PICK cmd, el : /\ el = IF b.escrows[k].Started THEN rt ELSE 0
                       /\ r = Settled(b, k, el, wo, clock, cmd, wal)
    BY <1>6 DEF SettleJob, Cancel, wo
  <2>2. el \in Int
    BY <2>1
  <2>3. Exits(a, b, x0, wal, ItemRate(b, x0) * Clamp(el, Wall(b, x0)), r)
    BY <1>0, <2>1, <2>2, SettledDoes
  <2>4. x0 \in Open(b) => Clamp(el, Wall(b, x0)) = Due(b, x0, kind, rt)
    BY <1>2, <1>6, <2>1, ClampNat DEF Due
  <2> HIDE DEF x0
  <2> QED
    BY <2>3, <2>4 DEF Exits, x0
<1>7. CASE kind = "infrafail"
  <2>1. PICK cmd : r = Settled(b, k, rt, wt, clock, cmd, wal)
    BY <1>3, <1>7 DEF SettleJob, InfraFail, wt
  <2>2. Exits(a, b, x0, wal, ItemRate(b, x0) * Clamp(rt, Wall(b, x0)), r)
    BY <1>0, <2>1, SettledDoes
  <2> QED
    BY <1>7, <2>2 DEF Due
<1> QED
  BY <1>4, <1>5, <1>6, <1>7

-----------------------------------------------------------------------------
(* The same for arrays.                                                    *)

(* Two budgets whose arrays differ at one key.                             *)
LEMMA OtherArrays ==
  ASSUME NEW a, NEW b \in PlainRecord(a), NEW b2 \in PlainRecord(a), NEW k,
         b2.escrows = b.escrows, DOMAIN b2.arrays \ {k} = DOMAIN b.arrays \ {k},
         \A u \in DOMAIN b.arrays \ {k} : b2.arrays[u] = b.arrays[u]
  PROVE  \A x : (x[2] = -1 \/ x[1] # k) =>
           /\ x \in Open(b2) <=> x \in Open(b)
           /\ x \in Bound(b2) <=> x \in Bound(b)
           /\ x \in Open(b) => SameItem(b, b2, x)
<1>1. \A x : x[2] = -1 => /\ x \in Open(b2) <=> x \in Open(b)
                          /\ x \in Bound(b2) <=> x \in Bound(b)
                          /\ SameItem(b, b2, x)
  BY SameEscrows
<1>2. ASSUME NEW x, x[2] # -1, x[1] # k
      PROVE  /\ x \in Open(b2) <=> x \in Open(b)
             /\ x \in Bound(b2) <=> x \in Bound(b)
             /\ x \in Open(b) => SameItem(b, b2, x)
  <2>1. ASSUME x \in Open(b) \cup Open(b2) PROVE x = <<x[1], x[2]>>
    BY <2>1, OpenIs
  <2>2. Unsettled(b2, x[1], x[2]) <=> Unsettled(b, x[1], x[2])
    BY <1>2 DEF Unsettled, HasTask
  <2>3. x \in Open(b2) <=> x \in Open(b)
    BY <1>2, <2>1, <2>2, OpenIs
  <2>4. x \in Open(b) => x[1] \in DOMAIN b.arrays
    BY <1>2, <2>1, OpenIs DEF Unsettled, HasTask
  <2>5. x \in Bound(b2) <=> x \in Bound(b)
    <3>1. ASSUME x \in Open(b)
          PROVE  x \in Bound(b2) <=> x \in Bound(b)
      <4>1. x = <<x[1], x[2]>> /\ b2.arrays[x[1]] = b.arrays[x[1]]
        BY <1>2, <2>1, <2>4, <3>1
      <4> QED
        BY <1>2, <2>2, <4>1, BoundIs
    <3> QED
      BY <2>3, <3>1, BoundIs
  <2>6. x \in Open(b) => SameItem(b, b2, x)
    BY <1>2, <2>4 DEF SameItem, Wall, ItemRate
  <2> QED
    BY <2>3, <2>5, <2>6
<1> QED
  BY <1>1, <1>2

(* The gate of an array.                                                   *)
LEMMA SubmitArrayDoes ==
  ASSUME NEW a \in Accounts, NEW b \in PlainRecord(a), NEW k \in Token,
         NEW c \in Nat, NEW n \in Nat, NEW w \in Nat, NEW now \in Nat,
         NEW wal \in BOOLEAN, NEW r, r = SubmitArrayAt(b, k, c, n, w, now, wal)
  PROVE  Admits(a, b, {k} \X (0 .. (n - 1)), RateOrFlat(b, c), w, r)
<1> DEFINE rt == RateOrFlat(b, c)
           cost == rt * w * n
           D == 0 .. (n - 1)
           X == {k} \X D
           tm == [i \in D |-> NoTask]
           e == [C |-> rt, W |-> w, N |-> n, Remaining |-> n, Reserved |-> cost,
                 Submitted |-> now, tasks |-> tm]
           f == Put(b.arrays, k, e)
           b2 == [b EXCEPT !.B = @ - cost, !.ReservedTotal = @ + cost,
                           !.arrays = f]
           cmd == [kind |-> "submitarray", id |-> k, c |-> rt, n |-> n, w |-> w,
                   now |-> now]
<1>1. /\ b.C = FlatRates[a] /\ b.B \in Int /\ b.ReservedTotal \in Int
      /\ b.Consumed \in Nat /\ b.WriteOff \in Nat /\ b.arrays \in ArrayMaps
  BY PlainFields
<1>2. rt \in Nat \ {0}
  BY <1>1, SeamAssumption DEF RateOrFlat
<1> HIDE DEF rt
<1>3. cost \in Nat
  BY <1>2
<1>4. \/ r = Rejected(b)
      \/ k \notin DOMAIN b.arrays /\ n > 0 /\ r = logCmd(b, b2, cmd, wal)
  BY DEF SubmitArrayAt, rt
<1> HIDE DEF b2, cmd
<1>5. CASE r = Rejected(b)
  <2>1. r.ok = FALSE /\ r.bd = b
    BY <1>5, RefusedIs
  <2> QED
    BY <2>1 DEF Admits
<1>6. CASE k \notin DOMAIN b.arrays /\ n > 0 /\ r = logCmd(b, b2, cmd, wal)
  <2>1. \/ r.ok = FALSE /\ r.bd = b
        \/ r.ok = TRUE /\ r.bd = b2
    BY <1>6 DEF logCmd, Rejected
  <2>2. /\ tm \in [D -> TaskRecord]
        /\ \A i \in D : tm[i].settled = FALSE /\ tm[i].started = FALSE
    BY DEF NoTask, TaskRecord
  <2>3. tm \in TaskMaps /\ DOMAIN tm = D
    BY <2>2 DEF TaskMaps
  <2> HIDE DEF tm, cost
  <2>4. /\ e \in ArrayRecord /\ e.W = w /\ e.C = rt /\ e.tasks = tm
        /\ e.Remaining = n
    BY <1>2, <1>3, <1>6, <2>3 DEF ArrayRecord
  <2> HIDE DEF e
  <2>5. Counts(e)
    <3>1. OpenTasks(e) = D
      BY <2>2, <2>3, <2>4 DEF OpenTasks
    <3>2. IsFiniteSet(D) /\ Cardinality(D) = n
      <4>1. 0 \in Int /\ n - 1 \in Int
        OBVIOUS
      <4>2. IsFiniteSet(D) /\ Cardinality(D) = IF 0 > n - 1 THEN 0 ELSE n - 1 - 0 + 1
        BY <4>1, FS_Interval
      <4> QED
        BY <1>6, <4>2
    <3> QED
      BY <2>4, <3>1, <3>2 DEF Counts
  <2>6. e \in ArrayEscrow
    BY <2>4, <2>5 DEF ArrayEscrow
  <2>7. /\ DOMAIN f = DOMAIN b.arrays \cup {k} /\ f[k] = e
        /\ \A u \in DOMAIN b.arrays : f[u] = b.arrays[u]
        /\ f = [u \in DOMAIN f |-> f[u]]
    BY <1>6 DEF Put
  <2>8. f \in ArrayMaps
    BY <1>1, <2>6, <2>7, ArrayMap
  <2> HIDE DEF f
  <2>9. b.B - cost \in Int /\ b.ReservedTotal + cost \in Int
    BY <1>1, <1>3
  <2>10. /\ b2 \in PlainRecord(a) /\ b2.arrays = f /\ b2.escrows = b.escrows
         /\ b2.Consumed = b.Consumed /\ b2.WriteOff = b.WriteOff
    BY <2>8, <2>9 DEF PlainRecord, b2
  <2>11. Spent(b2) = Spent(b)
    BY <2>10 DEF Spent
  <2>12. \A x : (x[2] = -1 \/ x[1] # k) =>
           /\ x \in Open(b2) <=> x \in Open(b)
           /\ x \in Bound(b2) <=> x \in Bound(b)
           /\ x \in Open(b) => SameItem(b, b2, x)
    <3>1. /\ DOMAIN b2.arrays \ {k} = DOMAIN b.arrays \ {k}
          /\ \A u \in DOMAIN b.arrays \ {k} : b2.arrays[u] = b.arrays[u]
      BY <2>7, <2>10
    <3> QED
      BY <2>10, <3>1, OtherArrays
  <2>13. ASSUME NEW x, x[2] # -1, x[1] = k
         PROVE  /\ x \in Open(b2) <=> x \in X
                /\ x \notin Open(b) /\ x \notin Bound(b2) /\ x \notin Bound(b)
    <3>1. ASSUME x \in Open(b) \cup Open(b2) PROVE x = <<k, x[2]>>
      BY <2>10, <2>13, <3>1, OpenIs
    <3>2. Unsettled(b2, k, x[2]) <=> x[2] \in D
      BY <2>2, <2>3, <2>4, <2>7, <2>10 DEF Unsettled, HasTask
    <3>3. ~Unsettled(b, k, x[2])
      BY <1>6 DEF Unsettled, HasTask
    <3>4. x \in X <=> x = <<k, x[2]>> /\ x[2] \in D
      OBVIOUS
    <3>5. x \in Open(b2) <=> x \in X
      <4> HIDE DEF X, D
      <4> QED
        BY <2>10, <2>13, <3>1, <3>2, <3>4, OpenIs
    <3>6. x \notin Open(b)
      BY <2>13, <3>1, <3>3, OpenIs
    <3>7. x \notin Bound(b2)
      <4>1. ASSUME x \in Bound(b2) PROVE FALSE
        <5>1. x \in Open(b2)
          BY <2>10, <4>1, BoundIs
        <5>2. x = <<k, x[2]>> /\ x[2] \in D
          BY <3>4, <3>5, <5>1
        <5>3. b2.arrays[k].tasks[x[2]].started
          BY <2>10, <2>13, <4>1, <5>2, BoundIs
        <5> QED
          BY <2>2, <2>4, <2>7, <2>10, <5>2, <5>3
      <4> QED
        BY <4>1
    <3> QED
      BY <3>5, <3>6, <3>7, BoundIs
  <2>14. ASSUME NEW x \in X
         PROVE  /\ x[1] = k /\ x[2] # -1
                /\ Wall(b2, x) = w /\ ItemRate(b2, x) = rt
    BY <2>4, <2>7, <2>10 DEF Wall, ItemRate
  <2> HIDE DEF X
  <2>15. Open(b2) = Open(b) \cup X /\ X \cap Open(b) = {}
    BY <2>12, <2>13, <2>14
  <2>16. Bound(b2) = Bound(b)
    BY <2>12, <2>13
  <2>17. \A x \in Open(b) : SameItem(b, b2, x)
    BY <2>12, <2>13
  <2>18. Gains(b, b2, X, rt, w)
    BY <2>11, <2>14, <2>15, <2>16, <2>17 DEF Gains
  <2> HIDE DEF D
  <2>19. Admits(a, b, X, rt, w, r)
    BY <1>6, <2>1, <2>10, <2>18 DEF Admits
  <2> QED
    BY <2>19 DEF X, D, rt
<1> QED
  BY <1>4, <1>5, <1>6

(* Dispatch of one task.                                                   *)
LEMMA StartTaskDoes ==
  ASSUME NEW a, NEW b \in PlainRecord(a), NEW k, NEW i \in Int, i # -1, NEW now,
         NEW wal \in BOOLEAN, NEW r, r = StartTask(b, k, i, now, wal)
  PROVE  /\ r.bd \in PlainRecord(a)
         /\ r.bd = b \/ Lights(b, r.bd, <<k, i>>)
         /\ wal = TRUE => Lights(b, r.bd, <<k, i>>)
<1> DEFINE ae == b.arrays[k]
           x0 == <<k, i>>
           b2 == [b EXCEPT !.burstPot = @ - 0, !.arrays[k].tasks[i].started = TRUE,
                           !.arrays[k].tasks[i].burstResv = 0]
           cmd == [kind |-> "starttask", id |-> k, idx |-> i, now |-> now]
<1>1. b.BurstEnabled = FALSE /\ b.burstPot = 0 /\ b.arrays \in ArrayMaps
  BY PlainFields
<1>0. \A x : SameItem(b, b, x)
  BY DEF SameItem
<1>2. CASE ~Unsettled(b, k, i)
  <2>1. r.bd = b
    BY <1>2 DEF StartTask, Rejected
  <2>2. x0 \notin Open(b)
    BY <1>2, OpenIs
  <2> QED
    BY <1>0, <2>1, <2>2 DEF Lights
<1>3. CASE Unsettled(b, k, i)
  <2>0. k \in DOMAIN b.arrays /\ i \in DOMAIN ae.tasks /\ ~ae.tasks[i].settled
    BY <1>3 DEF Unsettled, HasTask
  <2>1. ae \in ArrayRecord /\ Counts(ae) /\ k \in Token /\ ae.tasks \in TaskMaps
    BY <2>0, ArrayFields
  <2>2. CASE ae.tasks[i].started
    <3>1. r.bd = b
      BY <1>3, <2>2 DEF StartTask
    <3>2. x0 \in Bound(b)
      BY <1>3, <2>2, BoundIs
    <3> QED
      BY <1>0, <3>1, <3>2 DEF Lights
  <2>3. CASE ~ae.tasks[i].started
    <3>1. accrue(b, now) = b
      BY <1>1 DEF accrue
    <3>2. BurstResvFor(b, ae.C, ae.W) = 0 /\ Burning(b, ae.C) = b /\ BurstGate(b, 0)
      BY <1>1 DEF BurstResvFor, Burning, BurstGate
    <3>3. r = logCmd(b, b2, cmd, wal)
      BY <1>3, <2>3, <3>1, <3>2 DEF StartTask
    <3> HIDE DEF cmd, b2
    <3>4. (wal = TRUE => r.bd = b2) /\ (wal = FALSE => r.bd = b)
      BY <3>3 DEF logCmd, Rejected
    <3> DEFINE t == ae.tasks[i]
               t2 == [t EXCEPT !.started = TRUE, !.burstResv = 0]
               tm == [ae.tasks EXCEPT ![i] = t2]
               e2 == [ae EXCEPT !.tasks = tm]
               f == [b.arrays EXCEPT ![k] = e2]
    <3>5. b2 = [b EXCEPT !.burstPot = 0, !.arrays = f]
      <4>1. b.burstPot - 0 = 0
        BY <1>1
      <4>2. DOMAIN b = DOMAIN b2 /\ "burstPot" \in DOMAIN b /\ "arrays" \in DOMAIN b
        BY DEF PlainRecord, b2
      <4>3. DOMAIN ae = DOMAIN e2 /\ "tasks" \in DOMAIN ae
        BY <2>1 DEF ArrayRecord
      <4>4. b2.arrays = f
        <5>1. b2.arrays =
                [[b.arrays EXCEPT ![k].tasks[i].started = TRUE]
                    EXCEPT ![k].tasks[i].burstResv = 0]
          BY <2>0, <4>2 DEF b2
        <5>2. [[b.arrays EXCEPT ![k].tasks[i].started = TRUE]
                  EXCEPT ![k].tasks[i].burstResv = 0] = f
          BY <2>0, <4>3
        <5> QED
          BY <5>1, <5>2
      <4> QED
        BY <4>1, <4>2, <4>4 DEF b2
    <3>6. t2 \in TaskRecord /\ t2.started = TRUE /\ t2.settled = t.settled
      <4>1. t \in TaskRecord
        BY <2>0, <2>1, TaskMap
      <4> QED
        BY <4>1 DEF TaskRecord
    <3> HIDE DEF t2
    <3>7. tm \in TaskMaps
      BY <2>0, <2>1, <3>6, TaskMapUpdate
    <3>8. /\ DOMAIN tm = DOMAIN ae.tasks /\ tm[i] = t2
          /\ \A u \in DOMAIN ae.tasks \ {i} : tm[u] = ae.tasks[u]
      BY <2>0
    <3> HIDE DEF tm
    <3>9. e2 \in ArrayRecord /\ e2.tasks = tm /\ e2.W = ae.W /\ e2.C = ae.C
          /\ e2.Remaining = ae.Remaining
      BY <2>1, <3>7 DEF ArrayRecord
    <3> HIDE DEF e2
    <3>10. Counts(e2)
      <4>1. \A u \in DOMAIN tm : tm[u].settled = ae.tasks[u].settled
        BY <3>6, <3>8
      <4>2. OpenTasks(e2) = OpenTasks(ae)
        BY <3>8, <3>9, <4>1 DEF OpenTasks
      <4> QED
        BY <2>1, <3>9, <4>2 DEF Counts
    <3>11. e2 \in ArrayEscrow
      BY <3>9, <3>10 DEF ArrayEscrow
    <3>12. /\ DOMAIN f = DOMAIN b.arrays /\ f[k] = e2
           /\ \A u \in DOMAIN b.arrays \ {k} : f[u] = b.arrays[u]
           /\ f = [u \in DOMAIN f |-> f[u]]
      BY <2>0
    <3>13. f \in ArrayMaps
      BY <1>1, <3>11, <3>12, ArrayMap
    <3> HIDE DEF f
    <3>14. /\ b2 \in PlainRecord(a) /\ b2.arrays = f /\ b2.escrows = b.escrows
           /\ b2.Consumed = b.Consumed /\ b2.WriteOff = b.WriteOff
      BY <3>5, <3>13 DEF PlainRecord
    <3>15. Spent(b2) = Spent(b)
      BY <3>14 DEF Spent
    <3>16. \A x : (x[2] = -1 \/ x[1] # k) =>
             /\ x \in Open(b2) <=> x \in Open(b)
             /\ x \in Bound(b2) <=> x \in Bound(b)
             /\ x \in Open(b) => SameItem(b, b2, x)
      <4>1. /\ DOMAIN b2.arrays \ {k} = DOMAIN b.arrays \ {k}
            /\ \A u \in DOMAIN b.arrays \ {k} : b2.arrays[u] = b.arrays[u]
        BY <3>12, <3>14
      <4> QED
        BY <3>14, <4>1, OtherArrays
    <3>17. x0[2] = i /\ x0[1] = k /\ x0 \in Open(b)
      BY <1>3, OpenIs
    <3>18. ASSUME NEW x, x[2] # -1, x[1] = k
           PROVE  /\ x \in Open(b2) <=> x \in Open(b)
                  /\ x \in Bound(b2) <=> x \in Bound(b) \/ x = x0
                  /\ x \in Open(b) => SameItem(b, b2, x)
      <4>1. ASSUME x \in Open(b) \cup Open(b2) PROVE x = <<k, x[2]>>
        BY <3>14, <3>18, <4>1, OpenIs
      <4>2. Unsettled(b2, k, x[2]) <=> Unsettled(b, k, x[2])
        BY <2>0, <3>6, <3>8, <3>9, <3>12, <3>14 DEF Unsettled, HasTask
      <4>3. x \in Open(b2) <=> x \in Open(b)
        BY <3>14, <3>18, <4>1, <4>2, OpenIs
      <4>4. x \in Bound(b2) <=> x \in Bound(b) \/ x = x0
        <5>1. ASSUME x \in Open(b), x # x0
              PROVE  x \in Bound(b2) <=> x \in Bound(b)
          <6>1. x = <<k, x[2]>> /\ x[2] # i /\ x[2] \in DOMAIN ae.tasks
            BY <3>18, <4>1, <5>1, OpenIs DEF Unsettled, HasTask
          <6>2. b2.arrays[k].tasks[x[2]] = b.arrays[k].tasks[x[2]]
            BY <3>8, <3>9, <3>12, <3>14, <6>1
          <6> QED
            BY <3>14, <3>18, <4>2, <6>1, <6>2, BoundIs
        <5>2. x0 \in Bound(b2)
          <6>1. b2.arrays[k].tasks[i].started /\ Unsettled(b2, k, i)
            BY <2>0, <3>6, <3>8, <3>9, <3>12, <3>14 DEF Unsettled, HasTask
          <6> QED
            BY <3>14, <6>1, BoundIs
        <5> QED
          BY <3>14, <3>17, <4>3, <5>1, <5>2, BoundIs
      <4>5. SameItem(b, b2, x)
        BY <3>9, <3>12, <3>14, <3>18 DEF SameItem, Wall, ItemRate
      <4> QED
        BY <4>3, <4>4, <4>5
    <3> HIDE DEF x0
    <3>19. Open(b2) = Open(b) /\ \A x \in Open(b) : SameItem(b, b2, x)
      BY <3>16, <3>18
    <3>20. Bound(b2) = Bound(b) \cup ({x0} \cap Open(b))
      BY <3>16, <3>17, <3>18
    <3>21. Lights(b, b2, x0)
      BY <3>15, <3>19, <3>20 DEF Lights
    <3> QED
      BY <3>4, <3>14, <3>21 DEF x0
  <2> QED
    BY <2>2, <2>3
<1> QED
  BY <1>2, <1>3

(* settleTask closes the task, and the array with its last one.            *)
LEMMA SettleTaskDoes ==
  ASSUME NEW a, NEW b \in PlainRecord(a), NEW k, NEW i \in Int, i # -1,
         Unsettled(b, k, i), NEW rt \in Int, NEW wo \in BOOLEAN, NEW now
  PROVE  /\ settleTask(b, k, i, rt, wo, now) \in PlainRecord(a)
         /\ Loses(b, settleTask(b, k, i, rt, wo, now), <<k, i>>,
                  ItemRate(b, <<k, i>>) * Clamp(rt, Wall(b, <<k, i>>)))
<1> DEFINE ae == b.arrays[k]
           x0 == <<k, i>>
           t == ae.tasks[i]
           used == ae.C * Clamp(rt, ae.W)
           b1 == [b EXCEPT !.ReservedTotal = @ - slice(ae),
                           !.B = @ + (slice(ae) - used),
                           !.WriteOff = IF wo THEN @ + used ELSE @,
                           !.Consumed = IF wo THEN @ ELSE @ + used]
           left == [ae EXCEPT !.Reserved = @ - slice(ae), !.Remaining = @ - 1,
                              !.tasks[i].settled = TRUE]
           f == IF left.Remaining = 0 THEN Drop(b.arrays, k)
                ELSE [b.arrays EXCEPT ![k] = left]
           b2 == [b1 EXCEPT !.arrays = f]
<1>1. /\ b.BurstEnabled = FALSE /\ b.B \in Int /\ b.ReservedTotal \in Int
      /\ b.Consumed \in Nat /\ b.WriteOff \in Nat /\ b.arrays \in ArrayMaps
  BY PlainFields
<1>2. k \in DOMAIN b.arrays /\ i \in DOMAIN ae.tasks /\ ~ae.tasks[i].settled
  BY DEF Unsettled, HasTask
<1>3. /\ ae.C \in Nat \ {0} /\ ae.W \in Nat /\ ae.Reserved \in Int
      /\ ae.Remaining \in Nat \ {0} /\ ae \in ArrayRecord /\ Counts(ae)
      /\ ae.tasks \in TaskMaps
      /\ Wall(b, x0) = ae.W /\ ItemRate(b, x0) = ae.C
  BY <1>2, ArrayFields
<1>4. used \in Nat
  <2>1. Clamp(rt, ae.W) \in Nat
    BY <1>3, ClampNat
  <2> QED
    BY <1>3, <2>1
<1>4a. slice(ae) \in Int
  BY <1>3 DEF slice
<1>5. accrue(b, now) = b
  BY <1>1 DEF accrue
<1>6. Bill(b, slice(ae), used, wo) = b1
  BY DEF Bill
<1> HIDE DEF used
<1>7. /\ b.B + (slice(ae) - used) \in Int /\ b.ReservedTotal - slice(ae) \in Int
      /\ b.WriteOff + used \in Nat /\ b.Consumed + used \in Nat
  BY <1>1, <1>4, <1>4a
<1>8. PICK q \in Int : q = ae.Reserved - slice(ae)
  BY <1>3, <1>4a
<1>9. PICK m \in Nat : m = ae.Remaining - 1
  BY <1>3
<1> DEFINE t2 == [t EXCEPT !.settled = TRUE]
           tm == [ae.tasks EXCEPT ![i] = t2]
<1>10. left = [ae EXCEPT !.Reserved = q, !.Remaining = m, !.tasks = tm]
  BY <1>8, <1>9 DEF ArrayRecord
<1> HIDE DEF left
<1>11. t2 \in TaskRecord /\ t2.settled = TRUE
  <2>1. t \in TaskRecord
    BY <1>2, <1>3, TaskMap
  <2> QED
    BY <2>1 DEF TaskRecord
<1> HIDE DEF t2
<1>12. tm \in TaskMaps
  BY <1>2, <1>3, <1>11, TaskMapUpdate
<1>13. /\ DOMAIN tm = DOMAIN ae.tasks /\ tm[i] = t2
       /\ \A u \in DOMAIN ae.tasks \ {i} : tm[u] = ae.tasks[u]
  BY <1>2
<1> HIDE DEF tm
<1>14. /\ left.tasks = tm /\ left.W = ae.W /\ left.C = ae.C /\ left.Remaining = m
       /\ m # 0 => left \in ArrayRecord
  BY <1>3, <1>10, <1>12 DEF ArrayRecord
<1>15. /\ IsFiniteSet(OpenTasks(left)) /\ Cardinality(OpenTasks(left)) = m
       /\ OpenTasks(left) = OpenTasks(ae) \ {i}
  <2>1. OpenTasks(left) = OpenTasks(ae) \ {i} /\ i \in OpenTasks(ae)
    BY <1>2, <1>11, <1>13, <1>14 DEF OpenTasks
  <2>2. IsFiniteSet(OpenTasks(ae)) /\ Cardinality(OpenTasks(ae)) = ae.Remaining
    BY <1>3 DEF Counts
  <2>3. /\ IsFiniteSet(OpenTasks(ae) \ {i})
        /\ Cardinality(OpenTasks(ae) \ {i}) = Cardinality(OpenTasks(ae)) - 1
    BY <2>1, <2>2, FS_RemoveElement
  <2> QED
    BY <1>9, <2>1, <2>2, <2>3
<1>16. m # 0 => left \in ArrayEscrow
  BY <1>14, <1>15 DEF ArrayEscrow, Counts
<1>17. m = 0 => OpenTasks(ae) \subseteq {i}
  <2>1. m = 0 => OpenTasks(left) = {}
    BY <1>15, FS_EmptySet
  <2> QED
    BY <1>15, <2>1
<1>18. /\ DOMAIN f = IF m = 0 THEN DOMAIN b.arrays \ {k} ELSE DOMAIN b.arrays
       /\ m # 0 => f[k] = left
       /\ \A u \in DOMAIN b.arrays \ {k} : f[u] = b.arrays[u]
       /\ f = [u \in DOMAIN f |-> f[u]]
  <2>1. CASE m = 0
    BY <1>14, <2>1 DEF Drop, Restrict
  <2>2. CASE m # 0
    BY <1>2, <1>14, <2>2
  <2> QED
    BY <2>1, <2>2
<1>19. f \in ArrayMaps
  BY <1>1, <1>16, <1>18, ArrayMap
<1>20. /\ b1 \in PlainRecord(a) /\ b1.escrows = b.escrows /\ b1.BurstEnabled = FALSE
       /\ b1.arrays = b.arrays
       /\ b1.WriteOff = IF wo THEN b.WriteOff + used ELSE b.WriteOff
       /\ b1.Consumed = IF wo THEN b.Consumed ELSE b.Consumed + used
  <2> HIDE DEF ae, f
  <2> QED
    BY <1>1, <1>7 DEF PlainRecord
<1> HIDE DEF b1
<1>21. StopBurning(b1, ae.C, ae.W, t.started, t.burstResv, Clamp(rt, ae.W)) = b1
  BY <1>20 DEF StopBurning
<1>22. settleTask(b, k, i, rt, wo, now) = b2
  BY <1>5, <1>6, <1>20, <1>21 DEF settleTask, used, left
<1> HIDE DEF f
<1>23. /\ b2 \in PlainRecord(a) /\ b2.arrays = f /\ b2.escrows = b.escrows
       /\ b2.Consumed = b1.Consumed /\ b2.WriteOff = b1.WriteOff
  BY <1>19, <1>20 DEF PlainRecord
<1> HIDE DEF b2
<1>24. Spent(b2) = Spent(b) + used
  BY <1>1, <1>4, <1>20, <1>23 DEF Spent
<1>25. \A x : (x[2] = -1 \/ x[1] # k) =>
         /\ x \in Open(b2) <=> x \in Open(b)
         /\ x \in Bound(b2) <=> x \in Bound(b)
         /\ x \in Open(b) => SameItem(b, b2, x)
  <2>1. /\ DOMAIN b2.arrays \ {k} = DOMAIN b.arrays \ {k}
        /\ \A u \in DOMAIN b.arrays \ {k} : b2.arrays[u] = b.arrays[u]
    BY <1>18, <1>23
  <2> QED
    BY <1>23, <2>1, OtherArrays
<1>26. x0[2] = i /\ x0[1] = k /\ x0 \in Open(b)
  BY OpenIs
<1>27. ASSUME NEW x, x[2] # -1, x[1] = k
       PROVE  /\ x \in Open(b2) <=> x \in Open(b) \ {x0}
              /\ x \in Bound(b2) <=> x \in Bound(b) \ {x0}
              /\ x \in Open(b2) => SameItem(b, b2, x)
  <2>1. ASSUME x \in Open(b) \cup Open(b2) PROVE x = <<k, x[2]>>
    BY <1>23, <1>27, <2>1, OpenIs
  <2>2. Unsettled(b2, k, x[2]) <=> Unsettled(b, k, x[2]) /\ x[2] # i
    <3>1. Unsettled(b, k, x[2]) <=> x[2] \in OpenTasks(ae)
      BY <1>2 DEF Unsettled, HasTask, OpenTasks
    <3>2. m # 0 => (Unsettled(b2, k, x[2]) <=> x[2] \in OpenTasks(left))
      BY <1>2, <1>18, <1>23 DEF Unsettled, HasTask, OpenTasks
    <3>3. m = 0 => ~Unsettled(b2, k, x[2])
      BY <1>18, <1>23 DEF Unsettled, HasTask
    <3> QED
      BY <1>15, <1>17, <3>1, <3>2, <3>3
  <2>3. x \in Open(b2) <=> x \in Open(b) \ {x0}
    BY <1>23, <1>27, <2>1, <2>2, OpenIs
  <2>4. ASSUME x \in Open(b2)
        PROVE  SameItem(b, b2, x) /\ (x \in Bound(b2) <=> x \in Bound(b))
    <3>1. /\ x = <<k, x[2]>> /\ Unsettled(b2, k, x[2]) /\ Unsettled(b, k, x[2])
          /\ x[2] # i
      BY <1>23, <1>27, <2>1, <2>2, <2>4, OpenIs
    <3>2. m # 0
      BY <1>18, <1>23, <3>1 DEF Unsettled, HasTask
    <3>3. b2.arrays[k] = left /\ x[2] \in DOMAIN ae.tasks
      BY <1>18, <1>23, <3>1, <3>2 DEF Unsettled, HasTask
    <3>4. b2.arrays[k].tasks[x[2]] = b.arrays[k].tasks[x[2]]
      BY <1>13, <1>14, <3>1, <3>3
    <3>5. x \in Bound(b2) <=> x \in Bound(b)
      BY <1>23, <1>27, <3>1, <3>4, BoundIs
    <3>6. SameItem(b, b2, x)
      BY <1>14, <1>27, <3>3 DEF SameItem, Wall, ItemRate
    <3> QED
      BY <3>5, <3>6
  <2>5. x \in Bound(b2) <=> x \in Bound(b) \ {x0}
    BY <1>23, <2>3, <2>4, BoundIs
  <2> QED
    BY <2>3, <2>4, <2>5
<1> HIDE DEF x0
<1>28. /\ Open(b2) = Open(b) \ {x0} /\ Bound(b2) = Bound(b) \ {x0}
       /\ \A y \in Open(b2) : SameItem(b, b2, y)
  BY <1>25, <1>26, <1>27
<1>29. Loses(b, b2, x0, used)
  BY <1>4, <1>24, <1>26, <1>28 DEF Loses
<1> QED
  BY <1>3, <1>22, <1>23, <1>29 DEF used, x0

(* The exits of a task.                                                    *)
LEMMA SettledTaskDoes ==
  ASSUME NEW a, NEW b \in PlainRecord(a), NEW k, NEW i \in Int, i # -1, NEW rt,
         NEW wo \in BOOLEAN, NEW now, NEW cmd, NEW wal \in BOOLEAN,
         k \in DOMAIN b.arrays => rt \in Int,
         NEW r, r = SettledTask(b, k, i, rt, wo, now, cmd, wal)
  PROVE  Exits(a, b, <<k, i>>, wal,
               ItemRate(b, <<k, i>>) * Clamp(rt, Wall(b, <<k, i>>)), r)
<1> DEFINE x0 == <<k, i>>
           used == ItemRate(b, x0) * Clamp(rt, Wall(b, x0))
<1>1. x0 \in Open(b) <=> Unsettled(b, k, i)
  BY OpenIs
<1>2. CASE wal = FALSE
  <2>1. r.ok = FALSE /\ r.bd = b
    BY <1>2 DEF SettledTask, Rejected
  <2> HIDE DEF x0
  <2> QED
    BY <1>2, <2>1 DEF Exits, x0
<1>3. CASE wal = TRUE /\ ~Unsettled(b, k, i)
  <2>1. r.ok = FALSE /\ r.bd = b
    BY <1>3 DEF SettledTask
  <2> HIDE DEF x0
  <2> QED
    BY <1>1, <1>3, <2>1 DEF Exits, x0
<1>4. CASE wal = TRUE /\ Unsettled(b, k, i)
  <2> DEFINE b2 == settleTask(b, k, i, rt, wo, now)
  <2>1. r.ok = TRUE /\ r.bd = b2
    BY <1>4 DEF SettledTask
  <2>2. rt \in Int
    BY <1>4 DEF Unsettled, HasTask
  <2>3. b2 \in PlainRecord(a) /\ Loses(b, b2, x0, used)
    BY <1>4, <2>2, SettleTaskDoes
  <2> HIDE DEF b2, x0, used
  <2>4. Exits(a, b, x0, wal, used, r)
    BY <1>1, <1>4, <2>1, <2>3 DEF Exits
  <2> QED
    BY <2>4 DEF x0, used
<1> QED
  BY <1>2, <1>3, <1>4

(* What an exit of a task the array does not have does.                    *)
LEMMA NoTaskDoes ==
  ASSUME NEW a, NEW b \in PlainRecord(a), NEW k, NEW i \in Int, i # -1,
         ~HasTask(b, k, i), NEW wal, NEW used, NEW r, r = Rejected(b)
  PROVE  Exits(a, b, <<k, i>>, wal, used, r)
<1>1. <<k, i>> \notin Open(b)
  BY OpenIs DEF Unsettled
<1>2. r.ok = FALSE /\ r.bd = b
  BY RefusedIs
<1> QED
  BY <1>1, <1>2 DEF Exits

(* A task's fields.                                                        *)
LEMMA OpenTask ==
  ASSUME NEW a, NEW b \in PlainRecord(a), NEW k, NEW i \in Int, i # -1,
         <<k, i>> \in Open(b)
  PROVE  /\ HasTask(b, k, i) /\ Wall(b, <<k, i>>) \in Nat
         /\ ItemRate(b, <<k, i>>) \in Nat \ {0}
         /\ b.arrays[k].W = Wall(b, <<k, i>>)
         /\ <<k, i>> \in Bound(b) <=> b.arrays[k].tasks[i].started
<1>1. Unsettled(b, k, i)
  BY OpenIs
<1>2. HasTask(b, k, i) /\ k \in DOMAIN b.arrays
  BY <1>1 DEF Unsettled, HasTask
<1>3. <<k, i>> \in Bound(b) <=> b.arrays[k].tasks[i].started
  BY <1>1, BoundIs
<1> QED
  BY <1>2, <1>3, ArrayFields

(* What a cancel of a task bills when nothing is reported.                 *)
LEMMA CancelTaskDoes ==
  ASSUME NEW a, NEW b \in PlainRecord(a), NEW k, NEW i \in Int, i # -1, NEW now,
         NEW wal \in BOOLEAN, NEW r, r = CancelTask(b, k, i, 0, now, wal)
  PROVE  Exits(a, b, <<k, i>>, wal, 0, r)
<1> DEFINE x0 == <<k, i>>
           wo == FALSE
<1>0. CASE ~HasTask(b, k, i)
  <2>1. r = Rejected(b)
    BY <1>0 DEF CancelTask
  <2>2. PICK used : used = 0
    OBVIOUS
  <2> QED
    BY <1>0, <2>1, <2>2, NoTaskDoes
<1>1. CASE HasTask(b, k, i)
  <2>1. PICK cmd, rt : rt = 0 /\ r = SettledTask(b, k, i, rt, wo, now, cmd, wal)
    <3>1. (IF b.arrays[k].tasks[i].started THEN 0 ELSE 0) = 0
      OBVIOUS
    <3> QED
      BY <1>1, <3>1 DEF CancelTask
  <2>2. wo \in BOOLEAN /\ rt \in Int
    BY <2>1
  <2> HIDE DEF wo
  <2>3. Exits(a, b, x0, wal, ItemRate(b, x0) * Clamp(rt, Wall(b, x0)), r)
    BY <2>1, <2>2, SettledTaskDoes
  <2>4. CASE x0 \notin Open(b)
    BY <2>3, <2>4 DEF Exits
  <2>5. CASE x0 \in Open(b)
    <3>1. ItemRate(b, x0) \in Nat /\ Wall(b, x0) \in Nat
      BY <2>5, OpenTask
    <3>2. ItemRate(b, x0) * Clamp(rt, Wall(b, x0)) = 0
      BY <2>1, <3>1, ClampNat
    <3> QED
      BY <2>3, <3>2
  <2> QED
    BY <2>4, <2>5
<1> QED
  BY <1>0, <1>1

(* SETTLE of a task bills what its kind says.                              *)
LEMMA SettleTaskKinds ==
  ASSUME NEW a, NEW b \in PlainRecord(a), NEW k, NEW i \in Int, i # -1,
         NEW rt \in Int, NEW wal \in BOOLEAN,
         NEW kind \in {"complete", "timeout", "cancel", "infrafail"},
         NEW r, r = SettleTask(b, k, i, kind, rt, wal)
  PROVE  Exits(a, b, <<k, i>>, wal,
               ItemRate(b, <<k, i>>) * Due(b, <<k, i>>, kind, rt), r)
<1> DEFINE x0 == <<k, i>>
           wo == FALSE
           wt == TRUE
<1>0. wo \in BOOLEAN /\ wt \in BOOLEAN
  OBVIOUS
<1>2. x0 \in Open(b) =>
        /\ HasTask(b, k, i) /\ Wall(b, x0) \in Nat /\ b.arrays[k].W = Wall(b, x0)
        /\ x0 \in Bound(b) <=> b.arrays[k].tasks[i].started
  BY OpenTask
<1>3. b.BillInfraFailures = FALSE
  BY PlainFields
<1>3a. k \in DOMAIN b.arrays => b.arrays[k].W \in Int
  BY ArrayFields
<1> HIDE DEF wo, wt
<1>4. CASE kind = "complete"
  <2>1. PICK cmd : r = SettledTask(b, k, i, rt, wo, clock, cmd, wal)
    BY <1>4 DEF SettleTask, CompleteTask, wo
  <2>2. Exits(a, b, x0, wal, ItemRate(b, x0) * Clamp(rt, Wall(b, x0)), r)
    BY <1>0, <2>1, SettledTaskDoes
  <2> QED
    BY <1>4, <2>2 DEF Due
<1>5. CASE kind = "timeout"
  <2>0. CASE k \notin DOMAIN b.arrays
    <3>1. r = Rejected(b) /\ ~HasTask(b, k, i)
      BY <1>5, <2>0 DEF SettleTask, TimeoutTask, HasTask
    <3> QED
      BY <3>1, NoTaskDoes
  <2>1. CASE k \in DOMAIN b.arrays
    <3>1. PICK cmd, el : /\ el = b.arrays[k].W
                         /\ r = SettledTask(b, k, i, el, wo, clock, cmd, wal)
      BY <1>5, <2>1 DEF SettleTask, TimeoutTask, wo
    <3>2. k \in DOMAIN b.arrays => el \in Int
      BY <1>3a, <3>1
    <3>3. Exits(a, b, x0, wal, ItemRate(b, x0) * Clamp(el, Wall(b, x0)), r)
      BY <1>0, <3>1, <3>2, SettledTaskDoes
    <3>4. x0 \in Open(b) => Clamp(el, Wall(b, x0)) = Wall(b, x0)
      BY <1>2, <3>1, ClampNat
    <3>5. Due(b, x0, kind, rt) = Wall(b, x0)
      BY <1>5 DEF Due
    <3> HIDE DEF x0
    <3> QED
      BY <3>3, <3>4, <3>5 DEF Exits, x0
  <2> QED
    BY <2>0, <2>1
<1>6. CASE kind = "cancel"
  <2>0. CASE ~HasTask(b, k, i)
    <3>1. r = Rejected(b)
      BY <1>6, <2>0 DEF SettleTask, CancelTask
    <3> QED
      BY <2>0, <3>1, NoTaskDoes
  <2>00. CASE HasTask(b, k, i)
    <3>1. PICK cmd, el : /\ el = IF b.arrays[k].tasks[i].started THEN rt ELSE 0
                         /\ r = SettledTask(b, k, i, el, wo, clock, cmd, wal)
      BY <1>6, <2>00 DEF SettleTask, CancelTask, wo
    <3>2. el \in Int
      BY <3>1
    <3>3. Exits(a, b, x0, wal, ItemRate(b, x0) * Clamp(el, Wall(b, x0)), r)
      BY <1>0, <3>1, <3>2, SettledTaskDoes
    <3>4. x0 \in Open(b) => Clamp(el, Wall(b, x0)) = Due(b, x0, kind, rt)
      BY <1>2, <1>6, <3>1, ClampNat DEF Due
    <3> HIDE DEF x0
    <3> QED
      BY <3>3, <3>4 DEF Exits, x0
  <2> QED
    BY <2>0, <2>00
<1>7. CASE kind = "infrafail"
  <2>0. CASE k \notin DOMAIN b.arrays
    <3>1. r = Rejected(b) /\ ~HasTask(b, k, i)
      BY <1>7, <2>0 DEF SettleTask, InfraFailTask, HasTask
    <3> QED
      BY <3>1, NoTaskDoes
  <2>1. CASE k \in DOMAIN b.arrays
    <3>1. PICK cmd : r = SettledTask(b, k, i, rt, wt, clock, cmd, wal)
      BY <1>3, <1>7, <2>1 DEF SettleTask, InfraFailTask, wt
    <3>2. Exits(a, b, x0, wal, ItemRate(b, x0) * Clamp(rt, Wall(b, x0)), r)
      BY <1>0, <3>1, SettledTaskDoes
    <3> QED
      BY <1>7, <3>2 DEF Due
  <2> QED
    BY <2>0, <2>1
<1> QED
  BY <1>4, <1>5, <1>6, <1>7

-----------------------------------------------------------------------------
(* Prices.                                                                 *)

(* A node type's rate is a whole number of units a second.                 *)
LEMMA RateNat ==
  ASSUME NEW nt
  PROVE  rate(nt) \in Nat
<1>1. CASE nt \in DOMAIN NodeTypes
  <2>1. /\ NodeTypes[nt].Rate \in Nat
        /\ Div(NodeTypes[nt].Per) \in {1, 60, 3600}
    BY <1>1, PricesAssumption DEF Div
  <2>2. NodeTypes[nt].Rate \div Div(NodeTypes[nt].Per) \in Nat
    BY <2>1
  <2> QED
    BY <1>1, <2>2 DEF rate, perSecond
<1>2. CASE nt \notin DOMAIN NodeTypes
  BY <1>2 DEF rate
<1> QED
  BY <1>1, <1>2

(* So are the dearest rate of a partition and the rate of a gate.          *)
LEMMA GateRateNat ==
  ASSUME NEW s \in Subs
  PROVE  GateRate(s) \in Nat
<1> DEFINE ty == Submissions[s].types
           S == {rate(nt) : nt \in ty}
           g == [nt \in ty |-> rate(nt)]
           T == S \cup {0}
           f == [r \in DOMAIN Weights |-> Weights[r] * Submissions[s].tres[r]]
<1>1. /\ IsFiniteSet(ty)
      /\ \A r \in DOMAIN Weights : Submissions[s].tres[r] \in Nat
  BY SeamAssumption DEF Subs
<1>2. g \in Surjection(ty, S)
  BY DEF Surjection
<1>3. IsFiniteSet(S)
  BY <1>1, <1>2, FS_Surjection
<1>4. IsFiniteSet(T)
  BY <1>3, FS_AddElement
<1>5. T \subseteq Nat /\ T # {}
  BY RateNat
<1> HIDE DEF T
<1>6. \E x \in T : \A y \in T : x >= y
  BY <1>4, <1>5, LargestNat
<1>7. Max(T) \in T
  BY <1>6 DEF Max
<1>8. worstRate(ty) \in Nat
  BY <1>5, <1>7 DEF worstRate, T
<1>9. Family(f)
  <2>1. \A r \in DOMAIN Weights : f[r] \in Nat
    BY <1>1, PricesAssumption
  <2> QED
    BY <2>1, PricesAssumption DEF Family
<1>10. WeightsRate(Submissions[s].tres) \in Nat
  BY <1>9, CoinsFinite DEF WeightsRate
<1> QED
  BY <1>8, <1>10 DEF GateRate, effectiveRate

-----------------------------------------------------------------------------
(* Every submission asks so.                                               *)
LEMMA SubIs ==
  ASSUME NEW s \in Subs
  PROVE  SubRecord(s)
<1>1. /\ Submissions[s].sources \in Seq(Accounts) /\ Submissions[s].sources # <<>>
      /\ Submissions[s].n \in Nat \ {0} /\ Submissions[s].w \in Nat
  BY SeamAssumption DEF Subs
<1> QED
  BY <1>1 DEF SubRecord

(* A job is a submission's, by number.                                     *)
LEMMA JobIs ==
  ASSUME NEW j \in Jobs
  PROVE  /\ j = <<j[1], j[2]>> /\ j[1] \in Subs
         /\ j[2] \in 0 .. (Submissions[j[1]].n - 1)
  BY DEF Jobs

(* It is one.                                                              *)
LEMMA C0Nat ==
  ASSUME NEW s \in Subs
  PROVE  C0(s) \in Nat \ {0}
<1>1. Submissions[s].sources[1] \in Accounts
  BY SubIs DEF SubRecord
<1>2. FlatRates[Submissions[s].sources[1]] \in Nat \ {0}
  BY <1>1, SeamAssumption
<1> QED
  BY <1>2, GateRateNat DEF C0

-----------------------------------------------------------------------------
(* The funding plan.                                                       *)

(* The legs of a plan.                                                     *)
LEMMA PlanLegIs ==
  ASSUME NEW n \in Nat, NEW L \in PlanLegs(n)
  PROVE  /\ Len(L) \in Nat /\ L \in PlanLegs(n + 1)
         /\ \A k \in 1 .. Len(L) :
              L[k] \in [Index : 1 .. n, W : Nat \ {0}] /\ L[k].Index \in 1 .. n
                /\ L[k].W \in Nat \ {0}
<1> DEFINE R == [Index : 1 .. n, W : Nat \ {0}]
           R2 == [Index : 1 .. (n + 1), W : Nat \ {0}]
<1>1. R \subseteq R2 /\ \A x \in R : x.Index \in 1 .. n /\ x.W \in Nat \ {0}
  OBVIOUS
<1>2. L \in Seq(R)
  BY DEF PlanLegs
<1> HIDE DEF R, R2
<1>3. L \in Seq(R2) /\ Len(L) \in Nat /\ \A k \in 1 .. Len(L) : L[k] \in R
  BY <1>1, <1>2
<1> QED
  BY <1>1, <1>3 DEF PlanLegs, R, R2

(* One more source extends the plan.                                       *)
LEMMA FillDoes ==
  ASSUME NEW i \in Nat, NEW need \in Nat, NEW acc, Partial(acc, i, need),
         NEW capacity \in Int
  PROVE  Partial(Fill(acc, i + 1, capacity), i + 1, need)
<1> DEFINE L == acc.legs
           n == Len(L)
           wi == IF capacity > acc.need THEN acc.need ELSE capacity
           x == [Index |-> i + 1, W |-> wi]
           L2 == Append(L, x)
<1>1. /\ L \in PlanLegs(i) /\ acc.need \in Nat /\ Climbs(L)
      /\ PSum(L, n) + acc.need = need
  BY DEF Partial
<1>2. /\ L \in PlanLegs(i + 1) /\ n \in Nat
      /\ \A k \in 1 .. n : L[k].Index \in 1 .. i /\ L[k].W \in Nat
  BY <1>1, PlanLegIs
<1>3. CASE acc.need = 0 \/ capacity <= 0
  BY <1>1, <1>2, <1>3 DEF Fill, Partial
<1>4. CASE ~(acc.need = 0 \/ capacity <= 0)
  <2>1. wi \in Nat \ {0} /\ acc.need - wi \in Nat
    BY <1>1, <1>4
  <2>2. Fill(acc, i + 1, capacity) = [legs |-> L2, need |-> acc.need - wi]
    BY <1>4 DEF Fill
  <2> HIDE DEF wi
  <2>3. L2 \in PlanLegs(i + 1) /\ Len(L2) = n + 1 /\ L2[n + 1] = x
    BY <1>2, <2>1 DEF PlanLegs
  <2>4. \A k \in 1 .. n : L2[k] = L[k]
    BY <1>2 DEF PlanLegs
  <2>5. x.Index = i + 1 /\ x.W = wi
    OBVIOUS
  <2> HIDE DEF x, L2
  <2>6. Climbs(L2)
    <3> SUFFICES ASSUME NEW k \in 1 .. (n + 1), NEW l \in 1 .. (n + 1), k < l
                 PROVE  L2[k].Index < L2[l].Index
      BY <2>3 DEF Climbs
    <3>1. k \in 1 .. n /\ L2[k] = L[k] /\ L[k].Index \in 1 .. i
      BY <1>2, <2>4
    <3>2. CASE l = n + 1
      BY <2>3, <2>5, <3>1, <3>2
    <3>3. CASE l \in 1 .. n
      BY <1>1, <2>4, <3>1, <3>3 DEF Climbs
    <3> QED
      BY <1>2, <3>2, <3>3
  <2>7. PSum(L2, n + 1) = PSum(L, n) + wi /\ PSum(L, n) \in Nat
    <3> DEFINE f == [k \in 1 .. n |-> L[k].W]
               g == [k \in 1 .. (n + 1) |-> L2[k].W]
    <3>1. /\ DOMAIN f = 1 .. n /\ DOMAIN g = 1 .. (n + 1)
          /\ \A k \in 1 .. n : g[k] = f[k]
          /\ \A k \in 1 .. (n + 1) : g[k] \in Nat
          /\ g[n + 1] = wi
      <4>1. \A k \in 1 .. n : L2[k].W = L[k].W /\ L2[k].W \in Nat
        BY <1>2, <2>4
      <4>2. L2[n + 1].W = wi /\ L2[n + 1].W \in Nat
        BY <2>1, <2>3, <2>5
      <4>3. \A k \in 1 .. (n + 1) : k \in 1 .. n \/ k = n + 1
        BY <1>2
      <4>4. n + 1 \in 1 .. (n + 1) /\ \A k \in 1 .. n : k \in 1 .. (n + 1)
        BY <1>2
      <4> HIDE DEF L, n
      <4> QED
        BY <4>1, <4>2, <4>3, <4>4
    <3> HIDE DEF f, g
    <3>2. Total(g) = Total(f) + g[n + 1] /\ Total(f) \in Nat
      BY <1>2, <3>1, TotalNext
    <3> QED
      BY <3>1, <3>2 DEF PSum, f, g
  <2>8. PSum(L2, n + 1) + (acc.need - wi) = need
    BY <1>1, <2>1, <2>7
  <2> QED
    BY <2>1, <2>2, <2>3, <2>6, <2>8 DEF Partial
<1> QED
  BY <1>3, <1>4

(* A plan that funds the job funds all of it, from sources in order.       *)
LEMMA PlanFunds ==
  ASSUME NEW N \in Nat, NEW bal \in Seq(Int), Len(bal) = N, NEW c \in Int,
         NEW need \in Int, fundingPlan(bal, c, need).fundable
  PROVE  LET legs == fundingPlan(bal, c, need).legs
         IN  /\ legs \in PlanLegs(N) /\ Climbs(legs) /\ Len(legs) > 0
             /\ PSum(legs, Len(legs)) = need
<1> DEFINE empty == [legs |-> <<>>, need |-> need]
           Cap(i) == bal[i] \div c
           plan[i \in 0 .. Len(bal)] ==
             IF i = 0 THEN [legs |-> <<>>, need |-> need]
             ELSE Fill(plan[i - 1], i, bal[i] \div c)
<1>1. c > 0 /\ need \in Nat \ {0}
  BY DEF fundingPlan
<1>2. ASSUME NEW i \in 1 .. N PROVE Cap(i) \in Int
  BY <1>1
<1>3. Partial(empty, 0, need)
  <2>1. /\ empty.legs = <<>> /\ empty.need = need /\ Len(<<>>) = 0
        /\ <<>> \in PlanLegs(0)
    BY DEF PlanLegs
  <2>2. PSum(<<>>, 0) = 0
    <3>1. DOMAIN [i \in 1 .. 0 |-> <<>>[i].W] = {}
      OBVIOUS
    <3> QED
      BY <3>1, TotalEmpty DEF PSum
  <2>3. Climbs(<<>>)
    BY DEF Climbs
  <2> HIDE DEF empty
  <2> QED
    BY <1>1, <2>1, <2>2, <2>3 DEF Partial
<1> DEFINE Run(f, n) ==
             /\ DOMAIN f = 0 .. n /\ f = [i \in 0 .. n |-> f[i]] /\ f[0] = empty
             /\ \A i \in 1 .. n : f[i] = Fill(f[i - 1], i, Cap(i))
             /\ \A i \in 0 .. n : Partial(f[i], i, need)
           T == {n \in Nat : n <= N => \E f : Run(f, n)}
<1>4. 0 \in T
  <2> DEFINE f == [i \in 0 .. 0 |-> empty]
  <2>1. Run(f, 0)
    <3> HIDE DEF empty
    <3> QED
      BY <1>3
  <2> HIDE DEF Run
  <2> QED
    BY <2>1
<1>5. ASSUME NEW n \in Nat, n \in T PROVE n + 1 \in T
  <2> SUFFICES ASSUME n + 1 <= N PROVE \E f : Run(f, n + 1)
    OBVIOUS
  <2>1. PICK f : Run(f, n)
    BY <1>5
  <2> DEFINE x == Fill(f[n], n + 1, Cap(n + 1))
             g == [i \in 0 .. (n + 1) |-> IF i = n + 1 THEN x ELSE f[i]]
  <2>2. Cap(n + 1) \in Int
    BY <1>2
  <2> HIDE DEF Cap, empty
  <2>3. Partial(x, n + 1, need)
    BY <1>1, <2>1, <2>2, FillDoes
  <2>4. /\ DOMAIN g = 0 .. (n + 1) /\ g = [i \in 0 .. (n + 1) |-> g[i]]
        /\ g[n + 1] = x /\ \A i \in 0 .. n : g[i] = f[i]
    OBVIOUS
  <2> HIDE DEF g
  <2>5. ASSUME NEW i \in 1 .. (n + 1)
        PROVE  g[i] = Fill(g[i - 1], i, Cap(i))
    <3>1. CASE i = n + 1
      <4>0. i - 1 = n /\ n \in 0 .. n
        BY <3>1
      <4>1. g[i - 1] = f[n]
        BY <2>4, <4>0
      <4> QED
        BY <2>4, <3>1, <4>1
    <3>2. CASE i \in 1 .. n
      <4>0. i - 1 \in 0 .. n /\ i \in 0 .. n
        BY <3>2
      <4>1. g[i - 1] = f[i - 1] /\ g[i] = f[i]
        BY <2>4, <4>0
      <4> QED
        BY <2>1, <3>2, <4>1
    <3> QED
      BY <3>1, <3>2
  <2>6. ASSUME NEW i \in 0 .. (n + 1) PROVE Partial(g[i], i, need)
    <3>1. CASE i = n + 1
      BY <2>3, <2>4, <3>1
    <3>2. CASE i \in 0 .. n
      BY <2>1, <2>4, <3>2
    <3> QED
      BY <3>1, <3>2
  <2>7. g[0] = empty
    <3>1. 0 \in 0 .. n
      OBVIOUS
    <3>2. g[0] = f[0]
      BY <2>4, <3>1
    <3> QED
      BY <2>1, <3>2
  <2>8. Run(g, n + 1)
    BY <2>4, <2>5, <2>6, <2>7
  <2> HIDE DEF Run
  <2> QED
    BY <2>8
<1>6. PICK f : Run(f, N)
  <2> HIDE DEF T, Run
  <2>1. N \in T
    BY <1>4, <1>5, NatSet
  <2> QED
    BY <2>1 DEF T
<1>7. f = [i \in 0 .. Len(bal) |->
             IF i = 0 THEN [legs |-> <<>>, need |-> need]
             ELSE Fill(f[i - 1], i, bal[i] \div c)]
  <2>1. f = [i \in 0 .. N |-> f[i]] /\ f[0] = empty
    BY <1>6
  <2>2. ASSUME NEW i \in 0 .. N, i # 0
        PROVE  f[i] = Fill(f[i - 1], i, bal[i] \div c)
    <3>1. i \in 1 .. N
      BY <2>2
    <3>2. f[i] = Fill(f[i - 1], i, Cap(i))
      BY <1>6, <3>1
    <3> QED
      BY <3>2
  <2> QED
    BY <2>1, <2>2
<1>8. plan = [i \in 0 .. Len(bal) |->
                IF i = 0 THEN [legs |-> <<>>, need |-> need]
                ELSE Fill(plan[i - 1], i, bal[i] \div c)]
  BY <1>7
<1> HIDE DEF plan
<1>9. \A n \in Nat : n <= N => Partial(plan[n], n, need)
  <2> DEFINE Q == {n \in Nat : n <= N => Partial(plan[n], n, need)}
  <2>1. 0 \in Q
    BY <1>3, <1>8
  <2>2. ASSUME NEW n \in Nat, n \in Q PROVE n + 1 \in Q
    <3> SUFFICES ASSUME n + 1 <= N PROVE Partial(plan[n + 1], n + 1, need)
      OBVIOUS
    <3>1. plan[n + 1] = Fill(plan[n], n + 1, Cap(n + 1))
      BY <1>8
    <3>2. Cap(n + 1) \in Int
      BY <1>2
    <3> HIDE DEF Cap
    <3> QED
      BY <1>1, <2>2, <3>1, <3>2, FillDoes
  <2> HIDE DEF Q
  <2>3. \A n \in Nat : n \in Q
    BY <2>1, <2>2, NatSet
  <2> QED
    BY <2>3 DEF Q
<1>10. fundingPlan(bal, c, need) =
         [legs |-> plan[Len(bal)].legs, fundable |-> plan[Len(bal)].need = 0]
  BY <1>1 DEF fundingPlan, plan
<1>11. /\ plan[N].need = 0 /\ fundingPlan(bal, c, need).legs = plan[N].legs
  <2>1. plan[Len(bal)].need = 0
    <3> DEFINE F == plan[Len(bal)].need = 0
    <3>1. PICK x : x = plan[Len(bal)].legs
      OBVIOUS
    <3>2. fundingPlan(bal, c, need) = [legs |-> x, fundable |-> F]
      BY <1>10, <3>1, Zenon
    <3> HIDE DEF F
    <3>3. [legs |-> x, fundable |-> F].fundable <=> F
      OBVIOUS
    <3> QED
      BY <3>2, <3>3, Zenon DEF F
  <2>2. fundingPlan(bal, c, need).legs = plan[Len(bal)].legs
    BY <1>10
  <2> QED
    BY <2>1, <2>2
<1>12. Partial(plan[N], N, need)
  BY <1>9
<1> DEFINE legs == plan[N].legs
<1>13. /\ legs \in PlanLegs(N) /\ Climbs(legs) /\ PSum(legs, Len(legs)) + 0 = need
  BY <1>11, <1>12 DEF Partial
<1>14. Len(legs) \in Nat
  BY <1>13 DEF PlanLegs
<1> HIDE DEF legs
<1>15. PSum(legs, Len(legs)) = need
  <2>1. PSum(legs, Len(legs)) \in Nat
    <3> DEFINE g == [i \in 1 .. Len(legs) |-> legs[i].W]
    <3>1. Family(g)
      <4>1. IsFiniteSet(1 .. Len(legs))
        BY <1>14, FS_Interval
      <4>2. \A i \in 1 .. Len(legs) : legs[i].W \in Nat
        BY <1>13, PlanLegIs
      <4> QED
        BY <4>1, <4>2 DEF Family
    <3> QED
      BY <3>1, CoinsFinite DEF PSum
  <2> QED
    BY <1>13, <2>1
<1>16. Len(legs) > 0
  <2> SUFFICES ASSUME Len(legs) = 0 PROVE FALSE
    BY <1>14
  <2>1. DOMAIN [i \in 1 .. Len(legs) |-> legs[i].W] = {}
    OBVIOUS
  <2>2. PSum(legs, Len(legs)) = 0
    BY <2>1, TotalEmpty DEF PSum
  <2> QED
    BY <1>1, <1>15, <2>2
<1> QED
  BY <1>11, <1>13, <1>15, <1>16 DEF legs

-----------------------------------------------------------------------------
(* The fields of a leg.                                                    *)
LEMMA LegIs ==
  ASSUME NEW L \in Seq(LegRecord)
  PROVE  /\ Len(L) \in Nat
         /\ \A k \in 1 .. Len(L) :
              /\ L[k] \in LegRecord /\ L[k].a \in Accounts /\ L[k].key \in Token
              /\ L[k].w \in Nat /\ L[k].first \in Nat /\ L[k].n \in Nat
              /\ \A s : Width(s, L[k]) \in Nat
<1>1. \A x \in LegRecord :
        /\ x.a \in Accounts /\ x.key \in Token /\ x.w \in Nat /\ x.first \in Nat
        /\ x.n \in Nat /\ \A s : Width(s, x) \in Nat
  BY DEF LegRecord, Width
<1>2. Len(L) \in Nat /\ \A k \in 1 .. Len(L) : L[k] \in LegRecord
  OBVIOUS
<1> QED
  BY <1>1, <1>2

(* Offsets add up.                                                         *)
LEMMA OffNext ==
  ASSUME NEW s, NEW L \in Seq(LegRecord)
  PROVE  /\ Off(s, L, 0) = 0
         /\ \A k \in 0 .. Len(L) : Off(s, L, k) \in Nat
         /\ \A k \in 0 .. (Len(L) - 1) :
              Off(s, L, k + 1) = Off(s, L, k) + Width(s, L[k + 1])
<1>0. Len(L) \in Nat /\ \A k \in 1 .. Len(L) : Width(s, L[k]) \in Nat
  BY LegIs
<1>1. Off(s, L, 0) = 0
  <2>1. DOMAIN [i \in 1 .. 0 |-> Width(s, L[i])] = {}
    OBVIOUS
  <2> QED
    BY <2>1, TotalEmpty DEF Off
<1>2. ASSUME NEW k \in 0 .. (Len(L) - 1)
      PROVE  /\ Off(s, L, k + 1) = Off(s, L, k) + Width(s, L[k + 1])
             /\ Off(s, L, k) \in Nat
  <2> DEFINE f == [i \in 1 .. k |-> Width(s, L[i])]
             g == [i \in 1 .. (k + 1) |-> Width(s, L[i])]
  <2>1. /\ k \in Nat /\ DOMAIN f = 1 .. k /\ DOMAIN g = 1 .. (k + 1)
        /\ \A i \in 1 .. k : g[i] = f[i]
        /\ \A i \in 1 .. (k + 1) : g[i] \in Nat
        /\ g[k + 1] = Width(s, L[k + 1])
    BY <1>0
  <2> HIDE DEF f, g
  <2>2. Total(g) = Total(f) + g[k + 1] /\ Total(f) \in Nat
    BY <2>1, TotalNext
  <2> QED
    BY <2>1, <2>2 DEF Off, f, g
<1>3. ASSUME NEW k \in 0 .. Len(L) PROVE Off(s, L, k) \in Nat
  <2>1. CASE k = 0
    BY <1>1, <2>1
  <2>2. CASE k # 0
    <3>1. k - 1 \in 0 .. (Len(L) - 1) /\ (k - 1) + 1 = k
      BY <1>0, <2>2
    <3>2. Width(s, L[k]) \in Nat
      BY <1>0, <2>2
    <3>3. Off(s, L, k) = Off(s, L, k - 1) + Width(s, L[k]) /\ Off(s, L, k - 1) \in Nat
      BY <1>2, <3>1
    <3> QED
      BY <3>2, <3>3
  <2> QED
    BY <2>1, <2>2
<1> QED
  BY <1>1, <1>2, <1>3

(* The offsets of the legs a sequence begins with.                         *)
LEMMA OffPrefix ==
  ASSUME NEW s, NEW L, NEW M, NEW k \in Nat, \A i \in 1 .. k : M[i] = L[i]
  PROVE  Off(s, M, k) = Off(s, L, k)
<1> DEFINE f == [i \in 1 .. k |-> Width(s, L[i])]
           g == [i \in 1 .. k |-> Width(s, M[i])]
<1>1. DOMAIN f = DOMAIN g /\ \A i \in DOMAIN f : f[i] = g[i]
  OBVIOUS
<1> HIDE DEF f, g
<1>2. Total(f) = Total(g)
  BY <1>1, TotalSame
<1> QED
  BY <1>2 DEF Off, f, g

(* Offsets grow.                                                           *)
LEMMA OffGrows ==
  ASSUME NEW s, NEW L \in Seq(LegRecord), NEW k \in 0 .. Len(L),
         NEW l \in 0 .. Len(L), k <= l
  PROVE  Off(s, L, k) <= Off(s, L, l)
<1> DEFINE T == {n \in Nat : k + n <= Len(L) => Off(s, L, k) <= Off(s, L, k + n)}
<1>0. Len(L) \in Nat /\ \A i \in 0 .. Len(L) : Off(s, L, i) \in Nat
  BY LegIs, OffNext
<1>1. 0 \in T
  <2>1. k + 0 = k /\ Off(s, L, k) \in Nat
    BY <1>0
  <2> QED
    BY <2>1
<1>2. ASSUME NEW n \in Nat, n \in T PROVE n + 1 \in T
  <2> SUFFICES ASSUME k + (n + 1) <= Len(L)
               PROVE  Off(s, L, k) <= Off(s, L, k + (n + 1))
    OBVIOUS
  <2>1. Off(s, L, k) <= Off(s, L, k + n)
    BY <1>0, <1>2
  <2>2. k + n \in 0 .. (Len(L) - 1) /\ (k + n) + 1 = k + (n + 1)
    BY <1>0
  <2>3. Off(s, L, k + (n + 1)) = Off(s, L, k + n) + Width(s, L[k + (n + 1)])
    BY <2>2, OffNext
  <2>4. Width(s, L[k + (n + 1)]) \in Nat
    <3>1. k + (n + 1) \in 1 .. Len(L)
      BY <1>0
    <3>2. PICK m \in 1 .. Len(L) : m = k + (n + 1)
      BY <3>1
    <3>3. Width(s, L[m]) \in Nat
      BY LegIs
    <3> QED
      BY <3>2, <3>3
  <2>5. Off(s, L, k + n) \in Nat /\ Off(s, L, k) \in Nat
    BY <1>0, <2>2
  <2> QED
    BY <2>1, <2>3, <2>4, <2>5
<1> HIDE DEF T
<1>3. \A n \in Nat : n \in T
  BY <1>1, <1>2, NatSet
<1>4. l - k \in Nat /\ k + (l - k) = l
  OBVIOUS
<1>5. l - k \in T
  BY <1>3, <1>4
<1>6. k + (l - k) <= Len(L) => Off(s, L, k) <= Off(s, L, k + (l - k))
  BY <1>5 DEF T
<1> QED
  BY <1>0, <1>4, <1>6

(* One more leg, placed after the others.                                  *)
LEMMA PlaceNext ==
  ASSUME NEW s \in Subs, NEW L, NEW l, Fits(s, L, l), NEW M, M = Append(L, l)
  PROVE  Longer(s, L, l, M)
<1>0. /\ Placed(s, L) /\ l \in LegRecord /\ l.key[1] = s
      /\ \A k \in 1 .. Len(L) : L[k].key[2] < l.key[2]
      /\ IsArray(s) => /\ l.n > 0 /\ l.w = Submissions[s].w
                       /\ l.first = Off(s, L, Len(L))
      /\ ~IsArray(s) => l.n = 0
  BY DEF Fits
<1> DEFINE n == Len(L)
<1>1. L \in Seq(LegRecord) /\ Ascends(L) /\ \A k \in 1 .. n : LegOK(s, L, k)
  BY <1>0 DEF Placed
<1>2. /\ M \in Seq(LegRecord) /\ Len(M) = n + 1 /\ n \in Nat /\ M[n + 1] = l
      /\ \A k \in 1 .. n : M[k] = L[k]
  BY <1>0, <1>1
<1> HIDE DEF n
<1>3. ASSUME NEW k \in 0 .. n PROVE Off(s, M, k) = Off(s, L, k)
  <2>1. \A i \in 1 .. k : M[i] = L[i]
    BY <1>2
  <2>2. k \in Nat
    BY <1>2
  <2> QED
    BY <2>1, <2>2, OffPrefix
<1>4. Off(s, M, n + 1) = Off(s, L, n) + Width(s, l)
  <2>1. n \in 0 .. (Len(M) - 1) /\ n \in 0 .. n
    BY <1>2
  <2>2. Off(s, M, n + 1) = Off(s, M, n) + Width(s, M[n + 1])
    BY <1>2, <2>1, OffNext
  <2> QED
    BY <1>2, <1>3, <2>1, <2>2
<1>5. ASSUME NEW k \in 1 .. (n + 1) PROVE LegOK(s, M, k)
  <2>1. CASE k \in 1 .. n
    <3>1. k - 1 \in 0 .. n
      BY <1>2, <2>1
    <3> QED
      BY <1>1, <1>2, <1>3, <2>1, <3>1 DEF LegOK, n
  <2>2. CASE k = n + 1
    <3>1. k - 1 = n /\ n \in 0 .. n
      BY <1>2, <2>2
    <3> QED
      BY <1>0, <1>2, <1>3, <2>2, <3>1 DEF LegOK, n
  <2> QED
    BY <1>2, <2>1, <2>2
<1>6. Ascends(M)
  <2> SUFFICES ASSUME NEW k \in 1 .. (n + 1), NEW m \in 1 .. (n + 1), k < m
               PROVE  M[k].key[2] < M[m].key[2]
    BY <1>2 DEF Ascends
  <2>1. k \in 1 .. n
    BY <1>2
  <2>2. CASE m = n + 1
    BY <1>0, <1>2, <2>1, <2>2 DEF n
  <2>3. CASE m \in 1 .. n
    BY <1>1, <1>2, <2>1, <2>3 DEF Ascends, n
  <2> QED
    BY <1>2, <2>2, <2>3
<1> QED
  BY <1>2, <1>4, <1>5, <1>6 DEF Placed, Longer, n

(* No legs yet.                                                            *)
LEMMA PlaceNone ==
  ASSUME NEW s
  PROVE  Placed(s, <<>>) /\ Off(s, <<>>, 0) = 0 /\ Len(<<>>) = 0
<1>1. <<>> \in Seq(LegRecord) /\ Len(<<>>) = 0
  OBVIOUS
<1>2. Ascends(<<>>) /\ \A k \in 1 .. Len(<<>>) : LegOK(s, <<>>, k)
  BY <1>1 DEF Ascends
<1>3. Off(s, <<>>, 0) = 0
  BY <1>1, OffNext
<1> QED
  BY <1>1, <1>2, <1>3 DEF Placed

(* Every task of an array has its leg.                                     *)
LEMMA LegForTask ==
  ASSUME NEW s \in Subs, NEW L, Whole(s, L), IsArray(s),
         NEW g \in 0 .. (Submissions[s].n - 1)
  PROVE  LET k == legForTask(L, g)
         IN  /\ k \in 1 .. Len(L) /\ L[k].first <= g
             /\ g < L[k].first + L[k].n
<1> DEFINE In(k) == L[k].first <= g /\ g < L[k].first + L[k].n
           T == {m \in Nat : m <= Len(L) /\ g < Off(s, L, m) =>
                               \E k \in 1 .. m : In(k)}
<1>1. /\ L \in Seq(LegRecord) /\ \A k \in 1 .. Len(L) : LegOK(s, L, k)
      /\ Off(s, L, Len(L)) = Submissions[s].n
  BY DEF Whole, Placed, Need
<1>2. Len(L) \in Nat /\ g \in Nat
  BY <1>1, LegIs
<1>3. 0 \in T
  BY <1>1, <1>2, OffNext
<1>4. ASSUME NEW m \in Nat, m \in T PROVE m + 1 \in T
  <2> SUFFICES ASSUME m + 1 <= Len(L), g < Off(s, L, m + 1)
               PROVE  \E k \in 1 .. (m + 1) : In(k)
    OBVIOUS
  <2>1. CASE g < Off(s, L, m)
    <3>1. PICK k \in 1 .. m : In(k)
      BY <1>2, <1>4, <2>1
    <3> QED
      BY <3>1
  <2>2. CASE ~(g < Off(s, L, m))
    <3>1. m \in 0 .. (Len(L) - 1) /\ m \in 0 .. Len(L) /\ m + 1 \in 1 .. Len(L)
      BY <1>2
    <3>2. /\ Off(s, L, m + 1) = Off(s, L, m) + Width(s, L[m + 1])
          /\ Off(s, L, m) \in Nat
      BY <1>1, <3>1, OffNext
    <3>3. Width(s, L[m + 1]) = L[m + 1].n
      BY DEF Width
    <3>4. L[m + 1].first = Off(s, L, (m + 1) - 1) /\ (m + 1) - 1 = m
      BY <1>1, <3>1 DEF LegOK
    <3>5. In(m + 1)
      BY <1>2, <2>2, <3>2, <3>3, <3>4
    <3> HIDE DEF In
    <3> QED
      BY <3>5
  <2> QED
    BY <2>1, <2>2
<1> HIDE DEF T
<1>5. Len(L) \in T
  BY <1>2, <1>3, <1>4, NatSet
<1>6. g < Submissions[s].n
  BY SubIs DEF SubRecord
<1>7. \E k \in 1 .. Len(L) : In(k)
  BY <1>1, <1>2, <1>5, <1>6 DEF T
<1> QED
  BY <1>7 DEF legForTask

-----------------------------------------------------------------------------
(* The items of a submission.                                              *)
LEMMA ItemIs ==
  ASSUME NEW s, NEW y
  PROVE  y \in ItemsOf(s) <=> /\ y = <<y[1], y[2]>> /\ y[1] \in Accounts
                              /\ y[2] \in Open(bds[y[1]]) /\ y[2][1][1] = s
  BY DEF ItemsOf

(* Each is one key of the submission's, and finitely many are open.        *)
LEMMA ItemParts ==
  ASSUME Budgets, NEW s \in Subs
  PROVE  /\ \A y \in ItemsOf(s) :
              /\ y = <<y[1], <<y[2][1], y[2][2]>> >> /\ y[1] \in Accounts
              /\ y[2][1] \in Token /\ y[2][1][1] = s /\ y[2][2] \in Int
         /\ IsFiniteSet(ItemsOf(s)) /\ LitsOf(s) \subseteq ItemsOf(s)
         /\ \A y \in ItemsOf(s) : WallOf(y) \in Nat /\ RateOf(y) \in Nat \ {0}
<1>1. ASSUME NEW y \in ItemsOf(s)
      PROVE  /\ y = <<y[1], <<y[2][1], y[2][2]>> >> /\ y[1] \in Accounts
             /\ y[2][1] \in Token /\ y[2][1][1] = s /\ y[2][2] \in Int
             /\ y[2] \in Open(bds[y[1]])
  <2>1. /\ y = <<y[1], y[2]>> /\ y[1] \in Accounts
        /\ y[2] \in Open(bds[y[1]]) /\ y[2][1][1] = s
    BY ItemIs
  <2>2. bds[y[1]] \in PlainRecord(y[1])
    BY <2>1 DEF Budgets
  <2>3. y[2] = <<y[2][1], y[2][2]>> /\ y[2][1] \in Token /\ y[2][2] \in Int
    BY <2>1, <2>2, OpenIs
  <2> QED
    BY <2>1, <2>3
<1>2. IsFiniteSet(ItemsOf(s))
  <2> DEFINE P(a) == {a} \X {x \in Open(bds[a]) : x[1][1] = s}
             S == {P(a) : a \in Accounts}
             g == [a \in Accounts |-> P(a)]
  <2>1. ASSUME NEW a \in Accounts PROVE IsFiniteSet(P(a))
    <3>1. IsFiniteSet({a}) /\ IsFiniteSet(Open(bds[a]))
      BY FS_Singleton DEF Budgets
    <3>2. IsFiniteSet({x \in Open(bds[a]) : x[1][1] = s})
      BY <3>1, FS_Subset
    <3> QED
      BY <3>1, <3>2, FS_Product
  <2>2. g \in Surjection(Accounts, S)
    BY DEF Surjection
  <2>3. IsFiniteSet(S)
    BY <2>2, FS_Surjection, SeamAssumption
  <2>4. \A T \in S : IsFiniteSet(T)
    BY <2>1
  <2>5. IsFiniteSet(UNION S)
    BY <2>3, <2>4, FS_UNION
  <2> QED
    BY <2>5 DEF ItemsOf
<1>3. LitsOf(s) \subseteq ItemsOf(s)
  BY DEF LitsOf
<1>4. ASSUME NEW y \in ItemsOf(s) PROVE WallOf(y) \in Nat /\ RateOf(y) \in Nat \ {0}
  <2> DEFINE b == bds[y[1]]
             k == y[2][1]
  <2>1. b \in PlainRecord(y[1]) /\ y[2] \in Open(b)
    BY <1>1 DEF Budgets
  <2>2. CASE y[2][2] = -1
    <3>1. y[2] = <<k, -1>>
      BY <1>1, <2>2
    <3>2. k \in DOMAIN b.escrows
      BY <2>1, <3>1, OpenIs
    <3> QED
      BY <2>1, <3>1, <3>2, EscrowFields DEF WallOf, RateOf
  <2>3. CASE y[2][2] # -1
    <3>1. y[2] = <<k, y[2][2]>>
      BY <1>1
    <3>2. Wall(b, <<k, y[2][2]>>) \in Nat /\ ItemRate(b, <<k, y[2][2]>>) \in Nat \ {0}
      BY <1>1, <2>1, <2>3, <3>1, OpenTask
    <3> QED
      BY <3>1, <3>2 DEF WallOf, RateOf
  <2> QED
    BY <2>2, <2>3
<1> QED
  BY <1>1, <1>2, <1>3, <1>4

(* What a submission holds is what its items are.                          *)
LEMMA HeldIs ==
  ASSUME Budgets, NEW s \in Subs
  PROVE  /\ Held(s) <=> ItemsOf(s) # {}
         /\ \A a \in Accounts : \A k \in HeldJobs(a, s) :
              <<a, <<k, -1>> >> \in ItemsOf(s) /\ RateOf(<<a, <<k, -1>> >>) = bds[a].escrows[k].C
<1>0. ASSUME NEW a \in Accounts, NEW k \in HeldJobs(a, s)
      PROVE  /\ <<a, <<k, -1>> >> \in ItemsOf(s)
             /\ RateOf(<<a, <<k, -1>> >>) = bds[a].escrows[k].C
  <2>1. bds[a] \in PlainRecord(a) /\ k \in DOMAIN bds[a].escrows /\ k[1] = s
    BY DEF Budgets, HeldJobs
  <2>2. <<k, -1>> \in Open(bds[a]) /\ ItemRate(bds[a], <<k, -1>>) = bds[a].escrows[k].C
    BY <2>1, OpenIs, EscrowFields
  <2> QED
    BY <2>1, <2>2, ItemIs DEF RateOf
<1>1. ASSUME Held(s) PROVE ItemsOf(s) # {}
  <2>1. PICK a \in Accounts : HeldJobs(a, s) \cup HeldArrays(a, s) # {}
    BY <1>1 DEF Held, Holds
  <2>2. CASE HeldJobs(a, s) # {}
    BY <1>0, <2>2
  <2>3. CASE HeldArrays(a, s) # {}
    <3>1. PICK k : k \in DOMAIN bds[a].arrays /\ k[1] = s
      BY <2>3 DEF HeldArrays
    <3>2. bds[a] \in PlainRecord(a)
      BY DEF Budgets
    <3>3. /\ Counts(bds[a].arrays[k]) /\ bds[a].arrays[k].Remaining # 0
      BY <3>1, <3>2, ArrayFields
    <3>4. OpenTasks(bds[a].arrays[k]) # {}
      BY <3>3, FS_EmptySet DEF Counts
    <3>5. PICK i : i \in OpenTasks(bds[a].arrays[k])
      BY <3>4
    <3>6. Unsettled(bds[a], k, i)
      BY <3>1, <3>5 DEF OpenTasks, Unsettled, HasTask
    <3>7. i # -1
      BY <3>2, <3>6, OpenIs
    <3>8. <<k, i>> \in Open(bds[a])
      BY <3>2, <3>6, <3>7, OpenIs
    <3>9. <<a, <<k, i>> >> \in ItemsOf(s)
      BY <3>1, <3>8, ItemIs
    <3> QED
      BY <3>9
  <2> QED
    BY <2>1, <2>2, <2>3
<1>2. ASSUME ItemsOf(s) # {} PROVE Held(s)
  <2>1. PICK y : y \in ItemsOf(s)
    BY <1>2
  <2>2. /\ y = <<y[1], <<y[2][1], y[2][2]>> >> /\ y[1] \in Accounts
        /\ y[2] \in Open(bds[y[1]]) /\ y[2][1][1] = s
    BY <2>1, ItemIs, ItemParts
  <2>3. bds[y[1]] \in PlainRecord(y[1])
    BY <2>2 DEF Budgets
  <2>4. CASE y[2][2] = -1
    <3>1. y[2][1] \in DOMAIN bds[y[1]].escrows
      BY <2>2, <2>3, <2>4, OpenIs
    <3> QED
      BY <2>2, <3>1 DEF Held, Holds, HeldJobs
  <2>5. CASE y[2][2] # -1
    <3>1. y[2][1] \in DOMAIN bds[y[1]].arrays
      BY <2>2, <2>3, <2>5, OpenIs DEF Unsettled, HasTask
    <3> QED
      BY <2>2, <3>1 DEF Held, Holds, HeldArrays
  <2> QED
    BY <2>4, <2>5
<1> QED
  BY <1>0, <1>1, <1>2

(* The items of s after a call.                                            *)
LEMMA ItemNext ==
  ASSUME NEW s, NEW y
  PROVE  /\ y \in ItemsOf(s)' <=> /\ y = <<y[1], y[2]>> /\ y[1] \in Accounts
                                  /\ y[2] \in Open(bds'[y[1]]) /\ y[2][1][1] = s
         /\ y \in LitsOf(s)' <=> y \in ItemsOf(s)' /\ y[2] \in Bound(bds'[y[1]])
         /\ y \in LitsOf(s) <=> y \in ItemsOf(s) /\ y[2] \in Bound(bds[y[1]])
         /\ WallOf(y)' = Wall(bds'[y[1]], y[2])
         /\ RateOf(y)' = ItemRate(bds'[y[1]], y[2])
<1>1. y \in ItemsOf(s)' <=> /\ y = <<y[1], y[2]>> /\ y[1] \in Accounts
                            /\ y[2] \in Open(bds'[y[1]]) /\ y[2][1][1] = s
  BY SMTT(30) DEF ItemsOf, Open
<1>2. /\ y \in LitsOf(s)' <=> y \in ItemsOf(s)' /\ y[2] \in Bound(bds'[y[1]])
      /\ y \in LitsOf(s) <=> y \in ItemsOf(s) /\ y[2] \in Bound(bds[y[1]])
  BY DEF LitsOf, Bound, Orphans
<1>3. /\ WallOf(y)' = Wall(bds'[y[1]], y[2])
      /\ RateOf(y)' = ItemRate(bds'[y[1]], y[2])
  BY DEF WallOf, RateOf, Wall, ItemRate
<1> QED
  BY <1>1, <1>2, <1>3

(* A call for s on account a leaves what other submissions hold alone.     *)
LEMMA CallFrame ==
  ASSUME Budgets, NEW a \in Accounts, NEW s \in Subs, NEW r, NEW f, NEW wal,
         Call(a, r, s, f, wal), r.bd \in PlainRecord(a), IsFiniteSet(Open(r.bd)),
         NEW x \in Nat, Spent(r.bd) = Spent(bds[a]) + x,
         \A z : z[1][1] # s =>
           /\ z \in Open(r.bd) <=> z \in Open(bds[a])
           /\ z \in Bound(r.bd) <=> z \in Bound(bds[a])
           /\ z \in Open(bds[a]) => SameItem(bds[a], r.bd, z)
  PROVE  /\ Budgets' /\ Others(s) /\ billed'[s] = billed[s] + x
         /\ bds'[a] = r.bd /\ \A o \in Accounts \ {a} : bds'[o] = bds[o]
<1>1. /\ bds' = [bds EXCEPT ![a] = r.bd]
      /\ billed' = [billed EXCEPT ![s] = @ + (Spent(r.bd) - Spent(bds[a]))]
  BY DEF Call
<1>2. /\ DOMAIN bds' = Accounts /\ bds'[a] = r.bd
      /\ \A o \in Accounts \ {a} : bds'[o] = bds[o]
      /\ bds' = [o \in Accounts |-> bds'[o]]
  BY <1>1 DEF Budgets
<1>3. Spent(bds[a]) \in Nat
  <2>1. bds[a] \in PlainRecord(a)
    BY DEF Budgets
  <2>2. bds[a].Consumed \in Nat /\ bds[a].WriteOff \in Nat
    BY <2>1, PlainFields
  <2> QED
    BY <2>2 DEF Spent
<1>4. Spent(r.bd) - Spent(bds[a]) = x
  BY <1>3
<1>5. billed' = [billed EXCEPT ![s] = billed[s] + x]
  BY <1>1, <1>4
<1>6. /\ billed' \in [Subs -> Nat] /\ billed'[s] = billed[s] + x
      /\ \A t \in Subs \ {s} : billed'[t] = billed[t]
  <2>1. billed \in [Subs -> Nat] /\ billed[s] + x \in Nat
    BY DEF Budgets
  <2> QED
    BY <1>5, <2>1
<1>7. ASSUME NEW o \in Accounts
      PROVE  bds'[o] \in PlainRecord(o) /\ IsFiniteSet(Open(bds'[o]))
  BY <1>2 DEF Budgets
<1>8. Budgets'
  BY <1>2, <1>6, <1>7 DEF Budgets
<1>9. ASSUME NEW t \in Subs \ {s} PROVE Same(t)
  <2>1. ASSUME NEW y
        PROVE  /\ y \in ItemsOf(t)' <=> y \in ItemsOf(t)
               /\ y \in ItemsOf(t) =>
                    /\ y[2] \in Bound(bds'[y[1]]) <=> y[2] \in Bound(bds[y[1]])
                    /\ Alike(y)
    <3>1. ASSUME y[1] \in Accounts, y[2][1][1] = t
          PROVE  /\ y[2] \in Open(bds'[y[1]]) <=> y[2] \in Open(bds[y[1]])
                 /\ y[2] \in Bound(bds'[y[1]]) <=> y[2] \in Bound(bds[y[1]])
                 /\ y[2] \in Open(bds[y[1]]) => SameItem(bds[y[1]], bds'[y[1]], y[2])
      <4>1. CASE y[1] = a
        BY <1>2, <1>9, <3>1, <4>1
      <4>2. CASE y[1] # a
        BY <1>2, <3>1, <4>2 DEF SameItem
      <4> QED
        BY <4>1, <4>2
    <3>2. y \in ItemsOf(t)' <=> /\ y = <<y[1], y[2]>> /\ y[1] \in Accounts
                                /\ y[2] \in Open(bds'[y[1]]) /\ y[2][1][1] = t
      BY ItemNext
    <3>3. y \in ItemsOf(t) <=> /\ y = <<y[1], y[2]>> /\ y[1] \in Accounts
                               /\ y[2] \in Open(bds[y[1]]) /\ y[2][1][1] = t
      BY ItemIs
    <3>4. y \in ItemsOf(t) => Alike(y)
      BY <3>1, <3>3 DEF Alike, SameItem, WallOf, RateOf, Wall, ItemRate
    <3> QED
      BY <3>1, <3>2, <3>3, <3>4
  <2>2. ItemsOf(t)' = ItemsOf(t)
    BY <2>1
  <2>3. LitsOf(t)' = LitsOf(t)
    <3>1. LitsOf(t)' = {y \in ItemsOf(t)' : y[2] \in Bound(bds'[y[1]])}
      BY DEF LitsOf, Bound, Orphans
    <3>2. LitsOf(t) = {y \in ItemsOf(t) : y[2] \in Bound(bds[y[1]])}
      BY DEF LitsOf
    <3> QED
      BY <2>1, <2>2, <3>1, <3>2
  <2> QED
    BY <1>6, <2>1, <2>2, <2>3 DEF Same
<1> QED
  BY <1>2, <1>6, <1>8, <1>9 DEF Others

(* A step that leaves the budgets and the bills alone.                     *)
LEMMA StillQuiet ==
  ASSUME UNCHANGED <<bds, billed>>
  PROVE  Quiet /\ (Budgets => Budgets')
<1>1. ASSUME NEW t PROVE Same(t)
  <2>1. ItemsOf(t)' = ItemsOf(t)
    BY DEF ItemsOf, Open
  <2>2. LitsOf(t)' = LitsOf(t)
    BY <2>1 DEF LitsOf, Bound, Orphans
  <2>3. \A y : Alike(y)
    BY DEF Alike, WallOf, RateOf, Wall, ItemRate
  <2> QED
    BY <2>1, <2>2, <2>3 DEF Same
<1>2. Budgets => Budgets'
  BY DEF Budgets, Open
<1> QED
  BY <1>1, <1>2 DEF Quiet

(* Before and after, in one.                                               *)
LEMMA ItemBoth ==
  ASSUME NEW s, NEW y
  PROVE  /\ y \in ItemsOf(s) <=> /\ y = <<y[1], y[2]>> /\ y[1] \in Accounts
                                 /\ y[2] \in Open(bds[y[1]]) /\ y[2][1][1] = s
         /\ y \in ItemsOf(s)' <=> /\ y = <<y[1], y[2]>> /\ y[1] \in Accounts
                                  /\ y[2] \in Open(bds'[y[1]]) /\ y[2][1][1] = s
         /\ y \in LitsOf(s)' <=> y \in ItemsOf(s)' /\ y[2] \in Bound(bds'[y[1]])
         /\ y \in LitsOf(s) <=> y \in ItemsOf(s) /\ y[2] \in Bound(bds[y[1]])
         /\ WallOf(y)' = Wall(bds'[y[1]], y[2])
         /\ RateOf(y)' = ItemRate(bds'[y[1]], y[2])
<1>1. y \in ItemsOf(s) <=> /\ y = <<y[1], y[2]>> /\ y[1] \in Accounts
                           /\ y[2] \in Open(bds[y[1]]) /\ y[2][1][1] = s
  BY ItemIs
<1> QED
  BY <1>1, ItemNext

(* What an account has spent.                                              *)
LEMMA SpentNat ==
  ASSUME Budgets, NEW a \in Accounts
  PROVE  bds[a] \in PlainRecord(a) /\ Spent(bds[a]) \in Nat
<1>1. bds[a] \in PlainRecord(a)
  BY DEF Budgets
<1>2. bds[a].Consumed \in Nat /\ bds[a].WriteOff \in Nat
  BY <1>1, PlainFields
<1> QED
  BY <1>1, <1>2 DEF Spent

(* A call that changes nothing.                                            *)
LEMMA LiftNone ==
  ASSUME Budgets, NEW a \in Accounts, NEW s \in Subs, NEW r, NEW f, NEW wal,
         Call(a, r, s, f, wal), r.bd = bds[a]
  PROVE  Budgets' /\ Quiet
<1>2. Spent(bds[a]) \in Nat
  BY SpentNat
<1>3. Spent(r.bd) - Spent(bds[a]) = 0
  BY <1>2
<1>4. bds' = bds
  <2>1. bds' = [bds EXCEPT ![a] = bds[a]]
    BY DEF Call
  <2> QED
    BY <2>1 DEF Budgets
<1>5. billed' = billed
  <2>1. billed[s] \in Nat /\ billed \in [Subs -> Nat]
    BY DEF Budgets
  <2>2. billed' = [billed EXCEPT ![s] = billed[s] + (Spent(r.bd) - Spent(bds[a]))]
    BY DEF Call
  <2>3. billed[s] + (Spent(r.bd) - Spent(bds[a])) = billed[s]
    BY <1>3, <2>1
  <2> QED
    BY <2>1, <2>2, <2>3
<1> QED
  BY <1>4, <1>5, StillQuiet

(* A call that escrows.                                                    *)
LEMMA LiftGains ==
  ASSUME Budgets, NEW a \in Accounts, NEW s \in Subs, NEW r, NEW f, NEW wal,
         Call(a, r, s, f, wal), r.bd \in PlainRecord(a),
         NEW X, IsFiniteSet(X), \A x \in X : x[1][1] = s, NEW c, NEW w,
         Gains(bds[a], r.bd, X, c, w)
  PROVE  Budgets' /\ Grew(s, {a} \X X, c, w)
<1> DEFINE b == bds[a]
           b2 == r.bd
           Y == {a} \X X
<1>1. /\ X \cap Open(b) = {} /\ Open(b2) = Open(b) \cup X
      /\ \A x \in Open(b) : SameItem(b, b2, x)
      /\ \A x \in X : Wall(b2, x) = w /\ ItemRate(b2, x) = c
      /\ Bound(b2) = Bound(b) /\ Spent(b2) = Spent(b)
  BY DEF Gains
<1>2. IsFiniteSet(Open(b2))
  <2>1. IsFiniteSet(Open(b))
    BY DEF Budgets
  <2> QED
    BY <1>1, <2>1, FS_Union
<1>3. Spent(b2) = Spent(b) + 0
  <2>2. Spent(b) \in Nat
    BY SpentNat
  <2> QED
    BY <1>1, <2>2
<1>4. \A z : z[1][1] # s =>
        /\ z \in Open(b2) <=> z \in Open(b)
        /\ z \in Bound(b2) <=> z \in Bound(b)
        /\ z \in Open(b) => SameItem(b, b2, z)
  BY <1>1
<1>5. /\ Budgets' /\ Others(s) /\ billed'[s] = billed[s] + 0
      /\ bds'[a] = r.bd /\ \A o \in Accounts \ {a} : bds'[o] = bds[o]
  <2>1. 0 \in Nat /\ Spent(r.bd) = Spent(bds[a]) + 0
    BY <1>3
  <2>2. IsFiniteSet(Open(r.bd))
    BY <1>2
  <2>3. \A z : z[1][1] # s =>
          /\ z \in Open(r.bd) <=> z \in Open(bds[a])
          /\ z \in Bound(r.bd) <=> z \in Bound(bds[a])
          /\ z \in Open(bds[a]) => SameItem(bds[a], r.bd, z)
    BY <1>4
  <2> HIDE DEF b, b2
  <2> QED
    BY <2>1, <2>2, <2>3, CallFrame
<1>6. billed'[s] = billed[s]
  BY <1>5 DEF Budgets
<1>7. ASSUME NEW y
      PROVE  /\ y \in ItemsOf(s)' <=> y \in ItemsOf(s) \/ y \in Y
             /\ ~(y \in Y /\ y \in ItemsOf(s))
             /\ y \in ItemsOf(s) => Alike(y)
             /\ y \in LitsOf(s)' <=> y \in LitsOf(s)
             /\ y \in Y => WallOf(y)' = w /\ RateOf(y)' = c
  <2>1. y \in Y <=> y = <<y[1], y[2]>> /\ y[1] = a /\ y[2] \in X
    OBVIOUS
  <2>2. /\ y \in ItemsOf(s) <=> /\ y = <<y[1], y[2]>> /\ y[1] \in Accounts
                                /\ y[2] \in Open(bds[y[1]]) /\ y[2][1][1] = s
        /\ y \in ItemsOf(s)' <=> /\ y = <<y[1], y[2]>> /\ y[1] \in Accounts
                                 /\ y[2] \in Open(bds'[y[1]]) /\ y[2][1][1] = s
        /\ y \in LitsOf(s)' <=> y \in ItemsOf(s)' /\ y[2] \in Bound(bds'[y[1]])
        /\ y \in LitsOf(s) <=> y \in ItemsOf(s) /\ y[2] \in Bound(bds[y[1]])
        /\ WallOf(y)' = Wall(bds'[y[1]], y[2])
        /\ RateOf(y)' = ItemRate(bds'[y[1]], y[2])
    BY ItemBoth
  <2> HIDE DEF Y
  <2>3. CASE y[1] = a
    <3>1. bds'[y[1]] = b2 /\ bds[y[1]] = b
      BY <1>5, <2>3
    <3>2. /\ y \in ItemsOf(s)' <=> y \in ItemsOf(s) \/ y \in Y
          /\ ~(y \in Y /\ y \in ItemsOf(s))
          /\ y \in Y => WallOf(y)' = w /\ RateOf(y)' = c
      BY <1>1, <2>1, <2>2, <2>3, <3>1
    <3>3. y \in ItemsOf(s) => Alike(y)
      BY <1>1, <2>2, <3>1 DEF Alike, SameItem, WallOf, RateOf
    <3>4. y \in LitsOf(s)' <=> y \in LitsOf(s)
      <4>1. Bound(b) \subseteq Open(b)
        BY BoundIs DEF Budgets
      <4> QED
        BY <1>1, <2>2, <3>1, <4>1
    <3> QED
      BY <3>2, <3>3, <3>4
  <2>4. CASE y[1] # a
    <3>1. y[1] \in Accounts => bds'[y[1]] = bds[y[1]]
      BY <1>5, <2>4
    <3> QED
      BY <2>1, <2>2, <2>4, <3>1 DEF Alike, WallOf, RateOf
  <2> QED
    BY <2>3, <2>4
<1> HIDE DEF Y
<1>8. /\ ItemsOf(s)' = ItemsOf(s) \cup Y /\ Y \cap ItemsOf(s) = {}
      /\ LitsOf(s)' = LitsOf(s)
  BY <1>7
<1>9. Grew(s, Y, c, w)
  BY <1>5, <1>6, <1>7, <1>8 DEF Grew
<1> QED
  BY <1>5, <1>9 DEF Y

(* A call that closes an item.                                             *)
LEMMA LiftLoses ==
  ASSUME Budgets, NEW a \in Accounts, NEW s \in Subs, NEW r, NEW f, NEW wal,
         Call(a, r, s, f, wal), r.bd \in PlainRecord(a),
         NEW x, x[1][1] = s, NEW used, Loses(bds[a], r.bd, x, used)
  PROVE  Budgets' /\ Shut(s, <<a, x>>, used)
<1> DEFINE b == bds[a]
           b2 == r.bd
           y0 == <<a, x>>
<1>1. /\ x \in Open(b) /\ Open(b2) = Open(b) \ {x}
      /\ \A y \in Open(b2) : SameItem(b, b2, y)
      /\ Bound(b2) = Bound(b) \ {x}
      /\ used \in Nat /\ Spent(b2) = Spent(b) + used
  BY DEF Loses
<1>2. IsFiniteSet(Open(b2))
  <2>1. IsFiniteSet(Open(b))
    BY DEF Budgets
  <2> QED
    BY <1>1, <2>1, FS_Subset
<1>4. \A z : z[1][1] # s =>
        /\ z \in Open(b2) <=> z \in Open(b)
        /\ z \in Bound(b2) <=> z \in Bound(b)
        /\ z \in Open(b) => SameItem(b, b2, z)
  BY <1>1
<1>5. /\ Budgets' /\ Others(s) /\ billed'[s] = billed[s] + used
      /\ bds'[a] = r.bd /\ \A o \in Accounts \ {a} : bds'[o] = bds[o]
  <2>1. used \in Nat /\ Spent(r.bd) = Spent(bds[a]) + used
    BY <1>1
  <2>2. IsFiniteSet(Open(r.bd))
    BY <1>2
  <2>3. \A z : z[1][1] # s =>
          /\ z \in Open(r.bd) <=> z \in Open(bds[a])
          /\ z \in Bound(r.bd) <=> z \in Bound(bds[a])
          /\ z \in Open(bds[a]) => SameItem(bds[a], r.bd, z)
    BY <1>4
  <2> HIDE DEF b, b2, y0
  <2> QED
    BY <2>1, <2>2, <2>3, CallFrame
<1>7. ASSUME NEW y
      PROVE  /\ y \in ItemsOf(s)' <=> y \in ItemsOf(s) /\ y # y0
             /\ y \in ItemsOf(s) /\ y # y0 => Alike(y)
             /\ y \in LitsOf(s)' <=> y \in LitsOf(s) /\ y # y0
  <2>1. y = <<y[1], y[2]>> => (y = y0 <=> y[1] = a /\ y[2] = x)
    OBVIOUS
  <2> HIDE DEF y0
  <2>2. /\ y \in ItemsOf(s) <=> /\ y = <<y[1], y[2]>> /\ y[1] \in Accounts
                                /\ y[2] \in Open(bds[y[1]]) /\ y[2][1][1] = s
        /\ y \in ItemsOf(s)' <=> /\ y = <<y[1], y[2]>> /\ y[1] \in Accounts
                                 /\ y[2] \in Open(bds'[y[1]]) /\ y[2][1][1] = s
        /\ y \in LitsOf(s)' <=> y \in ItemsOf(s)' /\ y[2] \in Bound(bds'[y[1]])
        /\ y \in LitsOf(s) <=> y \in ItemsOf(s) /\ y[2] \in Bound(bds[y[1]])
        /\ WallOf(y)' = Wall(bds'[y[1]], y[2])
        /\ RateOf(y)' = ItemRate(bds'[y[1]], y[2])
    <3>1. y \in ItemsOf(s) <=> /\ y = <<y[1], y[2]>> /\ y[1] \in Accounts
                               /\ y[2] \in Open(bds[y[1]]) /\ y[2][1][1] = s
      BY ItemBoth
    <3>2. y \in ItemsOf(s)' <=> /\ y = <<y[1], y[2]>> /\ y[1] \in Accounts
                                /\ y[2] \in Open(bds'[y[1]]) /\ y[2][1][1] = s
      BY ItemBoth
    <3>3. /\ y \in LitsOf(s)' <=> y \in ItemsOf(s)' /\ y[2] \in Bound(bds'[y[1]])
          /\ y \in LitsOf(s) <=> y \in ItemsOf(s) /\ y[2] \in Bound(bds[y[1]])
      BY ItemBoth
    <3>4. WallOf(y)' = Wall(bds'[y[1]], y[2]) /\ RateOf(y)' = ItemRate(bds'[y[1]], y[2])
      BY ItemBoth
    <3> QED
      BY <3>1, <3>2, <3>3, <3>4
  <2>3. CASE y[1] = a
    <3>1. bds'[y[1]] = b2 /\ bds[y[1]] = b
      BY <1>5, <2>3
    <3>2. y \in ItemsOf(s)' <=> y \in ItemsOf(s) /\ y # y0
      BY <1>1, <2>1, <2>2, <2>3, <3>1
    <3>3. y \in ItemsOf(s) /\ y # y0 => Alike(y)
      BY <1>1, <2>1, <2>2, <2>3, <3>1 DEF Alike, SameItem, WallOf, RateOf
    <3>4. y \in LitsOf(s)' <=> y \in LitsOf(s) /\ y # y0
      BY <1>1, <2>1, <2>2, <2>3, <3>1, <3>2
    <3> QED
      BY <3>2, <3>3, <3>4
  <2>4. CASE y[1] # a
    <3>1. y[1] \in Accounts => bds'[y[1]] = bds[y[1]]
      BY <1>5, <2>4
    <3> QED
      BY <2>1, <2>2, <2>4, <3>1 DEF Alike, WallOf, RateOf
  <2> QED
    BY <2>3, <2>4
<1>8. y0 \in ItemsOf(s)
  BY <1>1, ItemIs
<1> HIDE DEF y0
<1>9. ItemsOf(s)' = ItemsOf(s) \ {y0} /\ LitsOf(s)' = LitsOf(s) \ {y0}
  BY <1>7
<1>10. Shut(s, y0, used)
  BY <1>1, <1>5, <1>7, <1>8, <1>9 DEF Shut
<1> QED
  BY <1>5, <1>10 DEF y0

(* A call that dispatches an item.                                         *)
LEMMA LiftLights ==
  ASSUME Budgets, NEW a \in Accounts, NEW s \in Subs, NEW r, NEW f, NEW wal,
         Call(a, r, s, f, wal), r.bd \in PlainRecord(a),
         NEW x, x[1][1] = s, Lights(bds[a], r.bd, x)
  PROVE  Budgets' /\ Lit(s, <<a, x>>)
<1> DEFINE b == bds[a]
           b2 == r.bd
           y0 == <<a, x>>
<1>1. /\ Open(b2) = Open(b) /\ \A y \in Open(b) : SameItem(b, b2, y)
      /\ Bound(b2) = Bound(b) \cup ({x} \cap Open(b)) /\ Spent(b2) = Spent(b)
  BY DEF Lights
<1>2. IsFiniteSet(Open(b2))
  BY <1>1 DEF Budgets
<1>3. Spent(b2) = Spent(b) + 0
  <2>2. Spent(b) \in Nat
    BY SpentNat
  <2> QED
    BY <1>1, <2>2
<1>4. \A z : z[1][1] # s =>
        /\ z \in Open(b2) <=> z \in Open(b)
        /\ z \in Bound(b2) <=> z \in Bound(b)
        /\ z \in Open(b) => SameItem(b, b2, z)
  BY <1>1
<1>5. /\ Budgets' /\ Others(s) /\ billed'[s] = billed[s] + 0
      /\ bds'[a] = r.bd /\ \A o \in Accounts \ {a} : bds'[o] = bds[o]
  <2>1. 0 \in Nat /\ Spent(r.bd) = Spent(bds[a]) + 0
    BY <1>3
  <2>2. IsFiniteSet(Open(r.bd))
    BY <1>2
  <2>3. \A z : z[1][1] # s =>
          /\ z \in Open(r.bd) <=> z \in Open(bds[a])
          /\ z \in Bound(r.bd) <=> z \in Bound(bds[a])
          /\ z \in Open(bds[a]) => SameItem(bds[a], r.bd, z)
    BY <1>4
  <2> HIDE DEF b, b2
  <2> QED
    BY <2>1, <2>2, <2>3, CallFrame
<1>6. billed'[s] = billed[s]
  BY <1>5 DEF Budgets
<1>7. ASSUME NEW y
      PROVE  /\ y \in ItemsOf(s)' <=> y \in ItemsOf(s)
             /\ y \in ItemsOf(s) => Alike(y)
             /\ y \in LitsOf(s)' <=> y \in LitsOf(s) \/ (y = y0 /\ y \in ItemsOf(s))
  <2>1. y = <<y[1], y[2]>> => (y = y0 <=> y[1] = a /\ y[2] = x)
    OBVIOUS
  <2> HIDE DEF y0
  <2>2. /\ y \in ItemsOf(s) <=> /\ y = <<y[1], y[2]>> /\ y[1] \in Accounts
                                /\ y[2] \in Open(bds[y[1]]) /\ y[2][1][1] = s
        /\ y \in ItemsOf(s)' <=> /\ y = <<y[1], y[2]>> /\ y[1] \in Accounts
                                 /\ y[2] \in Open(bds'[y[1]]) /\ y[2][1][1] = s
        /\ y \in LitsOf(s)' <=> y \in ItemsOf(s)' /\ y[2] \in Bound(bds'[y[1]])
        /\ y \in LitsOf(s) <=> y \in ItemsOf(s) /\ y[2] \in Bound(bds[y[1]])
        /\ WallOf(y)' = Wall(bds'[y[1]], y[2])
        /\ RateOf(y)' = ItemRate(bds'[y[1]], y[2])
    <3>1. y \in ItemsOf(s) <=> /\ y = <<y[1], y[2]>> /\ y[1] \in Accounts
                               /\ y[2] \in Open(bds[y[1]]) /\ y[2][1][1] = s
      BY ItemBoth
    <3>2. y \in ItemsOf(s)' <=> /\ y = <<y[1], y[2]>> /\ y[1] \in Accounts
                                /\ y[2] \in Open(bds'[y[1]]) /\ y[2][1][1] = s
      BY ItemBoth
    <3>3. /\ y \in LitsOf(s)' <=> y \in ItemsOf(s)' /\ y[2] \in Bound(bds'[y[1]])
          /\ y \in LitsOf(s) <=> y \in ItemsOf(s) /\ y[2] \in Bound(bds[y[1]])
      BY ItemBoth
    <3>4. WallOf(y)' = Wall(bds'[y[1]], y[2]) /\ RateOf(y)' = ItemRate(bds'[y[1]], y[2])
      BY ItemBoth
    <3> QED
      BY <3>1, <3>2, <3>3, <3>4
  <2>3. CASE y[1] = a
    <3>1. bds'[y[1]] = b2 /\ bds[y[1]] = b
      BY <1>5, <2>3
    <3>2. y \in ItemsOf(s)' <=> y \in ItemsOf(s)
      BY <1>1, <2>2, <2>3, <3>1
    <3>3. y \in ItemsOf(s) => Alike(y)
      BY <1>1, <2>2, <2>3, <3>1 DEF Alike, SameItem, WallOf, RateOf
    <3>4. y \in LitsOf(s)' <=> y \in LitsOf(s) \/ (y = y0 /\ y \in ItemsOf(s))
      BY <1>1, <2>1, <2>2, <2>3, <3>1, <3>2
    <3> QED
      BY <3>2, <3>3, <3>4
  <2>4. CASE y[1] # a
    <3>1. y[1] \in Accounts => bds'[y[1]] = bds[y[1]]
      BY <1>5, <2>4
    <3> QED
      BY <2>1, <2>2, <2>4, <3>1 DEF Alike, WallOf, RateOf
  <2> QED
    BY <2>3, <2>4
<1> HIDE DEF y0
<1>8. ItemsOf(s)' = ItemsOf(s)
  BY <1>7
<1>9. LitsOf(s)' = LitsOf(s) \cup ({y0} \cap ItemsOf(s))
  BY <1>7
<1>10. Lit(s, y0)
  BY <1>5, <1>6, <1>7, <1>8, <1>9 DEF Lit
<1> QED
  BY <1>5, <1>10 DEF y0

(* A call that reprices an item.                                           *)
LEMMA LiftLowers ==
  ASSUME Budgets, NEW a \in Accounts, NEW s \in Subs, NEW r, NEW f, NEW wal,
         Call(a, r, s, f, wal), r.bd \in PlainRecord(a),
         NEW x, x[1][1] = s, NEW c, x \in Open(bds[a]) \ Bound(bds[a]),
         Lowers(bds[a], r.bd, x, c)
  PROVE  Budgets' /\ Lowered(s, <<a, x>>, c)
<1> DEFINE b == bds[a]
           b2 == r.bd
           y0 == <<a, x>>
<1>1. /\ Open(b2) = Open(b) /\ \A y \in Open(b) \ {x} : SameItem(b, b2, y)
      /\ Wall(b2, x) = Wall(b, x) /\ ItemRate(b2, x) = c
      /\ Bound(b2) = Bound(b) /\ Spent(b2) = Spent(b)
  BY DEF Lowers
<1>2. IsFiniteSet(Open(b2))
  BY <1>1 DEF Budgets
<1>3. Spent(b2) = Spent(b) + 0
  <2>2. Spent(b) \in Nat
    BY SpentNat
  <2> QED
    BY <1>1, <2>2
<1>4. \A z : z[1][1] # s =>
        /\ z \in Open(b2) <=> z \in Open(b)
        /\ z \in Bound(b2) <=> z \in Bound(b)
        /\ z \in Open(b) => SameItem(b, b2, z)
  BY <1>1
<1>5. /\ Budgets' /\ Others(s) /\ billed'[s] = billed[s] + 0
      /\ bds'[a] = r.bd /\ \A o \in Accounts \ {a} : bds'[o] = bds[o]
  <2>1. 0 \in Nat /\ Spent(r.bd) = Spent(bds[a]) + 0
    BY <1>3
  <2>2. IsFiniteSet(Open(r.bd))
    BY <1>2
  <2>3. \A z : z[1][1] # s =>
          /\ z \in Open(r.bd) <=> z \in Open(bds[a])
          /\ z \in Bound(r.bd) <=> z \in Bound(bds[a])
          /\ z \in Open(bds[a]) => SameItem(bds[a], r.bd, z)
    BY <1>4
  <2> HIDE DEF b, b2
  <2> QED
    BY <2>1, <2>2, <2>3, CallFrame
<1>6. billed'[s] = billed[s]
  BY <1>5 DEF Budgets
<1>7. ASSUME NEW y
      PROVE  /\ y \in ItemsOf(s)' <=> y \in ItemsOf(s)
             /\ y \in ItemsOf(s) /\ y # y0 => Alike(y)
             /\ y \in LitsOf(s)' <=> y \in LitsOf(s)
  <2>1. y = <<y[1], y[2]>> => (y = y0 <=> y[1] = a /\ y[2] = x)
    OBVIOUS
  <2> HIDE DEF y0
  <2>2. /\ y \in ItemsOf(s) <=> /\ y = <<y[1], y[2]>> /\ y[1] \in Accounts
                                /\ y[2] \in Open(bds[y[1]]) /\ y[2][1][1] = s
        /\ y \in ItemsOf(s)' <=> /\ y = <<y[1], y[2]>> /\ y[1] \in Accounts
                                 /\ y[2] \in Open(bds'[y[1]]) /\ y[2][1][1] = s
        /\ y \in LitsOf(s)' <=> y \in ItemsOf(s)' /\ y[2] \in Bound(bds'[y[1]])
        /\ y \in LitsOf(s) <=> y \in ItemsOf(s) /\ y[2] \in Bound(bds[y[1]])
        /\ WallOf(y)' = Wall(bds'[y[1]], y[2])
        /\ RateOf(y)' = ItemRate(bds'[y[1]], y[2])
    <3>1. y \in ItemsOf(s) <=> /\ y = <<y[1], y[2]>> /\ y[1] \in Accounts
                               /\ y[2] \in Open(bds[y[1]]) /\ y[2][1][1] = s
      BY ItemBoth
    <3>2. y \in ItemsOf(s)' <=> /\ y = <<y[1], y[2]>> /\ y[1] \in Accounts
                                /\ y[2] \in Open(bds'[y[1]]) /\ y[2][1][1] = s
      BY ItemBoth
    <3>3. /\ y \in LitsOf(s)' <=> y \in ItemsOf(s)' /\ y[2] \in Bound(bds'[y[1]])
          /\ y \in LitsOf(s) <=> y \in ItemsOf(s) /\ y[2] \in Bound(bds[y[1]])
      BY ItemBoth
    <3>4. WallOf(y)' = Wall(bds'[y[1]], y[2]) /\ RateOf(y)' = ItemRate(bds'[y[1]], y[2])
      BY ItemBoth
    <3> QED
      BY <3>1, <3>2, <3>3, <3>4
  <2>3. CASE y[1] = a
    <3>1. bds'[y[1]] = b2 /\ bds[y[1]] = b
      BY <1>5, <2>3
    <3>2. y \in ItemsOf(s)' <=> y \in ItemsOf(s)
      BY <1>1, <2>2, <2>3, <3>1
    <3>3. y \in ItemsOf(s) /\ y # y0 => Alike(y)
      BY <1>1, <2>1, <2>2, <2>3, <3>1 DEF Alike, SameItem, WallOf, RateOf
    <3>4. y \in LitsOf(s)' <=> y \in LitsOf(s)
      BY <1>1, <2>1, <2>2, <2>3, <3>1, <3>2
    <3> QED
      BY <3>2, <3>3, <3>4
  <2>4. CASE y[1] # a
    <3>1. y[1] \in Accounts => bds'[y[1]] = bds[y[1]]
      BY <1>5, <2>4
    <3> QED
      BY <2>1, <2>2, <2>4, <3>1 DEF Alike, WallOf, RateOf
  <2> QED
    BY <2>3, <2>4
<1>8. /\ y0 \in ItemsOf(s) \ LitsOf(s)
      /\ WallOf(y0)' = WallOf(y0) /\ RateOf(y0)' = c
  <2>1. y0[1] = a /\ y0[2] = x /\ y0 = <<y0[1], y0[2]>>
    OBVIOUS
  <2>2. y0 \in ItemsOf(s)
    BY <2>1, ItemIs
  <2>3. y0 \notin LitsOf(s)
    BY <2>1, ItemNext
  <2>4. WallOf(y0)' = Wall(b2, x) /\ RateOf(y0)' = ItemRate(b2, x) /\ WallOf(y0) = Wall(b, x)
    BY <1>5, <2>1, ItemNext DEF WallOf
  <2> QED
    BY <1>1, <2>2, <2>3, <2>4
<1> HIDE DEF y0
<1>9. ItemsOf(s)' = ItemsOf(s) /\ LitsOf(s)' = LitsOf(s)
  BY <1>7
<1>10. Lowered(s, y0, c)
  BY <1>5, <1>6, <1>7, <1>8, <1>9 DEF Lowered
<1> QED
  BY <1>5, <1>10 DEF y0

-----------------------------------------------------------------------------
(* The op of a slot tells what it holds.                                   *)
LEMMA SlotKind ==
  ASSUME NEW g, Slot(g)
  PROVE  /\ g.op = "idle" => g = Idle
         /\ g.op = "read" => ReadSlot(g)
         /\ g.op = "place" => PlaceSlot(g)
         /\ g.op = "rollback" => RollbackSlot(g)
         /\ g.op = "record" => RecordSlot(g)
         /\ g.op \in BindOps => BindSlot(g)
         /\ g.op \in DoneOps => DoneSlot(g)
         /\ g.op \in {"idle"} \cup GateOps \cup BindOps \cup DoneOps
<1>1. g = Idle => g.op = "idle"
  BY DEF Idle
<1>2. ReadSlot(g) => g.op = "read"
  BY DEF ReadSlot
<1>3. PlaceSlot(g) => g.op = "place"
  BY DEF PlaceSlot
<1>4. RollbackSlot(g) => g.op = "rollback"
  BY DEF RollbackSlot
<1>5. RecordSlot(g) => g.op = "record"
  BY DEF RecordSlot
<1>6. BindSlot(g) => g.op \in BindOps
  BY DEF BindSlot
<1>7. DoneSlot(g) => g.op \in DoneOps
  BY DEF DoneSlot
<1>8. g = Idle \/ ReadSlot(g) \/ PlaceSlot(g) \/ RollbackSlot(g) \/ RecordSlot(g)
        \/ BindSlot(g) \/ DoneSlot(g)
  BY DEF Slot
<1> QED
  BY <1>1, <1>2, <1>3, <1>4, <1>5, <1>6, <1>7, <1>8 DEF GateOps, BindOps, DoneOps

(* What the submission, the job and the legs of a slot are.                *)
LEMMA SlotFields ==
  ASSUME NEW g, Slot(g), g.op # "idle"
  PROVE  /\ g.s \in Subs
         /\ g.op \in BindOps \cup DoneOps =>
              /\ g.j \in Jobs /\ g.j[1] = g.s
              /\ Whole(g.s, g.legs) /\ g.k \in 1 .. Len(g.legs)
<1>1. /\ ReadSlot(g) => g.s \in Subs
      /\ PlaceSlot(g) => g.s \in Subs
      /\ RollbackSlot(g) => g.s \in Subs
      /\ RecordSlot(g) => g.s \in Subs
  BY DEF ReadSlot, PlaceSlot, RollbackSlot, RecordSlot
<1>2. BindSlot(g) => /\ g.s \in Subs /\ g.j \in Jobs /\ g.j[1] = g.s
                     /\ Whole(g.s, g.legs) /\ g.k \in 1 .. Len(g.legs)
  BY DEF BindSlot
<1>3. DoneSlot(g) => /\ g.s \in Subs /\ g.j \in Jobs /\ g.j[1] = g.s
                     /\ Whole(g.s, g.legs) /\ g.k \in 1 .. Len(g.legs)
  BY DEF DoneSlot
<1> QED
  BY <1>1, <1>2, <1>3, SlotKind DEF GateOps, BindOps, DoneOps

(* Removing an entry from a table.                                         *)
LEMMA DropIs ==
  ASSUME NEW f, NEW k
  PROVE  /\ DOMAIN Drop(f, k) = DOMAIN f \ {k}
         /\ \A x \in DOMAIN f \ {k} : Drop(f, k)[x] = f[x]
  BY DEF Drop, Restrict

(* The slot of one handler changes.                                        *)
LEMMA SlotsStep ==
  ASSUME Slots, OneGate, Steady, NEW p \in Handlers, NEW g,
         h' = [h EXCEPT ![p] = g], Slot(g),
         g.op \in GateOps =>
           /\ granted'[g.s] = "asked"
           /\ granted[g.s] # "asked" \/ (h[p].op \in GateOps /\ h[p].s = g.s),
         g.op \in BindOps \cup DoneOps =>
           /\ granted'[g.s] = "yes"
           /\ g.s \in DOMAIN routes' => routes'[g.s] = g.legs
           /\ g.op \in BindOps => slurm'[g.j] \in {"running", "gone"}
           /\ g.op \in DoneOps => slurm'[g.j] = "gone" /\ report'[g.j] \in Reports,
         \A s \in Subs : granted[s] = "asked" /\ granted'[s] # "asked" =>
           h[p].op \in GateOps /\ h[p].s = s
  PROVE  Slots' /\ OneGate'
<1>1. /\ DOMAIN h' = Handlers /\ h'[p] = g /\ h' = [q \in Handlers |-> h'[q]]
      /\ \A q \in Handlers \ {p} : h'[q] = h[q]
  BY DEF Slots
<1>2. ASSUME NEW q \in Handlers
      PROVE  /\ Slot(h'[q])
             /\ h'[q].op \in GateOps => granted'[h'[q].s] = "asked"
             /\ h'[q].op \in BindOps \cup DoneOps => Routes(h[q])'
  <2>1. CASE q = p
    BY <1>1, <2>1 DEF Routes
  <2>2. CASE q # p
    <3>1. h'[q] = h[q] /\ Slot(h[q])
      BY <1>1, <2>2 DEF Slots
    <3>2. ASSUME h[q].op \in GateOps PROVE granted'[h[q].s] = "asked"
      <4>1. granted[h[q].s] = "asked" /\ h[q].s \in Subs
        BY <3>1, <3>2, SlotFields DEF Slots, GateOps
      <4>2. ~(h[p].op \in GateOps /\ h[p].s = h[q].s)
        BY <2>2, <3>2 DEF OneGate
      <4> QED
        BY <4>1, <4>2
    <3>3. ASSUME h[q].op \in BindOps \cup DoneOps PROVE Routes(h[q])'
      <4>1. h[q].s \in Subs /\ h[q].j \in Jobs /\ h[q].j[1] = h[q].s
        BY <3>1, <3>3, SlotFields DEF BindOps, DoneOps
      <4>2. Routes(h[q])
        BY <3>3 DEF Slots
      <4> QED
        BY <3>1, <4>1, <4>2 DEF Routes, Steady
    <3> QED
      BY <3>1, <3>2, <3>3
  <2> QED
    BY <2>1, <2>2
<1>3. Slots'
  BY <1>1, <1>2 DEF Slots, Slot, ReadSlot, PlaceSlot, RollbackSlot, RecordSlot, BindSlot, DoneSlot
<1>4. ASSUME NEW q \in Handlers, q # p, h[q].op \in GateOps, g.op \in GateOps,
             h[q].s = g.s
      PROVE  FALSE
  <2>1. granted[h[q].s] = "asked"
    BY <1>4 DEF Slots
  <2> QED
    BY <1>4, <2>1 DEF OneGate
<1>5. OneGate'
  BY <1>1, <1>4 DEF OneGate
<1> QED
  BY <1>3, <1>5

(* No slot changes.                                                        *)
LEMMA SlotsStay ==
  ASSUME Slots, OneGate, Steady, h' = h,
         \A s \in Subs : granted[s] = "asked" => granted'[s] = "asked"
  PROVE  Slots' /\ OneGate'
<1>2. ASSUME NEW q \in Handlers
      PROVE  /\ Slot(h[q])
             /\ h[q].op \in GateOps => granted'[h[q].s] = "asked"
             /\ h[q].op \in BindOps \cup DoneOps => Routes(h[q])'
  <2>1. Slot(h[q])
    BY DEF Slots
  <2>2. ASSUME h[q].op \in GateOps PROVE granted'[h[q].s] = "asked"
    <3>1. granted[h[q].s] = "asked" /\ h[q].s \in Subs
      BY <2>1, <2>2, SlotFields DEF Slots, GateOps
    <3> QED
      BY <3>1
  <2>3. ASSUME h[q].op \in BindOps \cup DoneOps PROVE Routes(h[q])'
    <3>1. h[q].s \in Subs /\ h[q].j \in Jobs /\ h[q].j[1] = h[q].s
      BY <2>1, <2>3, SlotFields DEF BindOps, DoneOps
    <3>2. Routes(h[q])
      BY <2>3 DEF Slots
    <3> QED
      BY <3>1, <3>2 DEF Routes, Steady
  <2> QED
    BY <2>1, <2>2, <2>3
<1>3. Slots'
  BY <1>2 DEF Slots
<1>4. OneGate'
  BY DEF OneGate
<1> QED
  BY <1>3, <1>4

-----------------------------------------------------------------------------
(* An append that fails is one of the faults.                              *)
LEMMA FaultNext ==
  ASSUME World, NEW a, NEW r, NEW s, NEW f, NEW wal \in Wals(f), Call(a, r, s, f, wal)
  PROVE  /\ wal \in BOOLEAN /\ faults' \in SUBSET UNION Faults
         /\ wal = TRUE => faults' = faults
         /\ wal = FALSE => f \in faults'
<1>1. wal \in BOOLEAN /\ (wal \/ Allowed(f))
  BY DEF Wals
<1>2. faults' = IF wal THEN faults ELSE faults \cup {f}
  BY DEF Call
<1>3. Allowed(f) => faults \cup {f} \subseteq UNION Faults
  BY DEF Allowed
<1> QED
  BY <1>1, <1>2, <1>3 DEF World

(* An item of a leg.                                                       *)
LEMMA SliceIs ==
  ASSUME NEW s, NEW l, NEW y
  PROVE  y \in Slice(s, l) <=>
           /\ y = <<l.a, <<l.key, y[2][2]>> >>
           /\ IsArray(s) => y[2][2] \in 0 .. (l.n - 1)
           /\ ~IsArray(s) => y[2][2] = -1
<1>1. CASE IsArray(s)
  BY <1>1 DEF Slice
<1>2. CASE ~IsArray(s)
  BY <1>2 DEF Slice
<1> QED
  BY <1>1, <1>2

(* A job's submit, and an array's.                                         *)
LEMMA SubmitAdmits ==
  ASSUME NEW a \in Accounts, NEW b \in PlainRecord(a), NEW k \in Token,
         NEW c \in Nat, NEW w \in Nat, NEW now \in Nat, NEW wal \in BOOLEAN
  PROVE  Admits(a, b, {<<k, -1>>}, RateOrFlat(b, c), w,
                SubmitAt(b, k, c, w, now, wal))
<1>1. PICK r : r = SubmitAt(b, k, c, w, now, wal)
  OBVIOUS
<1>2. \/ r.ok = FALSE /\ r.bd = b
      \/ /\ r.ok = TRUE /\ r.bd \in PlainRecord(a)
         /\ Gains(b, r.bd, {<<k, -1>>}, RateOrFlat(b, c), w)
  BY <1>1, SubmitDoes
<1>3. Admits(a, b, {<<k, -1>>}, RateOrFlat(b, c), w, r)
  BY <1>2 DEF Admits
<1> QED
  BY <1>1, <1>3

(* An array is admitted as one item per task.                              *)
LEMMA SubmitArrayAdmits ==
  ASSUME NEW a \in Accounts, NEW b \in PlainRecord(a), NEW k \in Token,
         NEW c \in Nat, NEW n \in Nat, NEW w \in Nat, NEW now \in Nat,
         NEW wal \in BOOLEAN
  PROVE  Admits(a, b, {k} \X (0 .. (n - 1)), RateOrFlat(b, c), w,
                SubmitArrayAt(b, k, c, n, w, now, wal))
  BY SubmitArrayDoes

(* What an admitted submit does to the items of s.                         *)
LEMMA AdmitLifts ==
  ASSUME Budgets, World, NEW s \in Subs, NEW a \in Accounts, NEW wal \in Wals("gate"),
         NEW r, NEW X, IsFiniteSet(X), \A x \in X : x[1][1] = s, NEW c, NEW w,
         Admits(a, bds[a], X, c, w, r), Call(a, r, s, "gate", wal)
  PROVE  /\ Budgets' /\ faults' \in SUBSET UNION Faults
         /\ \/ r.ok = FALSE /\ Quiet
            \/ r.ok = TRUE /\ Grew(s, {a} \X X, c, w)
<1>1. faults' \in SUBSET UNION Faults
  BY FaultNext
<1>2. CASE r.ok = FALSE /\ r.bd = bds[a]
  <2>1. Budgets' /\ Quiet
    BY <1>2, LiftNone
  <2> QED
    BY <1>1, <1>2, <2>1
<1>3. CASE /\ r.ok = TRUE /\ r.bd \in PlainRecord(a)
           /\ Gains(bds[a], r.bd, X, c, w)
  <2>1. Budgets' /\ Grew(s, {a} \X X, c, w)
    BY <1>3, LiftGains
  <2> QED
    BY <1>1, <1>3, <2>1
<1> QED
  BY <1>2, <1>3 DEF Admits

(* It does.                                                                *)
LEMMA EscrowDoes ==
  ASSUME NEW s, NEW l, NEW c, NEW n, NEW now, NEW wal, NEW r,
         Asks(s, l, c, n, now, wal, r)
  PROVE  Escrows(s, l, c, r)
<1> USE DEF Asks
<1>1. /\ l.a \in Accounts /\ l.key \in Token /\ l.w \in Nat
      /\ bds[l.a] \in PlainRecord(l.a)
  BY DEF LegRecord, Budgets
<1>2. wal \in BOOLEAN
  BY FaultNext
<1>3. PICK X, rt : /\ X = {l.key} \X (IF IsArray(s) THEN 0 .. (n - 1) ELSE {-1})
                   /\ rt = RateOrFlat(bds[l.a], c)
  OBVIOUS
<1>4. Admits(l.a, bds[l.a], X, rt, l.w, r)
  <2>1. CASE IsArray(s)
    <3>1. r = SubmitArrayAt(bds[l.a], l.key, c, n, l.w, now, wal)
      BY <2>1 DEF Submit
    <3>2. X = {l.key} \X (0 .. (n - 1))
      BY <1>3, <2>1
    <3>3. Admits(l.a, bds[l.a], {l.key} \X (0 .. (n - 1)), RateOrFlat(bds[l.a], c),
                 l.w, SubmitArrayAt(bds[l.a], l.key, c, n, l.w, now, wal))
      BY <1>1, <1>2, SubmitArrayAdmits
    <3> QED
      BY <1>3, <3>1, <3>2, <3>3
  <2>2. CASE ~IsArray(s)
    <3>1. r = SubmitAt(bds[l.a], l.key, c, l.w, now, wal)
      BY <2>2 DEF Submit
    <3>2. X = {<<l.key, -1>>}
      BY <1>3, <2>2
    <3>3. Admits(l.a, bds[l.a], {<<l.key, -1>>}, RateOrFlat(bds[l.a], c),
                 l.w, SubmitAt(bds[l.a], l.key, c, l.w, now, wal))
      BY <1>1, <1>2, SubmitAdmits
    <3> QED
      BY <1>3, <3>1, <3>2, <3>3
  <2> QED
    BY <2>1, <2>2
<1>5. IsFiniteSet(X) /\ \A x \in X : x[1][1] = s
  <2>1. CASE IsArray(s)
    <3>1. PICK m \in Int : m = n - 1
      OBVIOUS
    <3>2. X = {l.key} \X (0 .. m)
      BY <1>3, <2>1, <3>1
    <3>3. \A x \in X : x[1][1] = s
      BY <3>2
    <3> HIDE DEF Asks
    <3>4. IsFiniteSet(0 .. m)
      BY FS_Interval
    <3>5. IsFiniteSet({l.key})
      BY FS_Singleton
    <3> QED
      BY <3>2, <3>3, <3>4, <3>5, FS_Product
  <2>2. CASE ~IsArray(s)
    <3>1. X = {<<l.key, -1>>}
      BY <1>3, <2>2
    <3>2. IsFiniteSet(X)
      BY <3>1, FS_Singleton
    <3> QED
      BY <3>1, <3>2
  <2> QED
    BY <2>1, <2>2
<1>6. Slice(s, l) = {l.a} \X X
  BY <1>3 DEF Slice
<1>7. /\ Budgets' /\ faults' \in SUBSET UNION Faults
      /\ \/ r.ok = FALSE /\ Quiet
         \/ r.ok = TRUE /\ Grew(s, {l.a} \X X, rt, l.w)
  BY <1>1, <1>4, <1>5, AdmitLifts
<1> QED
  BY <1>3, <1>6, <1>7 DEF Escrows

(* An exit of one item of s.                                               *)
LEMMA ExitDoes ==
  ASSUME Budgets, World, NEW s \in Subs, NEW a \in Accounts, NEW x, x[1][1] = s,
         NEW f, NEW wal \in Wals(f), NEW used, NEW r,
         Exits(a, bds[a], x, wal, used, r), Call(a, r, s, f, wal)
  PROVE  /\ Budgets' /\ faults' \in SUBSET UNION Faults
         /\ \/ r.ok = TRUE /\ Shut(s, <<a, x>>, used) /\ faults' = faults
            \/ r.ok = FALSE /\ Quiet /\ (<<a, x>> \notin ItemsOf(s) \/ f \in faults')
<1>1. /\ wal \in BOOLEAN /\ faults' \in SUBSET UNION Faults
      /\ wal = TRUE => faults' = faults
      /\ wal = FALSE => f \in faults'
  BY FaultNext
<1>2. CASE x \in Open(bds[a]) /\ wal = TRUE
  <2>1. /\ r.bd \in PlainRecord(a) /\ r.ok = TRUE
        /\ Loses(bds[a], r.bd, x, used)
    BY <1>2 DEF Exits
  <2>2. Budgets' /\ Shut(s, <<a, x>>, used)
    BY <2>1, LiftLoses
  <2> QED
    BY <1>1, <1>2, <2>1, <2>2
<1>3. CASE x \notin Open(bds[a]) \/ wal = FALSE
  <2>1. r.ok = FALSE /\ r.bd = bds[a]
    BY <1>3 DEF Exits
  <2>2. Budgets' /\ Quiet
    BY <2>1, LiftNone
  <2>3. <<a, x>> \in ItemsOf(s) => x \in Open(bds[a])
    BY DEF ItemsOf
  <2> QED
    BY <1>1, <1>3, <2>1, <2>2, <2>3
<1> QED
  BY <1>1, <1>2, <1>3

(* A gate with one source escrows the whole submission or rejects it.      *)
LEMMA GateDoes ==
  ASSUME Types, NEW p \in Handlers, NEW s \in Subs, handleGate(p, s)
  PROVE  \E L :
           /\ Budgets' /\ faults' \in SUBSET UNION Faults
           /\ Whole(s, L) /\ Len(L) = 1
           /\ \/ /\ Quiet /\ h' = h
                 /\ granted' = [granted EXCEPT ![s] = "rejected"]
              \/ /\ Grew(s, Slice(s, L[1]), C0(s), L[1].w)
                 /\ h' = [h EXCEPT ![p] = [op |-> "record", s |-> s, legs |-> L]]
                 /\ granted' = [granted EXCEPT ![s] = "asked"]
<1>1. PICK a, n, w, k : /\ a = Submissions[s].sources[1] /\ n = Submissions[s].n
                        /\ w = Submissions[s].w /\ k = <<s, 0>>
  OBVIOUS
<1>2. a \in Accounts /\ n \in Nat \ {0} /\ w \in Nat /\ k \in Token /\ k[1] = s /\ k[2] = 0
  BY <1>1, SubIs DEF SubRecord, Token
<1>3. PICK l : l = Leg(s, a, k, w, 0, n)
  OBVIOUS
<1>4. /\ l \in LegRecord /\ l.a = a /\ l.key = k /\ l.w = w /\ l.first = 0
      /\ IsArray(s) => l.n = n
      /\ ~IsArray(s) => l.n = 0
  BY <1>2, <1>3 DEF Leg, LegRecord
<1>5. PICK L : L = <<l>>
  OBVIOUS
<1>6. L = Append(<<>>, l) /\ Len(L) = 1 /\ L[1] = l
  BY <1>5
<1>7. PICK E : /\ E = <<>> /\ L = Append(E, l)
               /\ Placed(s, E) /\ Off(s, E, 0) = 0 /\ Len(E) = 0
  BY <1>6, PlaceNone
<1>8. Placed(s, L) /\ Off(s, L, Len(L)) = Off(s, E, Len(E)) + Width(s, l)
  <2>1. IsArray(s) => l.n > 0 /\ l.w = Submissions[s].w /\ l.first = Off(s, E, Len(E))
    BY <1>1, <1>2, <1>4, <1>7
  <2>2. \A i \in 1 .. Len(E) : E[i].key[2] < l.key[2]
    BY <1>7
  <2>3. Fits(s, E, l)
    BY <1>2, <1>4, <1>7, <2>1, <2>2 DEF Fits
  <2>4. Longer(s, E, l, L)
    BY <1>7, <2>3, PlaceNext
  <2> QED
    BY <2>4 DEF Longer
<1>9. Width(s, l) = Need(s) /\ Need(s) \in Nat
  BY <1>1, <1>2, <1>4 DEF Width, Need
<1>10. Whole(s, L)
  BY <1>6, <1>7, <1>8, <1>9 DEF Whole
<1>11. PICK wal, r :
         /\ wal \in Wals("gate")
         /\ r = Submit(bds[a], s, k, GateRate(s), n, w, clock, wal)
         /\ Call(a, r, s, "gate", wal)
         /\ IF r.ok
            THEN /\ Busy(p, [op |-> "record", s |-> s, legs |-> <<l>>])
                 /\ Answer(s, "asked")
            ELSE Answer(s, "rejected") /\ UNCHANGED h
  BY <1>1, <1>3 DEF handleGate
<1>12. /\ Budgets' /\ faults' \in SUBSET UNION Faults
       /\ \/ r.ok = FALSE /\ Quiet
          \/ r.ok = TRUE /\ Grew(s, Slice(s, l), RateOrFlat(bds[l.a], GateRate(s)), l.w)
  <2>1. Budgets /\ World /\ clock \in Nat /\ GateRate(s) \in Nat /\ n \in Nat
    BY <1>2, GateRateNat, SeamAssumption DEF Types, World
  <2>2. l \in LegRecord /\ l.key[1] = s /\ (IsArray(s) => l.n = n)
    BY <1>2, <1>4
  <2>3. r = Submit(bds[l.a], s, l.key, GateRate(s), n, l.w, clock, wal)
    BY <1>4, <1>11
  <2>4. Call(l.a, r, s, "gate", wal) /\ wal \in Wals("gate")
    BY <1>4, <1>11
  <2>5. Asks(s, l, GateRate(s), n, clock, wal, r)
    BY <2>1, <2>2, <2>3, <2>4 DEF Asks
  <2>6. Escrows(s, l, GateRate(s), r)
    BY <2>5, EscrowDoes
  <2> QED
    BY <2>6 DEF Escrows
<1>13. RateOrFlat(bds[l.a], GateRate(s)) = C0(s)
  <2>1. bds[a].C = FlatRates[a]
    BY <1>2, PlainFields DEF Types, Budgets
  <2>2. GateRate(s) \in Nat
    BY GateRateNat
  <2> QED
    BY <1>1, <1>4, <2>1, <2>2 DEF RateOrFlat, C0
<1>14. CASE r.ok = FALSE /\ Quiet
  <2>1. Answer(s, "rejected") /\ UNCHANGED h
    BY <1>11, <1>14
  <2> QED
    BY <1>6, <1>10, <1>12, <1>14, <2>1 DEF Answer
<1>15. CASE r.ok = TRUE /\ Grew(s, Slice(s, l), RateOrFlat(bds[l.a], GateRate(s)), l.w)
  <2>1. Busy(p, [op |-> "record", s |-> s, legs |-> L]) /\ Answer(s, "asked")
    BY <1>5, <1>11, <1>15
  <2>2. Grew(s, Slice(s, L[1]), C0(s), L[1].w)
    BY <1>6, <1>13, <1>15
  <2> QED
    BY <1>6, <1>10, <1>12, <2>1, <2>2 DEF Answer, Busy
<1> QED
  BY <1>12, <1>14, <1>15

(* A slot of a handler that gates, and what it has been granted.           *)
LEMMA GateSlot ==
  ASSUME Types, NEW p \in Handlers
  PROVE  /\ Slot(h[p]) /\ DOMAIN h = Handlers
         /\ h[p].op \in GateOps => granted[h[p].s] = "asked"
         /\ h[p].op \in BindOps \cup DoneOps => Routes(h[p])
  BY DEF Types, Slots

(* A leg of a plan is escrowed, or the gate gives up and rolls back.       *)
LEMMA PlaceDoes ==
  ASSUME Types, NEW p \in Handlers, NEW g, g = h[p], placeLeg(p)
  PROVE  /\ PlaceSlot(g) /\ Budgets' /\ faults' \in SUBSET UNION Faults
         /\ Placing(p, g) \/ GivingUp(p, g)
<1>0. PlaceSlot(g)
  BY GateSlot, SlotKind DEF placeLeg
<1>1. PICK s, L, plan, n, i : /\ s = g.s /\ L = g.legs /\ plan = g.plan /\ n = Len(L)
                              /\ i = n + 1
  OBVIOUS
<1>2. /\ s \in Subs /\ L \in Seq(LegRecord) /\ Placed(s, L) /\ n \in Nat
      /\ PlanOK(s, plan) /\ Follows(s, L, plan) /\ g.c = C0(s) /\ g.now \in Nat
  BY <1>0, <1>1 DEF PlaceSlot
<1>3. /\ plan \in PlanLegs(Sources(s)) /\ Climbs(plan)
      /\ PSum(plan, Len(plan)) = Need(s) /\ Sources(s) \in Nat /\ Len(plan) \in Nat
      /\ n < Len(plan) /\ i \in 1 .. Len(plan) /\ i = n + 1
  <2>1. Sources(s) \in Nat
    BY <1>2, SubIs DEF SubRecord, Sources
  <2>2. Len(plan) \in Nat
    BY <1>2, <2>1, PlanLegIs DEF PlanOK
  <2>3. n < Len(plan)
    BY <1>1, <1>2 DEF Follows
  <2>4. i \in 1 .. Len(plan) /\ i = n + 1
    BY <1>1, <1>2, <2>2, <2>3
  <2> QED
    BY <1>2, <2>1, <2>2, <2>3, <2>4 DEF PlanOK
<1>4. PICK ix, wd : ix = plan[i].Index /\ wd = plan[i].W
  OBVIOUS
<1>5. ix \in 1 .. Sources(s) /\ wd \in Nat \ {0}
  BY <1>3, <1>4, PlanLegIs
<1>6. PICK a, k, w, f : /\ a = Submissions[s].sources[ix] /\ k = <<s, ix>>
                        /\ w = (IF IsArray(s) THEN Submissions[s].w ELSE wd)
                        /\ f = Total([m \in 1 .. Len(h[p].legs) |-> h[p].legs[m].n])
  OBVIOUS
<1>7. /\ a \in Accounts /\ k \in Token /\ k[1] = s /\ k[2] = ix
      /\ IsArray(s) => w = Submissions[s].w
      /\ ~IsArray(s) => w = wd
  BY <1>2, <1>5, <1>6, SubIs DEF SubRecord, Sources, Token
<1>8. w \in Nat
  BY <1>2, <1>5, <1>7, SubIs DEF SubRecord
<1>9. f \in Nat /\ (IsArray(s) => f = Off(s, L, Len(L)))
  <2> DEFINE F == [m \in 1 .. Len(L) |-> L[m].n]
  <2>1. \A m \in 1 .. Len(L) : L[m].n \in Nat
    BY <1>2, LegIs
  <2>2. DOMAIN F = 1 .. n /\ \A m \in 1 .. n : F[m] \in Nat
    BY <1>1, <2>1
  <2>3. n \in Int /\ 1 \in Int
    BY <1>2
  <2>3a. IsFiniteSet(1 .. n)
    BY <2>3, FS_Interval
  <2>4. Family(F)
    BY <2>2, <2>3a DEF Family
  <2>5. Total(F) \in Nat
    BY <2>4, CoinsFinite
  <2>6. IsArray(s) => F = [m \in 1 .. Len(L) |-> Width(s, L[m])]
    BY DEF Width
  <2>7. f = Total(F)
    <3>1. F = [m \in 1 .. Len(h[p].legs) |-> h[p].legs[m].n]
      BY <1>1
    <3> QED
      BY <1>6, <3>1
  <2> HIDE DEF F
  <2> QED
    BY <2>5, <2>6, <2>7 DEF Off
<1>10. PICK l : l = Leg(s, a, k, w, f, wd)
  OBVIOUS
<1>11. /\ l \in LegRecord /\ l.a = a /\ l.key = k /\ l.w = w /\ l.first = f
       /\ IsArray(s) => l.n = wd
       /\ ~IsArray(s) => l.n = 0
  BY <1>5, <1>7, <1>8, <1>9, <1>10 DEF Leg, LegRecord
<1>12. Fits(s, L, l)
  <2>1. ASSUME NEW m \in 1 .. Len(L) PROVE L[m].key[2] < l.key[2]
    <3>1. L[m].key = <<s, plan[m].Index>>
      BY <1>2 DEF Follows
    <3>2. m \in 1 .. Len(plan) /\ m < i
      BY <1>1, <1>2, <1>3, SMTT(30)
    <3>3. plan[m].Index < plan[i].Index
      BY <1>3, <3>2 DEF Climbs
    <3> QED
      BY <1>4, <1>7, <1>11, <3>1, <3>3
  <2> QED
    BY <1>2, <1>5, <1>7, <1>9, <1>11, <2>1 DEF Fits
<1>13. PICK M : M = Append(L, l)
  OBVIOUS
<1>14. Longer(s, L, l, M)
  BY <1>2, <1>12, <1>13, PlaceNext
<1>15. PICK wal, r :
         /\ wal \in Wals("gate")
         /\ r = Submit(bds[a], s, k, g.c, wd, w, g.now, wal)
         /\ Call(a, r, s, "gate", wal)
         /\ Busy(p, IF ~r.ok
                    THEN [op |-> "rollback", s |-> s, legs |-> L, k |-> 1, i |-> 0]
                    ELSE IF Len(M) = Len(plan)
                    THEN [op |-> "record", s |-> s, legs |-> M]
                    ELSE [g EXCEPT !.legs = M])
  BY <1>1, <1>4, <1>6, <1>10, <1>13 DEF placeLeg
<1>16. Escrows(s, l, g.c, r)
  <2>1. Budgets /\ World
    BY DEF Types
  <2>2. g.c \in Nat /\ wd \in Nat
    BY <1>2, <1>5, C0Nat
  <2>3. r = Submit(bds[l.a], s, l.key, g.c, wd, l.w, g.now, wal)
    BY <1>11, <1>15
  <2>4. l.key[1] = s /\ Call(l.a, r, s, "gate", wal) /\ wal \in Wals("gate")
    BY <1>7, <1>11, <1>15
  <2>5. Asks(s, l, g.c, wd, g.now, wal, r)
    BY <1>2, <1>11, <2>1, <2>2, <2>3, <2>4 DEF Asks
  <2> QED
    BY <2>5, EscrowDoes
<1>17. CASE r.ok = FALSE /\ Quiet
  BY <1>0, <1>1, <1>15, <1>16, <1>17 DEF GivingUp, Busy, Escrows
<1>18. CASE r.ok = TRUE /\ Grew(s, Slice(s, l), RateOrFlat(bds[l.a], g.c), l.w)
  <2>1. RateOrFlat(bds[l.a], g.c) = C0(s)
    BY <1>2, C0Nat DEF RateOrFlat
  <2>2. Grew(s, Slice(s, l), C0(s), l.w)
    BY <1>18, <2>1
  <2>3. /\ Placed(s, M) /\ Len(M) = n + 1 /\ M[n + 1] = l
        /\ \A m \in 1 .. n : M[m] = L[m]
        /\ Off(s, M, Len(M)) = Off(s, L, Len(L)) + Width(s, l)
    BY <1>1, <1>14 DEF Longer
  <2>4. \A m \in 1 .. Len(M) :
          M[m].key = <<s, plan[m].Index>> /\ Width(s, M[m]) = plan[m].W
    <3>1. \A m \in 1 .. n :
            M[m].key = <<s, plan[m].Index>> /\ Width(s, M[m]) = plan[m].W
      BY <1>1, <1>2, <2>3 DEF Follows
    <3>2. Width(s, l) = wd /\ l.key = <<s, plan[i].Index>>
      BY <1>4, <1>6, <1>7, <1>11 DEF Width
    <3>3. \A m \in 1 .. Len(M) : m \in 1 .. n \/ m = i
      BY <1>2, <1>3, <2>3
    <3>4. M[i] = l
      BY <1>3, <2>3
    <3> QED
      BY <1>4, <3>1, <3>2, <3>3, <3>4
  <2>5. CASE Len(M) = Len(plan)
    <3>1. PICK g2 : g2 = [op |-> "record", s |-> s, legs |-> M]
      OBVIOUS
    <3>2. h' = [h EXCEPT ![p] = g2]
      BY <1>15, <1>18, <2>5, <3>1 DEF Busy
    <3>3. Off(s, M, Len(M)) = Need(s)
      <4>1. [m \in 1 .. Len(M) |-> Width(s, M[m])] = [m \in 1 .. Len(M) |-> plan[m].W]
        BY <2>4
      <4>2. Off(s, M, Len(M)) = PSum(plan, Len(M))
        BY <4>1 DEF Off, PSum
      <4> QED
        BY <1>3, <2>5, <4>2
    <3>4. Len(M) > 0
      BY <1>2, <2>3
    <3>5. RecordSlot(g2) /\ g2.s = s /\ g2.legs = M
      BY <1>2, <2>3, <3>1, <3>3, <3>4 DEF RecordSlot, Whole, Placed
    <3>6. Placing(p, g)
      BY <1>1, <1>12, <1>14, <2>2, <3>2, <3>5 DEF Placing
    <3> QED
      BY <1>0, <1>16, <3>6 DEF Escrows
  <2>6. CASE Len(M) # Len(plan)
    <3>1. PICK g2 : g2 = [g EXCEPT !.legs = M]
      OBVIOUS
    <3>2. h' = [h EXCEPT ![p] = g2]
      BY <1>15, <1>18, <2>6, <3>1 DEF Busy
    <3>3. Len(M) < Len(plan)
      BY <1>2, <1>3, <2>3, <2>6
    <3>4. Follows(s, M, plan)
      BY <2>4, <3>3 DEF Follows
    <3>5. M \in Seq(LegRecord)
      BY <2>3 DEF Placed
    <3>6. /\ g2.s = s /\ g2.legs = M /\ g2.plan = plan /\ g2.c = g.c
          /\ g2 \in [op : {"place"}, s : Subs, c : Nat \ {0},
                     plan : PlanLegs(Sources(s)), legs : Seq(LegRecord), now : Nat]
      BY <1>0, <1>1, <3>1, <3>5 DEF PlaceSlot
    <3>7. PlaceSlot(g2)
      BY <1>2, <2>3, <3>4, <3>6 DEF PlaceSlot
    <3>8. Placing(p, g)
      BY <1>1, <1>12, <1>14, <2>2, <3>2, <3>6, <3>7 DEF Placing
    <3> QED
      BY <1>0, <1>16, <3>8 DEF Escrows
  <2> QED
    BY <2>5, <2>6
<1> QED
  BY <1>16, <1>17, <1>18 DEF Escrows

(* A leg placed for s.                                                     *)
LEMMA LegAt ==
  ASSUME NEW s \in Subs, NEW L, Placed(s, L), NEW k \in 1 .. Len(L)
  PROVE  /\ L[k] \in LegRecord /\ L[k].a \in Accounts /\ L[k].key \in Token
         /\ L[k].key[1] = s /\ L[k].w \in Nat /\ L[k].n \in Nat /\ L[k].first \in Nat
         /\ ~IsArray(s) => L[k].n = 0
<1>1. L \in Seq(LegRecord) /\ LegOK(s, L, k)
  BY DEF Placed
<1>2. /\ L[k] \in LegRecord /\ L[k].a \in Accounts /\ L[k].key \in Token
      /\ L[k].w \in Nat /\ L[k].n \in Nat /\ L[k].first \in Nat
  BY <1>1, LegIs
<1> QED
  BY <1>1, <1>2 DEF LegOK

(* A rollback cancels the next item of the next leg, and answers when none *)
(* is left.                                                                *)
LEMMA RollbackDoes ==
  ASSUME Types, NEW p \in Handlers, NEW g, g = h[p], rollback(p)
  PROVE  /\ RollbackSlot(g) /\ Budgets' /\ faults' \in SUBSET UNION Faults
         /\ Cancelling(p, g) \/ Rejecting(p, g)
<1>0. RollbackSlot(g)
  BY GateSlot, SlotKind DEF rollback
<1>1. /\ g.s \in Subs /\ Placed(g.s, g.legs) /\ g.k \in Nat \ {0} /\ g.i \in Nat
      /\ g.legs \in Seq(LegRecord) /\ Len(g.legs) \in Nat
  BY <1>0 DEF RollbackSlot
<1>2. CASE g.k > Len(g.legs)
  <2>1. /\ Busy(p, Idle) /\ Answer(g.s, "rejected") /\ UNCHANGED <<bds, tally>>
    BY <1>2 DEF rollback
  <2>2. Budgets' /\ Quiet /\ faults' = faults
    BY <2>1, StillQuiet DEF Types, tally
  <2> QED
    BY <1>0, <1>2, <2>1, <2>2 DEF Rejecting, Busy, Answer, Types, World
<1>3. CASE ~(g.k > Len(g.legs))
  <2>1. g.k \in 1 .. Len(g.legs)
    BY <1>1, <1>3
  <2>2. PICK s, l, a, key : /\ s = g.s /\ l = g.legs[g.k] /\ a = l.a /\ key = l.key
    OBVIOUS
  <2>3. /\ s \in Subs /\ a \in Accounts /\ key[1] = s /\ l.n \in Nat
        /\ bds[a] \in PlainRecord(a)
    BY <1>1, <2>1, <2>2, LegAt DEF Types, Budgets
  <2>4. PICK wal, r :
          /\ wal \in Wals("rollback")
          /\ r = IF IsArray(s) THEN CancelTask(bds[a], key, g.i, 0, clock, wal)
                 ELSE Cancel(bds[a], key, 0, clock, wal)
          /\ Call(a, r, s, "rollback", wal)
    BY <1>3, <2>2 DEF rollback
  <2>5. PICK x : x = <<key, IF IsArray(s) THEN g.i ELSE -1>>
    OBVIOUS
  <2>6. Exits(a, bds[a], x, wal, 0, r)
    <3>1. wal \in BOOLEAN
      BY <2>4, FaultNext DEF Types
    <3>2. CASE IsArray(s)
      <4>1. r = CancelTask(bds[a], key, g.i, 0, clock, wal) /\ x = <<key, g.i>>
        BY <2>4, <2>5, <3>2
      <4>2. g.i \in Int /\ g.i # -1
        BY <1>1
      <4> QED
        BY <2>3, <3>1, <4>1, <4>2, CancelTaskDoes
    <3>3. CASE ~IsArray(s)
      <4>1. r = Cancel(bds[a], key, 0, clock, wal) /\ x = <<key, -1>>
        BY <2>4, <2>5, <3>3
      <4> QED
        BY <2>3, <3>1, <4>1, CancelDoes
    <3> QED
      BY <3>2, <3>3
  <2>7. /\ Budgets' /\ faults' \in SUBSET UNION Faults
        /\ \/ r.ok = TRUE /\ Shut(s, <<a, x>>, 0) /\ faults' = faults
           \/ /\ r.ok = FALSE /\ Quiet
              /\ <<a, x>> \notin ItemsOf(s) \/ "rollback" \in faults'
    <3>1. x[1][1] = s
      BY <2>3, <2>5
    <3> QED
      BY <2>3, <2>4, <2>6, <3>1, ExitDoes DEF Types
  <2>8. Closes(s, LegItem(s, l, g.i), 0, "rollback")
    BY <2>2, <2>5, <2>7 DEF Closes, LegItem
  <2>9. PICK g2 : /\ h' = [h EXCEPT ![p] = g2]
                  /\ g2 = IF g.i + 1 < l.n THEN [g EXCEPT !.i = g.i + 1]
                          ELSE [g EXCEPT !.k = g.k + 1, !.i = 0]
    BY <1>3, <2>2 DEF rollback, Busy, MoreTasks
  <2>10. /\ g2.s = s /\ g2.legs = g.legs
         /\ g.i + 1 < l.n => g2.k = g.k /\ g2.i = g.i + 1
         /\ ~(g.i + 1 < l.n) => g2.k = g.k + 1 /\ g2.i = 0
         /\ RollbackSlot(g2)
    <3>1. CASE g.i + 1 < l.n
      BY <1>0, <2>2, <2>9, <3>1 DEF RollbackSlot
    <3>2. CASE ~(g.i + 1 < l.n)
      <4>1. PICK k2 \in Nat \ {0} : k2 = g.k + 1
        BY <1>1
      <4>2. g2 = [g EXCEPT !.k = k2, !.i = 0]
        BY <2>9, <3>2, <4>1
      <4>3. /\ g2.s = g.s /\ g2.legs = g.legs /\ g2.k = k2 /\ g2.i = 0
            /\ RollbackSlot(g2)
        BY <1>0, <4>2 DEF RollbackSlot
      <4> QED
        BY <2>2, <3>2, <4>1, <4>3
    <3> QED
      BY <3>1, <3>2
  <2>11. granted' = granted
    BY <1>3 DEF rollback
  <2>12. Cancelling(p, g)
    BY <2>1, <2>2, <2>8, <2>9, <2>10, <2>11 DEF Cancelling
  <2> QED
    BY <1>0, <2>7, <2>12
<1> QED
  BY <1>2, <1>3

(* Positions in the legs, and tasks in a leg.                              *)
LEMMA NextIndex ==
  ASSUME NEW n \in Nat, NEW k \in 1 .. n, k < n
  PROVE  k + 1 \in Nat /\ k + 1 \in 1 .. n
  OBVIOUS

(* The place of a task in the leg that covers its index.                   *)
LEMMA TaskWithin ==
  ASSUME NEW t \in Nat, NEW f \in Nat, NEW n \in Nat, f <= t, t < f + n
  PROVE  t - f \in 0 .. (n - 1)
  OBVIOUS

(* A handler past its gate.                                                *)
LEMMA PastGate ==
  ASSUME Types, NEW p \in Handlers, NEW g, g = h[p], g.op \in BindOps \cup DoneOps
  PROVE  /\ g.s \in Subs /\ g.j \in Jobs /\ g.j[1] = g.s
         /\ Whole(g.s, g.legs) /\ Placed(g.s, g.legs) /\ g.legs \in Seq(LegRecord)
         /\ Len(g.legs) \in Nat /\ Len(g.legs) > 0 /\ g.k \in 1 .. Len(g.legs)
         /\ Routes(g)
<1>1. Slot(g) /\ Routes(g)
  BY GateSlot
<1>2. /\ g.s \in Subs /\ g.j \in Jobs /\ g.j[1] = g.s
      /\ Whole(g.s, g.legs) /\ g.k \in 1 .. Len(g.legs)
  BY <1>1, SlotFields DEF BindOps, DoneOps
<1>3. Placed(g.s, g.legs) /\ g.legs \in Seq(LegRecord) /\ Len(g.legs) > 0
  BY <1>2 DEF Whole, Placed
<1>4. Len(g.legs) \in Nat
  BY <1>3
<1> QED
  BY <1>1, <1>2, <1>3, <1>4

(* One turn of the loop that reprices the legs of a job.                   *)
LEMMA RepriceStep ==
  ASSUME Types, NEW p \in Handlers, NEW g, g = h[p], bindReprice(p)
  PROVE  /\ BindSlot(g) /\ g.op = "reprice"
         /\ Budgets' /\ faults' \in SUBSET UNION Faults /\ Repricing(p, g)
<1>0. BindSlot(g) /\ g.op = "reprice" /\ ~IsArray(g.s) /\ NodeRate(g.s) > 0
  <2>1. g.op = "reprice"
    BY DEF bindReprice
  <2>2. BindSlot(g)
    BY <2>1, GateSlot, SlotKind DEF BindOps
  <2> QED
    BY <2>1, <2>2 DEF BindSlot
<1>1. /\ g.s \in Subs /\ Placed(g.s, g.legs) /\ g.k \in 1 .. Len(g.legs)
      /\ Len(g.legs) \in Nat
  BY <1>0, PastGate DEF BindOps
<1>2. PICK s, l, a, key, c : /\ s = g.s /\ l = g.legs[g.k] /\ a = l.a /\ key = l.key
                             /\ c = NodeRate(g.s)
  OBVIOUS
<1>3. /\ s \in Subs /\ a \in Accounts /\ key[1] = s /\ c \in Nat /\ c > 0
      /\ bds[a] \in PlainRecord(a)
  BY <1>0, <1>1, <1>2, LegAt, RateNat, SMTT(30) DEF Types, Budgets, NodeRate
<1>4. PICK wal, r :
        /\ wal \in Wals("bind")
        /\ r = Reprice(bds[a], key, c, clock, wal)
        /\ Call(a, r, s, "bind", wal)
  BY <1>2 DEF bindReprice
<1>5. /\ wal \in BOOLEAN /\ faults' \in SUBSET UNION Faults
      /\ wal = FALSE => "bind" \in faults'
  BY <1>4, FaultNext DEF Types
<1>6. PICK x : x = <<key, -1>>
  OBVIOUS
<1>7. /\ r.bd \in PlainRecord(a)
      /\ \/ r.bd = bds[a]
         \/ /\ x \in Open(bds[a]) \ Bound(bds[a]) /\ c <= ItemRate(bds[a], x)
            /\ Lowers(bds[a], r.bd, x, c)
      /\ ( /\ wal = TRUE /\ x \in Open(bds[a]) \ Bound(bds[a])
           /\ c > 0 /\ c <= ItemRate(bds[a], x) ) => Lowers(bds[a], r.bd, x, c)
  <2>1. c \in Int
    BY <1>3
  <2>2. r = Reprice(bds[a], key, c, clock, wal) /\ wal \in BOOLEAN
    BY <1>4, <1>5
  <2>3. /\ r.bd \in PlainRecord(a)
        /\ \/ r.bd = bds[a]
           \/ /\ <<key, -1>> \in Open(bds[a]) \ Bound(bds[a])
              /\ c <= ItemRate(bds[a], <<key, -1>>)
              /\ Lowers(bds[a], r.bd, <<key, -1>>, c)
        /\ ( /\ wal = TRUE /\ <<key, -1>> \in Open(bds[a]) \ Bound(bds[a])
             /\ c > 0 /\ c <= ItemRate(bds[a], <<key, -1>>) ) =>
             Lowers(bds[a], r.bd, <<key, -1>>, c)
    BY <1>3, <2>1, <2>2, RepriceDoes
  <2> QED
    BY <1>6, <2>3
<1>8. PICK y : y = <<a, x>>
  OBVIOUS
<1>9. x[1][1] = s /\ y = LegItem(g.s, g.legs[g.k], 0)
  BY <1>0, <1>2, <1>3, <1>6, <1>8 DEF LegItem
<1>10. /\ Budgets'
       /\ \/ Lowered(s, y, c) /\ c <= RateOf(y)
          \/ /\ Quiet
             /\ \/ "bind" \in faults'
                \/ y \notin ItemsOf(s) \ LitsOf(s) \/ RateOf(y) < c
  <2>1. CASE /\ x \in Open(bds[a]) \ Bound(bds[a]) /\ c <= ItemRate(bds[a], x)
             /\ Lowers(bds[a], r.bd, x, c)
    <3>1. Budgets' /\ Lowered(s, <<a, x>>, c)
      BY <1>3, <1>4, <1>7, <1>9, <2>1, LiftLowers DEF Types
    <3>2. RateOf(y) = ItemRate(bds[a], x)
      BY <1>8 DEF RateOf
    <3> QED
      BY <1>8, <2>1, <3>1, <3>2
  <2>2. CASE /\ r.bd = bds[a]
             /\ ~( /\ x \in Open(bds[a]) \ Bound(bds[a]) /\ c <= ItemRate(bds[a], x)
                   /\ Lowers(bds[a], r.bd, x, c) )
    <3>1. Budgets' /\ Quiet
      BY <1>3, <1>4, <2>2, LiftNone DEF Types
    <3>2. CASE wal = FALSE
      BY <1>5, <3>1, <3>2
    <3>3. CASE wal = TRUE
      <4>1. x \notin Open(bds[a]) \ Bound(bds[a]) \/ ~(c <= ItemRate(bds[a], x))
        BY <1>3, <1>7, <2>2, <3>3
      <4>2. y \in ItemsOf(s) \ LitsOf(s) => x \in Open(bds[a]) \ Bound(bds[a])
        BY <1>8, ItemIs DEF LitsOf
      <4>3. y \in ItemsOf(s) => RateOf(y) \in Nat
        BY <1>3, ItemParts DEF Types
      <4>4. RateOf(y) = ItemRate(bds[a], x)
        BY <1>8 DEF RateOf
      <4>5. y \notin ItemsOf(s) \ LitsOf(s) \/ RateOf(y) < c
        BY <1>3, <4>1, <4>2, <4>3, <4>4
      <4> QED
        BY <3>1, <4>5
    <3> QED
      BY <1>5, <3>2, <3>3
  <2> QED
    BY <1>7, <2>1, <2>2
<1>11. PICK g2 : /\ h' = [h EXCEPT ![p] = g2]
                 /\ g2 = IF g.k < Len(g.legs) THEN [g EXCEPT !.k = g.k + 1]
                         ELSE [g EXCEPT !.op = "start", !.k = 1]
  BY DEF bindReprice, Busy
<1>12. /\ BindSlot(g2) /\ g2.s = g.s /\ g2.legs = g.legs /\ g2.j = g.j
       /\ g.k < Len(g.legs) => g2.op = "reprice" /\ g2.k = g.k + 1
       /\ g.k = Len(g.legs) => g2.op = "start" /\ g2.k = 1
  <2>1. CASE g.k < Len(g.legs)
    <3>0. g.k + 1 \in Nat /\ g.k + 1 \in 1 .. Len(g.legs)
      BY <1>1, <2>1, NextIndex
    <3>1. PICK k2 \in Nat : k2 = g.k + 1 /\ k2 \in 1 .. Len(g.legs)
      BY <3>0
    <3>2. g2 = [g EXCEPT !.k = k2]
      BY <1>11, <2>1, <3>1
    <3>3. /\ g2.s = g.s /\ g2.legs = g.legs /\ g2.j = g.j /\ g2.op = g.op /\ g2.k = k2
          /\ BindSlot(g2)
      BY <1>0, <3>1, <3>2 DEF BindSlot
    <3> QED
      BY <1>0, <1>1, <2>1, <3>1, <3>3
  <2>2. CASE g.k = Len(g.legs)
    <3>1. g2 = [g EXCEPT !.op = "start", !.k = 1] /\ 1 \in 1 .. Len(g.legs)
      BY <1>1, <1>11, <2>2
    <3>2. /\ g2.s = g.s /\ g2.legs = g.legs /\ g2.j = g.j /\ g2.op = "start" /\ g2.k = 1
          /\ BindSlot(g2)
      BY <1>0, <3>1 DEF BindSlot, BindOps
    <3> QED
      BY <1>1, <2>2, <3>2
  <2> QED
    BY <1>1, <2>1, <2>2
<1>13. Repricing(p, g)
  BY <1>2, <1>9, <1>10, <1>11, <1>12 DEF Repricing
<1> QED
  BY <1>0, <1>5, <1>10, <1>13

(* It has one.                                                             *)
LEMMA JobItem ==
  ASSUME Types, NEW p \in Handlers, NEW g, g = h[p], g.op \in BindOps \cup DoneOps
  PROVE  /\ LegOf(g) \in 1 .. Len(g.legs)
         /\ IsArray(g.s) =>
              /\ g.j[2] - g.legs[LegOf(g)].first \in 0 .. (g.legs[LegOf(g)].n - 1)
              /\ g.j[2] \in Nat
         /\ ItemOf(g) \in Slice(g.s, g.legs[LegOf(g)])
<1>1. /\ g.s \in Subs /\ g.j \in Jobs /\ g.j[1] = g.s
      /\ Whole(g.s, g.legs) /\ Placed(g.s, g.legs) /\ g.k \in 1 .. Len(g.legs)
  BY PastGate
<1>2. PICK k, t : k = LegOf(g) /\ t = g.j[2]
  OBVIOUS
<1>3. CASE IsArray(g.s)
  <2>1. t \in 0 .. (Submissions[g.s].n - 1) /\ Submissions[g.s].n \in Nat
    BY <1>1, <1>2, JobIs, SubIs DEF SubRecord
  <2>2. k = legForTask(g.legs, t)
    BY <1>2, <1>3 DEF LegOf
  <2>3. /\ k \in 1 .. Len(g.legs) /\ g.legs[k].first <= t
        /\ t < g.legs[k].first + g.legs[k].n
    BY <1>1, <1>3, <2>1, <2>2, LegForTask
  <2>4. g.legs[k].first \in Nat /\ g.legs[k].n \in Nat
    BY <1>1, <2>3, LegAt
  <2>5. t \in Nat /\ t - g.legs[k].first \in 0 .. (g.legs[k].n - 1)
    <3>1. t \in Nat
      BY <2>1
    <3> QED
      BY <2>3, <2>4, <3>1, TaskWithin
  <2>6. ItemOf(g) = <<g.legs[k].a, <<g.legs[k].key, t - g.legs[k].first>> >>
    BY <1>2, <1>3 DEF ItemOf, LegItem
  <2>7. ItemOf(g) \in Slice(g.s, g.legs[k])
    BY <1>3, <2>5, <2>6 DEF Slice
  <2> QED
    BY <1>2, <2>3, <2>5, <2>7
<1>4. CASE ~IsArray(g.s)
  <2>1. k = g.k
    BY <1>2, <1>4 DEF LegOf
  <2>2. ItemOf(g) = <<g.legs[k].a, <<g.legs[k].key, -1>> >>
    BY <1>2, <1>4 DEF ItemOf, LegItem
  <2>3. ItemOf(g) \in Slice(g.s, g.legs[k])
    BY <1>4, <2>2 DEF Slice
  <2> QED
    BY <1>1, <1>2, <1>4, <2>1, <2>3
<1> QED
  BY <1>3, <1>4

(* One turn of the loop that starts the legs, or the start of one task.    *)
LEMMA StartStep ==
  ASSUME Types, NEW p \in Handlers, NEW g, g = h[p], bindStart(p)
  PROVE  /\ BindSlot(g) /\ g.op = "start"
         /\ Budgets' /\ faults' \in SUBSET UNION Faults /\ Starting(p, g)
<1>0. BindSlot(g) /\ g.op = "start" /\ g.op \in BindOps \cup DoneOps
  <2>1. g.op = "start"
    BY DEF bindStart
  <2>2. BindSlot(g)
    BY <2>1, GateSlot, SlotKind DEF BindOps
  <2> QED
    BY <2>1, <2>2 DEF BindOps
<1>1. /\ g.s \in Subs /\ Placed(g.s, g.legs) /\ g.k \in 1 .. Len(g.legs)
      /\ Len(g.legs) \in Nat
  BY <1>0, PastGate
<1>2. /\ LegOf(g) \in 1 .. Len(g.legs)
      /\ IsArray(g.s) =>
           /\ g.j[2] - g.legs[LegOf(g)].first \in 0 .. (g.legs[LegOf(g)].n - 1)
           /\ g.j[2] \in Nat
  BY <1>0, JobItem
<1>3. PICK s, l, a, key, i : /\ s = g.s /\ l = g.legs[LegOf(g)] /\ a = l.a
                             /\ key = l.key /\ i = g.j[2] - l.first
  OBVIOUS
<1>4. /\ s \in Subs /\ a \in Accounts /\ key[1] = s /\ bds[a] \in PlainRecord(a)
      /\ IsArray(s) => i \in Int /\ i # -1
  <2>1. l.a \in Accounts /\ l.key[1] = s /\ l.n \in Nat
    BY <1>1, <1>2, <1>3, LegAt
  <2>2. IsArray(s) => i \in 0 .. (l.n - 1)
    BY <1>2, <1>3
  <2>3. IsArray(s) => i \in Int /\ i # -1
    BY <2>1, <2>2, SMTT(30)
  <2> QED
    BY <1>1, <1>3, <2>1, <2>3 DEF Types, Budgets
<1>5. PICK wal, r :
        /\ wal \in Wals("bind")
        /\ r = IF IsArray(s) THEN StartTask(bds[a], key, i, clock, wal)
               ELSE Start(bds[a], key, clock, wal)
        /\ Call(a, r, s, "bind", wal)
  BY <1>3 DEF bindStart, LegOf
<1>6. /\ wal \in BOOLEAN /\ faults' \in SUBSET UNION Faults
      /\ wal = FALSE => "bind" \in faults'
  BY <1>5, FaultNext DEF Types
<1>7. PICK x : x = <<key, IF IsArray(s) THEN i ELSE -1>>
  OBVIOUS
<1>8. /\ r.bd \in PlainRecord(a)
      /\ r.bd = bds[a] \/ Lights(bds[a], r.bd, x)
      /\ wal = TRUE => Lights(bds[a], r.bd, x)
  <2>0. wal \in BOOLEAN
    BY <1>6
  <2>1. CASE IsArray(s)
    <3>1. r = StartTask(bds[a], key, i, clock, wal) /\ x = <<key, i>>
      BY <1>5, <1>7, <2>1
    <3>2. i \in Int /\ i # -1 /\ bds[a] \in PlainRecord(a)
      BY <1>4, <2>1
    <3>3. /\ r.bd \in PlainRecord(a)
          /\ r.bd = bds[a] \/ Lights(bds[a], r.bd, <<key, i>>)
          /\ wal = TRUE => Lights(bds[a], r.bd, <<key, i>>)
      BY <2>0, <3>1, <3>2, StartTaskDoes
    <3> QED
      BY <3>1, <3>3
  <2>2. CASE ~IsArray(s)
    <3>1. r = Start(bds[a], key, clock, wal) /\ x = <<key, -1>>
      BY <1>5, <1>7, <2>2
    <3>2. bds[a] \in PlainRecord(a)
      BY <1>4
    <3>3. /\ r.bd \in PlainRecord(a)
          /\ r.bd = bds[a] \/ Lights(bds[a], r.bd, <<key, -1>>)
          /\ wal = TRUE => Lights(bds[a], r.bd, <<key, -1>>)
      BY <2>0, <3>1, <3>2, StartDoes
    <3> QED
      BY <3>1, <3>3
  <2> QED
    BY <2>1, <2>2
<1>9. x[1][1] = s /\ <<a, x>> = ItemOf(g)
  BY <1>3, <1>4, <1>7 DEF ItemOf, LegItem
<1>10. Budgets' /\ (Lit(s, <<a, x>>) \/ (Quiet /\ "bind" \in faults'))
  <2>1. CASE Lights(bds[a], r.bd, x)
    BY <1>4, <1>5, <1>8, <1>9, <2>1, LiftLights DEF Types
  <2>2. CASE r.bd = bds[a] /\ wal = FALSE
    <3>1. Budgets' /\ Quiet
      BY <1>4, <1>5, <2>2, LiftNone, SMTT(30) DEF Types
    <3> QED
      BY <1>6, <2>2, <3>1
  <2> QED
    BY <1>6, <1>8, <2>1, <2>2
<1>11. PICK g2 : /\ h' = [h EXCEPT ![p] = g2]
                 /\ g2 = IF IsArray(g.s) \/ g.k = Len(g.legs) THEN Idle
                         ELSE [g EXCEPT !.k = g.k + 1]
  BY DEF bindStart, Busy
<1>12. ASSUME ~IsArray(g.s), g.k < Len(g.legs)
       PROVE  /\ BindSlot(g2) /\ g2.s = g.s /\ g2.legs = g.legs /\ g2.j = g.j
              /\ g2.op = "start" /\ g2.k = g.k + 1
  <2>0. g.k + 1 \in Nat /\ g.k + 1 \in 1 .. Len(g.legs)
    BY <1>1, <1>12, NextIndex
  <2>1. PICK k2 \in Nat : k2 = g.k + 1 /\ k2 \in 1 .. Len(g.legs)
    BY <2>0
  <2>2. g2 = [g EXCEPT !.k = k2]
    BY <1>1, <1>11, <1>12, <2>1
  <2>3. /\ g2.s = g.s /\ g2.legs = g.legs /\ g2.j = g.j /\ g2.op = g.op /\ g2.k = k2
        /\ BindSlot(g2)
    BY <1>0, <2>1, <2>2 DEF BindSlot
  <2> QED
    BY <1>0, <2>1, <2>3
<1>13. Starting(p, g)
  BY <1>3, <1>9, <1>10, <1>11, <1>12 DEF Starting
<1> QED
  BY <1>0, <1>6, <1>10, <1>13

(* The share of a runtime that a leg is billed for.                        *)
LEMMA LegRuntimeNat ==
  ASSUME NEW s \in Subs, NEW L, Placed(s, L), NEW k \in 1 .. Len(L), NEW rt \in Int
  PROVE  legRuntime(L, k, rt) \in Nat
<1> DEFINE F == [i \in 1 .. (k - 1) |-> L[i].w]
<1>1. Len(L) \in Nat /\ L[k].w \in Nat
  <2>1. L \in Seq(LegRecord)
    BY DEF Placed
  <2> QED
    BY <2>1, LegAt
<1>2. \A i \in 1 .. (k - 1) : F[i] \in Nat
  <2>1. \A i \in 1 .. (k - 1) : i \in 1 .. Len(L)
    BY <1>1
  <2> QED
    BY <2>1, LegAt
<1>3. IsFiniteSet(1 .. (k - 1))
  <2>1. 1 \in Int /\ k - 1 \in Int
    BY <1>1
  <2> QED
    BY <2>1, FS_Interval
<1>4. Total(F) \in Nat
  <2>1. Family(F)
    BY <1>2, <1>3 DEF Family
  <2> QED
    BY <2>1, CoinsFinite
<1>5. PICK m : m = Total(F)
  OBVIOUS
<1>6. (IF rt < 0 THEN 0 ELSE rt) - m \in Int
  BY <1>4, <1>5
<1>7. legRuntime(L, k, rt) = Clamp((IF rt < 0 THEN 0 ELSE rt) - m, L[k].w)
  BY <1>5 DEF legRuntime
<1> QED
  BY <1>1, <1>6, <1>7, ClampNat

(* What a job reports.                                                     *)
LEMMA ReportIs ==
  ASSUME NEW r \in Reports
  PROVE  /\ r[1] \in {"complete", "timeout", "cancel", "infrafail"} /\ r[2] \in Int
         /\ r[1] # "none"
  BY SeamAssumption

(* One turn of the loop that settles the legs of a job.                    *)
LEMMA SettleLegDoes ==
  ASSUME Types, NEW p \in Handlers, NEW g, g = h[p], settleLeg(p)
  PROVE  /\ DoneSlot(g) /\ g.op = "settle" /\ g.task = FALSE
         /\ Budgets' /\ faults' \in SUBSET UNION Faults /\ SettlingLeg(p, g)
<1>0. DoneSlot(g) /\ g.op = "settle" /\ g.op \in BindOps \cup DoneOps /\ g.task = FALSE
  <2>1. g.op = "settle" /\ ~g.task
    BY DEF settleLeg
  <2>2. DoneSlot(g)
    BY <2>1, GateSlot, SlotKind DEF DoneOps
  <2>3. g.task \in BOOLEAN
    BY <2>2 DEF DoneSlot
  <2> QED
    BY <2>1, <2>2, <2>3, SMTT(30) DEF DoneOps
<1>1. /\ g.s \in Subs /\ Placed(g.s, g.legs) /\ g.k \in 1 .. Len(g.legs)
      /\ Len(g.legs) \in Nat /\ Routes(g)
  BY <1>0, PastGate
<1>2. /\ report[g.j][1] \in {"complete", "timeout", "cancel", "infrafail"}
      /\ report[g.j][2] \in Int
  <2>1. report[g.j] \in Reports
    BY <1>0, <1>1 DEF Routes, DoneOps
  <2> QED
    BY <2>1, ReportIs
<1>3. LegShare(g) \in Int
  <2>1. legRuntime(g.legs, g.k, report[g.j][2]) \in Nat
    BY <1>1, <1>2, LegRuntimeNat
  <2> QED
    BY <1>2, <2>1 DEF LegShare
<1>4. PICK s, l, a, key, kind, rt : /\ s = g.s /\ l = g.legs[g.k] /\ a = l.a
                                    /\ key = l.key /\ kind = report[g.j][1]
                                    /\ rt = LegShare(g)
  OBVIOUS
<1>5. /\ s \in Subs /\ a \in Accounts /\ key[1] = s /\ bds[a] \in PlainRecord(a)
      /\ rt \in Int /\ kind \in {"complete", "timeout", "cancel", "infrafail"}
  BY <1>1, <1>2, <1>3, <1>4, LegAt, SMTT(30) DEF Types, Budgets
<1>6. PICK wal, r, g2 :
        /\ wal \in Wals("settle")
        /\ r = SettleJob(bds[a], key, kind, rt, wal)
        /\ Call(a, r, s, "settle", wal)
        /\ h' = [h EXCEPT ![p] = g2]
        /\ g2 = IF g.k < Len(g.legs) THEN [g EXCEPT !.k = g.k + 1]
                ELSE IF r.ok \/ IsMulti(g.s) THEN [g EXCEPT !.op = "drop"]
                ELSE Idle
  BY <1>4 DEF settleLeg, Busy, LegShare
<1>7. PICK x, y, used : /\ x = <<key, -1>> /\ y = <<a, x>>
                        /\ used = RateOf(y) * Due(bds[y[1]], y[2], kind, rt)
  OBVIOUS
<1>8. Exits(a, bds[a], x, wal, used, r)
  <2>1. wal \in BOOLEAN /\ r = SettleJob(bds[a], key, kind, rt, wal)
    BY <1>6, FaultNext DEF Types
  <2>2. Exits(a, bds[a], <<key, -1>>, wal,
              ItemRate(bds[a], <<key, -1>>) * Due(bds[a], <<key, -1>>, kind, rt), r)
    BY <1>5, <2>1, SettleJobDoes
  <2>3. used = ItemRate(bds[a], x) * Due(bds[a], x, kind, rt)
    BY <1>7 DEF RateOf
  <2> QED
    BY <1>7, <2>2, <2>3
<1>9. /\ Budgets' /\ faults' \in SUBSET UNION Faults
      /\ \/ r.ok = TRUE /\ Shut(s, y, used) /\ faults' = faults
         \/ /\ r.ok = FALSE /\ Quiet
            /\ y \notin ItemsOf(s) \/ "settle" \in faults'
  <2>1. x[1][1] = s
    BY <1>5, <1>7
  <2> QED
    BY <1>5, <1>6, <1>7, <1>8, <2>1, ExitDoes DEF Types
<1>10. ASSUME g.k < Len(g.legs) PROVE MovesOn(g, g2)
  <2>0. g.k + 1 \in Nat /\ g.k + 1 \in 1 .. Len(g.legs)
    BY <1>1, <1>10, NextIndex
  <2>1. PICK k2 \in Nat : k2 = g.k + 1 /\ k2 \in 1 .. Len(g.legs)
    BY <2>0
  <2>2. g2 = [g EXCEPT !.k = k2]
    BY <1>6, <1>10, <2>1
  <2>3. /\ g2.s = g.s /\ g2.legs = g.legs /\ g2.j = g.j /\ g2.op = g.op /\ g2.k = k2
        /\ g2.task = g.task /\ DoneSlot(g2)
    BY <1>0, <2>1, <2>2 DEF DoneSlot
  <2> QED
    BY <1>0, <1>1, <1>10, <2>1, <2>3 DEF MovesOn
<1>11. ASSUME g.k = Len(g.legs), r.ok = TRUE \/ IsMulti(g.s) PROVE MovesOn(g, g2)
  <2>1. g2 = [g EXCEPT !.op = "drop"]
    BY <1>1, <1>6, <1>11
  <2>2. /\ g2.s = g.s /\ g2.legs = g.legs /\ g2.j = g.j /\ g2.op = "drop" /\ g2.k = g.k
        /\ g2.task = g.task /\ DoneSlot(g2)
    BY <1>0, <2>1 DEF DoneSlot, DoneOps
  <2> QED
    BY <1>1, <1>11, <2>2 DEF MovesOn
<1>12. ASSUME g.k = Len(g.legs), r.ok = FALSE, ~IsMulti(g.s) PROVE g2 = Idle
  BY <1>1, <1>6, <1>12
<1>13. g.k < Len(g.legs) \/ g.k = Len(g.legs)
  BY <1>1
<1>14. \/ Shut(s, y, used) /\ faults' = faults /\ MovesOn(g, g2)
       \/ /\ Quiet /\ (y \notin ItemsOf(s) \/ "settle" \in faults')
          /\ \/ MovesOn(g, g2) /\ (g.k < Len(g.legs) \/ IsMulti(g.s))
             \/ g2 = Idle /\ ~IsMulti(g.s) /\ g.k = Len(g.legs)
  BY <1>9, <1>10, <1>11, <1>12, <1>13
<1>15. /\ s = g.s /\ y = <<g.legs[g.k].a, <<g.legs[g.k].key, -1>> >>
       /\ used = LegBill(g, y)
  BY <1>4, <1>7 DEF LegBill
<1>16. SettlingLeg(p, g)
  BY <1>6, <1>14, <1>15 DEF SettlingLeg
<1> QED
  BY <1>0, <1>9, <1>16

(* The settle of one task of an array.                                     *)
LEMMA SettleTaskStep ==
  ASSUME Types, NEW p \in Handlers, NEW g, g = h[p], settleArrayTask(p)
  PROVE  /\ DoneSlot(g) /\ g.op = "settle" /\ g.task = TRUE /\ IsArray(g.s)
         /\ Budgets' /\ faults' \in SUBSET UNION Faults /\ SettlingTask(p, g)
<1>0. /\ DoneSlot(g) /\ g.op = "settle" /\ g.op \in BindOps \cup DoneOps
      /\ g.task = TRUE /\ IsArray(g.s)
  <2>1. g.op = "settle" /\ g.task
    BY DEF settleArrayTask
  <2>2. DoneSlot(g)
    BY <2>1, GateSlot, SlotKind DEF DoneOps
  <2>3. g.task \in BOOLEAN
    BY <2>2 DEF DoneSlot
  <2>4. g.task = TRUE
    BY <2>1, <2>3
  <2> QED
    BY <2>1, <2>2, <2>4 DEF DoneOps, DoneSlot
<1>1. g.s \in Subs /\ Placed(g.s, g.legs) /\ Routes(g)
  BY <1>0, PastGate
<1>2. /\ report[g.j][1] \in {"complete", "timeout", "cancel", "infrafail"}
      /\ report[g.j][2] \in Int
  <2>1. report[g.j] \in Reports
    BY <1>0, <1>1 DEF Routes, DoneOps
  <2> QED
    BY <2>1, ReportIs
<1>3. /\ LegOf(g) \in 1 .. Len(g.legs)
      /\ g.j[2] - g.legs[LegOf(g)].first \in 0 .. (g.legs[LegOf(g)].n - 1)
  BY <1>0, JobItem
<1>4. PICK s, l, a, key, i, kind, rt :
        /\ s = g.s /\ l = g.legs[LegOf(g)] /\ a = l.a /\ key = l.key
        /\ i = g.j[2] - l.first /\ kind = report[g.j][1] /\ rt = report[g.j][2]
  OBVIOUS
<1>5. /\ s \in Subs /\ a \in Accounts /\ key[1] = s /\ bds[a] \in PlainRecord(a)
      /\ rt \in Int /\ kind \in {"complete", "timeout", "cancel", "infrafail"}
      /\ i \in Int /\ i # -1
  <2>1. l.a \in Accounts /\ l.key[1] = s /\ l.n \in Nat
    BY <1>1, <1>3, <1>4, LegAt
  <2>2. i \in 0 .. (l.n - 1)
    BY <1>3, <1>4
  <2>3. i \in Int /\ i # -1
    BY <2>1, <2>2, SMTT(30)
  <2> QED
    BY <1>1, <1>2, <1>4, <2>1, <2>3 DEF Types, Budgets
<1>6. PICK wal, r, g2 :
        /\ wal \in Wals("settle")
        /\ r = SettleTask(bds[a], key, i, kind, rt, wal)
        /\ Call(a, r, s, "settle", wal)
        /\ h' = [h EXCEPT ![p] = g2]
        /\ g2 = IF r.ok THEN [g EXCEPT !.op = "drop"] ELSE Idle
  BY <1>0, <1>4 DEF settleArrayTask, Busy, LegOf
<1>7. PICK x, y, used : /\ x = <<key, i>> /\ y = <<a, x>>
                        /\ used = RateOf(y) * Due(bds[y[1]], y[2], kind, rt)
  OBVIOUS
<1>8. Exits(a, bds[a], x, wal, used, r)
  <2>1. wal \in BOOLEAN /\ r = SettleTask(bds[a], key, i, kind, rt, wal)
    BY <1>6, FaultNext DEF Types
  <2>2. Exits(a, bds[a], <<key, i>>, wal,
              ItemRate(bds[a], <<key, i>>) * Due(bds[a], <<key, i>>, kind, rt), r)
    BY <1>5, <2>1, SettleTaskKinds
  <2>3. used = ItemRate(bds[a], x) * Due(bds[a], x, kind, rt)
    BY <1>7 DEF RateOf
  <2> QED
    BY <1>7, <2>2, <2>3
<1>9. /\ Budgets' /\ faults' \in SUBSET UNION Faults
      /\ \/ r.ok = TRUE /\ Shut(s, y, used) /\ faults' = faults
         \/ /\ r.ok = FALSE /\ Quiet
            /\ y \notin ItemsOf(s) \/ "settle" \in faults'
  <2>1. x[1][1] = s
    BY <1>5, <1>7
  <2> QED
    BY <1>5, <1>6, <1>7, <1>8, <2>1, ExitDoes DEF Types
<1>10. y = ItemOf(g) /\ used = TaskBill(g)
  <2>1. y = ItemOf(g)
    BY <1>0, <1>4, <1>7 DEF ItemOf, LegItem
  <2> QED
    BY <1>4, <1>7, <2>1 DEF TaskBill
<1>11. ASSUME r.ok = TRUE
       PROVE  /\ DoneSlot(g2) /\ g2.s = g.s /\ g2.legs = g.legs /\ g2.j = g.j
              /\ g2.task = g.task /\ g2.op = "drop"
  <2>1. g2 = [g EXCEPT !.op = "drop"]
    BY <1>6, <1>11
  <2> QED
    BY <1>0, <2>1 DEF DoneSlot, DoneOps
<1>12. r.ok = FALSE => g2 = Idle
  BY <1>6, SMTT(30)
<1>13. SettlingTask(p, g)
  BY <1>4, <1>6, <1>9, <1>10, <1>11, <1>12 DEF SettlingTask
<1> QED
  BY <1>0, <1>9, <1>13

(* A janitor refunds one item in full, unless it is gone or the append     *)
(* fails.                                                                  *)
LEMMA RefundDoes ==
  ASSUME Types, NEW a \in Accounts, NEW item \in Items, NEW wal \in Wals("sweep"),
         Refund(a, item, wal)
  PROVE  LET s == item[1][1]
         IN  /\ s \in Subs /\ Budgets' /\ faults' \in SUBSET UNION Faults
             /\ Closes(s, <<a, item>>, 0, "sweep") /\ swept' = swept \cup {s}
<1>1. PICK s, key, i : /\ s = item[1][1] /\ key = item[1] /\ i = item[2]
  OBVIOUS
<1>2. /\ item = <<key, i>> /\ key \in Token /\ i \in Int /\ s \in Subs /\ key[1] = s
      /\ bds[a] \in PlainRecord(a)
  BY <1>1 DEF Items, Token, Types, Budgets
<1>3. PICK r : /\ r = IF i = -1 THEN Cancel(bds[a], key, 0, clock, wal)
                      ELSE CancelTask(bds[a], key, i, 0, clock, wal)
               /\ Call(a, r, s, "sweep", wal) /\ swept' = swept \cup {s}
  BY <1>1 DEF Refund
<1>4. Exits(a, bds[a], item, wal, 0, r)
  <2>1. wal \in BOOLEAN
    BY <1>3, FaultNext DEF Types
  <2>2. CASE i = -1
    BY <1>2, <1>3, <2>1, <2>2, CancelDoes
  <2>3. CASE i # -1
    <3>1. r = CancelTask(bds[a], key, i, 0, clock, wal)
      BY <1>3, <2>3
    <3> QED
      BY <1>2, <2>1, <2>3, <3>1, CancelTaskDoes
  <2> QED
    BY <2>2, <2>3
<1>5. /\ Budgets' /\ faults' \in SUBSET UNION Faults
      /\ \/ r.ok = TRUE /\ Shut(s, <<a, item>>, 0) /\ faults' = faults
         \/ /\ r.ok = FALSE /\ Quiet
            /\ <<a, item>> \notin ItemsOf(s) \/ "sweep" \in faults'
  <2>1. PICK x : x = item
    OBVIOUS
  <2>2. /\ Budgets /\ World /\ s \in Subs /\ x[1][1] = s
        /\ Exits(a, bds[a], x, wal, 0, r) /\ Call(a, r, s, "sweep", wal)
    BY <1>1, <1>2, <1>3, <1>4, <2>1 DEF Types
  <2>3. /\ Budgets' /\ faults' \in SUBSET UNION Faults
        /\ \/ r.ok = TRUE /\ Shut(s, <<a, x>>, 0) /\ faults' = faults
           \/ /\ r.ok = FALSE /\ Quiet
              /\ <<a, x>> \notin ItemsOf(s) \/ "sweep" \in faults'
    BY <2>2, ExitDoes
  <2> QED
    BY <2>1, <2>3
<1> QED
  BY <1>1, <1>2, <1>3, <1>5 DEF Closes

-----------------------------------------------------------------------------
(* The types are inductive.                                                *)

(* A gate reads the next balance; with the last one it has a plan or       *)
(* rejects.                                                                *)
LEMMA ReadDoes ==
  ASSUME Types, NEW p \in Handlers, NEW g, g = h[p], readBalance(p)
  PROVE  ReadSlot(g) /\ Reading(p, g)
<1>0. ReadSlot(g)
  BY GateSlot, SlotKind DEF readBalance
<1>1. PICK s, sub, a, bal, plan :
        /\ s = g.s /\ sub = Submissions[s] /\ a = sub.sources[Len(g.bal) + 1]
        /\ bal = Append(g.bal, bds[a].B)
        /\ plan = IF IsArray(s) THEN fundingPlan(bal, g.c * sub.w, sub.n)
                  ELSE fundingPlan(bal, g.c, sub.w)
  OBVIOUS
<1>2. /\ s \in Subs /\ g.c \in Nat \ {0} /\ g.bal \in Seq(Int) /\ g.c = C0(s)
      /\ Len(g.bal) < Sources(s) /\ Len(g.bal) \in Nat
  BY <1>0, <1>1 DEF ReadSlot
<1>3. /\ Sources(s) = Len(sub.sources) /\ Sources(s) \in Nat /\ sub.n \in Nat
      /\ sub.w \in Nat /\ \A i \in 1 .. Sources(s) : sub.sources[i] \in Accounts
  BY <1>1, <1>2, SubIs, SMTT(30) DEF SubRecord, Sources
<1>4. bal \in Seq(Int) /\ Len(bal) = Len(g.bal) + 1
  <2>1. Len(g.bal) + 1 \in 1 .. Sources(s)
    BY <1>2, <1>3, SMTT(30)
  <2>2. a \in Accounts
    BY <1>1, <1>3, <2>1
  <2>3. bds[a].B \in Int
    BY <2>2, PlainFields DEF Types, Budgets
  <2> QED
    BY <1>1, <1>2, <2>3
<1>5. CASE Len(bal) < Sources(s)
  <2>1. PICK g2 : g2 = [g EXCEPT !.bal = bal]
    OBVIOUS
  <2>2. h' = [h EXCEPT ![p] = g2] /\ granted' = granted
    BY <1>1, <1>3, <1>5, <2>1 DEF readBalance, Busy
  <2>3. ReadSlot(g2) /\ g2.s = g.s
    BY <1>0, <1>1, <1>4, <1>5, <2>1 DEF ReadSlot
  <2> QED
    BY <1>0, <2>2, <2>3 DEF Reading
<1>6. CASE ~(Len(bal) < Sources(s)) /\ ~plan.fundable
  <2>1. h' = [h EXCEPT ![p] = Idle] /\ granted' = [granted EXCEPT ![g.s] = "rejected"]
    BY <1>1, <1>3, <1>6 DEF readBalance, Busy, Answer
  <2> QED
    BY <1>0, <2>1 DEF Reading
<1>7. CASE ~(Len(bal) < Sources(s)) /\ plan.fundable
  <2>1. PICK g2 : g2 = [op |-> "place", s |-> s, c |-> g.c, plan |-> plan.legs,
                        legs |-> <<>>, now |-> clock]
    OBVIOUS
  <2>2. h' = [h EXCEPT ![p] = g2] /\ granted' = granted
    BY <1>1, <1>3, <1>7, <2>1 DEF readBalance, Busy
  <2>3. PICK c, need : /\ c = IF IsArray(s) THEN g.c * sub.w ELSE g.c
                       /\ need = Need(s)
    OBVIOUS
  <2>4. c \in Int /\ need \in Int /\ plan = fundingPlan(bal, c, need)
    <3>1. CASE IsArray(s)
      <4>1. c = g.c * sub.w /\ need = sub.n /\ plan = fundingPlan(bal, g.c * sub.w, sub.n)
        BY <1>1, <2>3, <3>1, Zenon DEF Need
      <4>2. g.c * sub.w \in Int
        BY <1>2, <1>3
      <4> QED
        BY <1>3, <4>1, <4>2
    <3>2. CASE ~IsArray(s)
      <4>1. c = g.c /\ need = sub.w /\ plan = fundingPlan(bal, g.c, sub.w)
        BY <1>1, <2>3, <3>2, Zenon DEF Need
      <4> QED
        BY <1>2, <1>3, <4>1
    <3> QED
      BY <3>1, <3>2
  <2>5. PICK legs : legs = plan.legs
    OBVIOUS
  <2>6. /\ legs \in PlanLegs(Sources(s)) /\ Climbs(legs) /\ Len(legs) > 0
        /\ PSum(legs, Len(legs)) = need
    <3>1. Len(bal) = Sources(s)
      BY <1>2, <1>3, <1>4, <1>7, SMTT(30)
    <3>2. fundingPlan(bal, c, need).fundable
      BY <1>7, <2>4
    <3>3. LET L == fundingPlan(bal, c, need).legs
          IN  /\ L \in PlanLegs(Sources(s)) /\ Climbs(L) /\ Len(L) > 0
              /\ PSum(L, Len(L)) = need
      BY <1>3, <1>4, <2>4, <3>1, <3>2, PlanFunds
    <3> QED
      BY <2>4, <2>5, <3>3
  <2>7. PlanOK(s, legs)
    BY <2>3, <2>6 DEF PlanOK
  <2>8. Placed(s, <<>>) /\ Len(<<>>) = 0
    BY PlaceNone
  <2>9. Follows(s, <<>>, legs)
    BY <2>6, <2>8 DEF Follows
  <2>10. clock \in Nat
    BY SeamAssumption DEF Types, World
  <2>11. PlaceSlot(g2) /\ g2.s = g.s /\ g2.legs = <<>>
    <3>1. /\ g2.op = "place" /\ g2.s = s /\ g2.c = g.c /\ g2.plan = legs
          /\ g2.legs = <<>> /\ g2.now = clock
          /\ g2 \in [op : {"place"}, s : Subs, c : Nat \ {0},
                     plan : PlanLegs(Sources(s)), legs : Seq(LegRecord), now : Nat]
      BY <1>2, <2>1, <2>5, <2>6, <2>10
    <3> QED
      BY <1>1, <1>2, <2>7, <2>8, <2>9, <3>1 DEF PlaceSlot
  <2> QED
    BY <1>0, <2>2, <2>11 DEF Reading
<1> QED
  BY <1>5, <1>6, <1>7

(* A step that leaves the tables and what Slurm does alone.                *)
LEMMA TablesStay ==
  ASSUME Tables, UNCHANGED <<tables, slurm>>,
         \A s \in Subs : granted[s] = "yes" => granted'[s] = "yes"
  PROVE  Tables'
<1>1. /\ routes' = routes /\ jobToToken' = jobToToken /\ tokenArrayN' = tokenArrayN
      /\ slurm' = slurm
  BY DEF tables
<1>2. \A j \in Jobs : j[1] \in Subs
  BY JobIs
<1> QED
  BY <1>1, <1>2 DEF Tables

(* A step of a handler that goes on, on the budgets.                       *)
LEMMA GoesTypes ==
  ASSUME Types, NEW p \in Handlers, NEW g2, h' = [h EXCEPT ![p] = g2],
         GoesOn(h[p], g2), Budgets', faults' \in SUBSET UNION Faults,
         UNCHANGED <<clock, tables, sweep, recon, env, swept>>
  PROVE  Types'
<1>0. /\ granted' = granted /\ slurm' = slurm /\ report' = report /\ clock' = clock
      /\ routes' = routes /\ jobToToken' = jobToToken /\ tokenArrayN' = tokenArrayN
      /\ swept' = swept /\ sweep' = sweep /\ recon' = recon
  BY DEF env, tables
<1>1. World'
  BY <1>0 DEF Types, World
<1>2. Tables'
  <2>1. Tables /\ UNCHANGED <<tables, slurm>>
    BY <1>0 DEF Types
  <2> QED
    BY <1>0, <2>1, TablesStay
<1>3. Sweeping' /\ Reconciling'
  BY <1>0 DEF Types, Sweeping, Reconciling
<1>4. Steady
  BY <1>0 DEF Steady
<1>5. /\ h[p].op \in GateOps => granted[h[p].s] = "asked"
      /\ h[p].op \in BindOps \cup DoneOps => Routes(h[p])
  BY GateSlot
<1>6. /\ Slot(g2)
      /\ g2.op \in GateOps => h[p].op \in GateOps /\ h[p].s = g2.s
      /\ g2.op \in BindOps \cup DoneOps =>
           /\ h[p].op \in BindOps \cup DoneOps /\ g2.s = h[p].s /\ g2.legs = h[p].legs
           /\ g2.j = h[p].j /\ (g2.op \in BindOps => h[p].op \in BindOps)
           /\ g2.op \in DoneOps => h[p].op \in DoneOps
  <2>1. CASE g2 = Idle
    BY <2>1 DEF Slot, Idle, GateOps, BindOps, DoneOps
  <2>2. CASE Slot(g2) /\ g2.s = h[p].s /\ h[p].op \in GateOps /\ g2.op \in GateOps
    BY <2>2 DEF GateOps, BindOps, DoneOps
  <2>3. CASE /\ Slot(g2) /\ g2.s = h[p].s /\ g2.legs = h[p].legs /\ g2.j = h[p].j
             /\ h[p].op \in BindOps /\ g2.op \in BindOps
    BY <2>3 DEF GateOps, BindOps, DoneOps
  <2>4. CASE /\ Slot(g2) /\ g2.s = h[p].s /\ g2.legs = h[p].legs /\ g2.j = h[p].j
             /\ h[p].op \in DoneOps /\ g2.op \in DoneOps
    BY <2>4 DEF GateOps, BindOps, DoneOps
  <2> QED
    BY <2>1, <2>2, <2>3, <2>4 DEF GoesOn
<1>7. g2.op \in BindOps \cup DoneOps =>
        /\ granted'[g2.s] = "yes"
        /\ g2.s \in DOMAIN routes' => routes'[g2.s] = g2.legs
        /\ g2.op \in BindOps => slurm'[g2.j] \in {"running", "gone"}
        /\ g2.op \in DoneOps => slurm'[g2.j] = "gone" /\ report'[g2.j] \in Reports
  BY <1>0, <1>5, <1>6 DEF Routes
<1>8. g2.op \in GateOps =>
        /\ granted'[g2.s] = "asked"
        /\ granted[g2.s] # "asked" \/ (h[p].op \in GateOps /\ h[p].s = g2.s)
  BY <1>0, <1>5, <1>6
<1>9. Slots' /\ OneGate'
  <2>1. Slots /\ OneGate /\ Slot(g2)
    BY <1>6 DEF Types
  <2>2. \A s \in Subs : granted[s] = "asked" /\ granted'[s] # "asked" =>
          h[p].op \in GateOps /\ h[p].s = s
    BY <1>0
  <2> QED
    BY <1>4, <1>7, <1>8, <2>1, <2>2, SlotsStep
<1> QED
  BY <1>1, <1>2, <1>3, <1>9 DEF Types

(* A gate is asked, goes on or answers no.                                 *)
LEMMA GateTypes ==
  ASSUME Types, NEW p \in Handlers, NEW s \in Subs, NEW g2, NEW v,
         h' = [h EXCEPT ![p] = g2], granted' = [granted EXCEPT ![s] = v],
         \/ h[p] = Idle /\ granted[s] = "no"
         \/ h[p].op \in GateOps /\ h[p].s = s,
         \/ g2 = Idle /\ v = "rejected"
         \/ Slot(g2) /\ g2.op \in GateOps /\ g2.s = s /\ v = "asked",
         Budgets', faults' \in SUBSET UNION Faults,
         UNCHANGED <<clock, tables, sweep, recon, slurm, report, swept>>
  PROVE  Types'
<1>0. /\ slurm' = slurm /\ report' = report /\ clock' = clock
      /\ routes' = routes /\ jobToToken' = jobToToken /\ tokenArrayN' = tokenArrayN
      /\ swept' = swept /\ sweep' = sweep /\ recon' = recon
  BY DEF tables
<1>1. granted \in [Subs -> {"no", "asked", "yes", "rejected", "lost"}]
  BY DEF Types, World
<1>2. /\ granted' \in [Subs -> {"no", "asked", "yes", "rejected", "lost"}]
      /\ granted'[s] = v /\ \A t \in Subs \ {s} : granted'[t] = granted[t]
  BY <1>1
<1>3. World'
  BY <1>0, <1>2 DEF Types, World
<1>4. granted[s] \in {"no", "asked"}
  BY GateSlot
<1>5. \A t \in Subs : granted[t] = "yes" => granted'[t] = "yes"
  BY <1>2, <1>4
<1>6. Tables'
  <2>1. Tables /\ UNCHANGED <<tables, slurm>>
    BY <1>0 DEF Types
  <2> QED
    BY <1>5, <2>1, TablesStay
<1>7. Sweeping' /\ Reconciling'
  BY <1>0 DEF Types, Sweeping, Reconciling
<1>8. Steady
  BY <1>0, <1>5 DEF Steady
<1>9. Slots' /\ OneGate'
  <2>1. Slots /\ OneGate /\ Slot(g2)
    BY DEF Types, Slot
  <2>2. g2.op \notin BindOps \cup DoneOps /\ (g2.op \in GateOps => g2.s = s /\ v = "asked")
    BY DEF GateOps, BindOps, DoneOps, Idle
  <2>3. g2.op \in GateOps =>
          /\ granted'[g2.s] = "asked"
          /\ granted[g2.s] # "asked" \/ (h[p].op \in GateOps /\ h[p].s = g2.s)
    BY <1>2, <2>2
  <2>4. \A t \in Subs : granted[t] = "asked" /\ granted'[t] # "asked" =>
          h[p].op \in GateOps /\ h[p].s = t
    BY <1>2
  <2> QED
    BY <1>8, <2>1, <2>2, <2>3, <2>4, SlotsStep
<1> QED
  BY <1>3, <1>6, <1>7, <1>9 DEF Types

(* A step that is not a handler's and leaves the tables and Slurm alone.   *)
LEMMA IdleTypes ==
  ASSUME Types, h' = h, UNCHANGED <<tables, env>>, Budgets',
         clock' \in 0 .. MaxClock, faults' \in SUBSET UNION Faults,
         swept' \subseteq Subs, Sweeping', Reconciling'
  PROVE  Types'
<1>0. /\ granted' = granted /\ slurm' = slurm /\ report' = report
      /\ routes' = routes /\ jobToToken' = jobToToken /\ tokenArrayN' = tokenArrayN
  BY DEF env, tables
<1>1. World'
  BY <1>0 DEF Types, World
<1>2. Tables'
  <2>1. Tables /\ UNCHANGED <<tables, slurm>>
    BY <1>0 DEF Types
  <2> QED
    BY <1>0, <2>1, TablesStay
<1>3. Slots' /\ OneGate'
  <2>1. Slots /\ OneGate /\ Steady
    BY <1>0 DEF Types, Steady
  <2> QED
    BY <1>0, <2>1, SlotsStay
<1> QED
  BY <1>1, <1>2, <1>3 DEF Types

(* The handlers' steps on the budgets.                                     *)
LEMMA CallTypes ==
  ASSUME Types, NEW p \in Handlers,
         \/ placeLeg(p) \/ bindReprice(p) \/ bindStart(p)
         \/ settleLeg(p) \/ settleArrayTask(p)
  PROVE  Types'
<1>0. PICK g : g = h[p]
  OBVIOUS
<1>1. CASE placeLeg(p)
  <2>1. /\ PlaceSlot(g) /\ Budgets' /\ faults' \in SUBSET UNION Faults
        /\ Placing(p, g) \/ GivingUp(p, g)
    BY <1>0, <1>1, PlaceDoes
  <2>2. UNCHANGED <<clock, tables, sweep, recon, env, swept>> /\ g.op \in GateOps
    BY <1>0, <1>1 DEF placeLeg, GateOps
  <2>3. \E g2 : h' = [h EXCEPT ![p] = g2] /\ GoesOn(g, g2)
    <3>1. CASE Placing(p, g)
      <4>1. PICK g2 : /\ h' = [h EXCEPT ![p] = g2] /\ g2.s = g.s
                      /\ RecordSlot(g2) \/ PlaceSlot(g2)
        BY <3>1 DEF Placing
      <4>2. Slot(g2)
        BY <4>1 DEF Slot
      <4>3. g2.op \in GateOps
        BY <4>1 DEF RecordSlot, PlaceSlot, GateOps
      <4> QED
        BY <2>2, <4>1, <4>2, <4>3 DEF GoesOn
    <3>2. CASE GivingUp(p, g)
      <4>1. PICK g2 : /\ h' = [h EXCEPT ![p] = g2]
                      /\ g2 = [op |-> "rollback", s |-> g.s, legs |-> g.legs,
                               k |-> 1, i |-> 0]
        BY <3>2 DEF GivingUp
      <4>2. g.s \in Subs /\ g.legs \in Seq(LegRecord) /\ Placed(g.s, g.legs)
        BY <2>1 DEF PlaceSlot
      <4>3. RollbackSlot(g2) /\ g2.s = g.s /\ g2.op \in GateOps
        BY <4>1, <4>2 DEF RollbackSlot, GateOps
      <4> QED
        BY <2>2, <4>1, <4>3 DEF GoesOn, Slot
    <3> QED
      BY <2>1, <3>1, <3>2
  <2> QED
    BY <1>0, <2>1, <2>2, <2>3, GoesTypes
<1>2. CASE bindReprice(p)
  <2>1. /\ g.op = "reprice" /\ Budgets' /\ faults' \in SUBSET UNION Faults
        /\ Repricing(p, g)
    BY <1>0, <1>2, RepriceStep
  <2>2. UNCHANGED <<clock, tables, sweep, recon, env, swept>> /\ g.op \in BindOps
    BY <1>2, <2>1 DEF bindReprice, BindOps
  <2>3. PICK g2 : /\ h' = [h EXCEPT ![p] = g2] /\ BindSlot(g2)
                  /\ g2.s = g.s /\ g2.legs = g.legs /\ g2.j = g.j
    BY <2>1 DEF Repricing
  <2>4. Slot(g2) /\ g2.op \in BindOps
    BY <2>3 DEF Slot, BindSlot
  <2>5. GoesOn(g, g2)
    BY <2>2, <2>3, <2>4 DEF GoesOn
  <2> QED
    BY <1>0, <2>1, <2>2, <2>3, <2>5, GoesTypes
<1>3. CASE bindStart(p)
  <2>1. /\ BindSlot(g) /\ g.op = "start" /\ Budgets' /\ faults' \in SUBSET UNION Faults
        /\ Starting(p, g)
    BY <1>0, <1>3, StartStep
  <2>2. UNCHANGED <<clock, tables, sweep, recon, env, swept>> /\ g.op \in BindOps
    BY <1>3, <2>1 DEF bindStart, BindOps
  <2>3. PICK g2 :
          /\ h' = [h EXCEPT ![p] = g2]
          /\ IsArray(g.s) \/ g.k = Len(g.legs) => g2 = Idle
          /\ ~IsArray(g.s) /\ g.k < Len(g.legs) =>
               BindSlot(g2) /\ g2.s = g.s /\ g2.legs = g.legs /\ g2.j = g.j
    BY <2>1 DEF Starting
  <2>4. g.k < Len(g.legs) \/ g.k = Len(g.legs)
    <3>1. g.k \in 1 .. Len(g.legs) /\ Len(g.legs) \in Nat
      BY <1>0, <2>2, PastGate
    <3> QED
      BY <3>1
  <2>5. BindSlot(g2) => Slot(g2) /\ g2.op \in BindOps
    BY DEF Slot, BindSlot
  <2>6. GoesOn(g, g2)
    BY <2>2, <2>3, <2>4, <2>5 DEF GoesOn
  <2> QED
    BY <1>0, <2>1, <2>2, <2>3, <2>6, GoesTypes
<1>4. CASE settleLeg(p)
  <2>1. /\ g.op = "settle" /\ Budgets' /\ faults' \in SUBSET UNION Faults
        /\ SettlingLeg(p, g)
    BY <1>0, <1>4, SettleLegDoes
  <2>2. UNCHANGED <<clock, tables, sweep, recon, env, swept>> /\ g.op \in DoneOps
    BY <1>4, <2>1 DEF settleLeg, DoneOps
  <2>3. PICK g2 : h' = [h EXCEPT ![p] = g2] /\ (g2 = Idle \/ MovesOn(g, g2))
    BY <2>1 DEF SettlingLeg
  <2>4. MovesOn(g, g2) => /\ Slot(g2) /\ g2.s = g.s /\ g2.legs = g.legs /\ g2.j = g.j
                          /\ g2.op \in DoneOps
    BY DEF MovesOn, Slot, DoneSlot
  <2>5. GoesOn(g, g2)
    BY <2>2, <2>3, <2>4 DEF GoesOn
  <2> QED
    BY <1>0, <2>1, <2>2, <2>3, <2>5, GoesTypes
<1>5. CASE settleArrayTask(p)
  <2>1. /\ g.op = "settle" /\ Budgets' /\ faults' \in SUBSET UNION Faults
        /\ SettlingTask(p, g)
    BY <1>0, <1>5, SettleTaskStep
  <2>2. UNCHANGED <<clock, tables, sweep, recon, env, swept>> /\ g.op \in DoneOps
    BY <1>5, <2>1 DEF settleArrayTask, DoneOps
  <2>3. PICK g2 : /\ h' = [h EXCEPT ![p] = g2]
                  /\ \/ g2 = Idle
                     \/ DoneSlot(g2) /\ g2.s = g.s /\ g2.legs = g.legs /\ g2.j = g.j
    BY <2>1 DEF SettlingTask
  <2>4. DoneSlot(g2) => Slot(g2) /\ g2.op \in DoneOps
    BY DEF Slot, DoneSlot
  <2>5. GoesOn(g, g2)
    BY <2>2, <2>3, <2>4 DEF GoesOn
  <2> QED
    BY <1>0, <2>1, <2>2, <2>3, <2>5, GoesTypes
<1> QED
  BY <1>1, <1>2, <1>3, <1>4, <1>5

(* The gates' steps.                                                       *)
LEMMA AskTypes ==
  ASSUME Types, NEW p \in Handlers
  PROVE  /\ \A s \in Subs : handleGate(p, s) \/ handleGateMultiSource(p, s) => Types'
         /\ readBalance(p) \/ rollback(p) => Types'
<1>0. PICK g : g = h[p]
  OBVIOUS
<1>1. ASSUME NEW s \in Subs, handleGate(p, s) PROVE Types'
  <2>1. PICK L :
           /\ Budgets' /\ faults' \in SUBSET UNION Faults
           /\ Whole(s, L) /\ Len(L) = 1
           /\ \/ /\ Quiet /\ h' = h
                 /\ granted' = [granted EXCEPT ![s] = "rejected"]
              \/ /\ Grew(s, Slice(s, L[1]), C0(s), L[1].w)
                 /\ h' = [h EXCEPT ![p] = [op |-> "record", s |-> s, legs |-> L]]
                 /\ granted' = [granted EXCEPT ![s] = "asked"]
    BY <1>1, GateDoes
  <2>2. /\ h[p] = Idle /\ granted[s] = "no"
        /\ UNCHANGED <<clock, tables, sweep, recon, slurm, report, swept>>
    BY <1>1 DEF handleGate
  <2>3. CASE h' = h /\ granted' = [granted EXCEPT ![s] = "rejected"]
    <3>1. h' = [h EXCEPT ![p] = Idle]
      BY <2>2, <2>3 DEF Types, Slots
    <3> QED
      BY <2>1, <2>2, <2>3, <3>1, GateTypes
  <2>4. CASE /\ h' = [h EXCEPT ![p] = [op |-> "record", s |-> s, legs |-> L]]
             /\ granted' = [granted EXCEPT ![s] = "asked"]
    <3>1. PICK g2 : g2 = [op |-> "record", s |-> s, legs |-> L]
      OBVIOUS
    <3>2. L \in Seq(LegRecord)
      BY <2>1 DEF Whole, Placed
    <3>3. RecordSlot(g2) /\ g2.op \in GateOps /\ g2.s = s
      BY <2>1, <3>1, <3>2 DEF RecordSlot, GateOps
    <3>4. Slot(g2) /\ h' = [h EXCEPT ![p] = g2]
      BY <2>4, <3>1, <3>3 DEF Slot
    <3> QED
      BY <2>1, <2>2, <2>4, <3>3, <3>4, GateTypes
  <2> QED
    BY <2>1, <2>3, <2>4
<1>2. ASSUME NEW s \in Subs, handleGateMultiSource(p, s) PROVE Types'
  <2>1. PICK c, g2 : /\ c = resolveSources(s) /\ h' = [h EXCEPT ![p] = g2]
                     /\ g2 = [op |-> "read", s |-> s, c |-> c, bal |-> <<>>]
    BY <1>2 DEF handleGateMultiSource, Busy
  <2>2. /\ h[p] = Idle /\ granted[s] = "no" /\ UNCHANGED <<bds, billed, faults>>
        /\ granted' = [granted EXCEPT ![s] = "asked"]
        /\ UNCHANGED <<clock, tables, sweep, recon, slurm, report, swept>>
    BY <1>2 DEF handleGateMultiSource, Answer, tally
  <2>3. Budgets' /\ faults' \in SUBSET UNION Faults
    BY <2>2, StillQuiet DEF Types, World
  <2>4. c = C0(s) /\ c \in Nat \ {0} /\ Sources(s) > 0
    <3>1. Submissions[s].sources[1] \in Accounts /\ Sources(s) > 0
      BY SubIs DEF SubRecord, Sources
    <3>2. bds[Submissions[s].sources[1]].C = FlatRates[Submissions[s].sources[1]]
      BY <3>1, PlainFields DEF Types, Budgets
    <3> QED
      BY <2>1, <3>1, <3>2, C0Nat DEF resolveSources, C0
  <2>5. Slot(g2) /\ g2.op \in GateOps /\ g2.s = s
    <3>1. <<>> \in Seq(Int) /\ Len(<<>>) = 0
      OBVIOUS
    <3>2. ReadSlot(g2)
      BY <2>1, <2>4, <3>1 DEF ReadSlot
    <3> QED
      BY <2>1, <3>2 DEF Slot, GateOps
  <2> QED
    BY <2>1, <2>2, <2>3, <2>5, GateTypes
<1>3. ASSUME readBalance(p) PROVE Types'
  <2>1. ReadSlot(g) /\ Reading(p, g)
    BY <1>0, <1>3, ReadDoes, SMTT(30)
  <2>2. /\ UNCHANGED <<bds, billed, faults>>
        /\ UNCHANGED <<clock, tables, sweep, recon, slurm, report, swept>>
    BY <1>3 DEF readBalance, tally
  <2>3. Budgets' /\ faults' \in SUBSET UNION Faults
    BY <2>2, StillQuiet DEF Types, World
  <2>4. g.s \in Subs /\ g.op \in GateOps
    BY <2>1 DEF ReadSlot, GateOps
  <2>5. PICK g2 :
          /\ h' = [h EXCEPT ![p] = g2]
          /\ \/ g2 = Idle /\ granted' = [granted EXCEPT ![g.s] = "rejected"]
             \/ /\ ReadSlot(g2) \/ PlaceSlot(g2)
                /\ g2.s = g.s /\ granted' = granted
    BY <2>1 DEF Reading
  <2>6. CASE g2 = Idle /\ granted' = [granted EXCEPT ![g.s] = "rejected"]
    BY <1>0, <2>2, <2>3, <2>4, <2>5, <2>6, GateTypes
  <2>7. CASE (ReadSlot(g2) \/ PlaceSlot(g2)) /\ g2.s = g.s /\ granted' = granted
    <3>1. Slot(g2) /\ g2.op \in GateOps
      BY <2>7 DEF Slot, ReadSlot, PlaceSlot, GateOps
    <3>2. GoesOn(g, g2)
      BY <2>4, <2>7, <3>1 DEF GoesOn
    <3>3. UNCHANGED <<clock, tables, sweep, recon, env, swept>>
      BY <2>2, <2>7 DEF env
    <3> QED
      BY <1>0, <2>3, <2>5, <3>2, <3>3, GoesTypes
  <2> QED
    BY <2>5, <2>6, <2>7
<1>4. ASSUME rollback(p) PROVE Types'
  <2>1. /\ RollbackSlot(g) /\ Budgets' /\ faults' \in SUBSET UNION Faults
        /\ Cancelling(p, g) \/ Rejecting(p, g)
    BY <1>0, <1>4, RollbackDoes
  <2>2. /\ UNCHANGED <<clock, tables, sweep, recon, slurm, report, swept>>
        /\ g.s \in Subs /\ g.op \in GateOps
    BY <1>4, <2>1 DEF rollback, RollbackSlot, GateOps
  <2>3. CASE Rejecting(p, g)
    <3>1. /\ h' = [h EXCEPT ![p] = Idle]
          /\ granted' = [granted EXCEPT ![g.s] = "rejected"]
      BY <2>3 DEF Rejecting
    <3> QED
      BY <1>0, <2>1, <2>2, <3>1, GateTypes
  <2>4. CASE Cancelling(p, g)
    <3>1. PICK g2 : h' = [h EXCEPT ![p] = g2] /\ RollbackSlot(g2) /\ g2.s = g.s
      BY <2>4 DEF Cancelling
    <3>2. granted' = granted
      BY <2>4 DEF Cancelling
    <3>3. Slot(g2) /\ g2.op \in GateOps
      BY <3>1 DEF Slot, RollbackSlot, GateOps
    <3>4. GoesOn(g, g2)
      BY <2>2, <3>1, <3>3 DEF GoesOn
    <3>5. UNCHANGED <<clock, tables, sweep, recon, env, swept>>
      BY <2>2, <3>2 DEF env
    <3> QED
      BY <1>0, <2>1, <3>1, <3>4, <3>5, GoesTypes
  <2> QED
    BY <2>1, <2>3, <2>4
<1> QED
  BY <1>1, <1>2, <1>3, <1>4

(* What recording a route leaves in the tables.                            *)
LEMMA RecordIs ==
  ASSUME Types, NEW p \in Handlers, NEW g, g = h[p], recordRoute(p)
  PROVE  Recorded(p, g)
<1>1. RecordSlot(g)
  BY GateSlot, SlotKind DEF recordRoute
<1>2. g.s \in Subs /\ g.op \in GateOps
  BY <1>1 DEF RecordSlot, GateOps
<1>3. granted[g.s] = "asked"
  BY <1>2, GateSlot
<1>4. g.s \notin DOMAIN routes /\ g.s \notin DOMAIN tokenArrayN
  BY <1>3 DEF Types, Tables
<1>5. /\ routes' = Put(routes, g.s, g.legs)
      /\ tokenArrayN' = IF IsArray(g.s) THEN Put(tokenArrayN, g.s, Submissions[g.s].n)
                        ELSE tokenArrayN
      /\ h' = [h EXCEPT ![p] = Idle] /\ granted' = [granted EXCEPT ![g.s] = "yes"]
  BY DEF recordRoute, Busy, Answer
<1>6. /\ DOMAIN routes' = DOMAIN routes \cup {g.s} /\ routes'[g.s] = g.legs
      /\ \A s \in DOMAIN routes \ {g.s} : routes'[s] = routes[s]
  <2>1. PICK f, k, v : f = routes /\ k = g.s /\ v = g.legs
    OBVIOUS
  <2>2. /\ DOMAIN Put(f, k, v) = DOMAIN f \cup {k} /\ Put(f, k, v)[k] = v
        /\ \A x \in DOMAIN f \ {k} : Put(f, k, v)[x] = f[x]
    BY DEF Put
  <2> QED
    BY <1>5, <2>1, <2>2
<1>7. IsArray(g.s) =>
        /\ DOMAIN tokenArrayN' = DOMAIN tokenArrayN \cup {g.s}
        /\ tokenArrayN'[g.s] = Submissions[g.s].n
        /\ \A s \in DOMAIN tokenArrayN \ {g.s} : tokenArrayN'[s] = tokenArrayN[s]
  <2>1. PICK f, k, v : f = tokenArrayN /\ k = g.s /\ v = Submissions[g.s].n
    OBVIOUS
  <2>2. /\ DOMAIN Put(f, k, v) = DOMAIN f \cup {k} /\ Put(f, k, v)[k] = v
        /\ \A x \in DOMAIN f \ {k} : Put(f, k, v)[x] = f[x]
    BY DEF Put
  <2> QED
    BY <1>5, <2>1, <2>2
<1> QED
  BY <1>1, <1>2, <1>3, <1>4, <1>5, <1>6, <1>7 DEF Recorded

(* Recording a route keeps the types.                                      *)
LEMMA RecordTypes ==
  ASSUME Types, NEW p \in Handlers, recordRoute(p)
  PROVE  Types'
<1>0. PICK g : g = h[p]
  OBVIOUS
<1>1. /\ RecordSlot(g) /\ g.s \in Subs /\ g.op \in GateOps /\ granted[g.s] = "asked"
      /\ g.s \notin DOMAIN routes /\ g.s \notin DOMAIN tokenArrayN
      /\ DOMAIN routes' = DOMAIN routes \cup {g.s} /\ routes'[g.s] = g.legs
      /\ \A s \in DOMAIN routes \ {g.s} : routes'[s] = routes[s]
      /\ IsArray(g.s) =>
           /\ DOMAIN tokenArrayN' = DOMAIN tokenArrayN \cup {g.s}
           /\ tokenArrayN'[g.s] = Submissions[g.s].n
           /\ \A s \in DOMAIN tokenArrayN \ {g.s} : tokenArrayN'[s] = tokenArrayN[s]
      /\ ~IsArray(g.s) => tokenArrayN' = tokenArrayN
      /\ h' = [h EXCEPT ![p] = Idle] /\ granted' = [granted EXCEPT ![g.s] = "yes"]
  <2>1. Recorded(p, g)
    BY <1>0, RecordIs
  <2> QED
    BY <2>1 DEF Recorded
<1>2. /\ UNCHANGED <<bds, billed, faults>>
      /\ UNCHANGED <<clock, jobToToken, sweep, recon, report, swept>>
      /\ slurm' = [j \in Jobs |-> IF j[1] = g.s THEN "queued" ELSE slurm[j]]
  BY <1>0 DEF recordRoute, tally
<1>3. Budgets'
  BY <1>2, StillQuiet DEF Types
<1>4. /\ granted' \in [Subs -> {"no", "asked", "yes", "rejected", "lost"}]
      /\ granted'[g.s] = "yes" /\ \A t \in Subs \ {g.s} : granted'[t] = granted[t]
  BY <1>1 DEF Types, World
<1>5. /\ slurm' \in [Jobs -> {"new", "queued", "running", "gone"}]
      /\ \A j \in Jobs : j[1] # g.s => slurm'[j] = slurm[j]
  BY <1>2 DEF Types, World
<1>6. World'
  BY <1>2, <1>4, <1>5 DEF Types, World
<1>7. Whole(g.s, g.legs)
  BY <1>1 DEF RecordSlot
<1>8. \A j \in Jobs : j[1] \in Subs
  BY JobIs
<1>9. Tables'
  <2>1. /\ DOMAIN routes' \subseteq Subs
        /\ \A s \in DOMAIN routes' : granted'[s] = "yes" /\ Whole(s, routes'[s])
    <3>1. ASSUME NEW s \in DOMAIN routes'
          PROVE  s \in Subs /\ granted'[s] = "yes" /\ Whole(s, routes'[s])
      <4>1. CASE s = g.s
        BY <1>1, <1>4, <1>7, <4>1
      <4>2. CASE s # g.s
        <5>1. s \in DOMAIN routes /\ routes'[s] = routes[s]
          BY <1>1, <4>2
        <5> QED
          BY <1>4, <4>2, <5>1 DEF Types, Tables
      <4> QED
        BY <4>1, <4>2
    <3> QED
      BY <3>1
  <2>2. ASSUME NEW j \in DOMAIN jobToToken
        PROVE  /\ j \in Jobs /\ jobToToken[j] = j[1] /\ granted'[j[1]] = "yes"
               /\ slurm'[j] \in {"running", "gone"}
    <3>1. /\ j \in Jobs /\ jobToToken[j] = j[1] /\ granted[j[1]] = "yes"
          /\ slurm[j] \in {"running", "gone"}
      BY DEF Types, Tables
    <3> QED
      BY <1>1, <1>4, <1>5, <1>8, <3>1
  <2>3. ASSUME NEW s \in DOMAIN tokenArrayN'
        PROVE  /\ s \in Subs /\ IsArray(s) /\ granted'[s] = "yes"
               /\ tokenArrayN'[s] \in 1 .. Submissions[s].n
    <3>1. CASE s = g.s
      <4>1. IsArray(g.s)
        BY <1>1, <3>1
      <4>2. Submissions[g.s].n \in 1 .. Submissions[g.s].n
        BY <1>1, SubIs DEF SubRecord
      <4> QED
        BY <1>1, <1>4, <3>1, <4>1, <4>2
    <3>2. CASE s # g.s
      <4>1. s \in DOMAIN tokenArrayN /\ tokenArrayN'[s] = tokenArrayN[s]
        BY <1>1, <3>2
      <4> QED
        BY <1>4, <3>2, <4>1 DEF Types, Tables
    <3> QED
      BY <3>1, <3>2
  <2> QED
    BY <1>2, <2>1, <2>2, <2>3 DEF Tables, Whole
<1>10. Sweeping' /\ Reconciling'
  BY <1>2 DEF Types, Sweeping, Reconciling
<1>11. Steady
  BY <1>1, <1>2, <1>4, <1>5, <1>8 DEF Steady
<1>12. Slots' /\ OneGate'
  <2>1. Slots /\ OneGate /\ Slot(Idle)
    BY DEF Types, Slot
  <2>2. Idle.op \notin BindOps \cup DoneOps /\ Idle.op \notin GateOps
    BY DEF GateOps, BindOps, DoneOps, Idle
  <2>3. \A t \in Subs : granted[t] = "asked" /\ granted'[t] # "asked" =>
          h[p].op \in GateOps /\ h[p].s = t
    BY <1>0, <1>1, <1>4
  <2> QED
    BY <1>1, <1>11, <2>1, <2>2, <2>3, SlotsStep
<1> QED
  BY <1>3, <1>6, <1>9, <1>10, <1>12 DEF Types

(* The hooks' other steps: what they hold, and the tables.                 *)
LEMMA HookTypes ==
  ASSUME Types, NEW p \in Handlers, NEW g2, h' = [h EXCEPT ![p] = g2], Slot(g2),
         g2.op \notin GateOps, h[p].op \notin GateOps,
         g2.op \in BindOps \cup DoneOps =>
           /\ granted[g2.s] = "yes"
           /\ g2.s \in DOMAIN routes => routes[g2.s] = g2.legs
           /\ g2.op \in BindOps => slurm[g2.j] \in {"running", "gone"}
           /\ g2.op \in DoneOps => slurm[g2.j] = "gone" /\ report[g2.j] \in Reports,
         UNCHANGED <<bds, clock, sweep, recon, env, tally, swept>>, Tables',
         DOMAIN routes' \subseteq DOMAIN routes,
         \A s \in DOMAIN routes' : routes'[s] = routes[s]
  PROVE  Types'
<1>0. /\ granted' = granted /\ slurm' = slurm /\ report' = report /\ clock' = clock
      /\ swept' = swept /\ sweep' = sweep /\ recon' = recon /\ bds' = bds
      /\ billed' = billed /\ faults' = faults
  BY DEF env, tally
<1>1. Budgets'
  BY <1>0, StillQuiet DEF Types
<1>2. World'
  BY <1>0 DEF Types, World
<1>3. Sweeping' /\ Reconciling'
  BY <1>0 DEF Types, Sweeping, Reconciling
<1>4. Steady
  BY <1>0 DEF Steady
<1>5. Slots' /\ OneGate'
  <2>1. Slots /\ OneGate
    BY DEF Types
  <2>2. g2.op \in BindOps \cup DoneOps =>
          /\ granted'[g2.s] = "yes"
          /\ g2.s \in DOMAIN routes' => routes'[g2.s] = g2.legs
          /\ g2.op \in BindOps => slurm'[g2.j] \in {"running", "gone"}
          /\ g2.op \in DoneOps => slurm'[g2.j] = "gone" /\ report'[g2.j] \in Reports
    BY <1>0
  <2>3. \A s \in Subs : granted[s] = "asked" /\ granted'[s] # "asked" =>
          h[p].op \in GateOps /\ h[p].s = s
    BY <1>0
  <2> QED
    BY <1>4, <2>1, <2>2, <2>3, SlotsStep
<1> QED
  BY <1>1, <1>2, <1>3, <1>5 DEF Types

(* A hook arrives.                                                         *)
LEMMA BindIs ==
  ASSUME Types, NEW p \in Handlers, NEW j \in Jobs, handleBind(p, j)
  PROVE  \E g2 :
           /\ h[p] = Idle /\ h' = [h EXCEPT ![p] = g2] /\ BindSlot(g2)
           /\ g2.op = "bind" /\ g2.s = j[1] /\ g2.j = j /\ g2.k = 1
           /\ j[1] \in DOMAIN routes /\ g2.legs = routes[j[1]]
           /\ slurm[j] = "running"
<1>1. PICK g2 : g2 = [op |-> "bind", s |-> j[1], j |-> j, legs |-> routes[j[1]], k |-> 1]
  OBVIOUS
<1>2. /\ h[p] = Idle /\ h' = [h EXCEPT ![p] = g2] /\ j[1] \in DOMAIN routes
      /\ slurm[j] = "running"
  BY <1>1 DEF handleBind, Busy
<1>3. j[1] \in Subs /\ Whole(j[1], routes[j[1]])
  BY <1>2, JobIs DEF Types, Tables
<1>4. routes[j[1]] \in Seq(LegRecord) /\ 1 \in 1 .. Len(routes[j[1]])
  <2>1. routes[j[1]] \in Seq(LegRecord) /\ Len(routes[j[1]]) > 0
    BY <1>3 DEF Whole, Placed
  <2> QED
    BY <2>1
<1>5. BindSlot(g2)
  BY <1>1, <1>3, <1>4 DEF BindSlot, BindOps
<1> QED
  BY <1>1, <1>2, <1>5

(* A settle that starts has found its job and its legs.                    *)
LEMMA SettleIs ==
  ASSUME Types, NEW p \in Handlers, NEW j \in Jobs,
         handleSettle(p, j, TRUE) \/ (Epilog /\ handleSettle(p, j, FALSE))
  PROVE  Settles(p, j)
<1>0. PICK idx \in BOOLEAN : handleSettle(p, j, idx) /\ (Epilog = FALSE => idx = TRUE)
  OBVIOUS
<1>1. PICK t : t = IF idx = TRUE /\ IsArray(j[1]) THEN TRUE ELSE FALSE
  OBVIOUS
<1>2. PICK g2 : g2 = [op |-> "settle", s |-> j[1], j |-> j, legs |-> routes[j[1]],
                      k |-> 1, task |-> t]
  OBVIOUS
<1>3. /\ h[p] = Idle /\ j \in DOMAIN jobToToken /\ jobToToken[j] \in DOMAIN routes
      /\ slurm[j] = "gone" /\ report[j][1] # "none"
      /\ h' = [h EXCEPT ![p] = [op |-> "settle", s |-> jobToToken[j], j |-> j,
                                legs |-> routes[jobToToken[j]], k |-> 1,
                                task |-> idx /\ IsArray(jobToToken[j])]]
  BY <1>0 DEF handleSettle, Busy
<1>4. jobToToken[j] = j[1] /\ j[1] \in Subs
  BY <1>3, JobIs DEF Types, Tables
<1>5. (idx /\ IsArray(j[1])) = t /\ t \in BOOLEAN
  BY <1>1 DEF IsArray
<1>6. h' = [h EXCEPT ![p] = g2]
  BY <1>2, <1>3, <1>4, <1>5
<1>7. Whole(j[1], routes[j[1]])
  BY <1>3, <1>4 DEF Types, Tables
<1>8. routes[j[1]] \in Seq(LegRecord) /\ 1 \in 1 .. Len(routes[j[1]])
  <2>1. routes[j[1]] \in Seq(LegRecord) /\ Len(routes[j[1]]) > 0
    BY <1>7 DEF Whole, Placed
  <2> QED
    BY <2>1
<1>9. report[j] \in Reports
  BY <1>3 DEF Types, World
<1>10. DoneSlot(g2)
  <2>1. /\ g2.op = "settle" /\ g2.s = j[1] /\ g2.j = j /\ g2.legs = routes[j[1]]
        /\ g2.k = 1 /\ g2.task = t
        /\ g2 \in [op : DoneOps, s : Subs, j : Jobs, legs : Seq(LegRecord), k : Nat,
                   task : BOOLEAN]
    BY <1>2, <1>4, <1>5, <1>8 DEF DoneOps
  <2>2. /\ g2.task = TRUE => IsArray(g2.s)
        /\ Epilog = FALSE /\ IsArray(g2.s) => g2.task = TRUE
    BY <1>0, <1>1, <2>1
  <2> QED
    BY <1>7, <1>8, <2>1, <2>2 DEF DoneSlot
<1> QED
  BY <1>2, <1>3, <1>4, <1>6, <1>9, <1>10 DEF Settles

(* A hook that arrives keeps the types.                                    *)
LEMMA HookArrives ==
  ASSUME Types, NEW p \in Handlers, NEW j \in Jobs,
         \/ handleBind(p, j)
         \/ handleSettle(p, j, TRUE) \/ (Epilog /\ handleSettle(p, j, FALSE))
  PROVE  Types'
<1>0. Idle.op \notin GateOps
  BY DEF Idle, GateOps
<1>1. UNCHANGED <<bds, clock, tables, sweep, recon, env, tally, swept>>
  BY DEF handleBind, handleSettle
<1>2. Tables' /\ routes' = routes
  <2>1. Tables /\ UNCHANGED <<tables, slurm>> /\ granted' = granted /\ routes' = routes
    BY <1>1 DEF Types, env, tables
  <2> QED
    BY <2>1, TablesStay
<1>3. CASE handleBind(p, j)
  <2>1. PICK g2 :
          /\ h[p] = Idle /\ h' = [h EXCEPT ![p] = g2] /\ BindSlot(g2)
          /\ g2.op = "bind" /\ g2.s = j[1] /\ g2.j = j
          /\ j[1] \in DOMAIN routes /\ g2.legs = routes[j[1]]
          /\ slurm[j] = "running"
    BY <1>3, BindIs
  <2>2. /\ Slot(g2) /\ g2.op \notin GateOps /\ g2.op \notin DoneOps
        /\ h[p].op \notin GateOps
    BY <1>0, <2>1 DEF Slot, GateOps, DoneOps
  <2>3. granted[g2.s] = "yes"
    BY <2>1 DEF Types, Tables
  <2>4. g2.op \in BindOps \cup DoneOps =>
          /\ granted[g2.s] = "yes"
          /\ g2.s \in DOMAIN routes => routes[g2.s] = g2.legs
          /\ g2.op \in BindOps => slurm[g2.j] \in {"running", "gone"}
          /\ g2.op \in DoneOps => slurm[g2.j] = "gone" /\ report[g2.j] \in Reports
    BY <2>1, <2>2, <2>3
  <2>5. UNCHANGED <<bds, clock, sweep, recon, env, tally, swept>>
    BY <1>1
  <2> QED
    BY <1>2, <2>1, <2>2, <2>4, <2>5, HookTypes
<1>4. CASE handleSettle(p, j, TRUE) \/ (Epilog /\ handleSettle(p, j, FALSE))
  <2>2. PICK g2 :
          /\ h[p] = Idle /\ h' = [h EXCEPT ![p] = g2] /\ DoneSlot(g2)
          /\ g2.op = "settle" /\ g2.s = j[1] /\ g2.j = j
          /\ j[1] \in DOMAIN routes /\ g2.legs = routes[j[1]]
          /\ slurm[j] = "gone" /\ report[j] \in Reports
    <3>1. Settles(p, j)
      BY <1>4, SettleIs
    <3> QED
      BY <3>1 DEF Settles
  <2>3. /\ Slot(g2) /\ g2.op \notin GateOps /\ g2.op \notin BindOps
        /\ h[p].op \notin GateOps
    BY <1>0, <2>2 DEF Slot, GateOps, BindOps
  <2>4. granted[g2.s] = "yes"
    BY <2>2 DEF Types, Tables
  <2>5. g2.op \in BindOps \cup DoneOps =>
          /\ granted[g2.s] = "yes"
          /\ g2.s \in DOMAIN routes => routes[g2.s] = g2.legs
          /\ g2.op \in BindOps => slurm[g2.j] \in {"running", "gone"}
          /\ g2.op \in DoneOps => slurm[g2.j] = "gone" /\ report[g2.j] \in Reports
    BY <2>2, <2>3, <2>4
  <2>6. UNCHANGED <<bds, clock, sweep, recon, env, tally, swept>>
    BY <1>1
  <2> QED
    BY <1>2, <2>2, <2>3, <2>5, <2>6, HookTypes
<1> QED
  BY <1>3, <1>4

(* What recording a job id leaves in the tables.                           *)
LEMMA BindRecordIs ==
  ASSUME Types, NEW p \in Handlers, NEW g, g = h[p], bindRecord(p)
  PROVE  BindsOn(p, g)
<1>1. g.op = "bind"
  BY DEF bindRecord
<1>2. BindSlot(g)
  BY <1>1, GateSlot, SlotKind DEF BindOps
<1>3. g.s \in Subs /\ g.j \in Jobs /\ g.j[1] = g.s
  BY <1>2 DEF BindSlot
<1>4. /\ DOMAIN jobToToken' = DOMAIN jobToToken \cup {g.j} /\ jobToToken'[g.j] = g.s
      /\ \A j \in DOMAIN jobToToken \ {g.j} : jobToToken'[j] = jobToToken[j]
  <2>1. PICK f, k, v : f = jobToToken /\ k = g.j /\ v = g.s
    OBVIOUS
  <2>2. /\ DOMAIN Put(f, k, v) = DOMAIN f \cup {k} /\ Put(f, k, v)[k] = v
        /\ \A x \in DOMAIN f \ {k} : Put(f, k, v)[x] = f[x]
    BY DEF Put
  <2>3. jobToToken' = Put(f, k, v)
    BY <2>1 DEF bindRecord
  <2> QED
    BY <2>1, <2>2, <2>3
<1>5. PICK op2, g2 : /\ op2 = IF IsArray(g.s) \/ NodeRate(g.s) = 0 THEN "start"
                              ELSE "reprice"
                     /\ h' = [h EXCEPT ![p] = g2] /\ g2 = [g EXCEPT !.op = op2]
  BY DEF bindRecord, Busy
<1>6. NodeRate(g.s) \in Nat
  BY RateNat DEF NodeRate
<1>7. op2 \in BindOps /\ (op2 = "reprice" => ~IsArray(g.s) /\ NodeRate(g.s) > 0)
  BY <1>5, <1>6 DEF BindOps
<1>8. /\ BindSlot(g2) /\ g2.s = g.s /\ g2.j = g.j /\ g2.legs = g.legs /\ g2.k = g.k
      /\ g2.op = op2
  BY <1>2, <1>5, <1>7 DEF BindSlot
<1>9. BoundJob(g, g2)
  BY <1>1, <1>2, <1>3, <1>4, <1>5, <1>8 DEF BoundJob
<1> QED
  BY <1>5, <1>9 DEF BindsOn

(* Recording a job id keeps the types.                                     *)
LEMMA BindRecordTypes ==
  ASSUME Types, NEW p \in Handlers, bindRecord(p)
  PROVE  Types'
<1>0. PICK g : g = h[p]
  OBVIOUS
<1>1. PICK g2 :
        /\ BindSlot(g) /\ g.op = "bind" /\ g.s \in Subs /\ g.j \in Jobs /\ g.j[1] = g.s
        /\ DOMAIN jobToToken' = DOMAIN jobToToken \cup {g.j} /\ jobToToken'[g.j] = g.s
        /\ \A j \in DOMAIN jobToToken \ {g.j} : jobToToken'[j] = jobToToken[j]
        /\ h' = [h EXCEPT ![p] = g2] /\ BindSlot(g2) /\ g2.s = g.s
        /\ g2.j = g.j /\ g2.legs = g.legs
  <2>1. BindsOn(p, g)
    BY <1>0, BindRecordIs
  <2> QED
    BY <2>1 DEF BindsOn, BoundJob
<1>2. /\ UNCHANGED <<bds, clock, sweep, recon, env, tally, swept>>
      /\ routes' = routes /\ tokenArrayN' = tokenArrayN
  BY DEF bindRecord
<1>3. granted' = granted /\ slurm' = slurm
  BY <1>2 DEF env
<1>4. g.op \in BindOps /\ g2.op \in BindOps /\ g2.op \notin DoneOps /\ g2.op \notin GateOps
      /\ g.op \notin GateOps
  BY <1>1 DEF BindSlot, BindOps, DoneOps, GateOps
<1>5. Routes(g)
  BY <1>0, <1>4, GateSlot
<1>6. granted[g.s] = "yes" /\ slurm[g.j] \in {"running", "gone"}
      /\ (g.s \in DOMAIN routes => routes[g.s] = g.legs)
  BY <1>4, <1>5 DEF Routes
<1>7. Tables'
  <2>1. ASSUME NEW j \in DOMAIN jobToToken'
        PROVE  /\ j \in Jobs /\ jobToToken'[j] = j[1] /\ granted[j[1]] = "yes"
               /\ slurm[j] \in {"running", "gone"}
    <3>1. CASE j = g.j
      BY <1>1, <1>6, <3>1
    <3>2. CASE j # g.j
      BY <1>1, <3>2 DEF Types, Tables
    <3> QED
      BY <3>1, <3>2
  <2> QED
    BY <1>2, <1>3, <2>1 DEF Types, Tables
<1>8. Slot(g2)
  BY <1>1 DEF Slot
<1>9. g2.op \in BindOps \cup DoneOps =>
        /\ granted[g2.s] = "yes"
        /\ g2.s \in DOMAIN routes => routes[g2.s] = g2.legs
        /\ g2.op \in BindOps => slurm[g2.j] \in {"running", "gone"}
        /\ g2.op \in DoneOps => slurm[g2.j] = "gone" /\ report[g2.j] \in Reports
  BY <1>1, <1>4, <1>6
<1>10. h[p].op \notin GateOps
  BY <1>0, <1>4
<1> QED
  BY <1>1, <1>2, <1>4, <1>7, <1>8, <1>9, <1>10, HookTypes

(* What dropping a route leaves in the tables.                             *)
LEMMA DropRouteIs ==
  ASSUME Types, NEW p \in Handlers, NEW g, g = h[p], dropRoute(p)
  PROVE  /\ DoneSlot(g) /\ g.op = "drop" /\ g.s \in Subs /\ g.j \in Jobs /\ g.j[1] = g.s
         /\ g.task \in BOOLEAN /\ h' = [h EXCEPT ![p] = Idle] /\ DropTables(g)
<1>1. g.op = "drop"
  BY DEF dropRoute
<1>2. DoneSlot(g)
  BY <1>1, GateSlot, SlotKind DEF DoneOps
<1>3. g.s \in Subs /\ g.j \in Jobs /\ g.j[1] = g.s /\ g.task \in BOOLEAN
  BY <1>2 DEF DoneSlot
<1>4. h' = [h EXCEPT ![p] = Idle]
  BY DEF dropRoute, Busy
<1>5. /\ jobToToken' = Drop(jobToToken, g.j)
      /\ routes' = IF Last(g) THEN Drop(routes, g.s) ELSE routes
      /\ tokenArrayN' = IF g.task = FALSE \/ g.s \notin DOMAIN tokenArrayN
                        THEN tokenArrayN
                        ELSE IF Last(g) THEN Drop(tokenArrayN, g.s)
                        ELSE [tokenArrayN EXCEPT ![g.s] = tokenArrayN[g.s] - 1]
  BY <1>3 DEF dropRoute, Last
<1>6. ASSUME NEW f, NEW k
      PROVE  /\ DOMAIN Drop(f, k) = DOMAIN f \ {k}
             /\ \A x \in DOMAIN f \ {k} : Drop(f, k)[x] = f[x]
  BY DropIs
<1>7. /\ DOMAIN jobToToken' = DOMAIN jobToToken \ {g.j}
      /\ \A j \in DOMAIN jobToToken \ {g.j} : jobToToken'[j] = jobToToken[j]
  BY <1>5, <1>6
<1>8. /\ Last(g) => DOMAIN routes' = DOMAIN routes \ {g.s}
      /\ ~Last(g) => DOMAIN routes' = DOMAIN routes
      /\ \A s \in DOMAIN routes' : routes'[s] = routes[s]
  <2>1. CASE Last(g)
    BY <1>5, <2>1 DEF Drop, Restrict
  <2>2. CASE ~Last(g)
    BY <1>5, <2>2
  <2> QED
    BY <2>1, <2>2
<1>9. CASE g.task = FALSE \/ g.s \notin DOMAIN tokenArrayN
  <2>1. tokenArrayN' = tokenArrayN
    BY <1>5, <1>9
  <2>2. g.task = FALSE \/ g.s \notin DOMAIN tokenArrayN'
    BY <1>9, <2>1
  <2>3. g.task = TRUE /\ Last(g) => g.s \in DOMAIN tokenArrayN
    BY DEF Last
  <2> QED
    BY <1>1, <1>2, <1>3, <1>4, <1>7, <1>8, <1>9, <2>1, <2>2, <2>3 DEF DropTables
<1>10. CASE g.task = TRUE /\ g.s \in DOMAIN tokenArrayN /\ Last(g)
  <2>1. tokenArrayN' = Drop(tokenArrayN, g.s)
    BY <1>5, <1>10
  <2>2. /\ DOMAIN tokenArrayN' = DOMAIN tokenArrayN \ {g.s}
        /\ \A s \in DOMAIN tokenArrayN' : tokenArrayN'[s] = tokenArrayN[s]
    BY <2>1 DEF Drop, Restrict
  <2> QED
    BY <1>1, <1>2, <1>3, <1>4, <1>7, <1>8, <1>10, <2>2 DEF DropTables
<1>11. CASE g.task = TRUE /\ g.s \in DOMAIN tokenArrayN /\ ~Last(g)
  <2>1. PICK n : n = tokenArrayN[g.s] - 1
    OBVIOUS
  <2>2. tokenArrayN' = [tokenArrayN EXCEPT ![g.s] = n]
    BY <1>5, <1>11, <2>1
  <2>3. /\ DOMAIN tokenArrayN' = DOMAIN tokenArrayN
        /\ \A s \in DOMAIN tokenArrayN' \ {g.s} : tokenArrayN'[s] = tokenArrayN[s]
        /\ tokenArrayN'[g.s] = n
    BY <1>11, <2>2
  <2> QED
    BY <1>1, <1>2, <1>3, <1>4, <1>7, <1>8, <1>11, <2>1, <2>3 DEF DropTables
<1> QED
  BY <1>3, <1>9, <1>10, <1>11

(* Dropping a route keeps the types.                                       *)
LEMMA DropTypes ==
  ASSUME Types, NEW p \in Handlers, dropRoute(p)
  PROVE  Types'
<1>0. PICK g : g = h[p]
  OBVIOUS
<1>1. /\ DoneSlot(g) /\ g.op = "drop" /\ g.s \in Subs /\ g.j \in Jobs /\ g.j[1] = g.s
      /\ g.task \in BOOLEAN /\ h' = [h EXCEPT ![p] = Idle] /\ DropTables(g)
  BY <1>0, DropRouteIs
<1>2. UNCHANGED <<bds, clock, sweep, recon, env, tally, swept>>
  BY DEF dropRoute
<1>3. granted' = granted /\ slurm' = slurm
  BY <1>2 DEF env
<1>4. /\ DOMAIN routes' \subseteq DOMAIN routes
      /\ \A s \in DOMAIN routes' : routes'[s] = routes[s]
      /\ DOMAIN jobToToken' \subseteq DOMAIN jobToToken
      /\ \A j \in DOMAIN jobToToken' : jobToToken'[j] = jobToToken[j]
      /\ DOMAIN tokenArrayN' \subseteq DOMAIN tokenArrayN
  BY <1>1 DEF DropTables
<1>5. ASSUME NEW s \in DOMAIN tokenArrayN'
      PROVE  s \in Subs /\ tokenArrayN'[s] \in 1 .. Submissions[s].n
  <2>1. /\ s \in DOMAIN tokenArrayN /\ s \in Subs
        /\ tokenArrayN[s] \in 1 .. Submissions[s].n /\ Submissions[s].n \in Nat
    BY <1>4, SubIs DEF SubRecord, Types, Tables
  <2>2. CASE s # g.s \/ g.task = FALSE
    BY <1>1, <2>1, <2>2 DEF DropTables
  <2>3. CASE s = g.s /\ g.task = TRUE
    <3>1. ~Last(g)
      BY <1>1, <2>3 DEF DropTables
    <3>2. ~(tokenArrayN[s] <= 1)
      BY <2>1, <2>3, <3>1 DEF Last
    <3>3. tokenArrayN'[s] = tokenArrayN[s] - 1
      BY <1>1, <2>3 DEF DropTables
    <3> QED
      BY <2>1, <3>2, <3>3
  <2> QED
    BY <1>1, <2>2, <2>3
<1>6. Tables'
  <2>1. \A s \in DOMAIN routes' : s \in Subs /\ granted[s] = "yes" /\ Whole(s, routes'[s])
    BY <1>4 DEF Types, Tables
  <2>2. \A j \in DOMAIN jobToToken' :
          /\ j \in Jobs /\ jobToToken'[j] = j[1] /\ granted[j[1]] = "yes"
          /\ slurm[j] \in {"running", "gone"}
    BY <1>4 DEF Types, Tables
  <2>3. \A s \in DOMAIN tokenArrayN' : IsArray(s) /\ granted[s] = "yes"
    BY <1>4 DEF Types, Tables
  <2> QED
    BY <1>3, <1>5, <2>1, <2>2, <2>3 DEF Tables, Whole
<1>7. Slot(Idle) /\ Idle.op \notin GateOps /\ Idle.op \notin BindOps \cup DoneOps
  BY DEF Slot, Idle, GateOps, BindOps, DoneOps
<1>8. h[p].op \notin GateOps
  BY <1>0, <1>1 DEF GateOps
<1> QED
  BY <1>1, <1>2, <1>4, <1>6, <1>7, <1>8, HookTypes

(* What a janitor collects are items.                                      *)
LEMMA CollectIs ==
  ASSUME Budgets, NEW a \in Accounts, NEW live
  PROVE  /\ Unbound(bds[a]) \subseteq Open(bds[a])
         /\ Orphans(bds[a], live) \subseteq Open(bds[a])
         /\ Open(bds[a]) \subseteq Items
<1>1. PICK b : b = bds[a]
  OBVIOUS
<1>2. b \in PlainRecord(a)
  BY <1>1 DEF Budgets
<1>3. Unbound(b) \subseteq Open(b)
  BY DEF Unbound, Open
<1>4. Orphans(b, live) \subseteq Open(b)
  BY DEF Orphans, Open
<1>5. ASSUME NEW x \in Open(b) PROVE x \in Items
  <2>1. x = <<x[1], x[2]>> /\ x[1] \in Token /\ x[2] \in Int
    BY <1>2, OpenIs
  <2> QED
    BY <2>1 DEF Items
<1> QED
  BY <1>1, <1>3, <1>4, <1>5

(* The janitors' steps.                                                    *)
LEMMA JanitorTypes ==
  ASSUME Types,
         \/ \E a \in Accounts : SweepUnbound(a) \/ SweepOrphans(a)
         \/ sweepCancel \/ squeue \/ handleReconcile \/ reconCancel
  PROVE  Types'
<1>0. /\ Budgets /\ Sweeping /\ Reconciling /\ clock \in 0 .. MaxClock
      /\ faults \in SUBSET UNION Faults /\ swept \subseteq Subs
  BY DEF Types, World
<1>1. CASE /\ UNCHANGED <<bds, clock, tables, h, env, tally, swept>>
           /\ Sweeping' /\ Reconciling'
  <2>1. /\ UNCHANGED <<bds, billed, faults, clock, swept>> /\ h' = h
        /\ UNCHANGED <<tables, env>>
    BY <1>1 DEF tally
  <2>2. Budgets'
    BY <1>0, <2>1, StillQuiet
  <2> QED
    BY <1>0, <1>1, <2>1, <2>2, IdleTypes
<1>2. ASSUME NEW a \in Accounts, SweepUnbound(a) PROVE Types'
  <2>1. /\ UNCHANGED <<bds, clock, tables, h, env, tally, swept>> /\ recon' = recon
        /\ sweep' = IF Unbound(bds[a]) = {} THEN Idle
                    ELSE [op |-> "sweep", a |-> a, todo |-> Unbound(bds[a])]
    BY <1>2 DEF SweepUnbound
  <2>2. PICK todo : todo = Unbound(bds[a])
    OBVIOUS
  <2>3. todo \subseteq Items
    BY <1>0, <2>2, CollectIs
  <2>4. Sweeping'
    BY <2>1, <2>2, <2>3 DEF Sweeping
  <2>5. Reconciling'
    BY <1>0, <2>1 DEF Reconciling
  <2> QED
    BY <1>1, <2>1, <2>4, <2>5
<1>3. ASSUME NEW a \in Accounts, SweepOrphans(a) PROVE Types'
  <2>1. /\ UNCHANGED <<bds, clock, tables, h, env, tally, swept>> /\ sweep' = sweep
        /\ recon.op = "sweep" /\ a \in recon.left
        /\ LET todo == Orphans(bds[a], recon.keys)
           IN  recon' = IF todo = {} /\ recon.left = {a} THEN Idle
                        ELSE [recon EXCEPT !.a = a, !.todo = todo, !.left = @ \ {a}]
    BY <1>3 DEF SweepOrphans
  <2>2. PICK todo, left : todo = Orphans(bds[a], recon.keys) /\ left = recon.left \ {a}
    OBVIOUS
  <2>3. todo \subseteq Items
    BY <1>0, <2>2, CollectIs
  <2>4. /\ DOMAIN recon = {"op", "live", "bound", "keys", "left", "a", "todo"}
        /\ left \subseteq Accounts
    BY <1>0, <2>1, <2>2 DEF Reconciling
  <2>5. Reconciling'
    <3>1. CASE recon' = Idle
      BY <3>1 DEF Reconciling, Idle
    <3>2. CASE recon' = [recon EXCEPT !.a = a, !.todo = todo, !.left = left]
      <4>1. /\ recon'.op = "sweep" /\ recon'.todo = todo /\ recon'.left = left
            /\ recon'.a = a /\ DOMAIN recon' = DOMAIN recon
        BY <2>1, <2>4, <3>2
      <4> QED
        BY <2>3, <2>4, <4>1 DEF Reconciling
    <3> QED
      BY <2>1, <2>2, <3>1, <3>2
  <2>6. Sweeping'
    BY <1>0, <2>1 DEF Sweeping
  <2> QED
    BY <1>1, <2>1, <2>5, <2>6
<1>4. CASE sweepCancel
  <2>1. /\ sweep.op = "sweep" /\ sweep.a \in Accounts /\ sweep.todo \subseteq Items
        /\ DOMAIN sweep = {"op", "a", "todo"}
    BY <1>0, <1>4 DEF sweepCancel, Sweeping
  <2>2. PICK item \in sweep.todo, wal \in Wals("sweep") :
          /\ Refund(sweep.a, item, wal)
          /\ sweep' = IF sweep.todo = {item} THEN Idle
                      ELSE [sweep EXCEPT !.todo = @ \ {item}]
    BY <1>4 DEF sweepCancel
  <2>3. PICK a, s : a = sweep.a /\ s = item[1][1]
    OBVIOUS
  <2>4. /\ s \in Subs /\ Budgets' /\ faults' \in SUBSET UNION Faults
        /\ swept' = swept \cup {s}
    <3>1. a \in Accounts /\ item \in Items /\ Refund(a, item, wal)
      BY <2>1, <2>2, <2>3
    <3> QED
      BY <2>3, <3>1, RefundDoes
  <2>5. Sweeping'
    <3>1. PICK todo : todo = sweep.todo \ {item}
      OBVIOUS
    <3>2. CASE sweep' = Idle
      BY <3>2 DEF Sweeping
    <3>3. CASE sweep' = [sweep EXCEPT !.todo = todo]
      BY <2>1, <3>1, <3>3 DEF Sweeping
    <3> QED
      BY <2>2, <3>1, <3>2, <3>3
  <2>6. /\ h' = h /\ UNCHANGED <<tables, env>> /\ clock' = clock /\ recon' = recon
    BY <1>4 DEF sweepCancel
  <2>7. Reconciling' /\ swept' \subseteq Subs
    BY <1>0, <2>4, <2>6 DEF Reconciling
  <2> QED
    BY <1>0, <2>4, <2>5, <2>6, <2>7, IdleTypes
<1>5. CASE squeue
  <2>1. /\ UNCHANGED <<bds, clock, tables, h, env, tally, swept>> /\ sweep' = sweep
        /\ recon'.op = "listed"
    BY <1>5 DEF squeue
  <2>2. Sweeping' /\ Reconciling'
    BY <1>0, <2>1 DEF Sweeping, Reconciling
  <2> QED
    BY <1>1, <2>1, <2>2
<1>6. CASE handleReconcile
  <2>1. /\ UNCHANGED <<bds, clock, tables, h, env, tally, swept>> /\ sweep' = sweep
        /\ recon'.op = "sweep" /\ recon'.todo = {} /\ recon'.left = Accounts
        /\ DOMAIN recon' = {"op", "live", "bound", "keys", "left", "a", "todo"}
    BY <1>6 DEF handleReconcile
  <2>2. Sweeping' /\ Reconciling'
    BY <1>0, <2>1 DEF Sweeping, Reconciling
  <2> QED
    BY <1>1, <2>1, <2>2
<1>7. CASE reconCancel
  <2>1. PICK item \in recon.todo, wal \in Wals("sweep") :
          /\ Refund(recon.a, item, wal)
          /\ recon' = IF recon.todo = {item} /\ recon.left = {} THEN Idle
                      ELSE [recon EXCEPT !.todo = @ \ {item}]
    BY <1>7 DEF reconCancel
  <2>2. /\ recon.op = "sweep" /\ recon.a \in Accounts /\ recon.todo \subseteq Items
        /\ recon.left \subseteq Accounts
        /\ DOMAIN recon = {"op", "live", "bound", "keys", "left", "a", "todo"}
    BY <1>0, <1>7, <2>1 DEF reconCancel, Reconciling
  <2>3. PICK a, s : a = recon.a /\ s = item[1][1]
    OBVIOUS
  <2>4. /\ s \in Subs /\ Budgets' /\ faults' \in SUBSET UNION Faults
        /\ swept' = swept \cup {s}
    <3>1. a \in Accounts /\ item \in Items /\ Refund(a, item, wal)
      BY <2>1, <2>2, <2>3
    <3> QED
      BY <2>3, <3>1, RefundDoes
  <2>5. Reconciling'
    <3>1. PICK todo : todo = recon.todo \ {item}
      OBVIOUS
    <3>2. CASE recon' = Idle
      BY <3>2 DEF Reconciling, Idle
    <3>3. CASE recon' = [recon EXCEPT !.todo = todo]
      <4>1. /\ recon'.op = "sweep" /\ recon'.todo = todo /\ recon'.left = recon.left
            /\ recon'.a = recon.a /\ DOMAIN recon' = DOMAIN recon
        BY <2>2, <3>3
      <4> QED
        BY <2>2, <3>1, <4>1 DEF Reconciling
    <3> QED
      BY <2>1, <3>1, <3>2, <3>3
  <2>6. /\ h' = h /\ UNCHANGED <<tables, env>> /\ clock' = clock /\ sweep' = sweep
    BY <1>7 DEF reconCancel
  <2>7. Sweeping' /\ swept' \subseteq Subs
    BY <1>0, <2>4, <2>6 DEF Sweeping
  <2> QED
    BY <1>0, <2>4, <2>5, <2>6, <2>7, IdleTypes
<1> QED
  BY <1>2, <1>3, <1>4, <1>5, <1>6, <1>7

(* Slurm's steps.                                                          *)
LEMMA SlurmTypes ==
  ASSUME Types, NEW j \in Jobs, SlurmStart(j) \/ SlurmEnd(j)
  PROVE  Types'
<1>0. /\ UNCHANGED <<bds, clock, tables, h, sweep, recon, granted, tally, swept>>
  BY DEF SlurmStart, SlurmEnd
<1>1. /\ bds' = bds /\ billed' = billed /\ faults' = faults /\ clock' = clock
      /\ routes' = routes /\ jobToToken' = jobToToken /\ tokenArrayN' = tokenArrayN
      /\ h' = h /\ sweep' = sweep /\ recon' = recon /\ granted' = granted
      /\ swept' = swept
  BY <1>0 DEF tables, tally
<1>2. PICK v : /\ slurm' = [slurm EXCEPT ![j] = v]
               /\ \/ slurm[j] = "queued" /\ v \in {"running", "gone"} /\ report' = report
                  \/ /\ slurm[j] = "running" /\ v = "gone"
                     /\ \E r \in Reports : report' = [report EXCEPT ![j] = r]
  BY DEF SlurmStart, SlurmEnd
<1>3. /\ slurm' \in [Jobs -> {"new", "queued", "running", "gone"}] /\ slurm'[j] = v
      /\ \A i \in Jobs \ {j} : slurm'[i] = slurm[i]
  BY <1>2 DEF Types, World
<1>4. /\ DOMAIN report' = Jobs /\ \A i \in Jobs \ {j} : report'[i] = report[i]
      /\ \A i \in Jobs : report'[i] = <<"none", 0>> \/ report'[i] \in Reports
  BY <1>2 DEF Types, World
<1>5. World'
  BY <1>1, <1>3, <1>4 DEF Types, World
<1>6. \A i \in Jobs : slurm[i] \in {"running", "gone"} => slurm'[i] \in {"running", "gone"}
  BY <1>2, <1>3
<1>7. \A i \in Jobs : slurm[i] = "gone" => slurm'[i] = "gone" /\ report'[i] = report[i]
  BY <1>2, <1>3, <1>4
<1>8. Steady
  BY <1>1, <1>6, <1>7 DEF Steady
<1>9. Tables'
  BY <1>1, <1>6 DEF Types, Tables
<1>10. Slots' /\ OneGate'
  <2>1. Slots /\ OneGate
    BY DEF Types
  <2> QED
    BY <1>1, <1>8, <2>1, SlotsStay
<1>11. Budgets'
  BY <1>1, StillQuiet DEF Types
<1>12. Sweeping' /\ Reconciling'
  BY <1>1 DEF Types, Sweeping, Reconciling
<1> QED
  BY <1>5, <1>9, <1>10, <1>11, <1>12 DEF Types

(* Time passes.                                                            *)
LEMMA TickTypes ==
  ASSUME Types, Tick
  PROVE  Types'
<1>1. /\ UNCHANGED <<bds, billed, faults, swept, sweep, recon>> /\ h' = h
      /\ UNCHANGED <<tables, env>> /\ clock < MaxClock /\ clock' = clock + 1
  BY DEF Tick, tally
<1>2. clock' \in 0 .. MaxClock
  BY <1>1, SeamAssumption DEF Types, World
<1>3. Budgets'
  BY <1>1, StillQuiet DEF Types
<1>4. /\ Sweeping' /\ Reconciling' /\ faults' \in SUBSET UNION Faults
      /\ swept' \subseteq Subs
  BY <1>1 DEF Types, Sweeping, Reconciling, World
<1> QED
  BY <1>1, <1>2, <1>3, <1>4, IdleTypes

(* No handler is at work.                                                  *)
LEMMA AllIdle ==
  ASSUME h = [p \in Handlers |-> Idle]
  PROVE  Slots /\ OneGate
<1>1. \A p \in Handlers : h[p] = Idle
  OBVIOUS
<1>2. Idle.op \notin GateOps /\ Idle.op \notin BindOps \cup DoneOps /\ Slot(Idle)
  BY DEF Idle, GateOps, BindOps, DoneOps, Slot
<1>3. DOMAIN h = Handlers /\ h = [p \in Handlers |-> h[p]]
  OBVIOUS
<1>4. Slots
  BY <1>1, <1>2, <1>3 DEF Slots
<1>5. OneGate
  BY <1>1, <1>2 DEF OneGate
<1> QED
  BY <1>4, <1>5

(* A crash and restart.                                                    *)
LEMMA RestartTypes ==
  ASSUME Types, Restart
  PROVE  Types'
<1>1. /\ Allowed("crash") /\ faults' = faults \cup {"crash"}
      /\ routes' = Empty /\ jobToToken' = Empty /\ tokenArrayN' = Empty
      /\ h' = [p \in Handlers |-> Idle] /\ sweep' = Idle /\ recon' = Idle
      /\ granted' = [s \in Subs |-> IF granted[s] = "asked" THEN "lost" ELSE granted[s]]
      /\ UNCHANGED <<bds, clock, slurm, report, billed, swept>>
  BY DEF Restart
<1>2. Budgets'
  BY <1>1, StillQuiet DEF Types
<1>3. faults' \in SUBSET UNION Faults
  BY <1>1 DEF Allowed
<1>4. granted' \in [Subs -> {"no", "asked", "yes", "rejected", "lost"}]
  BY <1>1 DEF Types, World
<1>5. World'
  BY <1>1, <1>3, <1>4 DEF Types, World
<1>6. Tables'
  <2>1. DOMAIN Empty = {}
    BY DEF Empty
  <2> QED
    BY <1>1, <2>1 DEF Tables
<1>7. Sweeping' /\ Reconciling'
  BY <1>1 DEF Sweeping, Reconciling, Idle
<1>8. Slots' /\ OneGate'
  <2>1. \A p \in Handlers : h'[p] = Idle
    BY <1>1
  <2>2. Idle.op \notin GateOps /\ Idle.op \notin BindOps \cup DoneOps /\ Slot(Idle)
    BY DEF Idle, GateOps, BindOps, DoneOps, Slot
  <2>3. DOMAIN h' = Handlers /\ h' = [p \in Handlers |-> h'[p]]
    BY <1>1
  <2>4. Slots'
    BY <2>1, <2>2, <2>3 DEF Slots, Slot
  <2>5. OneGate'
    BY <2>1, <2>2 DEF OneGate
  <2> QED
    BY <2>4, <2>5
<1> QED
  BY <1>2, <1>5, <1>6, <1>7, <1>8 DEF Types

(* An opening budget holds nothing.                                        *)
LEMMA OpeningIs ==
  ASSUME NEW a \in Accounts
  PROVE  /\ NewAccount(a) \in PlainRecord(a) /\ Open(NewAccount(a)) = {}
         /\ Bound(NewAccount(a)) = {}
<1> DEFINE b == NewAccount(a)
           e == [j \in {} |-> 0]
<1>1. e \in EscrowMaps /\ e \in ArrayMaps /\ DOMAIN e = {}
  <2>1. e \in [{} -> EscrowRecord] /\ e \in [{} -> ArrayEscrow] /\ {} \in SUBSET Token
    OBVIOUS
  <2> QED
    BY <2>1 DEF EscrowMaps, ArrayMaps
<1>2. PICK m, o, c : m = MaxClock + 1 /\ o = Opening /\ c = FlatRates[a]
  OBVIOUS
<1>3. b = [C |-> c, TS |-> 0, TE |-> m, B |-> o, ReservedTotal |-> 0, Consumed |-> 0,
           WriteOff |-> 0, B0 |-> o, BillInfraFailures |-> FALSE, K |-> 0,
           BurstEnabled |-> FALSE, BurstCeilingPct |-> 0, BurstDrawCap |-> 0,
           burstPot |-> 0, fracAcc |-> 0, rLive |-> 0, lastTouch |-> 0,
           escrows |-> e, arrays |-> e, status |-> "Active"]
  BY <1>2 DEF NewAccount, NewDurableBurst
<1>4. o \in Int
  BY <1>2, SeamAssumption
<1> HIDE DEF b, e
<1>5. b \in PlainRecord(a)
  BY <1>1, <1>2, <1>3, <1>4 DEF PlainRecord
<1>6. DOMAIN b.escrows = {} /\ DOMAIN b.arrays = {}
  BY <1>1, <1>3
<1>7. Open(b) = {} /\ Bound(b) = {}
  BY <1>6 DEF Open, Bound, Orphans
<1> QED
  BY <1>5, <1>7 DEF b

(* A daemon that starts on new accounts is well typed and holds nothing.   *)
LEMMA InitTypes ==
  ASSUME Init
  PROVE  Types /\ \A s \in Subs : ItemsOf(s) = {}
<1>1. /\ bds = [a \in Accounts |-> NewAccount(a)]
      /\ clock = 0 /\ faults = {}
      /\ routes = Empty /\ jobToToken = Empty /\ tokenArrayN = Empty
      /\ h = [p \in Handlers |-> Idle] /\ sweep = Idle /\ recon = Idle
      /\ granted = [s \in Subs |-> "no"]
      /\ slurm = [j \in Jobs |-> "new"]
      /\ report = [j \in Jobs |-> <<"none", 0>>]
      /\ billed = [s \in Subs |-> 0] /\ swept = {}
  BY DEF Init
<1>2. ASSUME NEW a \in Accounts
      PROVE  bds[a] \in PlainRecord(a) /\ IsFiniteSet(Open(bds[a])) /\ Open(bds[a]) = {}
  BY <1>1, OpeningIs, FS_EmptySet
<1>3. Budgets
  <2>1. DOMAIN bds = Accounts /\ bds = [a \in Accounts |-> bds[a]]
    BY <1>1
  <2>2. billed \in [Subs -> Nat]
    BY <1>1
  <2> QED
    BY <1>2, <2>1, <2>2 DEF Budgets
<1>4. World
  <2>1. 0 \in 0 .. MaxClock
    BY SeamAssumption
  <2> QED
    BY <1>1, <2>1 DEF World
<1>5. Slots /\ OneGate
  BY <1>1, AllIdle
<1>6. Tables
  <2>1. DOMAIN Empty = {}
    BY DEF Empty
  <2> QED
    BY <1>1, <2>1 DEF Tables
<1>7. Sweeping /\ Reconciling
  BY <1>1 DEF Sweeping, Reconciling, Idle
<1>8. ASSUME NEW s \in Subs PROVE ItemsOf(s) = {}
  BY <1>2 DEF ItemsOf
<1> QED
  BY <1>3, <1>4, <1>5, <1>6, <1>7, <1>8 DEF Types

(* Every step keeps them.                                                  *)
LEMMA TypesNext ==
  ASSUME Types, [Next]_vars
  PROVE  Types'
<1>1. ASSUME NEW p \in Handlers, NEW s \in Subs,
             handleGate(p, s) \/ handleGateMultiSource(p, s)
      PROVE  Types'
  BY <1>1, AskTypes
<1>2. ASSUME NEW p \in Handlers, NEW j \in Jobs,
             \/ handleBind(p, j) \/ handleSettle(p, j, TRUE)
             \/ Epilog /\ handleSettle(p, j, FALSE)
      PROVE  Types'
  BY <1>2, HookArrives
<1>3. ASSUME NEW p \in Handlers, HandlerStep(p) PROVE Types'
  <2>1. CASE readBalance(p) \/ rollback(p)
    BY <2>1, AskTypes
  <2>2. CASE \/ placeLeg(p) \/ bindReprice(p) \/ bindStart(p)
             \/ settleLeg(p) \/ settleArrayTask(p)
    BY <2>2, CallTypes
  <2>3. CASE recordRoute(p)
    BY <2>3, RecordTypes
  <2>4. CASE bindRecord(p)
    BY <2>4, BindRecordTypes
  <2>5. CASE dropRoute(p)
    BY <2>5, DropTypes
  <2> QED
    BY <1>3, <2>1, <2>2, <2>3, <2>4, <2>5 DEF HandlerStep
<1>4. CASE \/ \E a \in Accounts : SweepUnbound(a) \/ SweepOrphans(a)
           \/ sweepCancel \/ squeue \/ handleReconcile \/ reconCancel
  BY <1>4, JanitorTypes
<1>5. ASSUME NEW j \in Jobs, SlurmStart(j) \/ SlurmEnd(j) PROVE Types'
  BY <1>5, SlurmTypes
<1>6. CASE Tick
  BY <1>6, TickTypes
<1>7. CASE Restart
  BY <1>7, RestartTypes
<1>8. CASE UNCHANGED vars
  <2>1. /\ UNCHANGED <<bds, billed, faults, swept, sweep, recon>> /\ h' = h
        /\ UNCHANGED <<tables, env>> /\ clock' = clock
    BY <1>8 DEF vars, tally
  <2>2. Budgets'
    BY <2>1, StillQuiet DEF Types
  <2>3. /\ Sweeping' /\ Reconciling' /\ faults' \in SUBSET UNION Faults
        /\ swept' \subseteq Subs /\ clock' \in 0 .. MaxClock
    BY <2>1 DEF Types, Sweeping, Reconciling, World
  <2> QED
    BY <2>1, <2>2, <2>3, IdleTypes
<1> QED
  BY <1>1, <1>2, <1>3, <1>4, <1>5, <1>6, <1>7, <1>8 DEF Next

(* They are the types of the model.                                        *)
LEMMA TypesImply ==
  ASSUME Types
  PROVE  TypeOK
<1>1. \A a \in Accounts : DOMAIN bds[a].escrows \cup DOMAIN bds[a].arrays \subseteq Token
  <2>1. ASSUME NEW a \in Accounts
        PROVE  DOMAIN bds[a].escrows \subseteq Token /\ DOMAIN bds[a].arrays \subseteq Token
    <3>1. bds[a].escrows \in EscrowMaps /\ bds[a].arrays \in ArrayMaps
      BY PlainFields DEF Types, Budgets
    <3> QED
      BY <3>1 DEF EscrowMaps, ArrayMaps
  <2> QED
    BY <2>1
<1>2. \A s \in DOMAIN routes : \A k \in 1 .. Len(routes[s]) :
        routes[s][k].a \in Accounts /\ routes[s][k].key \in Token
  <2>1. ASSUME NEW s \in DOMAIN routes, NEW k \in 1 .. Len(routes[s])
        PROVE  routes[s][k].a \in Accounts /\ routes[s][k].key \in Token
    <3>1. PICK L : L = routes[s]
      OBVIOUS
    <3>2. s \in Subs /\ Placed(s, L) /\ k \in 1 .. Len(L)
      BY <3>1 DEF Types, Tables, Whole
    <3>3. L[k].a \in Accounts /\ L[k].key \in Token
      BY <3>2, LegAt
    <3> QED
      BY <3>1, <3>3
  <2> QED
    BY <2>1
<1>3. /\ DOMAIN routes \subseteq Subs /\ DOMAIN jobToToken \subseteq Jobs
      /\ \A s \in DOMAIN tokenArrayN : tokenArrayN[s] \in 1 .. Submissions[s].n
  BY DEF Types, Tables
<1>4. Range(jobToToken) \subseteq Subs
  <2>1. \A j \in DOMAIN jobToToken : jobToToken[j] \in Subs
    BY JobIs DEF Types, Tables
  <2> QED
    BY <2>1 DEF Range
<1>5. ASSUME NEW p \in Handlers
      PROVE  h[p].op \in {"idle", "read", "place", "rollback", "record", "bind",
                          "reprice", "start", "settle", "drop"}
  <2>1. h[p].op \in {"idle"} \cup GateOps \cup BindOps \cup DoneOps
    BY GateSlot, SlotKind
  <2> QED
    BY <2>1 DEF GateOps, BindOps, DoneOps
<1>6. /\ clock \in 0 .. MaxClock /\ faults \in SUBSET UNION Faults
      /\ granted \in [Subs -> {"no", "asked", "yes", "rejected", "lost"}]
      /\ slurm \in [Jobs -> {"new", "queued", "running", "gone"}]
      /\ billed \in [Subs -> Nat] /\ swept \subseteq Subs
  BY DEF Types, World, Budgets
<1> QED
  BY <1>1, <1>2, <1>3, <1>4, <1>5, <1>6 DEF TypeOK

(* The types hold throughout.                                              *)
LEMMA TypesHold == Spec => []Types
<1>1. Init => Types
  BY InitTypes
<1>2. Types /\ [Next]_vars => Types'
  BY TypesNext
<1> QED
  BY <1>1, <1>2, PTL DEF Spec

(* Every variable of the daemon keeps its type: escrows under tokens of    *)
(* known submissions, routes to existing accounts, counts of tasks within  *)
(* the array, handlers in one of their states (server.go, funding.go).     *)
THEOREM TypeCorrect == Spec => []TypeOK
<1>1. Types => TypeOK
  BY TypesImply
<1> QED
  BY <1>1, TypesHold, PTL

-----------------------------------------------------------------------------
(* What a gate does is one of them.                                        *)
LEMMA GateKinds ==
  ASSUME Types, NEW p \in Handlers
  PROVE  /\ \A s \in Subs : handleGate(p, s) \/ handleGateMultiSource(p, s) => GateStep
         /\ readBalance(p) \/ placeLeg(p) \/ rollback(p) => GateStep
<1>0. PICK g : g = h[p]
  OBVIOUS
<1>1. ASSUME NEW s \in Subs, handleGate(p, s) PROVE GateStep
  <2>1. PICK L :
           /\ Whole(s, L) /\ Len(L) = 1
           /\ \/ /\ Quiet /\ h' = h
                 /\ granted' = [granted EXCEPT ![s] = "rejected"]
              \/ /\ Grew(s, Slice(s, L[1]), C0(s), L[1].w)
                 /\ h' = [h EXCEPT ![p] = [op |-> "record", s |-> s, legs |-> L]]
                 /\ granted' = [granted EXCEPT ![s] = "asked"]
    BY <1>1, GateDoes
  <2>2. /\ h[p] = Idle /\ granted[s] = "no" /\ Keeps /\ slurm' = slurm
        /\ report' = report /\ swept' = swept
    BY <1>1 DEF handleGate, tables, Keeps
  <2>3. CASE Quiet /\ h' = h /\ granted' = [granted EXCEPT ![s] = "rejected"]
    <3>1. h' = [h EXCEPT ![p] = Idle]
      BY <2>2, <2>3 DEF Types, Slots
    <3>2. GateFrame(p, s, Idle, "rejected")
      BY <2>2, <2>3, <3>1 DEF GateFrame
    <3>3. Refusal(p, s, Idle, "rejected")
      BY <2>2, <2>3 DEF Refusal, Asking
    <3> QED
      BY <3>2, <3>3 DEF GateStep, GateMove
  <2>4. CASE /\ Grew(s, Slice(s, L[1]), C0(s), L[1].w)
             /\ h' = [h EXCEPT ![p] = [op |-> "record", s |-> s, legs |-> L]]
             /\ granted' = [granted EXCEPT ![s] = "asked"]
    <3>1. PICK g2 : g2 = [op |-> "record", s |-> s, legs |-> L]
      OBVIOUS
    <3>2. GateFrame(p, s, g2, "asked")
      BY <2>2, <2>4, <3>1 DEF GateFrame
    <3>3. g2.s = s /\ g2.legs = L /\ RecordSlot(g2)
      BY <2>1, <3>1 DEF RecordSlot, Whole, Placed
    <3>4. Admission(p, s, g2, "asked")
      BY <2>1, <2>2, <2>4, <3>3 DEF Admission
    <3> QED
      BY <3>2, <3>4 DEF GateStep, GateMove
  <2> QED
    BY <2>1, <2>3, <2>4
<1>2. ASSUME NEW s \in Subs, handleGateMultiSource(p, s) PROVE GateStep
  <2>1. PICK g2 : g2 = [op |-> "read", s |-> s, c |-> resolveSources(s), bal |-> <<>>]
    OBVIOUS
  <2>2. /\ h[p] = Idle /\ granted[s] = "no" /\ Keeps /\ slurm' = slurm
        /\ report' = report /\ swept' = swept /\ h' = [h EXCEPT ![p] = g2]
        /\ granted' = [granted EXCEPT ![s] = "asked"] /\ IsMulti(s)
    BY <1>2, <2>1 DEF handleGateMultiSource, tables, Keeps, Busy, Answer
  <2>3. Quiet
    BY <1>2, StillQuiet DEF handleGateMultiSource, tally
  <2>4. g2.op = "read" /\ g2.s = s /\ Types'
    BY <1>2, <2>1, AskTypes
  <2>5. h'[p] = g2
    BY <2>2 DEF Types, Slots
  <2>6. Slot(g2)
    BY <2>4, <2>5 DEF Types, Slots
  <2>7. ReadSlot(g2)
    BY <2>4, <2>6, SlotKind
  <2>8. GateFrame(p, s, g2, "asked")
    BY <2>2 DEF GateFrame
  <2>9. ReadsOn(p, s, g2, "asked")
    BY <2>2, <2>3, <2>4, <2>7 DEF ReadsOn, Asking
  <2> QED
    BY <2>8, <2>9 DEF GateStep, GateMove
<1>3. ASSUME g.op \in GateOps PROVE g.s \in Subs /\ granted[g.s] = "asked"
  <2>1. Slot(g) /\ granted[g.s] = "asked"
    BY <1>0, <1>3, GateSlot
  <2> QED
    BY <1>3, <2>1, SlotFields DEF GateOps
<1>4. ASSUME g.op \in GateOps, granted' = granted
      PROVE  granted' = [granted EXCEPT ![g.s] = "asked"]
  BY <1>3, <1>4 DEF Types, World
<1>5. CASE readBalance(p)
  <2>1. ReadSlot(g) /\ Reading(p, g)
    BY <1>0, <1>5, ReadDoes
  <2>2. g.op = "read" /\ g.op \in GateOps
    BY <2>1, SMTT(30) DEF ReadSlot, GateOps
  <2>3. Quiet
    BY <1>5, StillQuiet DEF readBalance, tally
  <2>4. Keeps /\ slurm' = slurm /\ report' = report /\ swept' = swept
    BY <1>5 DEF readBalance, tables, Keeps
  <2>5. PICK g2 :
         /\ h' = [h EXCEPT ![p] = g2]
         /\ \/ g2 = Idle /\ granted' = [granted EXCEPT ![g.s] = "rejected"]
            \/ ReadSlot(g2) /\ g2.s = g.s /\ granted' = granted
            \/ PlaceSlot(g2) /\ g2.s = g.s /\ g2.legs = <<>> /\ granted' = granted
    BY <2>1 DEF Reading
  <2>6. CASE g2 = Idle /\ granted' = [granted EXCEPT ![g.s] = "rejected"]
    <3>1. GateFrame(p, g.s, g2, "rejected")
      BY <1>0, <1>3, <2>2, <2>4, <2>5, <2>6 DEF GateFrame
    <3>2. Refusal(p, g.s, g2, "rejected")
      BY <1>0, <2>2, <2>3, <2>6 DEF Refusal, Asking
    <3> QED
      BY <1>3, <2>2, <3>1, <3>2 DEF GateStep, GateMove
  <2>7. CASE ReadSlot(g2) /\ g2.s = g.s /\ granted' = granted
    <3>1. GateFrame(p, g.s, g2, "asked")
      BY <1>0, <1>3, <1>4, <2>2, <2>4, <2>5, <2>7 DEF GateFrame
    <3>2. ReadsOn(p, g.s, g2, "asked")
      BY <1>0, <2>2, <2>3, <2>7 DEF ReadsOn, Asking
    <3> QED
      BY <1>3, <2>2, <3>1, <3>2 DEF GateStep, GateMove
  <2>8. CASE PlaceSlot(g2) /\ g2.s = g.s /\ g2.legs = <<>> /\ granted' = granted
    <3>1. GateFrame(p, g.s, g2, "asked")
      BY <1>0, <1>3, <1>4, <2>2, <2>4, <2>5, <2>8 DEF GateFrame
    <3>2. Plans(p, g.s, g2, "asked")
      BY <1>0, <2>2, <2>3, <2>8 DEF Plans
    <3> QED
      BY <1>3, <2>2, <3>1, <3>2 DEF GateStep, GateMove
  <2> QED
    BY <2>5, <2>6, <2>7, <2>8
<1>6. CASE placeLeg(p)
  <2>1. PlaceSlot(g) /\ (Placing(p, g) \/ GivingUp(p, g))
    BY <1>0, <1>6, PlaceDoes
  <2>2. g.op = "place" /\ g.op \in GateOps
    BY <2>1, SMTT(30) DEF PlaceSlot, GateOps
  <2>3. Keeps /\ slurm' = slurm /\ report' = report /\ swept' = swept /\ granted' = granted
    BY <1>6 DEF placeLeg, tables, env, Keeps
  <2>4. ASSUME NEW g2, h' = [h EXCEPT ![p] = g2] PROVE GateFrame(p, g.s, g2, "asked")
    BY <1>0, <1>3, <1>4, <2>2, <2>3, <2>4 DEF GateFrame
  <2>5. CASE Placing(p, g)
    <3>1. PICK l, g2 :
            /\ Fits(g.s, g.legs, l) /\ Longer(g.s, g.legs, l, g2.legs)
            /\ Grew(g.s, Slice(g.s, l), C0(g.s), l.w)
            /\ h' = [h EXCEPT ![p] = g2] /\ g2.s = g.s
            /\ RecordSlot(g2) \/ PlaceSlot(g2)
      BY <2>5 DEF Placing
    <3>2. PlacesOne(p, g.s, g2, "asked")
      BY <1>0, <2>1, <3>1 DEF PlacesOne
    <3> QED
      BY <1>3, <2>2, <2>4, <3>1, <3>2 DEF GateStep, GateMove
  <2>6. CASE GivingUp(p, g)
    <3>1. PICK g2 : g2 = [op |-> "rollback", s |-> g.s, legs |-> g.legs, k |-> 1, i |-> 0]
      OBVIOUS
    <3>2. Quiet /\ h' = [h EXCEPT ![p] = g2]
      BY <2>6, <3>1 DEF GivingUp
    <3>3. GivesUp(p, g.s, g2, "asked")
      BY <1>0, <2>1, <3>1, <3>2 DEF GivesUp
    <3> QED
      BY <1>3, <2>2, <2>4, <3>2, <3>3 DEF GateStep, GateMove
  <2> QED
    BY <2>1, <2>5, <2>6
<1>7. CASE rollback(p)
  <2>1. RollbackSlot(g) /\ (Cancelling(p, g) \/ Rejecting(p, g))
    BY <1>0, <1>7, RollbackDoes
  <2>2. g.op = "rollback" /\ g.op \in GateOps
    BY <2>1 DEF RollbackSlot, GateOps
  <2>3. Keeps /\ slurm' = slurm /\ report' = report /\ swept' = swept
    BY <1>7 DEF rollback, tables, Keeps
  <2>5. CASE Cancelling(p, g)
    <3>1. PICK l : l = g.legs[g.k]
      OBVIOUS
    <3>2. /\ g.k \in 1 .. Len(g.legs) /\ granted' = granted
          /\ Closes(g.s, LegItem(g.s, l, g.i), 0, "rollback")
      BY <2>5, <3>1 DEF Cancelling
    <3>3. PICK g2 :
           /\ h' = [h EXCEPT ![p] = g2] /\ RollbackSlot(g2)
           /\ g2.s = g.s /\ g2.legs = g.legs
           /\ g.i + 1 < l.n => g2.k = g.k /\ g2.i = g.i + 1
           /\ ~(g.i + 1 < l.n) => g2.k = g.k + 1 /\ g2.i = 0
      BY <2>5, <3>1 DEF Cancelling
    <3>4. GateFrame(p, g.s, g2, "asked")
      BY <1>0, <1>3, <1>4, <2>2, <2>3, <3>2, <3>3 DEF GateFrame
    <3>5. CancelsOne(p, g.s, g2, "asked")
      BY <1>0, <2>1, <3>1, <3>2, <3>3 DEF CancelsOne
    <3> QED
      BY <1>3, <2>2, <3>4, <3>5 DEF GateStep, GateMove
  <2>6. CASE Rejecting(p, g)
    <3>1. /\ Quiet /\ g.k > Len(g.legs) /\ h' = [h EXCEPT ![p] = Idle]
          /\ granted' = [granted EXCEPT ![g.s] = "rejected"]
      BY <2>6 DEF Rejecting
    <3>2. GateFrame(p, g.s, Idle, "rejected")
      BY <1>0, <1>3, <2>2, <2>3, <3>1 DEF GateFrame
    <3>3. Rejects(p, g.s, Idle, "rejected")
      BY <1>0, <2>1, <3>1 DEF Rejects
    <3> QED
      BY <1>3, <2>2, <3>2, <3>3 DEF GateStep, GateMove
  <2> QED
    BY <2>1, <2>5, <2>6
<1> QED
  BY <1>1, <1>2, <1>5, <1>6, <1>7

(* So is every step.                                                       *)
LEMMA StepKinds ==
  ASSUME Types, [Next]_vars
  PROVE  Moves
<1>1. ASSUME NEW p \in Handlers, NEW s \in Subs,
             handleGate(p, s) \/ handleGateMultiSource(p, s)
      PROVE  Moves
  BY <1>1, GateKinds DEF Moves
<1>2. ASSUME NEW p \in Handlers, NEW j \in Jobs, handleBind(p, j) PROVE Moves
  <2>1. PICK g2 :
           /\ h[p] = Idle /\ h' = [h EXCEPT ![p] = g2] /\ BindSlot(g2)
           /\ g2.op = "bind" /\ g2.s = j[1] /\ g2.j = j /\ g2.k = 1
           /\ j[1] \in DOMAIN routes /\ g2.legs = routes[j[1]]
           /\ slurm[j] = "running"
    BY <1>2, BindIs
  <2>2. /\ Keeps /\ slurm' = slurm /\ report' = report /\ swept' = swept
        /\ granted' = granted /\ faults' = faults /\ UNCHANGED <<bds, billed>>
    BY <1>2 DEF handleBind, tables, env, tally, Keeps
  <2>3. BindArrives(p, j, g2)
    BY <2>1, <2>2, StillQuiet DEF BindArrives, PastFrame
  <2> QED
    BY <2>3 DEF Moves, HandlerMoves
<1>3. ASSUME NEW p \in Handlers, NEW j \in Jobs,
             handleSettle(p, j, TRUE) \/ (Epilog /\ handleSettle(p, j, FALSE))
      PROVE  Moves
  <2>1. Settles(p, j)
    BY <1>3, SettleIs
  <2>2. PICK g2 :
         /\ h[p] = Idle /\ h' = [h EXCEPT ![p] = g2] /\ DoneSlot(g2)
         /\ g2.op = "settle" /\ g2.s = j[1] /\ g2.j = j /\ g2.k = 1
         /\ j[1] \in DOMAIN routes /\ g2.legs = routes[j[1]]
         /\ j \in DOMAIN jobToToken
         /\ slurm[j] = "gone" /\ report[j] \in Reports
    BY <2>1 DEF Settles
  <2>3. /\ Keeps /\ slurm' = slurm /\ report' = report /\ swept' = swept
        /\ granted' = granted /\ faults' = faults /\ UNCHANGED <<bds, billed>>
    BY <1>3 DEF handleSettle, tables, env, tally, Keeps
  <2>4. SettleArrives(p, j, g2)
    BY <2>2, <2>3, StillQuiet DEF SettleArrives, PastFrame
  <2> QED
    BY <2>4 DEF Moves, HandlerMoves
<1>4. ASSUME NEW p \in Handlers, HandlerStep(p) PROVE Moves
  <2>0. PICK g : g = h[p]
    OBVIOUS
  <2>1. CASE readBalance(p) \/ placeLeg(p) \/ rollback(p)
    BY <2>1, GateKinds DEF Moves
  <2>2. CASE recordRoute(p)
    <3>1. /\ jobToToken' = jobToToken /\ report' = report /\ swept' = swept
          /\ UNCHANGED <<bds, billed>> /\ g.op = "record"
          /\ slurm' = [j \in Jobs |-> IF j[1] = g.s THEN "queued" ELSE slurm[j]]
      BY <2>0, <2>2 DEF recordRoute, tally
    <3>2. Quiet
      BY <3>1, StillQuiet
    <3>3. Recorded(p, g)
      BY <2>0, <2>2, RecordIs
    <3>4. RecordStep(p, g)
      <4> SUFFICES /\ Quiet /\ jobToToken' = jobToToken /\ report' = report /\ swept' = swept
                   /\ g = h[p] /\ g.op = "record" /\ Recorded(p, g)
                   /\ slurm' = [j \in Jobs |-> IF j[1] = g.s THEN "queued" ELSE slurm[j]]
        BY DEF RecordStep
      <4> QED
        BY <2>0, <3>1, <3>2, <3>3
    <3> QED
      BY <3>4 DEF Moves, HandlerMoves
  <2>3. CASE bindRecord(p)
    <3>1. BindsOn(p, g)
      BY <2>0, <2>3, BindRecordIs
    <3>2. /\ routes' = routes /\ tokenArrayN' = tokenArrayN /\ slurm' = slurm
          /\ report' = report /\ swept' = swept
          /\ granted' = granted /\ faults' = faults /\ UNCHANGED <<bds, billed>>
      BY <2>3 DEF bindRecord, env, tally
    <3>3. PICK g2 : h' = [h EXCEPT ![p] = g2] /\ BoundJob(g, g2)
      BY <3>1 DEF BindsOn
    <3>4. BindsJob(p, g, g2)
      BY <2>0, <3>2, <3>3, StillQuiet DEF BindsJob, PastFrame
    <3> QED
      BY <3>4 DEF Moves, HandlerMoves
  <2>4. CASE \/ bindReprice(p) \/ bindStart(p) \/ settleLeg(p) \/ settleArrayTask(p)
    <3>1. /\ Keeps /\ slurm' = slurm /\ report' = report /\ swept' = swept
          /\ granted' = granted
      BY <2>4 DEF bindReprice, bindStart, settleLeg, settleArrayTask, tables, env, Keeps
    <3>2. ASSUME bindReprice(p) PROVE Works(p, g)
      BY <2>0, <3>1, <3>2, RepriceStep DEF Works
    <3>3. ASSUME bindStart(p) PROVE Works(p, g)
      BY <2>0, <3>1, <3>3, StartStep DEF Works
    <3>4. ASSUME settleLeg(p) PROVE Works(p, g)
      BY <2>0, <3>1, <3>4, SettleLegDoes DEF Works
    <3>5. ASSUME settleArrayTask(p) PROVE Works(p, g)
      BY <2>0, <3>1, <3>5, SettleTaskStep DEF Works
    <3>6. Works(p, g)
      BY <2>4, <3>2, <3>3, <3>4, <3>5
    <3>7. CallStep(p, g)
      BY <3>1, <3>6 DEF CallStep
    <3> QED
      BY <3>7 DEF Moves, HandlerMoves
  <2>5. CASE dropRoute(p)
    <3>1. /\ DoneSlot(g) /\ g.op = "drop" /\ h' = [h EXCEPT ![p] = Idle] /\ DropTables(g)
      BY <2>0, <2>5, DropRouteIs
    <3>2. /\ slurm' = slurm /\ report' = report /\ swept' = swept
          /\ granted' = granted /\ faults' = faults /\ UNCHANGED <<bds, billed>>
      BY <2>5 DEF dropRoute, env, tally
    <3>3. DropStep(p, g)
      BY <2>0, <3>1, <3>2, StillQuiet DEF DropStep, PastFrame
    <3> QED
      BY <3>3 DEF Moves, HandlerMoves
  <2> QED
    BY <1>4, <2>1, <2>2, <2>3, <2>4, <2>5 DEF HandlerStep
<1>5. ASSUME UNCHANGED <<bds, tables, h, env, tally, swept>> PROVE Moves
  <2>1. /\ Keeps /\ slurm' = slurm /\ report' = report /\ swept' = swept /\ h' = h
        /\ granted' = granted /\ faults' = faults /\ UNCHANGED <<bds, billed>>
    BY <1>5 DEF tables, env, tally, Keeps
  <2>2. IdleStep
    BY <2>1, StillQuiet DEF IdleStep
  <2> QED
    BY <2>2 DEF Moves
<1>6. CASE \E a \in Accounts : SweepUnbound(a) \/ SweepOrphans(a)
  BY <1>5, <1>6 DEF SweepUnbound, SweepOrphans
<1>7. CASE squeue \/ handleReconcile \/ Tick \/ UNCHANGED vars
  BY <1>5, <1>7 DEF squeue, handleReconcile, Tick, vars
<1>8. CASE sweepCancel \/ reconCancel
  <2>1. /\ Keeps /\ slurm' = slurm /\ report' = report /\ h' = h /\ granted' = granted
    BY <1>8 DEF sweepCancel, reconCancel, tables, env, Keeps
  <2>2. \E a \in Accounts, x \in Items, wal \in Wals("sweep") :
          Refund(a, x, wal) /\ (sweep # Idle \/ recon # Idle)
    <3>1. CASE sweepCancel
      BY <3>1 DEF sweepCancel, Types, Sweeping
    <3>2. CASE reconCancel
      <4>1. PICK item \in recon.todo, wal \in Wals("sweep") : Refund(recon.a, item, wal)
        BY <3>2 DEF reconCancel
      <4>2. recon.op = "sweep" /\ recon.op # Idle.op
        BY <3>2 DEF reconCancel, Idle
      <4> QED
        BY <4>1, <4>2 DEF Types, Reconciling
    <3> QED
      BY <1>8, <3>1, <3>2
  <2>3. PICK a \in Accounts, x \in Items, wal \in Wals("sweep") :
          Refund(a, x, wal) /\ (sweep # Idle \/ recon # Idle)
    BY <2>2
  <2>4. PICK s : s = x[1][1]
    OBVIOUS
  <2>5. s \in Subs /\ Closes(s, <<a, x>>, 0, "sweep") /\ swept' = swept \cup {s}
    BY <2>3, <2>4, RefundDoes
  <2>6. RefundStep
    BY <2>1, <2>3, <2>4, <2>5 DEF RefundStep
  <2> QED
    BY <2>6 DEF Moves
<1>9. ASSUME NEW j \in Jobs, SlurmStart(j) \/ SlurmEnd(j) PROVE Moves
  <2>1. /\ Keeps /\ swept' = swept /\ h' = h
        /\ granted' = granted /\ faults' = faults /\ UNCHANGED <<bds, billed>>
    BY <1>9 DEF SlurmStart, SlurmEnd, tables, tally, Keeps
  <2>2. IdleStep
    BY <1>9, <2>1, StillQuiet DEF IdleStep
  <2> QED
    BY <2>2 DEF Moves
<1>10. CASE Restart
  <2>1. Quiet
    BY <1>10, StillQuiet DEF Restart
  <2>2. CrashStep
    BY <1>10, <2>1 DEF Restart, CrashStep
  <2> QED
    BY <2>2 DEF Moves
<1> QED
  BY <1>1, <1>2, <1>3, <1>4, <1>6, <1>7, <1>8, <1>9, <1>10 DEF Next

-----------------------------------------------------------------------------
(* What the effects of the calls leave.                                    *)
LEMMA Thinning ==
  ASSUME NEW s \in Subs, NEW y, NEW u, NEW f
  PROVE  /\ \A t : Same(t) => Thin(t)
         /\ Quiet => \A t \in Subs : Thin(t)
         /\ Shut(s, y, u) => \A t \in Subs : Thin(t)
         /\ Lit(s, y) => \A t \in Subs : Thin(t)
         /\ Lowered(s, y, u) => \A t \in Subs : Thin(t)
         /\ Closes(s, y, u, f) => Others(s) /\ \A t \in Subs : Thin(t)
<1>1. \A t : Same(t) => Thin(t)
  BY DEF Same, Thin, Alike
<1>2. Quiet => \A t \in Subs : Thin(t)
  BY <1>1 DEF Quiet
<1>3. Others(s) => \A t \in Subs \ {s} : Thin(t)
  BY <1>1 DEF Others
<1>4. Shut(s, y, u) => Thin(s) /\ Others(s)
  BY DEF Shut, Thin, Alike
<1>5. Lit(s, y) => Thin(s) /\ Others(s)
  BY DEF Lit, Thin, Alike
<1>6. Lowered(s, y, u) => Thin(s) /\ Others(s)
  BY DEF Lowered, Thin, Alike
<1>7. Quiet => Others(s)
  BY DEF Quiet, Others
<1> QED
  BY <1>1, <1>2, <1>3, <1>4, <1>5, <1>6, <1>7 DEF Closes

(* Legs cover what is held when nothing is added to it.                    *)
LEMMA CoverStay ==
  ASSUME NEW t, NEW L, Thin(t), Covers(t, L)
  PROVE  Covers(t, L)'
<1> SUFFICES ASSUME NEW y \in ItemsOf(t)'
             PROVE  \E k \in 1 .. Len(L) : y \in Slice(t, L[k]) /\ WallOf(y)' = L[k].w
  BY DEF Covers, Slice, IsArray
<1> QED
  BY DEF Covers, Thin

(* The slot of another handler.                                            *)
LEMMA HoldStay ==
  ASSUME Types, Covered, NEW p \in Handlers, NEW q \in Handlers \ {p}, Bystanders(p),
         NEW g, h[q] = g
  PROVE  Holding(g)'
<1>1. Holding(g) /\ Slot(g)
  BY GateSlot DEF Covered
<1>2. /\ g.op \in GateOps => Spared(g.s)
      /\ g.op \in BindOps \cup DoneOps => Thin(g.s)
  <2>1. g.op # "idle" => g.s \in Subs
    BY <1>1, SlotFields
  <2> QED
    BY <2>1 DEF Bystanders, GateOps, BindOps, DoneOps
<1>3. g.op = "read" => (ItemsOf(g.s) = {})'
  BY <1>1, <1>2 DEF Holding, Spared, Thin, GateOps
<1>4. ASSUME g.op \in {"place", "record"} \cup BindOps \cup DoneOps
      PROVE  Covers(g.s, g.legs)'
  <2>1. Thin(g.s) /\ Covers(g.s, g.legs)
    BY <1>1, <1>2, <1>4 DEF Holding, Spared, GateOps
  <2> QED
    BY <2>1, CoverStay
<1>5. ASSUME g.op \in {"place", "record"}, g.s \notin swept'
      PROVE  Slices(g.s, g.legs) \subseteq ItemsOf(g.s)'
  BY <1>1, <1>2, <1>5 DEF Holding, Spared, GateOps
<1> QED
  BY <1>3, <1>4, <1>5 DEF Holding, Slices, Slice, IsArray

(* One handler moves.                                                      *)
LEMMA CoverStep ==
  ASSUME Types, Covered, NEW p \in Handlers, NEW g2, h' = [h EXCEPT ![p] = g2],
         Holding(g2)', Bystanders(p),
         \A t \in Subs : granted'[t] = "no" => granted[t] = "no" /\ Thin(t),
         \A t \in Subs : \A L : t \in DOMAIN routes' /\ routes'[t] = L =>
           \/ t \in DOMAIN routes /\ routes[t] = L /\ Thin(t)
           \/ Covers(t, L)'
  PROVE  Covered'
<1>1. h'[p] = g2 /\ \A q \in Handlers \ {p} : h'[q] = h[q]
  BY DEF Types, Slots
<1>2. ASSUME NEW s \in Subs, granted'[s] = "no" PROVE ItemsOf(s)' = {}
  BY <1>2 DEF Covered, Thin
<1>3. ASSUME NEW q \in Handlers, NEW g, h'[q] = g PROVE Holding(g)'
  <2>1. CASE q = p
    BY <1>1, <1>3, <2>1
  <2>2. CASE q # p
    BY <1>1, <1>3, <2>2, HoldStay
  <2> QED
    BY <2>1, <2>2
<1>4. ASSUME NEW s \in Subs, NEW L, s \in DOMAIN routes', routes'[s] = L
      PROVE  Covers(s, L)'
  <2>1. CASE s \in DOMAIN routes /\ routes[s] = L /\ Thin(s)
    BY <2>1, CoverStay DEF Covered
  <2> QED
    BY <1>4, <2>1
<1> QED
  BY <1>2, <1>3, <1>4 DEF Covered

(* A gate's step is its own submission's.                                  *)
LEMMA GateStands ==
  ASSUME Types, NEW p \in Handlers, NEW s \in Subs, NEW g2, NEW v,
         GateFrame(p, s, g2, v), Others(s)
  PROVE  /\ Bystanders(p) /\ s \notin DOMAIN routes
         /\ \A q \in Handlers \ {p} : h[q].op # "idle" => h[q].s # s
         /\ \A t \in Subs \ {s} : Spared(t) /\ granted'[t] = granted[t]
         /\ granted'[s] = v
<1>1. granted[s] \in {"no", "asked"}
  BY DEF GateFrame
<1>2. s \notin DOMAIN routes
  BY <1>1 DEF Types, Tables
<1>3. ASSUME NEW q \in Handlers \ {p}, h[q].op # "idle" PROVE h[q].s \in Subs /\ h[q].s # s
  <2>1. /\ Slot(h[q])
        /\ h[q].op \in GateOps => granted[h[q].s] = "asked"
        /\ h[q].op \in BindOps \cup DoneOps => granted[h[q].s] = "yes"
    BY GateSlot DEF Routes
  <2>2. h[q].s \in Subs /\ h[q].op \in GateOps \cup BindOps \cup DoneOps
    BY <1>3, <2>1, SlotFields, SlotKind
  <2>3. CASE h[q].op \in GateOps
    <3>1. h[q].s = s => h[p].op \in GateOps /\ h[p].s = s
      BY <2>1, <2>3 DEF GateFrame
    <3> QED
      BY <2>2, <2>3, <3>1 DEF Types, OneGate
  <2>4. CASE h[q].op \in BindOps \cup DoneOps
    BY <1>1, <2>1, <2>2, <2>4
  <2> QED
    BY <2>2, <2>3, <2>4
<1>4. ASSUME NEW t \in Subs \ {s} PROVE Spared(t) /\ granted'[t] = granted[t]
  <2>1. Same(t) /\ Thin(t) /\ swept' = swept
    BY Thinning DEF Others, GateFrame
  <2>2. granted'[t] = granted[t]
    BY DEF GateFrame, Types, World
  <2> QED
    BY <2>1, <2>2 DEF Spared, Same
<1>5. granted'[s] = v
  BY DEF GateFrame, Types, World
<1>6. \A q \in Handlers \ {p}, t \in Subs :
        h[q].op \in GateOps \cup BindOps \cup DoneOps /\ h[q].s = t => Spared(t)
  BY <1>3, <1>4 DEF GateOps, BindOps, DoneOps
<1>7. Bystanders(p)
  BY <1>6 DEF Bystanders, Spared
<1> QED
  BY <1>2, <1>3, <1>4, <1>5, <1>7

(* A step of a gate that keeps its own submission covered.                 *)
LEMMA CoverGateStep ==
  ASSUME Types, Covered, NEW p \in Handlers, NEW s \in Subs, NEW g2, NEW v,
         GateFrame(p, s, g2, v), Others(s), v # "no", Holding(g2)'
  PROVE  Covered'
<1>1. /\ Bystanders(p) /\ s \notin DOMAIN routes
      /\ \A t \in Subs \ {s} : Spared(t) /\ granted'[t] = granted[t]
      /\ granted'[s] = v
  BY GateStands
<1>2. h' = [h EXCEPT ![p] = g2] /\ routes' = routes
  BY DEF GateFrame, Keeps
<1>3. \A t \in Subs : granted'[t] = "no" => granted[t] = "no" /\ Thin(t)
  BY <1>1 DEF Spared
<1>4. \A t \in Subs : \A L : t \in DOMAIN routes' /\ routes'[t] = L =>
        t \in DOMAIN routes /\ routes[t] = L /\ Thin(t)
  BY <1>1, <1>2 DEF Spared
<1> QED
  BY <1>1, <1>2, <1>3, <1>4, CoverStep

(* A submission that no leg is placed for yet holds nothing.               *)
LEMMA AskNone ==
  ASSUME Types, Covered, NEW p \in Handlers, NEW s \in Subs, NEW g2, NEW v,
         GateFrame(p, s, g2, v), Asking(p, s)
  PROVE  ItemsOf(s) = {}
<1>1. CASE granted[s] = "no"
  BY <1>1 DEF Covered
<1>2. CASE granted[s] # "no"
  <2>1. h[p].op = "read" /\ h[p].s = s
    BY <1>2 DEF Asking, GateFrame
  <2> QED
    BY <2>1 DEF Covered, Holding
<1> QED
  BY <1>1, <1>2

(* The steps of a gate keep it.                                            *)
LEMMA CoverGate ==
  ASSUME Types, Covered, GateStep
  PROVE  Covered'
<1>0. PICK p \in Handlers, s \in Subs :
        \E g2, v : GateFrame(p, s, g2, v) /\ GateMove(p, s, g2, v)
  BY DEF GateStep
<1>1. PICK g2, v : GateFrame(p, s, g2, v) /\ GateMove(p, s, g2, v)
  BY <1>0
<1>2. Quiet => Others(s) /\ ItemsOf(s)' = ItemsOf(s)
  BY DEF Quiet, Others, Same
<1>3. CASE Refusal(p, s, g2, v) \/ Rejects(p, s, g2, v)
  <2>1. Holding(Idle)'
    BY DEF Holding, Idle, BindOps, DoneOps
  <2>2. Quiet /\ v # "no" /\ Holding(g2)'
    BY <1>3, <2>1 DEF Refusal, Rejects
  <2> QED
    BY <1>1, <1>2, <2>2, CoverGateStep
<1>4. CASE ReadsOn(p, s, g2, v)
  <2>1. Quiet /\ Asking(p, s) /\ g2.op = "read" /\ g2.s = s /\ v # "no"
    BY <1>4 DEF ReadsOn, ReadSlot
  <2>2. ItemsOf(s)' = {}
    BY <1>1, <1>2, <2>1, AskNone
  <2>3. Holding(g2)'
    BY <2>1, <2>2 DEF Holding, BindOps, DoneOps
  <2> QED
    BY <1>1, <1>2, <2>1, <2>3, CoverGateStep
<1>5. CASE Plans(p, s, g2, v)
  <2>1. Quiet /\ Asking(p, s) /\ g2.op = "place" /\ g2.s = s /\ v # "no" /\ g2.legs = <<>>
    BY <1>5 DEF Plans, PlaceSlot, Asking
  <2>2. ItemsOf(s)' = {}
    BY <1>1, <1>2, <2>1, AskNone
  <2>3. Slices(s, <<>>) = {}
    BY DEF Slices
  <2>4. Covers(g2.s, g2.legs)'
    BY <2>1, <2>2 DEF Covers
  <2>5. Slices(g2.s, g2.legs)' = {}
    BY <2>1, <2>3
  <2>6. Holding(g2)'
    BY <2>1, <2>4, <2>5 DEF Holding
  <2> QED
    BY <1>1, <1>2, <2>1, <2>6, CoverGateStep
<1>6. CASE Admission(p, s, g2, v)
  <2>1. PICK L : L = g2.legs
    OBVIOUS
  <2>2. /\ granted[s] = "no" /\ v # "no" /\ g2.op = "record" /\ g2.s = s
        /\ Len(L) = 1 /\ Grew(s, Slice(s, L[1]), C0(s), L[1].w)
    BY <1>6, <2>1 DEF Admission, RecordSlot
  <2>3. ItemsOf(s) = {}
    BY <2>2 DEF Covered
  <2>4. /\ Others(s) /\ ItemsOf(s)' = Slice(s, L[1])
        /\ \A y \in Slice(s, L[1]) : WallOf(y)' = L[1].w
    BY <2>2, <2>3 DEF Grew
  <2>5. Slices(s, L) = Slice(s, L[1])
    BY <2>2 DEF Slices
  <2>6. Covers(s, L)'
    BY <2>2, <2>4 DEF Covers
  <2>7. Holding(g2)'
    BY <2>1, <2>2, <2>4, <2>5, <2>6 DEF Holding
  <2> QED
    BY <1>1, <2>2, <2>4, <2>7, CoverGateStep
<1>7. CASE PlacesOne(p, s, g2, v)
  <2>1. PICK L, M, l :
          /\ L = h[p].legs /\ M = g2.legs
          /\ Fits(s, L, l) /\ Longer(s, L, l, M) /\ Grew(s, Slice(s, l), C0(s), l.w)
    BY <1>7 DEF PlacesOne
  <2>2. /\ PlaceSlot(h[p]) /\ h[p].op = "place" /\ h[p].s = s /\ v # "no" /\ g2.s = s
        /\ g2.op \in {"record", "place"} /\ Placed(s, L)
    BY <1>7, <2>1 DEF PlacesOne, PlaceSlot, RecordSlot
  <2>3. /\ Covers(s, L) /\ (s \notin swept => Slices(s, L) \subseteq ItemsOf(s))
    BY <2>1, <2>2 DEF Covered, Holding
  <2>4. /\ Len(L) \in Nat /\ Len(M) = Len(L) + 1 /\ M[Len(L) + 1] = l
        /\ \A k \in 1 .. Len(L) : M[k] = L[k]
    <3>1. Len(L) \in Nat
      BY <2>2 DEF Placed
    <3> QED
      BY <2>1, <3>1 DEF Longer
  <2>5. /\ Others(s) /\ ItemsOf(s)' = ItemsOf(s) \cup Slice(s, l)
        /\ \A y \in Slice(s, l) : WallOf(y)' = l.w
        /\ \A y \in ItemsOf(s) : WallOf(y)' = WallOf(y)
    BY <2>1 DEF Grew, Alike
  <2>6. Covers(s, M)'
    <3>1. ASSUME NEW y \in ItemsOf(s)'
          PROVE  \E k \in 1 .. Len(M) : y \in Slice(s, M[k]) /\ WallOf(y)' = M[k].w
      <4>1. CASE y \in Slice(s, l)
        <5>1. Len(L) + 1 \in 1 .. Len(M)
          BY <2>4
        <5> QED
          BY <2>4, <2>5, <4>1, <5>1
      <4>2. CASE y \in ItemsOf(s)
        <5>1. PICK k \in 1 .. Len(L) : y \in Slice(s, L[k]) /\ WallOf(y) = L[k].w
          BY <2>3, <4>2 DEF Covers
        <5>2. k \in 1 .. Len(M) /\ M[k] = L[k]
          BY <2>4, <5>1
        <5> QED
          BY <2>5, <4>2, <5>1, <5>2
      <4> QED
        BY <2>5, <4>1, <4>2
    <3> QED
      BY <3>1 DEF Covers
  <2>7. Slices(s, M) = Slices(s, L) \cup Slice(s, l)
    <3>1. ASSUME NEW y
          PROVE  y \in Slices(s, M) <=> y \in Slices(s, L) \/ y \in Slice(s, l)
      <4>1. y \in Slices(s, M) <=> \E k \in 1 .. Len(M) : y \in Slice(s, M[k])
        BY DEF Slices
      <4>2. y \in Slices(s, L) <=> \E k \in 1 .. Len(L) : y \in Slice(s, L[k])
        BY DEF Slices
      <4>3. ASSUME NEW k \in 1 .. Len(M) PROVE k \in 1 .. Len(L) \/ M[k] = l
        BY <2>4
      <4>4. \A k \in 1 .. Len(L) : k \in 1 .. Len(M) /\ M[k] = L[k]
        BY <2>4
      <4>5. Len(M) \in 1 .. Len(M) /\ M[Len(M)] = l
        BY <2>4
      <4> QED
        BY <4>1, <4>2, <4>3, <4>4, <4>5
    <3> QED
      BY <3>1
  <2>8. swept' = swept
    BY <1>1 DEF GateFrame
  <2>9. s \notin swept' => Slices(s, M) \subseteq ItemsOf(s)'
    BY <2>3, <2>5, <2>7, <2>8
  <2>10. Holding(g2)'
    BY <2>1, <2>2, <2>6, <2>9 DEF Holding
  <2> QED
    BY <1>1, <2>2, <2>5, <2>10, CoverGateStep
<1>8. CASE GivesUp(p, s, g2, v) \/ CancelsOne(p, s, g2, v)
  <2>1. g2.op = "rollback" /\ v # "no"
    BY <1>8 DEF GivesUp, CancelsOne, RollbackSlot
  <2>2. Others(s)
    BY <1>2, <1>8, Thinning DEF GivesUp, CancelsOne
  <2>3. Holding(g2)'
    BY <2>1 DEF Holding, BindOps, DoneOps
  <2> QED
    BY <1>1, <2>1, <2>2, <2>3, CoverGateStep
<1> QED
  BY <1>1, <1>3, <1>4, <1>5, <1>6, <1>7, <1>8 DEF GateMove

(* A handler past its gate keeps its submission and its legs.              *)
LEMMA CallMoves ==
  ASSUME Types, NEW p \in Handlers, NEW g, CallStep(p, g)
  PROVE  /\ g = h[p] /\ g.op \in BindOps \cup DoneOps /\ g.s \in Subs
         /\ granted[g.s] = "yes" /\ Others(g.s) /\ \A t \in Subs : Thin(t)
         /\ \E g2 : /\ h' = [h EXCEPT ![p] = g2]
                    /\ \/ g2 = Idle
                       \/ /\ g2.s = g.s /\ g2.legs = g.legs
                          /\ g2.op \in BindOps \cup DoneOps
<1>0. g = h[p] /\ Works(p, g)
  BY DEF CallStep, Works
<1>1. g.op \in BindOps \cup DoneOps
  BY <1>0 DEF Works, BindOps, DoneOps
<1>2. g.s \in Subs /\ granted[g.s] = "yes"
  BY <1>0, <1>1, PastGate DEF Routes
<1>3. Quiet => Others(g.s)
  BY DEF Quiet, Others
<1>4. CASE Repricing(p, g)
  <2>1. PICK y : y = LegItem(g.s, g.legs[g.k], 0)
    OBVIOUS
  <2>2. Lowered(g.s, y, NodeRate(g.s)) \/ Quiet
    BY <1>4, <2>1 DEF Repricing
  <2>3. Others(g.s) /\ \A t \in Subs : Thin(t)
    BY <1>2, <1>3, <2>2, Thinning DEF Lowered
  <2>4. PICK g2 : /\ h' = [h EXCEPT ![p] = g2] /\ BindSlot(g2)
                  /\ g2.s = g.s /\ g2.legs = g.legs
    BY <1>4 DEF Repricing
  <2>5. g2.op \in BindOps
    BY <2>4 DEF BindSlot
  <2> QED
    BY <1>0, <1>1, <1>2, <2>3, <2>4, <2>5
<1>5. CASE Starting(p, g) /\ BindSlot(g)
  <2>1. PICK y : y = ItemOf(g)
    OBVIOUS
  <2>2. Lit(g.s, y) \/ Quiet
    BY <1>5, <2>1 DEF Starting
  <2>3. Others(g.s) /\ \A t \in Subs : Thin(t)
    BY <1>2, <1>3, <2>2, Thinning DEF Lit
  <2>4. PICK g2 : /\ h' = [h EXCEPT ![p] = g2]
                  /\ IsArray(g.s) \/ g.k = Len(g.legs) => g2 = Idle
                  /\ ~IsArray(g.s) /\ g.k < Len(g.legs) =>
                       BindSlot(g2) /\ g2.s = g.s /\ g2.legs = g.legs
    BY <1>5 DEF Starting
  <2>5. g.k = Len(g.legs) \/ g.k < Len(g.legs)
    BY <1>5 DEF BindSlot
  <2>6. BindSlot(g2) => g2.op \in BindOps
    BY DEF BindSlot
  <2> QED
    BY <1>0, <1>1, <1>2, <2>3, <2>4, <2>5, <2>6
<1>6. CASE SettlingLeg(p, g)
  <2>1. PICK y, u : y = <<g.legs[g.k].a, <<g.legs[g.k].key, -1>> >> /\ u = LegBill(g, y)
    OBVIOUS
  <2>2. PICK g2 : /\ h' = [h EXCEPT ![p] = g2] /\ (MovesOn(g, g2) \/ g2 = Idle)
                  /\ Shut(g.s, y, u) \/ Quiet
    BY <1>6, <2>1 DEF SettlingLeg
  <2>3. Others(g.s) /\ \A t \in Subs : Thin(t)
    BY <1>2, <1>3, <2>2, Thinning DEF Shut
  <2>4. MovesOn(g, g2) => /\ g2.s = g.s /\ g2.legs = g.legs /\ g2.op \in DoneOps
    BY DEF MovesOn, DoneSlot
  <2> QED
    BY <1>0, <1>1, <1>2, <2>2, <2>3, <2>4
<1>7. CASE SettlingTask(p, g)
  <2>1. PICK y, u : y = ItemOf(g) /\ u = TaskBill(g)
    OBVIOUS
  <2>2. Shut(g.s, y, u) \/ Quiet
    BY <1>7, <2>1 DEF SettlingTask
  <2>3. Others(g.s) /\ \A t \in Subs : Thin(t)
    BY <1>2, <1>3, <2>2, Thinning DEF Shut
  <2>4. PICK g2 : /\ h' = [h EXCEPT ![p] = g2]
                  /\ \/ DoneSlot(g2) /\ g2.s = g.s /\ g2.legs = g.legs
                     \/ g2 = Idle
    BY <1>7 DEF SettlingTask
  <2>5. DoneSlot(g2) => g2.op \in DoneOps
    BY DEF DoneSlot
  <2> QED
    BY <1>0, <1>1, <1>2, <2>3, <2>4, <2>5
<1> QED
  BY <1>0, <1>4, <1>5, <1>6, <1>7 DEF Works

(* A step past the gates, or of a janitor, spares every gate.              *)
LEMMA PastStands ==
  ASSUME Types, NEW s \in Subs, NEW p \in Handlers, Others(s), \A t \in Subs : Thin(t),
         \/ Quiet /\ swept' = swept
         \/ granted[s] = "yes" /\ swept' = swept
         \/ swept' = swept \cup {s}
  PROVE  /\ \A q \in Handlers, t \in Subs : h[q].op \in GateOps /\ h[q].s = t => Spared(t)
         /\ Bystanders(p)
<1>2. ASSUME NEW q \in Handlers, NEW t \in Subs, h[q].op \in GateOps, h[q].s = t
      PROVE  Spared(t)
  <2>1. Thin(t) /\ granted[t] = "asked"
    BY <1>2, GateSlot
  <2>2. CASE t = s /\ ~Quiet
    BY <2>1, <2>2 DEF Spared
  <2>3. CASE t # s \/ Quiet
    <3>1. Same(t)
      BY <2>3 DEF Others, Quiet
    <3>2. t \notin swept' => t \notin swept
      OBVIOUS
    <3> QED
      BY <2>1, <3>1, <3>2 DEF Spared, Same
  <2> QED
    BY <2>2, <2>3
<1>3. Bystanders(p)
  BY <1>2 DEF Bystanders
<1> QED
  BY <1>2, <1>3

(* Every step keeps it.                                                    *)
LEMMA CoverNext ==
  ASSUME Types, Covered, [Next]_vars
  PROVE  Covered'
<1>0. Moves
  BY StepKinds
<1>1. Holding(Idle)'
  BY DEF Holding, Idle, BindOps, DoneOps
<1>2. CASE GateStep
  BY <1>2, CoverGate
<1>3. ASSUME h' = h, Keeps, granted' = granted, NEW s \in Subs, Others(s),
             \A t \in Subs : Thin(t),
             \/ Quiet /\ swept' = swept
             \/ swept' = swept \cup {s}
      PROVE  Covered'
  <2>1. ASSUME NEW q \in Handlers, NEW t \in Subs
        PROVE  /\ h[q].op \in GateOps /\ h[q].s = t => Spared(t)
               /\ h[q].op \in BindOps \cup DoneOps /\ h[q].s = t => Thin(t)
    BY <1>3, PastStands
  <2>2. ASSUME NEW t \in Subs, granted'[t] = "no" PROVE ItemsOf(t)' = {}
    BY <1>3, <2>2 DEF Covered, Thin
  <2>3. ASSUME NEW q \in Handlers, NEW g, h'[q] = g PROVE Holding(g)'
    <3>1. h[q] = g /\ Slot(g) /\ Holding(g)
      BY <1>3, <2>3, GateSlot DEF Covered
    <3>2. CASE g.op = "idle"
      BY <3>2 DEF Holding, BindOps, DoneOps
    <3>3. CASE g.op # "idle"
      <4>1. /\ g.op \in GateOps => Spared(g.s)
            /\ g.op \in BindOps \cup DoneOps => Thin(g.s)
        BY <2>1, <3>1, <3>3, SlotFields
      <4>2. g.op = "read" => ItemsOf(g.s)' = {}
        BY <3>1, <4>1 DEF Holding, Spared, Thin, GateOps
      <4>3. ASSUME g.op \in {"place", "record"} \cup BindOps \cup DoneOps
            PROVE  Covers(g.s, g.legs)'
        <5>1. Thin(g.s) /\ Covers(g.s, g.legs)
          BY <3>1, <4>1, <4>3 DEF Holding, Spared, GateOps
        <5> QED
          BY <5>1, CoverStay
      <4>4. ASSUME g.op \in {"place", "record"}, g.s \notin swept'
            PROVE  Slices(g.s, g.legs) \subseteq ItemsOf(g.s)'
        BY <3>1, <4>1, <4>4 DEF Holding, Spared, GateOps
      <4> QED
        BY <4>2, <4>3, <4>4 DEF Holding, Slices, Slice, IsArray
    <3> QED
      BY <3>2, <3>3
  <2>4. ASSUME NEW t \in Subs, NEW L, t \in DOMAIN routes', routes'[t] = L
        PROVE  Covers(t, L)'
    BY <1>3, <2>4, CoverStay DEF Covered, Keeps
  <2> QED
    BY <2>2, <2>3, <2>4 DEF Covered
<1>4. CASE RefundStep
  <2>1. PICK s \in Subs, a \in Accounts, x \in Items :
          Closes(s, <<a, x>>, 0, "sweep") /\ swept' = swept \cup {s}
    BY <1>4 DEF RefundStep
  <2>2. Others(s) /\ \A t \in Subs : Thin(t)
    BY <2>1, Thinning
  <2> QED
    BY <1>3, <1>4, <2>1, <2>2 DEF RefundStep
<1>5. CASE IdleStep
  <2>1. CASE Subs = {}
    <3>1. \A q \in Handlers : h[q].op = "idle"
      BY <2>1, GateSlot, SlotFields
    <3>2. \A q \in Handlers : h'[q] = h[q]
      BY <1>5 DEF IdleStep
    <3>3. ASSUME NEW q \in Handlers, NEW g, h'[q] = g PROVE Holding(g)'
      <4>1. g.op = "idle"
        BY <3>1, <3>2, <3>3
      <4> QED
        BY <4>1 DEF Holding, BindOps, DoneOps
    <3> QED
      BY <2>1, <3>3 DEF Covered
  <2>2. CASE Subs # {}
    <3>1. PICK s : s \in Subs
      BY <2>2
    <3>2. Quiet /\ Others(s) /\ \A t \in Subs : Thin(t)
      BY <1>5, <3>1, Thinning DEF IdleStep, Quiet, Others
    <3> QED
      BY <1>3, <1>5, <3>1, <3>2 DEF IdleStep
  <2> QED
    BY <2>1, <2>2
<1>6. CASE CrashStep
  <2>1. Quiet /\ \A q \in Handlers : h'[q] = Idle
    BY <1>6 DEF CrashStep
  <2>2. ASSUME NEW t \in Subs, granted'[t] = "no" PROVE ItemsOf(t)' = {}
    <3>1. granted[t] = "no"
      BY <1>6, <2>2 DEF CrashStep, Types, World
    <3> QED
      BY <2>1, <3>1 DEF Covered, Quiet, Same
  <2>3. DOMAIN routes' = {}
    BY <1>6 DEF CrashStep, Empty
  <2> QED
    BY <1>1, <2>1, <2>2, <2>3 DEF Covered
<1>7. ASSUME NEW p \in Handlers, HandlerMoves(p) PROVE Covered'
  <2>1. ASSUME NEW g, RecordStep(p, g) PROVE Covered'
    <3>1. /\ Quiet /\ swept' = swept /\ g = h[p] /\ g.op = "record" /\ Recorded(p, g)
      BY <2>1 DEF RecordStep
    <3>2. /\ g.s \in Subs /\ DOMAIN routes' = DOMAIN routes \cup {g.s} /\ routes'[g.s] = g.legs
          /\ \A s \in DOMAIN routes \ {g.s} : routes'[s] = routes[s]
          /\ h' = [h EXCEPT ![p] = Idle] /\ granted' = [granted EXCEPT ![g.s] = "yes"]
      BY <3>1 DEF Recorded
    <3>3. Others(g.s) /\ \A t \in Subs : Thin(t)
      BY <3>1, <3>2, Thinning DEF Quiet, Others
    <3>4. Bystanders(p)
      BY <3>1, <3>2, <3>3, PastStands
    <3>5. Covers(g.s, g.legs)
      BY <3>1 DEF Covered, Holding
    <3>6. Covers(g.s, g.legs)'
      BY <3>2, <3>3, <3>5, CoverStay
    <3>7. \A t \in Subs : granted'[t] = "no" => granted[t] = "no" /\ Thin(t)
      BY <3>2, <3>3 DEF Types, World
    <3>8. \A t \in Subs : \A L : t \in DOMAIN routes' /\ routes'[t] = L =>
           \/ t \in DOMAIN routes /\ routes[t] = L /\ Thin(t)
           \/ Covers(t, L)'
      BY <3>2, <3>3, <3>6
    <3> QED
      BY <1>1, <3>2, <3>4, <3>7, <3>8, CoverStep
  <2>2. ASSUME NEW s \in Subs, NEW g2, h' = [h EXCEPT ![p] = g2], granted' = granted,
               swept' = swept, Others(s), \A t \in Subs : Thin(t),
               Quiet \/ granted[s] = "yes",
               \A t \in DOMAIN routes' : t \in DOMAIN routes /\ routes'[t] = routes[t],
               g2 = Idle \/ (g2.op \in BindOps \cup DoneOps /\ g2.s \in Subs /\ Covers(g2.s, g2.legs))
        PROVE  Covered'
    <3>1. Bystanders(p)
      BY <2>2, PastStands
    <3>2. Holding(g2)'
      <4>1. CASE g2 = Idle
        BY <1>1, <4>1
      <4>2. CASE g2.op \in BindOps \cup DoneOps /\ g2.s \in Subs /\ Covers(g2.s, g2.legs)
        <5>1. Covers(g2.s, g2.legs)'
          BY <2>2, <4>2, CoverStay
        <5> QED
          BY <4>2, <5>1 DEF Holding, BindOps, DoneOps
      <4> QED
        BY <2>2, <4>1, <4>2
    <3> QED
      BY <2>2, <3>1, <3>2, CoverStep
  <2>3. ASSUME NEW g, CallStep(p, g) PROVE Covered'
    <3>1. /\ g = h[p] /\ g.op \in BindOps \cup DoneOps /\ g.s \in Subs
          /\ granted[g.s] = "yes" /\ Others(g.s) /\ \A t \in Subs : Thin(t)
      BY <2>3, CallMoves
    <3>2. PICK g2 : /\ h' = [h EXCEPT ![p] = g2]
                    /\ \/ g2 = Idle
                       \/ /\ g2.s = g.s /\ g2.legs = g.legs
                          /\ g2.op \in BindOps \cup DoneOps
      BY <2>3, CallMoves
    <3>3. Covers(g.s, g.legs)
      BY <3>1 DEF Covered, Holding
    <3>4. granted' = granted /\ swept' = swept /\ routes' = routes
      BY <2>3 DEF CallStep, Works, Keeps
    <3> QED
      BY <2>2, <3>1, <3>2, <3>3, <3>4
  <2>4. ASSUME NEW g, DropStep(p, g) PROVE Covered'
    <3>1. /\ h' = [h EXCEPT ![p] = Idle] /\ granted' = granted /\ swept' = swept /\ Quiet
          /\ g = h[p] /\ DoneSlot(g) /\ DropTables(g)
      BY <2>4 DEF DropStep, PastFrame
    <3>2. g.s \in Subs /\ \A t \in DOMAIN routes' : t \in DOMAIN routes /\ routes'[t] = routes[t]
      BY <3>1 DEF DoneSlot, DropTables
    <3>3. Others(g.s) /\ \A t \in Subs : Thin(t)
      BY <3>1, <3>2, Thinning DEF Quiet, Others
    <3> QED
      BY <2>2, <3>1, <3>2, <3>3
  <2>5. ASSUME NEW g, NEW g2, BindsJob(p, g, g2) PROVE Covered'
    <3>1. /\ h' = [h EXCEPT ![p] = g2] /\ granted' = granted /\ swept' = swept /\ Quiet
          /\ g = h[p] /\ BoundJob(g, g2) /\ routes' = routes
      BY <2>5 DEF BindsJob, PastFrame
    <3>2. /\ g.s \in Subs /\ g2.s = g.s /\ g2.legs = g.legs /\ g2.op \in BindOps
          /\ g.op \in BindOps
      BY <3>1 DEF BoundJob, BindSlot
    <3>3. Others(g.s) /\ \A t \in Subs : Thin(t)
      BY <3>1, <3>2, Thinning DEF Quiet, Others
    <3>4. Covers(g.s, g.legs)
      BY <3>1, <3>2 DEF Covered, Holding
    <3> QED
      BY <2>2, <3>1, <3>2, <3>3, <3>4
  <2>6. ASSUME NEW j \in Jobs, NEW g2, BindArrives(p, j, g2) \/ SettleArrives(p, j, g2)
        PROVE  Covered'
    <3>1. /\ h' = [h EXCEPT ![p] = g2] /\ granted' = granted /\ swept' = swept /\ Quiet
          /\ routes' = routes /\ j[1] \in DOMAIN routes /\ g2.legs = routes[j[1]]
          /\ g2.s = j[1] /\ g2.op \in {"bind", "settle"}
      BY <2>6 DEF BindArrives, SettleArrives, PastFrame, Keeps
    <3>2. g2.op \in BindOps \cup DoneOps /\ j[1] \in Subs
      BY <3>1, JobIs DEF BindOps, DoneOps
    <3>3. Others(j[1]) /\ \A t \in Subs : Thin(t)
      BY <3>1, <3>2, Thinning DEF Quiet, Others
    <3>4. Covers(g2.s, g2.legs)
      BY <3>1, <3>2 DEF Covered
    <3> QED
      BY <2>2, <3>1, <3>2, <3>3, <3>4
  <2> QED
    BY <1>7, <2>1, <2>3, <2>4, <2>5, <2>6 DEF HandlerMoves
<1> QED
  BY <1>0, <1>2, <1>4, <1>5, <1>6, <1>7 DEF Moves

(* What a submission holds is always accounted for.                        *)
LEMMA CoveredHolds == Spec => [](Types /\ Covered)
<1>1. Init => Types /\ Covered
  <2> SUFFICES ASSUME Init PROVE Types /\ Covered
    OBVIOUS
  <2>1. Types /\ \A s \in Subs : ItemsOf(s) = {}
    BY InitTypes
  <2>2. (\A p \in Handlers : h[p] = Idle) /\ DOMAIN routes = {}
    BY DEF Init, Empty
  <2>3. Holding(Idle)
    BY DEF Holding, Idle, BindOps, DoneOps
  <2> QED
    BY <2>1, <2>2, <2>3 DEF Covered
<1>2. (Types /\ Covered) /\ [Next]_vars => (Types /\ Covered)'
  BY TypesNext, CoverNext
<1> QED
  BY <1>1, <1>2, PTL DEF Spec

-----------------------------------------------------------------------------
(* Multiplication over a sum.                                              *)
LEMMA Distribute ==
  ASSUME NEW a \in Nat, NEW b \in Nat, NEW c \in Nat
  PROVE  a * (b + c) = a * b + a * c /\ a * 0 = 0 /\ a * 1 = a /\ 1 * a = a
  OBVIOUS

(* A leg holds one item, or one for each task of its share.                *)
LEMMA SliceSize ==
  ASSUME NEW s \in Subs, NEW L, Placed(s, L), NEW k \in 1 .. Len(L)
  PROVE  /\ IsFiniteSet(Slice(s, L[k]))
         /\ Cardinality(Slice(s, L[k])) = IF IsArray(s) THEN L[k].n ELSE 1
<1>1. L[k].n \in Nat
  BY LegAt
<1>2. PICK a, key, X : /\ a = L[k].a /\ key = L[k].key
                       /\ X = IF IsArray(s) THEN 0 .. (L[k].n - 1) ELSE {-1}
  OBVIOUS
<1>3. Slice(s, L[k]) = {a} \X ({key} \X X)
  BY <1>2 DEF Slice
<1>4. IsFiniteSet(X) /\ Cardinality(X) = IF IsArray(s) THEN L[k].n ELSE 1
  <2>1. CASE IsArray(s)
    <3>1. 0 \in Int /\ L[k].n - 1 \in Int
      BY <1>1
    <3>2. /\ IsFiniteSet(0 .. (L[k].n - 1))
          /\ Cardinality(0 .. (L[k].n - 1)) = IF 0 > L[k].n - 1 THEN 0 ELSE L[k].n - 1 - 0 + 1
      BY <3>1, FS_Interval
    <3> QED
      BY <1>1, <1>2, <2>1, <3>2
  <2>2. CASE ~IsArray(s)
    BY <1>2, <2>2, FS_Singleton
  <2> QED
    BY <2>1, <2>2
<1>5. /\ IsFiniteSet({a}) /\ IsFiniteSet({key})
      /\ Cardinality({a}) = 1 /\ Cardinality({key}) = 1
  BY FS_Singleton
<1>6. PICK n : n = Cardinality(X)
  OBVIOUS
<1>7. n \in Nat
  BY <1>4, <1>6, FS_CardinalityType
<1>8. IsFiniteSet({key} \X X) /\ Cardinality({key} \X X) = 1 * n
  BY <1>4, <1>5, <1>6, FS_Product
<1>9. IsFiniteSet({a} \X ({key} \X X)) /\ Cardinality({a} \X ({key} \X X)) = 1 * (1 * n)
  BY <1>5, <1>8, FS_Product
<1>10. 1 * (1 * n) = n
  BY <1>7
<1> QED
  BY <1>3, <1>4, <1>6, <1>9, <1>10

(* No item is in two legs.                                                 *)
LEMMA SlicesApart ==
  ASSUME NEW s \in Subs, NEW L, Placed(s, L), NEW k \in 1 .. Len(L), NEW m \in 1 .. Len(L),
         NEW y \in Slice(s, L[k]), y \in Slice(s, L[m])
  PROVE  k = m
<1>1. y[2][1] = L[k].key /\ y[2][1] = L[m].key
  BY SliceIs
<1>2. L[k].key[2] = L[m].key[2] /\ Ascends(L) /\ L \in Seq(LegRecord)
  BY <1>1 DEF Placed
<1>3. L[k].key \in Token /\ L[m].key \in Token
  BY LegAt
<1>4. L[k].key[2] \in Nat /\ L[m].key[2] \in Nat
  BY <1>3 DEF Token
<1>5. k < m \/ m < k \/ k = m
  BY <1>2
<1> QED
  BY <1>2, <1>4, <1>5 DEF Ascends

(* The items of one more leg are new.                                      *)
LEMMA PrefixNext ==
  ASSUME NEW s \in Subs, NEW L, Placed(s, L), NEW m \in Nat, m + 1 <= Len(L)
  PROVE  /\ Prefix(s, L, m + 1) = Prefix(s, L, m) \cup Slice(s, L[m + 1])
         /\ Prefix(s, L, m) \cap Slice(s, L[m + 1]) = {}
<1>0. Len(L) \in Nat /\ m + 1 \in 1 .. Len(L)
  BY DEF Placed
<1>1. 1 .. (m + 1) = (1 .. m) \cup {m + 1}
  OBVIOUS
<1>2. Prefix(s, L, m + 1) = Prefix(s, L, m) \cup Slice(s, L[m + 1])
  BY <1>1 DEF Prefix
<1>3. ASSUME NEW y \in Prefix(s, L, m), y \in Slice(s, L[m + 1]) PROVE FALSE
  <2>1. PICK k \in 1 .. m : y \in Slice(s, L[k])
    BY <1>3 DEF Prefix
  <2>2. k \in 1 .. Len(L) /\ k # m + 1
    BY <1>0
  <2> QED
    BY <1>0, <1>3, <2>1, <2>2, SlicesApart
<1> QED
  BY <1>2, <1>3

(* What the legs hold together.                                            *)
LEMMA SlicesTotal ==
  ASSUME NEW s \in Subs, NEW L, Placed(s, L), NEW F,
         \A k \in 1 .. Len(L) : \A y \in Slice(s, L[k]) : F[y] = L[k].w
  PROVE  /\ IsFiniteSet(Slices(s, L))
         /\ Total([y \in Slices(s, L) |-> F[y]]) = Unit(s) * Off(s, L, Len(L))
         /\ IsArray(s) => Cardinality(Slices(s, L)) = Off(s, L, Len(L))
<1> DEFINE G(m) == [y \in Prefix(s, L, m) |-> F[y]]
           Good(m) == /\ IsFiniteSet(Prefix(s, L, m)) /\ Family(G(m))
                      /\ Total(G(m)) = Unit(s) * Off(s, L, m)
                      /\ IsArray(s) => Cardinality(Prefix(s, L, m)) = Off(s, L, m)
           T == {m \in Nat : m <= Len(L) => Good(m)}
<1>0. Len(L) \in Nat /\ Unit(s) \in Nat /\ L \in Seq(LegRecord)
  BY SubIs DEF Placed, Unit, SubRecord
<1>1. 0 \in T
  <2>1. Prefix(s, L, 0) = {}
    BY DEF Prefix
  <2>2. DOMAIN G(0) = {}
    BY <2>1
  <2>3. Family(G(0)) /\ Total(G(0)) = 0
    BY <2>2, TotalEmpty
  <2>4. Off(s, L, 0) = 0
    BY <1>0, OffNext
  <2>5. Unit(s) * 0 = 0
    BY <1>0, Distribute
  <2>6. IsFiniteSet({}) /\ Cardinality({}) = 0
    BY FS_EmptySet
  <2>7. Good(0)
    BY <2>1, <2>3, <2>4, <2>5, <2>6
  <2> QED
    BY <2>7
<1>2. ASSUME NEW m \in Nat, m \in T PROVE m + 1 \in T
  <2> SUFFICES ASSUME m + 1 <= Len(L) PROVE Good(m + 1)
    OBVIOUS
  <2>1. Good(m)
    BY <1>0, <1>2
  <2>2. PICK P, S, f, fs : /\ P = Prefix(s, L, m) /\ S = Slice(s, L[m + 1])
                           /\ f = G(m + 1) /\ fs = [y \in S |-> F[y]]
    OBVIOUS
  <2>3. Prefix(s, L, m + 1) = P \cup S /\ P \cap S = {}
    BY <2>2, PrefixNext
  <2>4. m + 1 \in 1 .. Len(L) /\ m \in 0 .. (Len(L) - 1)
    BY <1>0
  <2>5. IsFiniteSet(S) /\ Cardinality(S) = IF IsArray(s) THEN L[m + 1].n ELSE 1
    BY <2>2, <2>4, SliceSize
  <2>6. L[m + 1].w \in Nat /\ L[m + 1].n \in Nat
    BY <2>4, LegAt
  <2>7. Family(fs) /\ Total(fs) = L[m + 1].w * Cardinality(S)
    <3>1. DOMAIN fs = S /\ \A y \in S : fs[y] = L[m + 1].w
      BY <2>2, <2>4
    <3> QED
      BY <2>5, <2>6, <3>1, TotalConst
  <2>8. L[m + 1].w * Cardinality(S) = Unit(s) * Width(s, L[m + 1])
    <3>1. CASE IsArray(s)
      <4>1. LegOK(s, L, m + 1)
        BY <2>4 DEF Placed
      <4> QED
        BY <2>5, <3>1, <4>1 DEF Unit, Width, LegOK
    <3>2. CASE ~IsArray(s)
      <4>1. PICK w : w = L[m + 1].w
        OBVIOUS
      <4>2. w * 1 = 1 * w
        BY <2>6, <4>1, Distribute
      <4> QED
        BY <2>5, <3>2, <4>1, <4>2 DEF Unit, Width
    <3> QED
      BY <3>1, <3>2
  <2>9. /\ Off(s, L, m + 1) = Off(s, L, m) + Width(s, L[m + 1])
        /\ Off(s, L, m) \in Nat /\ Width(s, L[m + 1]) \in Nat
    <3>1. Width(s, L[m + 1]) \in Nat
      BY <2>6 DEF Width
    <3> QED
      <4>1. m \in 0 .. Len(L)
        BY <1>0
      <4> QED
        BY <1>0, <2>4, <3>1, <4>1, OffNext
  <2>10. IsFiniteSet(P) /\ IsFiniteSet(P \cup S)
    BY <2>1, <2>2, <2>5, FS_Union
  <2>11. Family(f)
    <3>1. DOMAIN f = P \cup S /\ \A y \in S : f[y] = L[m + 1].w
      BY <2>2, <2>3, <2>4
    <3>2. \A y \in P : f[y] = G(m)[y]
      BY <2>2, <2>3
    <3>3. \A y \in P : f[y] \in Nat
      BY <2>1, <2>2, <3>2 DEF Family
    <3> QED
      BY <2>6, <2>10, <3>1, <3>3 DEF Family
  <2>12. Total(f) = Total(G(m)) + Total(fs)
    <3>1. PICK fp : fp = G(m)
      OBVIOUS
    <3>2. /\ DOMAIN f = P \cup S /\ DOMAIN fp = P /\ DOMAIN fs = S
          /\ \A y \in P : fp[y] = f[y]
          /\ \A y \in S : fs[y] = f[y]
      BY <2>2, <2>3, <3>1
    <3>3. Parts(f, fp, fs)
      BY <2>3, <3>2 DEF Parts
    <3>4. Total(f) = Total(fp) + Total(fs)
      BY <2>11, <3>3, TotalUnion
    <3> QED
      BY <3>1, <3>4
  <2>13. Total(f) = Unit(s) * Off(s, L, m + 1)
    <3>1. PICK u, o, w : u = Unit(s) /\ o = Off(s, L, m) /\ w = Width(s, L[m + 1])
      OBVIOUS
    <3>2. u * (o + w) = u * o + u * w
      BY <1>0, <2>9, <3>1, Distribute
    <3> QED
      BY <2>1, <2>7, <2>8, <2>9, <2>12, <3>1, <3>2
  <2>14. IsArray(s) => Cardinality(P \cup S) = Off(s, L, m + 1)
    <3> SUFFICES ASSUME IsArray(s) PROVE Cardinality(P \cup S) = Off(s, L, m + 1)
      OBVIOUS
    <3>1. Cardinality(P \cup S) = Cardinality(P) + Cardinality(S) - Cardinality(P \cap S)
      BY <2>5, <2>10, FS_Union
    <3>2. Cardinality(P \cap S) = 0
      BY <2>3, FS_EmptySet
    <3>3. Cardinality(P) = Off(s, L, m)
      BY <2>1, <2>2
    <3>4. Cardinality(S) = Width(s, L[m + 1])
      BY <2>5 DEF Width
    <3> QED
      BY <2>9, <3>1, <3>2, <3>3, <3>4
  <2> QED
    BY <2>2, <2>3, <2>10, <2>11, <2>13, <2>14
<1> HIDE DEF T, Good
<1>3. \A m \in Nat : m \in T
  BY <1>1, <1>2, NatSet
<1>4. Good(Len(L))
  BY <1>0, <1>3 DEF T
<1>5. Prefix(s, L, Len(L)) = Slices(s, L)
  BY DEF Prefix, Slices
<1> QED
  BY <1>4, <1>5 DEF Good

(* A submission whose route is about to be recorded is funded in full.     *)
LEMMA FundedWhole ==
  ASSUME Types, Covered, NEW p \in Handlers, h[p].op = "record", h[p].s \notin swept
  PROVE  Funded(h[p].s) = Submissions[h[p].s].n * Submissions[h[p].s].w
<1>1. PICK s, L, g : g = h[p] /\ s = g.s /\ L = g.legs
  OBVIOUS
<1>2. RecordSlot(g) /\ s \in Subs /\ Whole(s, L)
  <2>1. RecordSlot(g)
    BY <1>1, GateSlot, SlotKind
  <2> QED
    BY <1>1, <2>1 DEF RecordSlot
<1>3. Placed(s, L) /\ Off(s, L, Len(L)) = Need(s)
  BY <1>2 DEF Whole
<1>4. Covers(s, L) /\ Slices(s, L) \subseteq ItemsOf(s)
  BY <1>1 DEF Covered, Holding
<1>5. ItemsOf(s) = Slices(s, L)
  BY <1>4 DEF Covers, Slices
<1>6. PICK F : F = [y \in ItemsOf(s) |-> WallOf(y)]
  OBVIOUS
<1>7. ASSUME NEW k \in 1 .. Len(L), NEW y \in Slice(s, L[k]) PROVE F[y] = L[k].w
  <2>1. y \in ItemsOf(s)
    BY <1>5 DEF Slices
  <2>2. PICK m \in 1 .. Len(L) : y \in Slice(s, L[m]) /\ WallOf(y) = L[m].w
    BY <1>4, <2>1 DEF Covers
  <2>3. k = m
    BY <1>2, <1>3, <2>2, SlicesApart
  <2> QED
    BY <1>6, <2>1, <2>2, <2>3
<1>8. Total([y \in Slices(s, L) |-> F[y]]) = Unit(s) * Off(s, L, Len(L))
  BY <1>2, <1>3, <1>7, SlicesTotal
<1>9. Funded(s) = Total([y \in Slices(s, L) |-> F[y]])
  <2>1. Funded(s) = Total([y \in ItemsOf(s) |-> Wall(bds[y[1]], y[2])])
    BY DEF Funded
  <2>2. PICK f, f2 : /\ f = [y \in ItemsOf(s) |-> Wall(bds[y[1]], y[2])]
                     /\ f2 = [y \in Slices(s, L) |-> F[y]]
    OBVIOUS
  <2>3. DOMAIN f = DOMAIN f2 /\ \A y \in DOMAIN f : f[y] = f2[y]
    BY <1>5, <1>6, <2>2 DEF WallOf
  <2>4. Total(f) = Total(f2)
    BY <2>3, TotalSame
  <2> QED
    BY <2>1, <2>2, <2>4
<1>10. Unit(s) * Need(s) = Submissions[s].n * Submissions[s].w
  <2>1. PICK n, w : n = Submissions[s].n /\ w = Submissions[s].w
    OBVIOUS
  <2>2. n \in Nat \ {0} /\ w \in Nat
    BY <1>2, <2>1, SubIs DEF SubRecord
  <2>3. CASE IsArray(s)
    <3>1. w * n = n * w
      BY <2>2
    <3> QED
      BY <2>1, <2>3, <3>1 DEF Unit, Need
  <2>4. CASE ~IsArray(s)
    <3>1. n = 1
      BY <2>1, <2>2, <2>4 DEF IsArray
    <3>2. Unit(s) * Need(s) = 1 * w
      BY <2>1, <2>4 DEF Unit, Need
    <3> QED
      BY <2>1, <3>1, <3>2
  <2> QED
    BY <2>3, <2>4
<1> QED
  BY <1>1, <1>3, <1>8, <1>9, <1>10

-----------------------------------------------------------------------------
(* Every step of a handler past its gate is such a step.                   *)
LEMMA HandlerStands ==
  ASSUME Types, NEW p \in Handlers, HandlerMoves(p)
  PROVE  \E g2 : HandlerFrame(p, g2)
<1>0. /\ Idle.op \notin GateOps
      /\ \A x : x \in BindOps \cup DoneOps => x \notin GateOps
  BY DEF Idle, GateOps, BindOps, DoneOps
<1>1. ASSUME NEW s \in Subs, Quiet, swept' = swept
      PROVE  Bystanders(p) /\ \A t \in Subs : Thin(t)
  <2>1. Others(s) /\ \A t \in Subs : Thin(t)
    BY <1>1, Thinning DEF Quiet, Others
  <2> QED
    BY <1>1, <2>1, PastStands
<1>2. ASSUME NEW g, RecordStep(p, g) PROVE \E g2 : HandlerFrame(p, g2)
  <2>1. /\ Quiet /\ swept' = swept /\ Recorded(p, g)
    BY <1>2 DEF RecordStep
  <2>2. /\ g.s \in Subs /\ h' = [h EXCEPT ![p] = Idle]
        /\ granted' = [granted EXCEPT ![g.s] = "yes"]
    BY <2>1 DEF Recorded
  <2>3. \A t \in Subs : granted'[t] = granted[t] \/ granted'[t] = "yes"
    BY <2>2 DEF Types, World
  <2>4. HandlerFrame(p, Idle)
    BY <1>0, <1>1, <2>1, <2>2, <2>3 DEF HandlerFrame
  <2> QED
    BY <2>4
<1>3. ASSUME NEW g, CallStep(p, g) PROVE \E g2 : HandlerFrame(p, g2)
  <2>1. /\ g.s \in Subs /\ granted[g.s] = "yes" /\ Others(g.s) /\ \A t \in Subs : Thin(t)
    BY <1>3, CallMoves
  <2>2. PICK g2 : /\ h' = [h EXCEPT ![p] = g2]
                  /\ \/ g2 = Idle
                     \/ /\ g2.s = g.s /\ g2.legs = g.legs
                        /\ g2.op \in BindOps \cup DoneOps
    BY <1>3, CallMoves
  <2>3. granted' = granted /\ swept' = swept
    BY <1>3 DEF CallStep
  <2>4. Bystanders(p)
    BY <2>1, <2>3, PastStands
  <2>5. HandlerFrame(p, g2)
    BY <1>0, <2>1, <2>2, <2>3, <2>4 DEF HandlerFrame
  <2> QED
    BY <2>5
<1>4. ASSUME NEW g, DropStep(p, g) PROVE \E g2 : HandlerFrame(p, g2)
  <2>1. /\ h' = [h EXCEPT ![p] = Idle] /\ granted' = granted /\ swept' = swept /\ Quiet
        /\ g.s \in Subs
    BY <1>4 DEF DropStep, PastFrame, DoneSlot
  <2>2. HandlerFrame(p, Idle)
    BY <1>0, <1>1, <2>1 DEF HandlerFrame
  <2> QED
    BY <2>2
<1>5. ASSUME NEW g, NEW g2, BindsJob(p, g, g2) PROVE \E g3 : HandlerFrame(p, g3)
  <2>1. /\ h' = [h EXCEPT ![p] = g2] /\ granted' = granted /\ swept' = swept /\ Quiet
        /\ g.s \in Subs /\ g2.op \in BindOps
    BY <1>5 DEF BindsJob, PastFrame, BoundJob, BindSlot
  <2>2. HandlerFrame(p, g2)
    BY <1>0, <1>1, <2>1 DEF HandlerFrame
  <2> QED
    BY <2>2
<1>6. ASSUME NEW j \in Jobs, NEW g2, BindArrives(p, j, g2) \/ SettleArrives(p, j, g2)
      PROVE  \E g3 : HandlerFrame(p, g3)
  <2>1. /\ h' = [h EXCEPT ![p] = g2] /\ granted' = granted /\ swept' = swept /\ Quiet
        /\ j[1] \in Subs /\ g2.op \in {"bind", "settle"}
    BY <1>6, JobIs DEF BindArrives, SettleArrives, PastFrame
  <2>2. g2.op \notin GateOps
    BY <2>1 DEF GateOps
  <2>3. HandlerFrame(p, g2)
    BY <1>1, <2>1, <2>2 DEF HandlerFrame
  <2> QED
    BY <2>3
<1> QED
  BY <1>2, <1>3, <1>4, <1>5, <1>6 DEF HandlerMoves

(* Every other step is such a step.                                        *)
LEMMA RestStands ==
  ASSUME Types, RefundStep \/ IdleStep
  PROVE  RestFrame
<1>1. CASE RefundStep
  <2>1. PICK s \in Subs, a \in Accounts, x \in Items :
          Closes(s, <<a, x>>, 0, "sweep") /\ swept' = swept \cup {s}
    BY <1>1 DEF RefundStep
  <2>2. Others(s) /\ \A t \in Subs : Thin(t)
    BY <2>1, Thinning
  <2>3. ASSUME NEW q \in Handlers, NEW t \in Subs, h[q].op \in GateOps, h[q].s = t
        PROVE  Spared(t)
    BY <2>1, <2>2, <2>3, PastStands
  <2> QED
    BY <1>1, <2>2, <2>3 DEF RefundStep, RestFrame
<1>2. CASE IdleStep
  <2>1. Quiet /\ swept' = swept
    BY <1>2 DEF IdleStep
  <2>2. ASSUME NEW t \in Subs PROVE Thin(t) /\ Spared(t)
    <3>1. Thin(t) /\ Same(t)
      BY <2>1, Thinning DEF Quiet
    <3> QED
      BY <2>1, <3>1 DEF Spared, Same
  <2> QED
    BY <1>2, <2>2 DEF IdleStep, RestFrame
<1> QED
  BY <1>1, <1>2

-----------------------------------------------------------------------------
(* A slot whose submission holds no more than before.                      *)
LEMMA UndoneStay ==
  ASSUME NEW g, Undone(g), g.op = "rollback" => Thin(g.s)
  PROVE  Undone(g)'
<1> SUFFICES ASSUME g.op = "rollback" PROVE Left(g.s, g.legs, g.k, g.i)'
  BY DEF Undone
<1>1. ASSUME NEW y \in ItemsOf(g.s)'
      PROVE  \E m \in 1 .. Len(g.legs) :
               /\ y \in Slice(g.s, g.legs[m]) /\ m >= g.k
               /\ m = g.k /\ IsArray(g.s) => y[2][2] >= g.i
  BY <1>1 DEF Undone, Left, Thin
<1> QED
  BY <1>1 DEF Left, Slice, IsArray

(* One handler moves.                                                      *)
LEMMA BackStep ==
  ASSUME Types, Backed, NEW p \in Handlers, NEW g2, h' = [h EXCEPT ![p] = g2],
         Undone(g2)', Bystanders(p),
         \A t \in Subs : granted'[t] = "rejected" =>
           (granted[t] = "rejected" /\ Thin(t)) \/ ItemsOf(t)' = {}
  PROVE  Backed'
<1>1. h'[p] = g2 /\ \A q \in Handlers \ {p} : h'[q] = h[q]
  BY DEF Types, Slots
<1>2. ASSUME NEW s \in Subs, granted'[s] = "rejected" PROVE ItemsOf(s)' = {}
  BY <1>2 DEF Backed, Thin
<1>3. ASSUME NEW q \in Handlers, NEW g, h'[q] = g PROVE Undone(g)'
  <2>1. CASE q = p
    BY <1>1, <1>3, <2>1
  <2>2. CASE q # p
    <3>1. h[q] = g /\ Undone(g) /\ Slot(g)
      BY <1>1, <1>3, <2>2, GateSlot DEF Backed
    <3>2. g.op = "rollback" => Thin(g.s)
      BY <2>2, <3>1, SlotFields DEF Bystanders, Spared, GateOps
    <3> QED
      BY <3>1, <3>2, UndoneStay
  <2> QED
    BY <2>1, <2>2
<1> QED
  BY <1>2, <1>3 DEF Backed

(* The step of a gate.                                                     *)
LEMMA BackGateStep ==
  ASSUME Types, Backed, NEW p \in Handlers, NEW s \in Subs, NEW g2, NEW v,
         GateFrame(p, s, g2, v), Others(s), v = "rejected" => ItemsOf(s)' = {},
         Undone(g2)'
  PROVE  Backed'
<1>1. /\ Bystanders(p)
      /\ \A t \in Subs \ {s} : Spared(t) /\ granted'[t] = granted[t]
      /\ granted'[s] = v
  BY GateStands
<1>2. h' = [h EXCEPT ![p] = g2]
  BY DEF GateFrame
<1>3. \A t \in Subs : granted'[t] = "rejected" =>
        (granted[t] = "rejected" /\ Thin(t)) \/ ItemsOf(t)' = {}
  BY <1>1 DEF Spared
<1> QED
  BY <1>1, <1>2, <1>3, BackStep

(* An item cancelled is one less to cancel.                                *)
LEMMA CancelLeaves ==
  ASSUME NoFault("rollback"), World', Backed, NEW p \in Handlers, NEW s \in Subs, NEW g2, NEW v,
         CancelsOne(p, s, g2, v)
  PROVE  Undone(g2)'
<1>1. PICK g, l, y0 : g = h[p] /\ l = g.legs[g.k] /\ y0 = LegItem(s, l, g.i)
  OBVIOUS
<1>2. /\ RollbackSlot(g) /\ g.s = s /\ g.k \in 1 .. Len(g.legs)
      /\ Closes(s, y0, 0, "rollback")
      /\ g2.s = s /\ g2.legs = g.legs
      /\ g.i + 1 < l.n => g2.k = g.k /\ g2.i = g.i + 1
      /\ ~(g.i + 1 < l.n) => g2.k = g.k + 1 /\ g2.i = 0
  BY <1>1 DEF CancelsOne
<1>3. "rollback" \notin faults'
  BY DEF NoFault, World
<1>4. ItemsOf(s)' \subseteq ItemsOf(s) \ {y0}
  BY <1>2, <1>3 DEF Closes, Shut, Quiet, Same
<1>5. /\ g.op = "rollback" /\ g.k \in Nat /\ g.i \in Nat /\ Placed(s, g.legs)
      /\ Len(g.legs) \in Nat
  BY <1>2 DEF RollbackSlot, Placed
<1>6. Left(s, g.legs, g.k, g.i)
  BY <1>1, <1>2, <1>5 DEF Backed, Undone
<1>7. ASSUME NEW y \in ItemsOf(s)'
      PROVE  \E m \in 1 .. Len(g.legs) :
               /\ y \in Slice(s, g.legs[m]) /\ m >= g2.k
               /\ m = g2.k /\ IsArray(s) => y[2][2] >= g2.i
  <2>1. PICK m \in 1 .. Len(g.legs) :
          y \in Slice(s, g.legs[m]) /\ m >= g.k /\ (m = g.k /\ IsArray(s) => y[2][2] >= g.i)
    BY <1>4, <1>6, <1>7 DEF Left
  <2>2. PICK x : x = y[2][2]
    OBVIOUS
  <2>3. /\ y = <<g.legs[m].a, <<g.legs[m].key, x>> >>
        /\ IsArray(s) => x \in 0 .. (g.legs[m].n - 1)
        /\ ~IsArray(s) => x = -1
    BY <2>1, <2>2, SliceIs
  <2>4. g.legs[m].n \in Nat
    BY <1>5, <2>1, LegIs DEF Placed
  <2>5. CASE m = g.k
    <3>1. y # y0
      BY <1>4
    <3>2. y0 = <<l.a, <<l.key, IF IsArray(s) THEN g.i ELSE -1>> >>
      BY <1>1 DEF LegItem
    <3>3. IsArray(s) /\ x # g.i
      BY <1>1, <2>3, <2>5, <3>1, <3>2
    <3>4. x \in 0 .. (l.n - 1) /\ x >= g.i
      BY <1>1, <2>1, <2>2, <2>3, <2>5, <3>3
    <3>5. x >= g.i + 1 /\ g.i + 1 < l.n
      BY <1>1, <1>5, <2>4, <2>5, <3>3, <3>4, SMTT(30)
    <3> QED
      BY <1>2, <1>5, <2>1, <2>2, <2>5, <3>5
  <2>6. CASE m # g.k
    <3>1. m >= g.k + 1
      BY <1>5, <2>1, <2>6
    <3>2. g2.k = g.k \/ (g2.k = g.k + 1 /\ g2.i = 0)
      BY <1>2
    <3>3. IsArray(s) => x >= 0
      BY <2>3, <2>4
    <3> QED
      BY <1>5, <2>1, <2>2, <2>6, <3>1, <3>2, <3>3
  <2> QED
    BY <2>5, <2>6
<1>8. Left(g2.s, g2.legs, g2.k, g2.i)'
  BY <1>2, <1>7 DEF Left, Slice, IsArray
<1> QED
  BY <1>8 DEF Undone

(* A step of a gate keeps what the gates hold.                             *)
LEMMA BackGate ==
  ASSUME NoFault("rollback"), Types, Covered, Backed, World', GateStep
  PROVE  Backed'
<1>0. PICK p \in Handlers, s \in Subs :
        \E g2, v : GateFrame(p, s, g2, v) /\ GateMove(p, s, g2, v)
  BY DEF GateStep
<1>1. PICK g2, v : GateFrame(p, s, g2, v) /\ GateMove(p, s, g2, v)
  BY <1>0
<1>2. Quiet => Others(s) /\ ItemsOf(s)' = ItemsOf(s)
  BY DEF Quiet, Others, Same
<1>3. g2.op # "rollback" => Undone(g2)'
  BY DEF Undone
<1>4. CASE Refusal(p, s, g2, v)
  <2>1. Quiet /\ Asking(p, s) /\ g2 = Idle
    BY <1>4 DEF Refusal
  <2>2. ItemsOf(s)' = {} /\ g2.op # "rollback"
    BY <1>1, <1>2, <2>1, AskNone DEF Idle
  <2> QED
    BY <1>1, <1>2, <1>3, <2>1, <2>2, BackGateStep
<1>5. CASE Rejects(p, s, g2, v)
  <2>1. PICK g : g = h[p]
    OBVIOUS
  <2>2. /\ Quiet /\ RollbackSlot(g) /\ g.s = s /\ g.k > Len(g.legs) /\ g2 = Idle
        /\ Undone(g)
    BY <1>5, <2>1 DEF Rejects, Backed
  <2>3. /\ g.op = "rollback" /\ g.k \in Nat /\ Len(g.legs) \in Nat
    BY <2>2 DEF RollbackSlot
  <2>4. ItemsOf(s) = {}
    <3>1. Left(g.s, g.legs, g.k, g.i)
      BY <2>2, <2>3 DEF Undone
    <3>2. ASSUME NEW y \in ItemsOf(s) PROVE FALSE
      <4>1. PICK m \in 1 .. Len(g.legs) : m >= g.k
        BY <2>2, <3>1, <3>2 DEF Left
      <4> QED
        BY <2>2, <2>3, <4>1
    <3> QED
      BY <3>2
  <2>5. g2.op # "rollback"
    BY <2>2 DEF Idle
  <2> QED
    BY <1>1, <1>2, <1>3, <2>2, <2>4, <2>5, BackGateStep
<1>6. CASE ReadsOn(p, s, g2, v) \/ Plans(p, s, g2, v)
  <2>1. Quiet /\ v # "rejected" /\ g2.op # "rollback"
    BY <1>6 DEF ReadsOn, Plans, ReadSlot, PlaceSlot
  <2> QED
    BY <1>1, <1>2, <1>3, <2>1, BackGateStep
<1>7. CASE Admission(p, s, g2, v)
  <2>1. v # "rejected" /\ g2.op # "rollback" /\ Others(s)
    BY <1>7 DEF Admission, RecordSlot, Grew
  <2> QED
    BY <1>1, <1>3, <2>1, BackGateStep
<1>8. CASE PlacesOne(p, s, g2, v)
  <2>1. v # "rejected" /\ g2.op # "rollback"
    BY <1>8 DEF PlacesOne, RecordSlot, PlaceSlot
  <2>2. Others(s)
    BY <1>8 DEF PlacesOne, Grew
  <2> QED
    BY <1>1, <1>3, <2>1, <2>2, BackGateStep
<1>9. CASE GivesUp(p, s, g2, v)
  <2>1. PICK L : L = h[p].legs
    OBVIOUS
  <2>2. /\ Quiet /\ PlaceSlot(h[p]) /\ h[p].s = s /\ v # "rejected" /\ g2.s = s
        /\ g2.legs = L /\ g2.k = 1 /\ g2.i = 0
    BY <1>9, <2>1 DEF GivesUp
  <2>3. h[p].op = "place" /\ Placed(s, L)
    BY <2>1, <2>2 DEF PlaceSlot
  <2>4. Covers(s, L)
    BY <2>1, <2>2, <2>3 DEF Covered, Holding
  <2>5. ASSUME NEW y \in ItemsOf(s)
        PROVE  \E m \in 1 .. Len(L) :
                 y \in Slice(s, L[m]) /\ m >= 1 /\ (m = 1 /\ IsArray(s) => y[2][2] >= 0)
    <3>1. PICK m \in 1 .. Len(L) : y \in Slice(s, L[m])
      BY <2>4, <2>5 DEF Covers
    <3>2. L[m].n \in Nat /\ Len(L) \in Nat
      BY <2>3, <3>1, LegIs DEF Placed
    <3>3. IsArray(s) => y[2][2] \in 0 .. (L[m].n - 1)
      BY <3>1, SliceIs
    <3>4. IsArray(s) => y[2][2] >= 0
      BY <3>2, <3>3
    <3>5. m >= 1
      BY <3>1, <3>2
    <3> QED
      BY <3>1, <3>4, <3>5
  <2>6. Left(s, L, 1, 0)'
    BY <1>2, <2>2, <2>5 DEF Left, Slice, IsArray
  <2>7. Undone(g2)'
    BY <2>2, <2>6 DEF Undone
  <2> QED
    BY <1>1, <1>2, <2>2, <2>7, BackGateStep
<1>10. CASE CancelsOne(p, s, g2, v)
  <2>1. Undone(g2)'
    BY <1>10, CancelLeaves
  <2>2. v # "rejected" /\ Others(s)
    BY <1>10, Thinning DEF CancelsOne
  <2> QED
    BY <1>1, <2>1, <2>2, BackGateStep
<1> QED
  BY <1>1, <1>4, <1>5, <1>6, <1>7, <1>8, <1>9, <1>10 DEF GateMove

(* Every step keeps what the gates hold.                                   *)
LEMMA BackNext ==
  ASSUME NoFault("rollback"), Types, Covered, Backed, World', [Next]_vars
  PROVE  Backed'
<1>0. Moves
  BY StepKinds
<1>1. CASE GateStep
  BY <1>1, BackGate
<1>2. CASE RefundStep \/ IdleStep
  <2>1. RestFrame
    BY <1>2, RestStands
  <2>2. ASSUME NEW t \in Subs, granted'[t] = "rejected" PROVE ItemsOf(t)' = {}
    BY <2>1, <2>2 DEF RestFrame, Backed, Thin
  <2>3. ASSUME NEW q \in Handlers, NEW g, h'[q] = g PROVE Undone(g)'
    <3>1. h[q] = g /\ Undone(g) /\ Slot(g)
      BY <2>1, <2>3, GateSlot DEF Backed, RestFrame
    <3>2. g.op = "rollback" => Thin(g.s)
      BY <2>1, <3>1, SlotFields DEF RestFrame
    <3> QED
      BY <3>1, <3>2, UndoneStay
  <2> QED
    BY <2>2, <2>3 DEF Backed
<1>3. CASE CrashStep
  <2>1. ASSUME NEW t \in Subs, granted'[t] = "rejected" PROVE ItemsOf(t)' = {}
    <3>1. Quiet /\ granted[t] = "rejected"
      BY <1>3, <2>1 DEF CrashStep, Types, World
    <3> QED
      BY <3>1 DEF Backed, Quiet, Same
  <2>2. ASSUME NEW q \in Handlers, NEW g, h'[q] = g PROVE Undone(g)'
    <3>1. g.op # "rollback"
      BY <1>3, <2>2 DEF CrashStep, Idle
    <3> QED
      BY <3>1 DEF Undone
  <2> QED
    BY <2>1, <2>2 DEF Backed
<1>4. ASSUME NEW p \in Handlers, HandlerMoves(p) PROVE Backed'
  <2>1. PICK g2 : HandlerFrame(p, g2)
    BY <1>4, HandlerStands
  <2>2. Undone(g2)'
    BY <2>1 DEF HandlerFrame, Undone, GateOps
  <2>3. \A t \in Subs : granted'[t] = "rejected" => granted[t] = "rejected" /\ Thin(t)
    BY <2>1 DEF HandlerFrame
  <2> QED
    BY <2>1, <2>2, <2>3, BackStep DEF HandlerFrame
<1> QED
  BY <1>0, <1>1, <1>2, <1>3, <1>4 DEF Moves

(* Funding is all or nothing when the appends of a rollback do not fail,   *)
(* whatever else does: for any number of sources, gates and janitors, a    *)
(* rejected submission holds nothing and a recorded one its whole walltime.*)
THEOREM FundingAllOrNothing == NoFault("rollback") => (Spec => []AllOrNothing)
<1> SUFFICES ASSUME NoFault("rollback") PROVE Spec => []AllOrNothing
  OBVIOUS
<1>1. Init => Backed
  <2> SUFFICES ASSUME Init PROVE Backed
    OBVIOUS
  <2>1. \A s \in Subs : ItemsOf(s) = {}
    BY InitTypes
  <2>2. \A p \in Handlers : h[p] = Idle
    BY DEF Init
  <2>3. Undone(Idle)
    BY DEF Undone, Idle
  <2> QED
    BY <2>1, <2>2, <2>3 DEF Backed
<1>2. Types /\ Covered /\ Backed /\ Types' /\ [Next]_vars => Backed'
  BY BackNext DEF Types
<1>3. Types /\ Covered /\ Backed => AllOrNothing
  <2> SUFFICES ASSUME Types, Covered, Backed PROVE AllOrNothing
    OBVIOUS
  <2>1. \A s \in Subs : granted[s] = "rejected" => ~Held(s)
    BY HeldIs DEF Backed, Types
  <2>2. \A p \in Handlers :
          (h[p].op = "record" /\ h[p].s \notin swept) =>
             Funded(h[p].s) = Submissions[h[p].s].n * Submissions[h[p].s].w
    BY FundedWhole
  <2> QED
    BY <2>1, <2>2 DEF AllOrNothing
<1> QED
  BY <1>1, <1>2, <1>3, CoveredHolds, PTL DEF Spec

-----------------------------------------------------------------------------
(* No fault is forgotten.                                                  *)
LEMMA FaultsStay ==
  ASSUME [Next]_vars
  PROVE  faults \subseteq faults'
<1>1. ASSUME NEW a, NEW r, NEW s, NEW f, NEW wal, Call(a, r, s, f, wal)
      PROVE  faults \subseteq faults'
  BY <1>1 DEF Call
<1>2. ASSUME NEW p \in Handlers, NEW s \in Subs,
             handleGate(p, s) \/ handleGateMultiSource(p, s)
      PROVE  faults \subseteq faults'
  BY <1>1, <1>2 DEF handleGate, handleGateMultiSource, tally
<1>3. ASSUME NEW p \in Handlers, NEW j \in Jobs,
             \/ handleBind(p, j) \/ handleSettle(p, j, TRUE) \/ handleSettle(p, j, FALSE)
      PROVE  faults \subseteq faults'
  BY <1>3 DEF handleBind, handleSettle, tally
<1>4. ASSUME NEW p \in Handlers, HandlerStep(p) PROVE faults \subseteq faults'
  <2>1. CASE readBalance(p) \/ recordRoute(p) \/ bindRecord(p) \/ dropRoute(p)
    BY <2>1 DEF readBalance, recordRoute, bindRecord, dropRoute, tally
  <2>2. CASE placeLeg(p) \/ rollback(p)
    BY <1>1, <2>2 DEF placeLeg, rollback, tally
  <2>3. CASE bindReprice(p) \/ bindStart(p)
    BY <1>1, <2>3 DEF bindReprice, bindStart
  <2>4. CASE settleLeg(p) \/ settleArrayTask(p)
    BY <1>1, <2>4 DEF settleLeg, settleArrayTask
  <2> QED
    BY <1>4, <2>1, <2>2, <2>3, <2>4, SMTT(30) DEF HandlerStep
<1>5. ASSUME NEW a \in Accounts, SweepUnbound(a) \/ SweepOrphans(a)
      PROVE  faults \subseteq faults'
  BY <1>5 DEF SweepUnbound, SweepOrphans, tally
<1>6. CASE sweepCancel \/ squeue \/ handleReconcile \/ reconCancel
  BY <1>1, <1>6 DEF sweepCancel, squeue, handleReconcile, reconCancel, Refund, tally
<1>7. ASSUME NEW j \in Jobs, SlurmStart(j) \/ SlurmEnd(j) PROVE faults \subseteq faults'
  BY <1>7 DEF SlurmStart, SlurmEnd, tally
<1>8. CASE Tick \/ Restart \/ UNCHANGED vars
  BY <1>8 DEF Tick, Restart, vars, tally
<1> QED
  BY <1>2, <1>3, <1>4, <1>5, <1>6, <1>7, <1>8 DEF Next

-----------------------------------------------------------------------------
(* A settle whose submission holds no more than before.                    *)
LEMMA FinishStay ==
  ASSUME NEW g, Finishing(g), g.op \in DoneOps => Thin(g.s)
  PROVE  Finishing(g)'
<1> SUFFICES ASSUME g.op \in DoneOps, ~IsArray(g.s), NEW y \in ItemsOf(g.s)'
             PROVE  g.op = "settle" /\ \E m \in 1 .. Len(g.legs) :
                      y \in Slice(g.s, g.legs[m]) /\ m >= g.k
  BY DEF Finishing, Slice, IsArray
<1> QED
  BY DEF Finishing, Thin

(* The drops of a submission, when one handler moves.                      *)
LEMMA DropsFinite ==
  ASSUME NEW s
  PROVE  IsFiniteSet(Drops(s)) /\ Cardinality(Drops(s)) \in Nat
<1>1. IsFiniteSet(Handlers) /\ Drops(s) \in SUBSET Handlers
  BY SeamAssumption DEF Drops
<1>2. IsFiniteSet(Drops(s))
  BY <1>1, FS_Subset
<1> QED
  BY <1>2, FS_CardinalityType

(* The handlers about to drop a task, when one handler moves.              *)
LEMMA DropsMove ==
  ASSUME Types, NEW p \in Handlers, NEW g2, h' = [h EXCEPT ![p] = g2], NEW t
  PROVE  /\ g2.op # "drop" \/ g2.task # TRUE \/ g2.s # t => Drops(t)' = Drops(t) \ {p}
         /\ g2.op = "drop" /\ g2.task = TRUE /\ g2.s = t => Drops(t)' = Drops(t) \cup {p}
<1>1. h'[p] = g2 /\ \A q \in Handlers \ {p} : h'[q] = h[q]
  BY DEF Types, Slots
<1>2. \A q \in Handlers \ {p} : q \in Drops(t)' <=> q \in Drops(t)
  BY <1>1 DEF Drops
<1>3. p \in Drops(t)' <=> g2.op = "drop" /\ g2.task = TRUE /\ g2.s = t
  BY <1>1 DEF Drops
<1>4. Drops(t) \subseteq Handlers /\ Drops(t)' \subseteq Handlers
  BY DEF Drops
<1> QED
  BY <1>2, <1>3, <1>4

(* What keeps the count, and what keeps the route.                         *)
LEMMA CountStay ==
  ASSUME Types, Budgets', NEW s \in Subs, Counted(s), Thin(s),
         s \in DOMAIN routes' => s \in DOMAIN routes,
         s \in DOMAIN tokenArrayN =>
           s \in DOMAIN tokenArrayN' /\ tokenArrayN'[s] = tokenArrayN[s],
         Drops(s)' \subseteq Drops(s)
  PROVE  Counted(s)'
<1> SUFFICES ASSUME s \in DOMAIN routes', IsArray(s)
             PROVE  /\ s \in DOMAIN tokenArrayN'
                    /\ Cardinality(ItemsOf(s)') + Cardinality(Drops(s)') <= tokenArrayN'[s]
  BY DEF Counted, IsArray
<1>1. /\ s \in DOMAIN tokenArrayN
      /\ Cardinality(ItemsOf(s)) + Cardinality(Drops(s)) <= tokenArrayN[s]
  BY DEF Counted
<1>2. PICK A, A2, D, D2 : A = ItemsOf(s) /\ A2 = ItemsOf(s)' /\ D = Drops(s) /\ D2 = Drops(s)'
  OBVIOUS
<1>3. IsFiniteSet(A) /\ IsFiniteSet(D)
  BY <1>2, ItemParts, DropsFinite DEF Types
<1>4. A2 \in SUBSET A /\ D2 \in SUBSET D
  BY <1>2 DEF Thin
<1>5. /\ IsFiniteSet(A2) /\ Cardinality(A2) <= Cardinality(A)
      /\ IsFiniteSet(D2) /\ Cardinality(D2) <= Cardinality(D)
  BY <1>3, <1>4, FS_Subset
<1>6. /\ Cardinality(A) \in Nat /\ Cardinality(D) \in Nat
      /\ Cardinality(A2) \in Nat /\ Cardinality(D2) \in Nat
  BY <1>3, <1>5, FS_CardinalityType
<1>7. tokenArrayN[s] \in Int
  BY <1>1 DEF Types, Tables
<1> QED
  BY <1>1, <1>2, <1>5, <1>6, <1>7

(* What can be reached stays so when nothing is added and the route stays. *)
LEMMA ReachStay ==
  ASSUME NEW s \in Subs, Reached(s), Thin(s), faults \subseteq faults',
         granted'[s] = "yes" => granted[s] = "yes",
         s \in DOMAIN routes => s \in DOMAIN routes'
  PROVE  Reached(s)'
  BY DEF Reached, Thin

(* One handler moves.                                                      *)
LEMMA TrackStep ==
  ASSUME Types, Tracked, NEW p \in Handlers, NEW g2, h' = [h EXCEPT ![p] = g2],
         Finishing(g2)', Bystanders(p), \A t \in Subs : Counted(t)' /\ Reached(t)'
  PROVE  Tracked'
<1>1. h'[p] = g2 /\ \A q \in Handlers \ {p} : h'[q] = h[q]
  BY DEF Types, Slots
<1>2. ASSUME NEW q \in Handlers, NEW g, h'[q] = g PROVE Finishing(g)'
  <2>1. CASE q = p
    BY <1>1, <1>2, <2>1
  <2>2. CASE q # p
    <3>1. h[q] = g /\ Finishing(g) /\ Slot(g)
      BY <1>1, <1>2, <2>2, GateSlot DEF Tracked
    <3>2. g.op \in DoneOps => Thin(g.s)
      BY <2>2, <3>1, SlotFields DEF Bystanders, DoneOps
    <3> QED
      BY <3>1, <3>2, FinishStay
  <2> QED
    BY <2>1, <2>2
<1> QED
  BY <1>2 DEF Tracked

(* A gate's step: its submission is not admitted, and not routed.          *)
LEMMA GateMovesOn ==
  ASSUME NEW p, NEW s \in Subs, NEW g2, NEW v, GateMove(p, s, g2, v)
  PROVE  g2.op \notin BindOps \cup DoneOps /\ v \in {"asked", "rejected"} /\ Others(s)
<1>1. Quiet => Others(s)
  BY DEF Quiet, Others
<1>2. CASE Refusal(p, s, g2, v) \/ Rejects(p, s, g2, v)
  BY <1>1, <1>2 DEF Refusal, Rejects, Idle, BindOps, DoneOps
<1>3. CASE ReadsOn(p, s, g2, v) \/ Plans(p, s, g2, v)
  BY <1>1, <1>3 DEF ReadsOn, Plans, ReadSlot, PlaceSlot, BindOps, DoneOps
<1>4. CASE Admission(p, s, g2, v)
  BY <1>4 DEF Admission, RecordSlot, BindOps, DoneOps, Grew
<1>5. CASE PlacesOne(p, s, g2, v)
  BY <1>5 DEF PlacesOne, RecordSlot, PlaceSlot, BindOps, DoneOps, Grew
<1>6. CASE GivesUp(p, s, g2, v)
  BY <1>1, <1>6 DEF GivesUp, BindOps, DoneOps
<1>7. CASE CancelsOne(p, s, g2, v)
  <2>1. Others(s)
    BY <1>7, Thinning DEF CancelsOne
  <2> QED
    BY <1>7, <2>1 DEF CancelsOne, RollbackSlot, BindOps, DoneOps
<1> QED
  BY <1>2, <1>3, <1>4, <1>5, <1>6, <1>7 DEF GateMove

(* A step of a gate keeps every track.                                     *)
LEMMA TrackGate ==
  ASSUME Types, Budgets', Tracked, faults \subseteq faults', GateStep
  PROVE  Tracked'
<1>0. PICK p \in Handlers, s \in Subs :
        \E g2, v : GateFrame(p, s, g2, v) /\ GateMove(p, s, g2, v)
  BY DEF GateStep
<1>1. PICK g2, v : GateFrame(p, s, g2, v) /\ GateMove(p, s, g2, v)
  BY <1>0
<1>2. /\ g2.op \notin BindOps \cup DoneOps /\ v # "yes" /\ Others(s)
  BY <1>1, GateMovesOn
<1>3. /\ Bystanders(p) /\ s \notin DOMAIN routes
      /\ \A t \in Subs \ {s} : Spared(t) /\ granted'[t] = granted[t]
      /\ granted'[s] = v
  BY <1>1, <1>2, GateStands
<1>4. /\ h' = [h EXCEPT ![p] = g2] /\ routes' = routes /\ tokenArrayN' = tokenArrayN
  BY <1>1 DEF GateFrame, Keeps
<1>5. Finishing(g2)'
  BY <1>2 DEF Finishing
<1>6. ASSUME NEW t \in Subs PROVE Counted(t)' /\ Reached(t)'
  <2>1. CASE t = s
    BY <1>2, <1>3, <1>4, <2>1 DEF Counted, Reached
  <2>2. CASE t # s
    <3>1. Drops(t)' \subseteq Drops(t)
      BY <1>2, <1>4, DropsMove DEF DoneOps
    <3>2. Thin(t) /\ granted'[t] = granted[t] /\ Counted(t) /\ Reached(t)
      BY <1>3, <2>2 DEF Spared, Tracked
    <3> QED
      BY <1>4, <3>1, <3>2, CountStay, ReachStay
  <2> QED
    BY <2>1, <2>2
<1> QED
  BY <1>3, <1>4, <1>5, <1>6, TrackStep

(* A route is recorded: the array's tasks are as many as its legs hold.    *)
LEMMA TrackRecord ==
  ASSUME Types, Types', Covered, Tracked, faults \subseteq faults',
         NEW p \in Handlers, NEW g, RecordStep(p, g)
  PROVE  Tracked'
<1>1. /\ Quiet /\ g = h[p] /\ g.op = "record" /\ Recorded(p, g)
  BY DEF RecordStep
<1>2. PICK s, L : s = g.s /\ L = g.legs
  OBVIOUS
<1>3. /\ RecordSlot(g) /\ s \in Subs /\ granted[s] = "asked"
      /\ DOMAIN routes' = DOMAIN routes \cup {s}
      /\ IsArray(s) =>
           /\ DOMAIN tokenArrayN' = DOMAIN tokenArrayN \cup {s}
           /\ tokenArrayN'[s] = Submissions[s].n
           /\ \A t \in DOMAIN tokenArrayN \ {s} : tokenArrayN'[t] = tokenArrayN[t]
      /\ ~IsArray(s) => tokenArrayN' = tokenArrayN
      /\ h' = [h EXCEPT ![p] = Idle] /\ granted' = [granted EXCEPT ![s] = "yes"]
  BY <1>1, <1>2 DEF Recorded
<1>4. Whole(s, L) /\ Covers(s, L)
  BY <1>1, <1>2, <1>3 DEF RecordSlot, Covered, Holding
<1>5. Bystanders(p) /\ \A t \in Subs : Thin(t)
  <2>1. HandlerMoves(p)
    BY DEF HandlerMoves
  <2>2. PICK g2 : HandlerFrame(p, g2)
    BY <2>1, HandlerStands
  <2> QED
    BY <2>2 DEF HandlerFrame
<1>6. ASSUME NEW t \in Subs PROVE Drops(t)' \subseteq Drops(t)
  <2>1. Idle.op # "drop"
    BY DEF Idle
  <2>2. h' = [h EXCEPT ![p] = Idle]
    BY <1>3
  <2> QED
    BY <2>1, <2>2, DropsMove
<1>7. Finishing(Idle)'
  BY DEF Finishing, Idle, DoneOps
<1>8. Drops(s) = {}
  <2>1. ASSUME NEW q \in Drops(s) PROVE FALSE
    <3>1. q \in Handlers /\ h[q].op = "drop" /\ h[q].s = s
      BY <2>1 DEF Drops
    <3>2. granted[h[q].s] = "yes"
      BY <3>1, GateSlot DEF Routes, DoneOps
    <3> QED
      BY <1>3, <3>1, <3>2
  <2> QED
    BY <2>1
<1>9. IsArray(s) => Cardinality(ItemsOf(s)) <= Submissions[s].n
  <2> SUFFICES ASSUME IsArray(s) PROVE Cardinality(ItemsOf(s)) <= Submissions[s].n
    OBVIOUS
  <2>1. /\ Placed(s, L) /\ Off(s, L, Len(L)) = Submissions[s].n
    BY <1>4 DEF Whole, Need
  <2>2. PICK F : F = [y \in Slices(s, L) |-> Submissions[s].w]
    OBVIOUS
  <2>3. \A k \in 1 .. Len(L) : \A y \in Slice(s, L[k]) : F[y] = L[k].w
    BY <2>1, <2>2 DEF Slices, Placed, LegOK
  <2>4. IsFiniteSet(Slices(s, L)) /\ Cardinality(Slices(s, L)) = Submissions[s].n
    <3>1. /\ IsFiniteSet(Slices(s, L))
          /\ IsArray(s) => Cardinality(Slices(s, L)) = Off(s, L, Len(L))
      <4>1. s \in Subs
        BY <1>3
      <4> QED
        BY <2>1, <2>3, <4>1, SlicesTotal
    <3> QED
      BY <2>1, <3>1
  <2>5. ItemsOf(s) \in SUBSET Slices(s, L)
    BY <1>4 DEF Covers, Slices
  <2> QED
    BY <2>4, <2>5, FS_Subset
<1>10. ASSUME NEW t \in Subs PROVE Counted(t)' /\ Reached(t)'
  <2>1. CASE t = s
    <3>1. Reached(s)'
      BY <1>3 DEF Reached
    <3>2. ASSUME IsArray(s)
          PROVE  /\ s \in DOMAIN tokenArrayN'
                 /\ Cardinality(ItemsOf(s)') + Cardinality(Drops(s)') <= tokenArrayN'[s]
      <4>1. ItemsOf(s)' = ItemsOf(s) /\ Drops(s)' = {}
        BY <1>1, <1>3, <1>6, <1>8 DEF Quiet, Same
      <4>2. Cardinality(ItemsOf(s)) \in Nat
        BY <1>3, ItemParts, FS_CardinalityType DEF Types
      <4>3. Cardinality({}) = 0
        BY FS_EmptySet
      <4>4. Submissions[s].n \in Nat
        BY <1>3, SubIs DEF SubRecord
      <4> QED
        BY <1>3, <1>9, <3>2, <4>1, <4>2, <4>3, <4>4
    <3> QED
      BY <2>1, <3>1, <3>2 DEF Counted, IsArray
  <2>2. CASE t # s
    <3>1. Thin(t) /\ Counted(t) /\ Reached(t) /\ Budgets'
      BY <1>5 DEF Tracked, Types
    <3>2. granted'[t] = granted[t]
      BY <1>3, <2>2 DEF Types, World
    <3>3. /\ t \in DOMAIN routes' <=> t \in DOMAIN routes
          /\ t \in DOMAIN tokenArrayN =>
               t \in DOMAIN tokenArrayN' /\ tokenArrayN'[t] = tokenArrayN[t]
      BY <1>3, <2>2
    <3> QED
      BY <1>6, <3>1, <3>2, <3>3, CountStay, ReachStay
  <2> QED
    BY <2>1, <2>2
<1> QED
  BY <1>3, <1>5, <1>7, <1>10, TrackStep

(* A handler past its gate that leaves the tables alone.                   *)
LEMMA TrackPast ==
  ASSUME Types, Types', Tracked, faults \subseteq faults', NEW p \in Handlers,
         NEW g2, h' = [h EXCEPT ![p] = g2], Finishing(g2)', Bystanders(p),
         \A t \in Subs : Thin(t), granted' = granted,
         routes' = routes, tokenArrayN' = tokenArrayN,
         g2.op # "drop" \/ g2.task # TRUE
  PROVE  Tracked'
<1>1. ASSUME NEW t \in Subs PROVE Counted(t)' /\ Reached(t)'
  <2>1. Drops(t)' \subseteq Drops(t)
    BY DropsMove
  <2>2. Counted(t) /\ Reached(t) /\ Budgets'
    BY DEF Tracked, Types
  <2> QED
    BY <2>1, <2>2, CountStay, ReachStay
<1> QED
  BY <1>1, TrackStep

(* What a settle leaves of a job.                                          *)
LEMMA LegSettled ==
  ASSUME NoFault("settle"), World', Tracked, NEW p \in Handlers, NEW g, g = h[p],
         DoneSlot(g), g.op = "settle", ~IsArray(g.s), NEW g2, MovesOn(g, g2),
         NEW y0, y0 = <<g.legs[g.k].a, <<g.legs[g.k].key, -1>> >>,
         Shut(g.s, y0, LegBill(g, y0)) \/ (Quiet /\ (y0 \notin ItemsOf(g.s) \/ "settle" \in faults'))
  PROVE  Finishing(g2)'
<1>1. PICK s, L, k : s = g.s /\ L = g.legs /\ k = g.k
  OBVIOUS
<1>2. s \in Subs /\ k \in 1 .. Len(L) /\ Len(L) \in Nat /\ Finishing(g)
  BY <1>1 DEF DoneSlot, Tracked
<1>3. "settle" \notin faults'
  BY SMTT(30) DEF NoFault, World
<1>4. ItemsOf(s)' \subseteq ItemsOf(s) \ {y0}
  BY <1>1, <1>2, <1>3 DEF Shut, Quiet, Same
<1>5. /\ g2.s = s /\ g2.legs = L
      /\ k < Len(L) => g2.op = "settle" /\ g2.k = k + 1
      /\ k = Len(L) => g2.op = "drop" /\ g2.k = k
  BY <1>1 DEF MovesOn
<1>6. ASSUME NEW y \in ItemsOf(s)'
      PROVE  g2.op = "settle" /\ \E m \in 1 .. Len(L) : y \in Slice(s, L[m]) /\ m >= g2.k
  <2>1. PICK m \in 1 .. Len(L) : y \in Slice(s, L[m]) /\ m >= k
    BY <1>1, <1>2, <1>4, <1>6 DEF Finishing, DoneOps
  <2>2. m # k
    <3>1. y = <<L[m].a, <<L[m].key, -1>> >>
      BY <1>1, <2>1, SliceIs
    <3> QED
      BY <1>1, <1>4, <1>6, <3>1
  <2>3. k < Len(L) /\ m >= k + 1
    BY <1>2, <2>1, <2>2
  <2> QED
    BY <1>5, <2>1, <2>3
<1> QED
  BY <1>1, <1>5, <1>6 DEF Finishing, Slice, IsArray

(* A task settled is one item less and one drop more.                      *)
LEMMA TaskSettled ==
  ASSUME Types, Types', Tracked, faults \subseteq faults', NEW p \in Handlers, NEW g, g = h[p],
         g.op = "settle", g.s \in Subs, IsArray(g.s), Bystanders(p), NEW g2,
         h' = [h EXCEPT ![p] = g2], g2.s = g.s, NEW y, NEW u, Shut(g.s, y, u),
         granted' = granted, routes' = routes, tokenArrayN' = tokenArrayN
  PROVE  Tracked'
<1>1. PICK s : s = g.s
  OBVIOUS
<1>2. s \in Subs /\ \A t \in Subs : Thin(t) /\ Counted(t) /\ Reached(t)
  BY <1>1, Thinning DEF Tracked
<1>3. Finishing(g2)'
  BY DEF Finishing, IsArray
<1>4. ASSUME NEW t \in Subs \ {s} PROVE Counted(t)' /\ Reached(t)'
  <2>0. g2.s # t
    BY <1>1, <1>4
  <2>1. Drops(t)' \subseteq Drops(t)
    <3>1. g2.op # "drop" \/ g2.task # TRUE \/ g2.s # t
      BY <2>0
    <3>2. Drops(t)' = Drops(t) \ {p}
      BY <3>1, DropsMove
    <3> QED
      BY <3>2
  <2> QED
    BY <1>2, <2>1, CountStay, ReachStay DEF Types
<1>5. Reached(s)'
  BY <1>2, ReachStay
<1>6. Counted(s)'
  <2> SUFFICES ASSUME s \in DOMAIN routes'
               PROVE  /\ s \in DOMAIN tokenArrayN'
                      /\ Cardinality(ItemsOf(s)') + Cardinality(Drops(s)') <= tokenArrayN'[s]
    BY DEF Counted, IsArray
  <2>1. /\ s \in DOMAIN tokenArrayN
        /\ Cardinality(ItemsOf(s)) + Cardinality(Drops(s)) <= tokenArrayN[s]
    BY <1>1, <1>2 DEF Counted
  <2>2. PICK A, A2, D, D2 : A = ItemsOf(s) /\ A2 = ItemsOf(s)' /\ D = Drops(s) /\ D2 = Drops(s)'
    OBVIOUS
  <2>3. IsFiniteSet(A) /\ IsFiniteSet(D)
    BY <1>2, <2>2, ItemParts, DropsFinite DEF Types
  <2>4. y \in A /\ A2 = A \ {y}
    BY <1>1, <2>2 DEF Shut
  <2>5. D2 \in SUBSET (D \cup {p})
    <3>1. \/ Drops(s)' = Drops(s) \ {p}
          \/ Drops(s)' = Drops(s) \cup {p}
      BY DropsMove
    <3> QED
      BY <2>2, <3>1
  <2>6. /\ IsFiniteSet(D \cup {p}) /\ Cardinality(D \cup {p}) <= Cardinality(D) + 1
        /\ Cardinality(D) \in Nat
    <3>1. /\ IsFiniteSet(D \cup {p})
          /\ Cardinality(D \cup {p}) = IF p \in D THEN Cardinality(D) ELSE Cardinality(D) + 1
      BY <2>3, FS_AddElement
    <3>2. Cardinality(D) \in Nat
      BY <2>3, FS_CardinalityType
    <3> QED
      BY <3>1, <3>2
  <2>7. IsFiniteSet(D2) /\ Cardinality(D2) <= Cardinality(D \cup {p})
    BY <2>5, <2>6, FS_Subset
  <2>8. Cardinality(A2) = Cardinality(A) - 1 /\ Cardinality(A) \in Nat
    BY <2>3, <2>4, FS_RemoveElement, FS_CardinalityType
  <2>9. Cardinality(D2) \in Nat /\ Cardinality(D \cup {p}) \in Nat /\ tokenArrayN[s] \in Int
    BY <2>1, <2>6, <2>7, FS_CardinalityType DEF Types, Tables
  <2> QED
    BY <2>1, <2>2, <2>6, <2>7, <2>8, <2>9
<1> QED
  BY <1>3, <1>4, <1>5, <1>6, TrackStep

(* A call of a handler past its gate.                                      *)
LEMMA TrackCall ==
  ASSUME Epilog = FALSE, NoFault("settle"), Types, Types', Tracked,
         faults \subseteq faults', NEW p \in Handlers, NEW g, CallStep(p, g)
  PROVE  Tracked'
<1>0. /\ g = h[p] /\ Works(p, g) /\ granted' = granted
      /\ routes' = routes /\ tokenArrayN' = tokenArrayN
  BY DEF CallStep, Works, Keeps
<1>1. Bystanders(p) /\ \A t \in Subs : Thin(t)
  <2>1. HandlerMoves(p)
    BY DEF HandlerMoves
  <2>2. PICK g2 : HandlerFrame(p, g2)
    BY <2>1, HandlerStands
  <2> QED
    BY <2>2 DEF HandlerFrame
<1>2. ASSUME NEW g2, h' = [h EXCEPT ![p] = g2], g2 = Idle \/ BindSlot(g2) PROVE Tracked'
  <2>1. g2.op \notin DoneOps
    BY <1>2 DEF Idle, BindSlot, BindOps, DoneOps
  <2>2. Finishing(g2)' /\ g2.op # "drop"
    BY <2>1 DEF Finishing, DoneOps
  <2> QED
    BY <1>0, <1>1, <1>2, <2>2, TrackPast
<1>3. CASE Repricing(p, g)
  <2>1. PICK g2 : h' = [h EXCEPT ![p] = g2] /\ BindSlot(g2)
    BY <1>3 DEF Repricing
  <2> QED
    BY <1>2, <2>1
<1>4. CASE BindSlot(g) /\ Starting(p, g)
  <2>1. PICK g2 : /\ h' = [h EXCEPT ![p] = g2]
                  /\ IsArray(g.s) \/ g.k = Len(g.legs) => g2 = Idle
                  /\ ~IsArray(g.s) /\ g.k < Len(g.legs) => BindSlot(g2)
    BY <1>4 DEF Starting
  <2>2. g.k = Len(g.legs) \/ g.k < Len(g.legs)
    BY <1>4 DEF BindSlot
  <2> QED
    BY <1>2, <2>1, <2>2
<1>5. CASE DoneSlot(g) /\ g.op = "settle" /\ g.task = FALSE /\ SettlingLeg(p, g)
  <2>1. PICK y : y = <<g.legs[g.k].a, <<g.legs[g.k].key, -1>> >>
    OBVIOUS
  <2>2. PICK g2 : /\ h' = [h EXCEPT ![p] = g2]
                  /\ \/ Shut(g.s, y, LegBill(g, y)) /\ MovesOn(g, g2)
                     \/ Quiet /\ (y \notin ItemsOf(g.s) \/ "settle" \in faults') /\ MovesOn(g, g2)
                     \/ g2 = Idle
    BY <1>5, <2>1 DEF SettlingLeg
  <2>3. CASE MovesOn(g, g2) /\ g2 # Idle
    <3>1. ~IsArray(g.s)
      BY <1>5 DEF DoneSlot
    <3>2. Finishing(g2)'
      BY <1>0, <1>5, <2>1, <2>2, <2>3, <3>1, LegSettled DEF Types
    <3>3. g2.task # TRUE
      BY <1>5, <2>3 DEF MovesOn
    <3> QED
      BY <1>0, <1>1, <2>2, <3>2, <3>3, TrackPast
  <2> QED
    BY <1>2, <2>2, <2>3
<1>6. CASE DoneSlot(g) /\ g.op = "settle" /\ IsArray(g.s) /\ SettlingTask(p, g)
  <2>1. CASE h' = [h EXCEPT ![p] = Idle]
    BY <1>2, <2>1
  <2>2. CASE h' # [h EXCEPT ![p] = Idle]
    <3>1. PICK y, u, g2 : /\ Shut(g.s, y, u)
                          /\ h' = [h EXCEPT ![p] = g2] /\ g2.s = g.s
      BY <1>6, <2>2 DEF SettlingTask
    <3>2. g.s \in Subs
      BY <1>6 DEF DoneSlot
    <3> QED
      BY <1>0, <1>1, <1>6, <3>1, <3>2, TaskSettled
  <2> QED
    BY <2>1, <2>2
<1> QED
  BY <1>0, <1>3, <1>4, <1>5, <1>6 DEF Works

(* A route is dropped when nothing is left to route.                       *)
LEMMA TrackDrop ==
  ASSUME Epilog = FALSE, Types, Types', Tracked, faults \subseteq faults',
         NEW p \in Handlers, NEW g, DropStep(p, g)
  PROVE  Tracked'
<1>1. /\ Quiet /\ g = h[p] /\ DoneSlot(g) /\ g.op = "drop" /\ DropTables(g)
      /\ h' = [h EXCEPT ![p] = Idle] /\ granted' = granted
  BY DEF DropStep, PastFrame
<1>2. PICK s : s = g.s
  OBVIOUS
<1>3. /\ s \in Subs /\ g.task \in BOOLEAN /\ (g.task = TRUE <=> IsArray(s))
  BY <1>1, <1>2 DEF DoneSlot
<1>4. Bystanders(p) /\ \A t \in Subs : Thin(t)
  <2>1. HandlerMoves(p)
    BY DEF HandlerMoves
  <2>2. PICK g2 : HandlerFrame(p, g2)
    BY <2>1, HandlerStands
  <2> QED
    BY <2>2 DEF HandlerFrame
<1>5. Idle.op # "drop" /\ Finishing(Idle)'
  BY DEF Finishing, Idle, DoneOps
<1>6. ASSUME NEW t \in Subs PROVE Drops(t)' = Drops(t) \ {p}
  BY <1>1, <1>5, DropsMove
<1>7. /\ Last(g) => DOMAIN routes' = DOMAIN routes \ {s}
      /\ ~Last(g) => DOMAIN routes' = DOMAIN routes
      /\ g.task = TRUE /\ Last(g) => DOMAIN tokenArrayN' = DOMAIN tokenArrayN \ {s}
      /\ g.task = FALSE \/ ~Last(g) => DOMAIN tokenArrayN' = DOMAIN tokenArrayN
      /\ \A t \in DOMAIN tokenArrayN' \ {s} : tokenArrayN'[t] = tokenArrayN[t]
      /\ s \in DOMAIN tokenArrayN' /\ g.task = TRUE => tokenArrayN'[s] = tokenArrayN[s] - 1
  BY <1>1, <1>2 DEF DropTables
<1>8. Last(g) <=> ~IsArray(s) \/ (s \in DOMAIN tokenArrayN /\ tokenArrayN[s] <= 1)
  BY <1>2, <1>3 DEF Last
<1>9. Counted(s) /\ Reached(s) /\ ItemsOf(s)' = ItemsOf(s)
  BY <1>1, <1>3 DEF Tracked, Quiet, Same
<1>10. IsArray(s) => p \in Drops(s)
  BY <1>1, <1>2, <1>3 DEF Drops
<1>11. PICK A, D : A = ItemsOf(s) /\ D = Drops(s)
  OBVIOUS
<1>12. /\ IsFiniteSet(A) /\ Cardinality(A) \in Nat
       /\ IsFiniteSet(D) /\ Cardinality(D) \in Nat
       /\ p \in D => Cardinality(D \ {p}) = Cardinality(D) - 1 /\ Cardinality(D \ {p}) \in Nat
  <2>1. IsFiniteSet(A) /\ IsFiniteSet(D)
    BY <1>3, <1>11, ItemParts, DropsFinite DEF Types
  <2>2. /\ Cardinality(A) \in Nat /\ Cardinality(D) \in Nat
        /\ IsFiniteSet(D \ {p})
        /\ p \in D => Cardinality(D \ {p}) = Cardinality(D) - 1
    BY <2>1, FS_RemoveElement, FS_CardinalityType
  <2>3. Cardinality(D \ {p}) \in Nat
    BY <2>2, FS_CardinalityType
  <2> QED
    BY <2>1, <2>2, <2>3
<1>13. ASSUME s \in DOMAIN routes, IsArray(s)
       PROVE  /\ s \in DOMAIN tokenArrayN /\ tokenArrayN[s] \in Int
              /\ Cardinality(A) + Cardinality(D) <= tokenArrayN[s]
  BY <1>9, <1>11, <1>13 DEF Counted, Types, Tables
<1>14. Counted(s)'
  <2> SUFFICES ASSUME s \in DOMAIN routes', IsArray(s)
               PROVE  /\ s \in DOMAIN tokenArrayN'
                      /\ Cardinality(ItemsOf(s)') + Cardinality(Drops(s)') <= tokenArrayN'[s]
    BY DEF Counted, IsArray
  <2>1. s \in DOMAIN routes /\ ~Last(g) /\ s \in DOMAIN tokenArrayN'
    BY <1>7, <1>8, <1>13
  <2>2. tokenArrayN'[s] = tokenArrayN[s] - 1
    BY <1>3, <1>7, <2>1
  <2>3. ItemsOf(s)' = A /\ Drops(s)' = D \ {p}
    BY <1>3, <1>6, <1>9, <1>11
  <2> QED
    BY <1>10, <1>11, <1>12, <1>13, <2>1, <2>2, <2>3
<1>15. Reached(s)'
  <2>1. CASE ~IsArray(s)
    <3>1. Finishing(g)
      BY <1>1 DEF Tracked
    <3>2. ItemsOf(s) = {}
      BY <1>1, <1>2, <2>1, <3>1 DEF Finishing, DoneOps
    <3> QED
      BY <1>9, <3>2 DEF Reached
  <2>2. CASE IsArray(s) /\ s \notin DOMAIN routes
    BY <1>1, <1>9, <2>2 DEF Reached
  <2>3. CASE IsArray(s) /\ s \in DOMAIN routes /\ Last(g)
    <3>1. Cardinality(D) # 0
      BY <1>10, <1>11, <1>12, <2>3, FS_EmptySet
    <3>2. Cardinality(A) + Cardinality(D) <= 1
      BY <1>8, <1>12, <1>13, <2>3
    <3>3. Cardinality(A) = 0
      BY <1>12, <3>1, <3>2
    <3>4. ItemsOf(s)' = {}
      BY <1>9, <1>11, <1>12, <3>3, FS_EmptySet
    <3> QED
      BY <3>4 DEF Reached
  <2>4. CASE IsArray(s) /\ s \in DOMAIN routes /\ ~Last(g)
    BY <1>7, <2>4 DEF Reached
  <2> QED
    BY <2>1, <2>2, <2>3, <2>4
<1>16. ASSUME NEW t \in Subs PROVE Counted(t)' /\ Reached(t)'
  <2>1. CASE t = s
    BY <1>14, <1>15, <2>1
  <2>2. CASE t # s
    <3>1. /\ t \in DOMAIN routes' <=> t \in DOMAIN routes
          /\ t \in DOMAIN tokenArrayN =>
               t \in DOMAIN tokenArrayN' /\ tokenArrayN'[t] = tokenArrayN[t]
      BY <1>3, <1>7, <2>2
    <3>2. Thin(t) /\ Counted(t) /\ Reached(t) /\ Budgets' /\ Drops(t)' \subseteq Drops(t)
      BY <1>4, <1>6 DEF Tracked, Types
    <3>3. granted'[t] = granted[t]
      BY <1>1
    <3> QED
      BY <3>1, <3>2, <3>3, CountStay, ReachStay
  <2> QED
    BY <2>1, <2>2
<1> QED
  BY <1>1, <1>4, <1>5, <1>16, TrackStep

(* Every step keeps it.                                                    *)
LEMMA TrackNext ==
  ASSUME Epilog = FALSE, NoFault("settle"), Types, Types', Covered, Tracked, [Next]_vars
  PROVE  Tracked'
<1>0. Moves /\ faults \subseteq faults' /\ Budgets'
  BY StepKinds, FaultsStay DEF Types
<1>1. CASE GateStep
  BY <1>0, <1>1, TrackGate
<1>2. CASE RefundStep \/ IdleStep
  <2>1. RestFrame
    BY <1>2, RestStands
  <2>2. /\ h' = h /\ routes' = routes /\ tokenArrayN' = tokenArrayN /\ granted' = granted
        /\ \A t \in Subs : Thin(t)
    BY <2>1 DEF RestFrame, Keeps
  <2>3. ASSUME NEW q \in Handlers, NEW g, h'[q] = g PROVE Finishing(g)'
    <3>1. h[q] = g /\ Finishing(g) /\ Slot(g)
      BY <2>2, <2>3, GateSlot DEF Tracked
    <3>2. g.op \in DoneOps => Thin(g.s)
      BY <2>2, <3>1, SlotFields DEF DoneOps
    <3> QED
      BY <3>1, <3>2, FinishStay
  <2>4. ASSUME NEW t \in Subs PROVE Counted(t)' /\ Reached(t)'
    <3>1. Drops(t)' = Drops(t)
      BY <2>2 DEF Drops
    <3>2. Counted(t) /\ Reached(t) /\ Thin(t)
      BY <2>2 DEF Tracked
    <3> QED
      BY <1>0, <2>2, <3>1, <3>2, CountStay, ReachStay
  <2> QED
    BY <2>3, <2>4 DEF Tracked
<1>3. CASE CrashStep
  <2>1. ASSUME NEW q \in Handlers, NEW g, h'[q] = g PROVE Finishing(g)'
    <3>1. g.op \notin DoneOps
      BY <1>3, <2>1 DEF CrashStep, Idle, DoneOps
    <3> QED
      BY <3>1 DEF Finishing
  <2>2. DOMAIN routes' = {} /\ "crash" \in faults'
    BY <1>3 DEF CrashStep, Empty
  <2> QED
    BY <2>1, <2>2 DEF Tracked, Counted, Reached
<1>4. ASSUME NEW p \in Handlers, HandlerMoves(p) PROVE Tracked'
  <2>1. ASSUME NEW g, RecordStep(p, g) PROVE Tracked'
    BY <1>0, <2>1, TrackRecord
  <2>2. ASSUME NEW g, CallStep(p, g) PROVE Tracked'
    BY <1>0, <2>2, TrackCall
  <2>3. ASSUME NEW g, DropStep(p, g) PROVE Tracked'
    BY <1>0, <2>3, TrackDrop
  <2>4. Bystanders(p) /\ \A t \in Subs : Thin(t)
    BY <1>4, HandlerStands DEF HandlerFrame
  <2>5. ASSUME NEW g, NEW g2, BindsJob(p, g, g2) PROVE Tracked'
    <3>1. /\ h' = [h EXCEPT ![p] = g2] /\ granted' = granted
          /\ routes' = routes /\ tokenArrayN' = tokenArrayN /\ BindSlot(g2)
      BY <2>5 DEF BindsJob, PastFrame, BoundJob
    <3>2. g2.op \notin DoneOps
      BY <3>1 DEF BindSlot, BindOps, DoneOps
    <3>3. Finishing(g2)' /\ g2.op # "drop"
      BY <3>2 DEF Finishing, DoneOps
    <3> QED
      BY <1>0, <2>4, <3>1, <3>3, TrackPast
  <2>6. ASSUME NEW j \in Jobs, NEW g2, BindArrives(p, j, g2) PROVE Tracked'
    <3>1. /\ h' = [h EXCEPT ![p] = g2] /\ granted' = granted
          /\ routes' = routes /\ tokenArrayN' = tokenArrayN /\ g2.op = "bind"
      BY <2>6 DEF BindArrives, PastFrame, Keeps
    <3>2. Finishing(g2)' /\ g2.op # "drop"
      BY <3>1 DEF Finishing, DoneOps
    <3> QED
      BY <1>0, <2>4, <3>1, <3>2, TrackPast
  <2>7. ASSUME NEW j \in Jobs, NEW g2, SettleArrives(p, j, g2) PROVE Tracked'
    <3>1. /\ h' = [h EXCEPT ![p] = g2] /\ granted' = granted
          /\ routes' = routes /\ tokenArrayN' = tokenArrayN /\ g2.op = "settle"
          /\ g2.s = j[1] /\ g2.k = 1 /\ j[1] \in DOMAIN routes /\ g2.legs = routes[j[1]]
          /\ Quiet
      BY <2>7 DEF SettleArrives, PastFrame, Keeps
    <3>2. PICK s, L : s = j[1] /\ L = routes[j[1]]
      OBVIOUS
    <3>3. s \in Subs /\ Covers(s, L) /\ ItemsOf(s)' = ItemsOf(s)
      BY <3>1, <3>2, JobIs DEF Covered, Quiet, Same
    <3>4. ASSUME NEW y \in ItemsOf(s)'
          PROVE  \E m \in 1 .. Len(L) : y \in Slice(s, L[m]) /\ m >= 1
      BY <3>3, <3>4 DEF Covers
    <3>5. Finishing(g2)'
      BY <3>1, <3>2, <3>4 DEF Finishing, Slice, IsArray
    <3> QED
      BY <1>0, <2>4, <3>1, <3>5, TrackPast
  <2> QED
    BY <1>4, <2>1, <2>2, <2>3, <2>5, <2>6, <2>7 DEF HandlerMoves
<1> QED
  BY <1>0, <1>1, <1>2, <1>3, <1>4 DEF Moves

(* Whatever an admitted submission holds can be routed until the daemon    *)
(* restarts, for any number of tasks, sources, hooks and handlers, as long *)
(* as the completion hook names the task and the append of a settle does   *)
(* not fail: the cases the code loses a route in.                          *)
THEOREM HeldIsRouted == Epilog = FALSE /\ NoFault("settle") => (Spec => []Routed)
<1> SUFFICES ASSUME Epilog = FALSE, NoFault("settle") PROVE Spec => []Routed
  OBVIOUS
<1>1. Init => Tracked
  <2> SUFFICES ASSUME Init PROVE Tracked
    OBVIOUS
  <2>1. \A s \in Subs : ItemsOf(s) = {}
    BY InitTypes
  <2>2. (\A p \in Handlers : h[p] = Idle) /\ DOMAIN routes = {}
    BY DEF Init, Empty
  <2>3. Finishing(Idle)
    BY DEF Finishing, Idle, DoneOps
  <2> QED
    BY <2>1, <2>2, <2>3 DEF Tracked, Counted, Reached
<1>2. Types /\ Covered /\ Tracked /\ Types' /\ [Next]_vars => Tracked'
  BY TrackNext
<1>3. Types /\ Tracked => Routed
  BY HeldIs DEF Types, Tracked, Reached, Routed
<1> QED
  BY <1>1, <1>2, <1>3, CoveredHolds, PTL DEF Spec

-----------------------------------------------------------------------------
(* The rates of what is held: the gate's, or the node's once repriced.     *)
LEMMA RateIs ==
  ASSUME NEW s \in Subs
  PROVE  /\ C0(s) \in Nat \ {0} /\ Rate(s) \in Nat \ {0} /\ Rate(s) <= C0(s)
         /\ IsArray(s) \/ NodeRate(s) = 0 \/ C0(s) < NodeRate(s) => Rate(s) = C0(s)
         /\ ~IsArray(s) /\ NodeRate(s) > 0 /\ NodeRate(s) <= C0(s) => Rate(s) = NodeRate(s)
<1>1. PICK a, c, n : a = Submissions[s].sources[1] /\ c = GateRate(s) /\ n = NodeRate(s)
  OBVIOUS
<1>2. a \in Accounts /\ c \in Nat /\ n \in Nat
  BY <1>1, SubIs, GateRateNat, RateNat DEF SubRecord, NodeRate
<1>3. NewAccount(a).C = FlatRates[a]
  <2>1. PICK b : b = NewAccount(a)
    OBVIOUS
  <2>2. b \in PlainRecord(a)
    BY <1>2, <2>1, OpeningIs
  <2> QED
    BY <2>1, <2>2 DEF PlainRecord
<1>4. RateOrFlat(NewAccount(a), c) = C0(s)
  BY <1>1, <1>2, <1>3 DEF RateOrFlat, C0
<1>5. Rate(s) = IF IsArray(s) \/ n \notin 1 .. C0(s) THEN C0(s) ELSE n
  BY <1>1, <1>4 DEF Rate
<1>6. C0(s) \in Nat \ {0}
  BY C0Nat
<1> QED
  BY <1>1, <1>2, <1>5, <1>6

(* The effects that reprice nothing.                                       *)
LEMMA Keeping ==
  ASSUME NEW s \in Subs, NEW y, NEW u, NEW f
  PROVE  /\ \A t : Same(t) => Kept(t)
         /\ Quiet => \A t \in Subs : Kept(t)
         /\ Shut(s, y, u) => \A t \in Subs : Kept(t)
         /\ Closes(s, y, u, f) => \A t \in Subs : Kept(t)
<1>1. \A t : Same(t) => Kept(t)
  BY DEF Same, Kept, Alike
<1>2. Quiet => \A t \in Subs : Kept(t)
  BY <1>1 DEF Quiet
<1>3. Shut(s, y, u) => Kept(s) /\ Others(s)
  BY DEF Shut, Kept, Alike
<1>4. Shut(s, y, u) => \A t \in Subs : Kept(t)
  BY <1>1, <1>3 DEF Others
<1> QED
  BY <1>1, <1>2, <1>4 DEF Closes

(* A submission keeps its price under such an effect.                      *)
LEMMA PricedStay ==
  ASSUME NEW s \in Subs, Priced(s), Kept(s), granted[s] = "yes" => granted'[s] = "yes"
  PROVE  Priced(s)'
<1>1. ASSUME NEW y \in ItemsOf(s)'
      PROVE  /\ RateOf(y)' \in {C0(s), Rate(s)}
             /\ granted'[s] # "yes" => RateOf(y)' = C0(s)
             /\ y \in LitsOf(s)' => granted'[s] = "yes" /\ RateOf(y)' = Rate(s)
  <2>1. /\ y \in ItemsOf(s) /\ RateOf(y) \in {C0(s), Rate(s)}
        /\ granted[s] # "yes" => RateOf(y) = C0(s)
        /\ y \in LitsOf(s) => granted[s] = "yes" /\ RateOf(y) = Rate(s)
    BY <1>1 DEF Priced, Kept
  <2>2. RateOf(y)' = RateOf(y) \/ (granted[s] = "yes" /\ RateOf(y)' = Rate(s))
    BY <1>1 DEF Kept
  <2>3. y \in LitsOf(s)' =>
          y \in LitsOf(s) \/ (granted[s] = "yes" /\ RateOf(y)' = Rate(s))
    BY DEF Kept
  <2> QED
    BY <2>1, <2>2, <2>3
<1>2. C0(s)' = C0(s) /\ Rate(s)' = Rate(s)
  BY DEF C0, Rate, GateRate, NodeRate, IsArray, NewAccount
<1> QED
  BY <1>1, <1>2 DEF Priced

(* So does a handler in the loop keep what it has repriced.                *)
LEMMA RepricedStay ==
  ASSUME NEW g, Repriced(g), g.op \in BindOps => Kept(g.s)
  PROVE  Repriced(g)'
<1>1. ASSUME g.op = "start", NEW y \in ItemsOf(g.s)' PROVE RateOf(y)' = Rate(g.s)
  BY <1>1 DEF Repriced, Kept, BindOps
<1>2. ASSUME g.op = "reprice", NEW y \in ItemsOf(g.s)', NEW m \in 1 .. Len(g.legs),
             y \in Slice(g.s, g.legs[m]), m < g.k
      PROVE  RateOf(y)' = Rate(g.s)
  BY <1>2 DEF Repriced, Kept, BindOps
<1>3. Rate(g.s)' = Rate(g.s)
  BY DEF Rate, GateRate, NodeRate, IsArray, NewAccount
<1> QED
  BY <1>1, <1>2, <1>3 DEF Repriced, Slice, IsArray

(* One handler moves; a submission it adds to is not yet admitted.         *)
LEMMA RateStep ==
  ASSUME Types, Rated, NEW p \in Handlers, NEW g2, h' = [h EXCEPT ![p] = g2],
         Repriced(g2)', \A t \in Subs : granted[t] = "yes" => granted'[t] = "yes",
         \A t \in Subs : Kept(t) \/ (granted[t] # "yes" /\ Priced(t)')
  PROVE  Rated'
<1>1. h'[p] = g2 /\ \A q \in Handlers \ {p} : h'[q] = h[q]
  BY DEF Types, Slots
<1>2. ASSUME NEW t \in Subs PROVE Priced(t)'
  BY PricedStay DEF Rated
<1>3. ASSUME NEW q \in Handlers, NEW g, h'[q] = g PROVE Repriced(g)'
  <2>1. CASE q = p
    BY <1>1, <1>3, <2>1
  <2>2. CASE q # p
    <3>1. h[q] = g /\ Repriced(g) /\ Slot(g)
      BY <1>1, <1>3, <2>2, GateSlot DEF Rated
    <3>2. ASSUME g.op \in BindOps PROVE Kept(g.s)
      <4>1. granted[g.s] = "yes" /\ g.s \in Subs
        BY <3>1, <3>2, PastGate DEF Routes
      <4> QED
        BY <4>1
    <3> QED
      BY <3>1, <3>2, RepricedStay
  <2> QED
    BY <2>1, <2>2
<1> QED
  BY <1>2, <1>3 DEF Rated

(* A gate escrows at the gate's rate.                                      *)
LEMMA RateGate ==
  ASSUME Types, Rated, GateStep
  PROVE  Rated'
<1>0. PICK p \in Handlers, s \in Subs :
        \E g2, v : GateFrame(p, s, g2, v) /\ GateMove(p, s, g2, v)
  BY DEF GateStep
<1>1. PICK g2, v : GateFrame(p, s, g2, v) /\ GateMove(p, s, g2, v)
  BY <1>0
<1>2. /\ g2.op \notin BindOps \cup DoneOps /\ v # "yes" /\ Others(s)
  BY <1>1, GateMovesOn
<1>3. /\ \A t \in Subs \ {s} : granted'[t] = granted[t]
      /\ granted'[s] = v /\ granted[s] # "yes"
  <2>1. granted[s] # "yes"
    BY <1>1 DEF GateFrame
  <2> QED
    BY <1>1, <1>2, <2>1, GateStands
<1>4. h' = [h EXCEPT ![p] = g2]
  BY <1>1 DEF GateFrame
<1>5. Repriced(g2)'
  BY <1>2 DEF Repriced, BindOps
<1>6. \A t \in Subs \ {s} : Kept(t)
  BY <1>2, Keeping DEF Others
<1>7. ASSUME NEW Y, NEW w, Grew(s, Y, C0(s), w) PROVE Priced(s)'
  <2>1. ASSUME NEW y \in ItemsOf(s)' PROVE RateOf(y)' = C0(s) /\ y \notin LitsOf(s)'
    <3>1. ASSUME NEW z \in ItemsOf(s) PROVE RateOf(z) = C0(s) /\ z \notin LitsOf(s)
      BY <1>3, <3>1 DEF Rated, Priced
    <3>2. LitsOf(s) = {}
      BY <3>1 DEF LitsOf
    <3> QED
      BY <1>7, <2>1, <3>1, <3>2 DEF Grew, Alike
  <2>2. C0(s)' = C0(s)
    BY DEF C0, GateRate
  <2> QED
    BY <2>1, <2>2 DEF Priced
<1>8. Kept(s) \/ Priced(s)'
  <2>1. CASE Refusal(p, s, g2, v) \/ Rejects(p, s, g2, v) \/ ReadsOn(p, s, g2, v)
             \/ Plans(p, s, g2, v) \/ GivesUp(p, s, g2, v)
    <3>1. Quiet
      BY <2>1 DEF Refusal, Rejects, ReadsOn, Plans, GivesUp
    <3> QED
      BY <3>1, Keeping
  <2>2. CASE CancelsOne(p, s, g2, v)
    BY <2>2, Keeping DEF CancelsOne
  <2>3. CASE Admission(p, s, g2, v)
    BY <1>7, <2>3 DEF Admission
  <2>4. CASE PlacesOne(p, s, g2, v)
    BY <1>7, <2>4 DEF PlacesOne
  <2> QED
    BY <1>1, <2>1, <2>2, <2>3, <2>4 DEF GateMove
<1> QED
  BY <1>3, <1>4, <1>5, <1>6, <1>8, RateStep

(* A leg is at the final rate once its reprice has been tried.             *)
LEMMA LegRepriced ==
  ASSUME NoFault("bind"), World', Types, Rated, NEW p \in Handlers, NEW g, g = h[p],
         BindSlot(g), g.op = "reprice", Repricing(p, g), NEW y0,
         y0 = LegItem(g.s, g.legs[g.k], 0)
  PROVE  /\ \A t \in Subs : Kept(t)
         /\ y0 \in ItemsOf(g.s)' => RateOf(y0)' = Rate(g.s)
<1>1. PICK s, c : s = g.s /\ c = NodeRate(s)
  OBVIOUS
<1>2. /\ s \in Subs /\ ~IsArray(s) /\ c > 0 /\ granted[s] = "yes" /\ c \in Nat
  BY <1>1, PastGate, RateNat DEF BindSlot, BindOps, Routes, NodeRate
<1>3. /\ C0(s) \in Nat /\ Rate(s) \in Nat /\ Rate(s) <= C0(s)
      /\ C0(s) < c => Rate(s) = C0(s)
      /\ c <= C0(s) => Rate(s) = c
  BY <1>1, <1>2, RateIs
<1>4. y0 \in ItemsOf(s) => /\ RateOf(y0) \in {C0(s), Rate(s)}
                           /\ y0 \in LitsOf(s) => RateOf(y0) = Rate(s)
  BY <1>2 DEF Rated, Priced
<1>5. "bind" \notin faults'
  BY DEF NoFault, World
<1>6. CASE Lowered(s, y0, c) /\ c <= RateOf(y0)
  <2>1. y0 \in ItemsOf(s)
    BY <1>6 DEF Lowered
  <2>2. Rate(s) = c
    BY <1>2, <1>3, <1>4, <1>6, <2>1
  <2>3. RateOf(y0)' = Rate(s)
    BY <1>6, <2>2 DEF Lowered
  <2>4. Kept(s) /\ Others(s)
    BY <1>2, <1>6, <2>3 DEF Lowered, Kept, Alike
  <2> QED
    BY <1>1, <2>3, <2>4, Keeping DEF Others
<1>7. CASE Quiet /\ (y0 \notin ItemsOf(s) \ LitsOf(s) \/ RateOf(y0) < c)
  <2>1. \A t \in Subs : Kept(t)
    BY <1>2, <1>7, Keeping
  <2>2. ASSUME y0 \in ItemsOf(s)' PROVE RateOf(y0)' = Rate(s)
    <3>1. y0 \in ItemsOf(s) /\ RateOf(y0)' = RateOf(y0)
      BY <1>2, <1>7, <2>2 DEF Quiet, Same, Alike
    <3>2. RateOf(y0) = Rate(s)
      BY <1>2, <1>3, <1>4, <1>7, <3>1
    <3> QED
      BY <3>1, <3>2
  <2> QED
    BY <1>1, <2>1, <2>2
<1> QED
  BY <1>1, <1>5, <1>6, <1>7 DEF Repricing

(* So are all of them at the end of the loop.                              *)
LEMMA RateReprice ==
  ASSUME NoFault("bind"), World', Types, Covered, Rated, NEW p \in Handlers, NEW g, g = h[p],
         BindSlot(g), g.op = "reprice", Repricing(p, g), granted' = granted
  PROVE  Rated'
<1>1. PICK s, L, k, y0 : s = g.s /\ L = g.legs /\ k = g.k /\ y0 = LegItem(g.s, g.legs[g.k], 0)
  OBVIOUS
<1>2. /\ \A t \in Subs : Kept(t)
      /\ y0 \in ItemsOf(s)' => RateOf(y0)' = Rate(s)
  BY <1>1, LegRepriced
<1>3. /\ s \in Subs /\ ~IsArray(s) /\ k \in 1 .. Len(L) /\ Len(L) \in Nat
      /\ Covers(s, L) /\ Repriced(g)
  BY <1>1 DEF BindSlot, Covered, Holding, BindOps, Rated
<1>4. PICK g2 : /\ h' = [h EXCEPT ![p] = g2] /\ BindSlot(g2)
                /\ g2.s = s /\ g2.legs = L
                /\ k < Len(L) => g2.op = "reprice" /\ g2.k = k + 1
                /\ k = Len(L) => g2.op = "start" /\ g2.k = 1
  BY <1>1 DEF Repricing
<1>5. ASSUME NEW y \in ItemsOf(s)', NEW m \in 1 .. Len(L), y \in Slice(s, L[m]), m <= k
      PROVE  RateOf(y)' = Rate(s)
  <2>1. CASE m = k
    <3>1. y = <<L[m].a, <<L[m].key, -1>> >>
      BY <1>3, <1>5, SliceIs
    <3>2. y = y0
      BY <1>1, <1>3, <2>1, <3>1 DEF LegItem
    <3> QED
      BY <1>2, <1>5, <3>2
  <2>2. CASE m # k
    <3>1. m < k
      BY <1>3, <1>5, <2>2
    <3>2. y \in ItemsOf(s) /\ (RateOf(y)' = RateOf(y) \/ RateOf(y)' = Rate(s))
      BY <1>2, <1>3, <1>5 DEF Kept
    <3>3. RateOf(y) = Rate(s)
      BY <1>1, <1>3, <1>5, <3>1, <3>2 DEF Repriced
    <3> QED
      BY <3>2, <3>3
  <2> QED
    BY <2>1, <2>2
<1>6. Rate(s)' = Rate(s)
  BY DEF Rate, GateRate, NodeRate, IsArray, NewAccount
<1>7. CASE k < Len(L)
  <2>1. ASSUME NEW y \in ItemsOf(s)', NEW m \in 1 .. Len(L), y \in Slice(s, L[m]), m < k + 1
        PROVE  RateOf(y)' = Rate(s)
    BY <1>3, <1>5, <2>1
  <2>2. Repriced(g2)'
    BY <1>4, <1>6, <1>7, <2>1 DEF Repriced, Slice, IsArray
  <2> QED
    BY <1>2, <1>4, <2>2, RateStep
<1>8. CASE k = Len(L)
  <2>1. ASSUME NEW y \in ItemsOf(s)' PROVE RateOf(y)' = Rate(s)
    <3>1. y \in ItemsOf(s)
      BY <1>2, <1>3, <2>1 DEF Kept
    <3>2. PICK m \in 1 .. Len(L) : y \in Slice(s, L[m])
      BY <1>3, <3>1 DEF Covers
    <3>3. m <= k
      BY <1>3, <1>8
    <3> QED
      BY <1>5, <2>1, <3>2, <3>3
  <2>2. Repriced(g2)'
    BY <1>4, <1>6, <1>8, <2>1 DEF Repriced
  <2> QED
    BY <1>2, <1>4, <2>2, RateStep
<1> QED
  BY <1>3, <1>7, <1>8

(* What starts is at the final rate.                                       *)
LEMMA RateStart ==
  ASSUME NoFault("bind"), World', Types, Rated, NEW p \in Handlers, NEW g, g = h[p],
         BindSlot(g), g.op = "start", Starting(p, g), granted' = granted
  PROVE  Rated'
<1>1. PICK s : s = g.s
  OBVIOUS
<1>2. /\ s \in Subs /\ granted[s] = "yes" /\ Repriced(g)
  BY <1>1, PastGate DEF BindOps, Routes, Rated
<1>3. \A y \in ItemsOf(s) : RateOf(y) = Rate(s)
  BY <1>1, <1>2 DEF Repriced
<1>4. PICK y0 : Lit(s, y0)
  BY <1>1 DEF Starting, NoFault, World
<1>5. Kept(s) /\ Others(s) /\ \A y \in ItemsOf(s)' : RateOf(y)' = Rate(s)
  <2>1. LitsOf(s)' \subseteq ItemsOf(s)'
    BY DEF LitsOf
  <2>2. Others(s) /\ ItemsOf(s)' = ItemsOf(s) /\ \A y \in ItemsOf(s) : RateOf(y)' = RateOf(y)
    BY <1>4 DEF Lit, Alike
  <2> QED
    BY <1>2, <1>3, <2>1, <2>2 DEF Kept
<1>6. \A t \in Subs : Kept(t)
  BY <1>5, Keeping DEF Others
<1>7. PICK g2 : /\ h' = [h EXCEPT ![p] = g2]
                /\ g2 = Idle \/ (g2.s = s /\ g2.op = "start")
  <2>1. g.k = Len(g.legs) \/ g.k < Len(g.legs)
    BY DEF BindSlot
  <2> QED
    BY <1>1, <2>1 DEF Starting
<1>8. Repriced(g2)'
  <2>1. Rate(s)' = Rate(s)
    BY DEF Rate, GateRate, NodeRate, IsArray, NewAccount
  <2> QED
    BY <1>5, <1>7, <2>1 DEF Repriced, Idle
<1> QED
  BY <1>6, <1>7, <1>8, RateStep

(* Every step keeps the rates.                                             *)
LEMMA RateNext ==
  ASSUME NoFault("bind"), Types, World', Covered, Rated, [Next]_vars
  PROVE  Rated'
<1>0. Moves
  BY StepKinds
<1>1. CASE GateStep
  BY <1>1, RateGate
<1>2. ASSUME h' = h, granted' = granted, \A t \in Subs : Kept(t) PROVE Rated'
  <2>1. \A t \in Subs : Priced(t)'
    BY <1>2, PricedStay DEF Rated
  <2>2. ASSUME NEW q \in Handlers, NEW g, h'[q] = g PROVE Repriced(g)'
    <3>1. h[q] = g /\ Repriced(g) /\ Slot(g)
      BY <1>2, <2>2, GateSlot DEF Rated
    <3>2. g.op \in BindOps => Kept(g.s)
      BY <1>2, <3>1, SlotFields DEF BindOps
    <3> QED
      BY <3>1, <3>2, RepricedStay
  <2> QED
    BY <2>1, <2>2 DEF Rated
<1>3. CASE RefundStep
  <2>1. PICK s \in Subs, a \in Accounts, x \in Items : Closes(s, <<a, x>>, 0, "sweep")
    BY <1>3 DEF RefundStep
  <2>2. \A t \in Subs : Kept(t)
    BY <2>1, Keeping
  <2> QED
    BY <1>2, <1>3, <2>2 DEF RefundStep
<1>4. CASE IdleStep
  <2>1. Quiet /\ h' = h /\ granted' = granted
    BY <1>4 DEF IdleStep
  <2>2. ASSUME NEW t \in Subs PROVE Kept(t)
    BY <2>1, Keeping
  <2> QED
    BY <1>2, <2>1, <2>2
<1>5. CASE CrashStep
  <2>1. Quiet /\ \A t \in Subs : granted[t] = "yes" => granted'[t] = "yes"
    BY <1>5 DEF CrashStep
  <2>2. ASSUME NEW t \in Subs PROVE Priced(t)'
    <3>1. Kept(t)
      BY <2>1, Keeping
    <3> QED
      BY <2>1, <3>1, PricedStay DEF Rated
  <2>3. ASSUME NEW q \in Handlers, NEW g, h'[q] = g PROVE Repriced(g)'
    <3>1. g.op = "idle"
      BY <1>5, <2>3 DEF CrashStep, Idle
    <3> QED
      BY <3>1 DEF Repriced
  <2> QED
    BY <2>2, <2>3 DEF Rated
<1>6. ASSUME NEW p \in Handlers, HandlerMoves(p) PROVE Rated'
  <2>1. ASSUME NEW g2, h' = [h EXCEPT ![p] = g2], Repriced(g2)', \A t \in Subs : Kept(t),
               \A t \in Subs : granted[t] = "yes" => granted'[t] = "yes"
        PROVE  Rated'
    BY <2>1, RateStep
  <2>2. ASSUME NEW g2, h' = [h EXCEPT ![p] = g2], Repriced(g2)', Quiet,
               \A t \in Subs : granted[t] = "yes" => granted'[t] = "yes"
        PROVE  Rated'
    <3>1. ASSUME NEW t \in Subs PROVE Kept(t)
      BY <2>2, Keeping
    <3> QED
      BY <2>1, <2>2, <3>1
  <2>3. \A g2 : g2.op \notin {"bind", "reprice", "start"} => Repriced(g2)'
    BY DEF Repriced
  <2>4. ASSUME NEW g, RecordStep(p, g) PROVE Rated'
    <3>1. /\ Quiet /\ Recorded(p, g)
      BY <2>4 DEF RecordStep
    <3>2. /\ h' = [h EXCEPT ![p] = Idle]
          /\ \A t \in Subs : granted[t] = "yes" => granted'[t] = "yes"
      BY <3>1 DEF Recorded, Types, World
    <3> QED
      BY <2>2, <2>3, <3>1, <3>2 DEF Idle
  <2>5. ASSUME NEW g, CallStep(p, g) PROVE Rated'
    <3>0. g = h[p] /\ Works(p, g) /\ granted' = granted
      BY <2>5 DEF CallStep, Works
    <3>1. CASE BindSlot(g) /\ g.op = "reprice" /\ Repricing(p, g)
      BY <3>0, <3>1, RateReprice
    <3>2. CASE BindSlot(g) /\ g.op = "start" /\ Starting(p, g)
      BY <3>0, <3>2, RateStart
    <3>3. CASE DoneSlot(g) /\ SettlingLeg(p, g)
      <4>1. PICK g2, y, u : /\ h' = [h EXCEPT ![p] = g2] /\ (MovesOn(g, g2) \/ g2 = Idle)
                            /\ Shut(g.s, y, u) \/ Quiet
        BY <3>3 DEF SettlingLeg
      <4>2. g2.op \in DoneOps \cup {"idle"} /\ g.s \in Subs
        BY <3>3, <4>1 DEF MovesOn, DoneSlot, Idle
      <4>3. \A t \in Subs : Kept(t)
        BY <4>1, <4>2, Keeping
      <4>4. Repriced(g2)'
        BY <2>3, <4>2 DEF DoneOps
      <4> QED
        BY <2>1, <3>0, <4>1, <4>3, <4>4
    <3>4. CASE DoneSlot(g) /\ SettlingTask(p, g)
      <4>1. PICK g2, y, u : /\ h' = [h EXCEPT ![p] = g2] /\ (g2.op = "drop" \/ g2 = Idle)
                            /\ Shut(g.s, y, u) \/ Quiet
        BY <3>4 DEF SettlingTask
      <4>2. g2.op \in DoneOps \cup {"idle"} /\ g.s \in Subs
        BY <3>4, <4>1 DEF DoneSlot, DoneOps, Idle
      <4>3. \A t \in Subs : Kept(t)
        BY <4>1, <4>2, Keeping
      <4>4. Repriced(g2)'
        BY <2>3, <4>2 DEF DoneOps
      <4> QED
        BY <2>1, <3>0, <4>1, <4>3, <4>4
    <3> QED
      BY <3>0, <3>1, <3>2, <3>3, <3>4 DEF Works
  <2>6. ASSUME NEW g, DropStep(p, g) PROVE Rated'
    <3>1. /\ h' = [h EXCEPT ![p] = Idle] /\ granted' = granted /\ Quiet
      BY <2>6 DEF DropStep, PastFrame
    <3> QED
      BY <2>2, <2>3, <3>1 DEF Idle
  <2>7. ASSUME NEW g, NEW g2, BindsJob(p, g, g2) PROVE Rated'
    <3>1. /\ h' = [h EXCEPT ![p] = g2] /\ granted' = granted /\ Quiet
          /\ g = h[p] /\ BoundJob(g, g2)
      BY <2>7 DEF BindsJob, PastFrame
    <3>2. PICK s : s = g.s
      OBVIOUS
    <3>3. /\ s \in Subs /\ g2.s = s /\ g2.legs = g.legs /\ g2.k = g.k
          /\ g2.op = IF IsArray(s) \/ NodeRate(s) = 0 THEN "start" ELSE "reprice"
      BY <3>1, <3>2 DEF BoundJob
    <3>4. Rate(s)' = Rate(s)
      BY DEF Rate, GateRate, NodeRate, IsArray, NewAccount
    <3>5. CASE IsArray(s) \/ NodeRate(s) = 0
      <4>1. ASSUME NEW y \in ItemsOf(s)' PROVE RateOf(y)' = Rate(s)
        <5>1. y \in ItemsOf(s) /\ RateOf(y)' = RateOf(y)
          BY <3>1, <3>3, <4>1 DEF Quiet, Same, Alike
        <5>2. RateOf(y) \in {C0(s), Rate(s)}
          BY <3>3, <5>1 DEF Rated, Priced
        <5> QED
          BY <3>3, <3>5, <5>1, <5>2, RateIs
      <4>2. Repriced(g2)'
        BY <3>3, <3>4, <3>5, <4>1 DEF Repriced
      <4> QED
        BY <2>2, <3>1, <4>2
    <3>6. CASE ~(IsArray(s) \/ NodeRate(s) = 0)
      <4>1. g.op = "bind" /\ Repriced(g)
        BY <3>1 DEF BoundJob, Rated
      <4>2. g2.op = "reprice" /\ g2.k = 1
        BY <3>3, <3>6, <4>1 DEF Repriced
      <4>3. \A m \in 1 .. Len(g2.legs) : ~(m < g2.k)
        BY <4>2
      <4>4. Repriced(g2)'
        BY <4>2, <4>3 DEF Repriced
      <4> QED
        BY <2>2, <3>1, <4>4
    <3> QED
      BY <3>5, <3>6
  <2>8. ASSUME NEW j \in Jobs, NEW g2, BindArrives(p, j, g2) \/ SettleArrives(p, j, g2)
        PROVE  Rated'
    <3>1. /\ h' = [h EXCEPT ![p] = g2] /\ granted' = granted /\ Quiet
          /\ g2.op = "settle" \/ (g2.op = "bind" /\ g2.k = 1)
      BY <2>8 DEF BindArrives, SettleArrives, PastFrame
    <3>2. Repriced(g2)'
      BY <3>1 DEF Repriced
    <3> QED
      BY <2>2, <3>1, <3>2
  <2> QED
    BY <1>6, <2>4, <2>5, <2>6, <2>7, <2>8 DEF HandlerMoves
<1> QED
  BY <1>0, <1>1, <1>3, <1>4, <1>5, <1>6 DEF Moves

(* What is held is at its rates always.                                    *)
LEMMA RatesHold == NoFault("bind") => (Spec => [](Types /\ Covered /\ Rated))
<1> SUFFICES ASSUME NoFault("bind") PROVE Spec => [](Types /\ Covered /\ Rated)
  OBVIOUS
<1>1. Init => Rated
  <2> SUFFICES ASSUME Init PROVE Rated
    OBVIOUS
  <2>1. \A s \in Subs : ItemsOf(s) = {}
    BY InitTypes
  <2>2. \A p \in Handlers : h[p] = Idle
    BY DEF Init
  <2>3. Repriced(Idle)
    BY DEF Repriced, Idle
  <2> QED
    BY <2>1, <2>2, <2>3 DEF Rated, Priced
<1>2. Types /\ Covered /\ Rated /\ Types' /\ [Next]_vars => Rated'
  BY RateNext DEF Types
<1> QED
  BY <1>1, <1>2, CoveredHolds, PTL DEF Spec

-----------------------------------------------------------------------------
(* The effects that leave the rates as they are.                           *)
LEMMA Evening ==
  ASSUME NEW s \in Subs, NEW y, NEW u, NEW f
  PROVE  /\ \A t : Same(t) => Even(t)
         /\ Shut(s, y, u) => \A t \in Subs : Even(t)
         /\ Lit(s, y) => \A t \in Subs : Even(t)
         /\ Closes(s, y, u, f) => \A t \in Subs : Even(t)
<1>1. \A t : Same(t) => Even(t)
  BY DEF Same, Even, Alike
<1>2. Shut(s, y, u) => Even(s) /\ Others(s)
  BY DEF Shut, Even, Alike
<1>3. Lit(s, y) => Even(s) /\ Others(s)
  BY DEF Lit, Even, Alike
<1> QED
  BY <1>1, <1>2, <1>3 DEF Closes, Quiet, Others

(* Legs agree under such an effect.                                        *)
LEMMA AgreeStay ==
  ASSUME NEW s \in Subs, Agree(s), Even(s), Repricer(s) => Repricer(s)'
  PROVE  Agree(s)'
  BY DEF Agree, Even

(* A handler that was not repricing, or goes on repricing.                 *)
LEMMA RepricerStay ==
  ASSUME Types, NEW p \in Handlers, NEW g2, h' = [h EXCEPT ![p] = g2],
         h[p].op = "reprice" => g2.op = "reprice" /\ g2.s = h[p].s, NEW t
  PROVE  Repricer(t) => Repricer(t)'
<1>1. h'[p] = g2 /\ \A q \in Handlers \ {p} : h'[q] = h[q]
  BY DEF Types, Slots
<1> QED
  BY <1>1 DEF Repricer

(* A gate: what is not admitted is at the gate's rate.                     *)
LEMMA AgreeGate ==
  ASSUME Types, Rated', \A t \in Subs : Agree(t), GateStep
  PROVE  \A t \in Subs : Agree(t)'
<1>0. PICK p \in Handlers, s \in Subs :
        \E g2, v : GateFrame(p, s, g2, v) /\ GateMove(p, s, g2, v)
  BY DEF GateStep
<1>1. PICK g2, v : GateFrame(p, s, g2, v) /\ GateMove(p, s, g2, v)
  BY <1>0
<1>2. v # "yes" /\ Others(s)
  BY <1>1, GateMovesOn
<1>3. granted'[s] = v
  BY <1>1, <1>2, GateStands
<1>4. h' = [h EXCEPT ![p] = g2] /\ h[p].op # "reprice"
  BY <1>1 DEF GateFrame, GateOps, Idle
<1>5. Agree(s)'
  <2>1. Priced(s)'
    BY DEF Rated
  <2>2. \A y \in ItemsOf(s)' : RateOf(y)' = C0(s)'
    BY <1>2, <1>3, <2>1 DEF Priced
  <2> QED
    BY <2>2 DEF Agree
<1>6. ASSUME NEW t \in Subs \ {s} PROVE Agree(t)'
  <2>1. Even(t)
    BY <1>2, Evening DEF Others
  <2>2. Repricer(t) => Repricer(t)'
    BY <1>4, RepricerStay
  <2> QED
    BY <2>1, <2>2, AgreeStay
<1> QED
  BY <1>5, <1>6

(* The loop that reprices: at its end all legs are at the final rate.      *)
LEMMA AgreeReprice ==
  ASSUME Types, Rated', \A t \in Subs : Agree(t), NEW p \in Handlers, NEW g, g = h[p],
         BindSlot(g), g.op = "reprice", Repricing(p, g)
  PROVE  \A t \in Subs : Agree(t)'
<1>1. PICK s, y0 : s = g.s /\ y0 = LegItem(g.s, g.legs[g.k], 0)
  OBVIOUS
<1>2. s \in Subs /\ (g.k < Len(g.legs) \/ g.k = Len(g.legs))
  BY <1>1 DEF BindSlot
<1>3. Others(s)
  BY <1>1 DEF Repricing, Lowered, Quiet, Others
<1>4. PICK g2 : /\ h' = [h EXCEPT ![p] = g2] /\ g2.s = s
                /\ g2.op \in {"reprice", "start"}
  BY <1>1, <1>2 DEF Repricing
<1>5. h'[p] = g2 /\ \A q \in Handlers \ {p} : h'[q] = h[q]
  BY <1>4 DEF Types, Slots
<1>6. Agree(s)'
  <2>1. CASE g2.op = "reprice"
    <3>1. Repricer(s)'
      BY <1>4, <1>5, <2>1 DEF Repricer
    <3> QED
      BY <3>1 DEF Agree
  <2>2. CASE g2.op = "start"
    <3>1. Repriced(g2)'
      BY <1>5 DEF Rated
    <3>2. \A y \in ItemsOf(s)' : RateOf(y)' = Rate(s)'
      BY <1>4, <2>2, <3>1 DEF Repriced
    <3> QED
      BY <3>2 DEF Agree
  <2> QED
    BY <1>4, <2>1, <2>2
<1>7. ASSUME NEW t \in Subs \ {s} PROVE Agree(t)'
  <2>1. Even(t)
    BY <1>3, <1>7, Evening DEF Others
  <2>2. Repricer(t) => Repricer(t)'
    BY <1>1, <1>5, <1>7 DEF Repricer
  <2> QED
    BY <2>1, <2>2, AgreeStay
<1> QED
  BY <1>6, <1>7

(* Every step but a crash keeps the agreement.                             *)
LEMMA AgreeNext ==
  ASSUME NoFault("crash"), Types, World', Rated', \A t \in Subs : Agree(t), [Next]_vars
  PROVE  \A t \in Subs : Agree(t)'
<1>0. Moves
  BY StepKinds
<1>1. CASE GateStep
  BY <1>1, AgreeGate
<1>2. ASSUME h' = h, \A t \in Subs : Even(t) PROVE \A t \in Subs : Agree(t)'
  <2>1. ASSUME NEW t \in Subs PROVE Agree(t)'
    <3>1. Repricer(t) => Repricer(t)'
      BY <1>2 DEF Repricer
    <3> QED
      BY <1>2, <3>1, AgreeStay
  <2> QED
    BY <2>1
<1>3. CASE RefundStep
  <2>1. PICK s \in Subs, a \in Accounts, x \in Items : Closes(s, <<a, x>>, 0, "sweep")
    BY <1>3 DEF RefundStep
  <2>2. h' = h /\ \A t \in Subs : Even(t)
    BY <1>3, <2>1, Evening DEF RefundStep
  <2> QED
    BY <1>2, <2>2
<1>4. CASE IdleStep
  <2>1. h' = h /\ Quiet
    BY <1>4 DEF IdleStep
  <2>2. ASSUME NEW t \in Subs PROVE Even(t)
    BY <2>1, Evening DEF Quiet
  <2> QED
    BY <1>2, <2>1, <2>2
<1>5. CASE CrashStep
  BY <1>5 DEF CrashStep, NoFault, World
<1>6. ASSUME NEW p \in Handlers, HandlerMoves(p) PROVE \A t \in Subs : Agree(t)'
  <2>1. ASSUME NEW g2, h' = [h EXCEPT ![p] = g2], h[p].op # "reprice",
               \A t \in Subs : Even(t)
        PROVE  \A t \in Subs : Agree(t)'
    <3>1. ASSUME NEW t \in Subs PROVE Agree(t)'
      <4>1. Repricer(t) => Repricer(t)'
        BY <2>1, RepricerStay
      <4> QED
        BY <2>1, <4>1, AgreeStay
    <3> QED
      BY <3>1
  <2>2. Quiet => \A t \in Subs : Even(t)
    <3>1. ASSUME Quiet, NEW t \in Subs PROVE Even(t)
      BY <3>1, Evening DEF Quiet
    <3> QED
      BY <3>1
  <2>3. ASSUME NEW g, RecordStep(p, g) PROVE \A t \in Subs : Agree(t)'
    <3>1. /\ Quiet /\ h' = [h EXCEPT ![p] = Idle] /\ h[p].op = "record"
      BY <2>3 DEF RecordStep, Recorded
    <3> QED
      BY <2>1, <2>2, <3>1
  <2>4. ASSUME NEW g, CallStep(p, g) PROVE \A t \in Subs : Agree(t)'
    <3>0. g = h[p] /\ Works(p, g)
      BY <2>4 DEF CallStep, Works
    <3>1. CASE BindSlot(g) /\ g.op = "reprice" /\ Repricing(p, g)
      BY <3>0, <3>1, AgreeReprice
    <3>2. CASE BindSlot(g) /\ g.op = "start" /\ Starting(p, g)
      <4>1. PICK y, g2 : (Lit(g.s, y) \/ Quiet) /\ h' = [h EXCEPT ![p] = g2]
        BY <3>2 DEF Starting
      <4>2. g.s \in Subs
        BY <3>2 DEF BindSlot
      <4>3. \A t \in Subs : Even(t)
        BY <2>2, <4>1, <4>2, Evening
      <4> QED
        BY <2>1, <3>0, <3>2, <4>1, <4>3
    <3>3. CASE DoneSlot(g) /\ g.op = "settle" /\ (SettlingLeg(p, g) \/ SettlingTask(p, g))
      <4>1. PICK y, u, g2 : (Shut(g.s, y, u) \/ Quiet) /\ h' = [h EXCEPT ![p] = g2]
        BY <3>3 DEF SettlingLeg, SettlingTask
      <4>2. g.s \in Subs
        BY <3>3 DEF DoneSlot
      <4>3. \A t \in Subs : Even(t)
        BY <2>2, <4>1, <4>2, Evening
      <4> QED
        BY <2>1, <3>0, <3>3, <4>1, <4>3
    <3> QED
      BY <3>0, <3>1, <3>2, <3>3 DEF Works
  <2>5. ASSUME NEW g, DropStep(p, g) PROVE \A t \in Subs : Agree(t)'
    <3>1. /\ Quiet /\ h' = [h EXCEPT ![p] = Idle] /\ h[p].op = "drop"
      BY <2>5 DEF DropStep, PastFrame
    <3> QED
      BY <2>1, <2>2, <3>1
  <2>6. ASSUME NEW g, NEW g2, BindsJob(p, g, g2) PROVE \A t \in Subs : Agree(t)'
    <3>1. /\ Quiet /\ h' = [h EXCEPT ![p] = g2] /\ h[p].op = "bind"
      BY <2>6 DEF BindsJob, PastFrame, BoundJob
    <3> QED
      BY <2>1, <2>2, <3>1
  <2>7. ASSUME NEW j \in Jobs, NEW g2, BindArrives(p, j, g2) \/ SettleArrives(p, j, g2)
        PROVE  \A t \in Subs : Agree(t)'
    <3>1. /\ Quiet /\ h' = [h EXCEPT ![p] = g2] /\ h[p] = Idle
      BY <2>7 DEF BindArrives, SettleArrives, PastFrame
    <3>2. h[p].op # "reprice"
      BY <3>1 DEF Idle
    <3> QED
      BY <2>1, <2>2, <3>1, <3>2
  <2> QED
    BY <1>6, <2>3, <2>4, <2>5, <2>6, <2>7 DEF HandlerMoves
<1> QED
  BY <1>0, <1>1, <1>3, <1>4, <1>5, <1>6 DEF Moves

(* The legs of a job agree on its rate outside the loop that reprices      *)
(* them, binds that are called twice or race a settle or a janitor         *)
(* included, as long as no append of a bind fails and the daemon does not  *)
(* stop inside the loop.                                                   *)
THEOREM LegsAtOneRate == NoFault("bind") /\ NoFault("crash") => (Spec => []LegsAgree)
<1> SUFFICES ASSUME NoFault("bind"), NoFault("crash") PROVE Spec => []LegsAgree
  OBVIOUS
<1> DEFINE Agreed == \A t \in Subs : Agree(t)
<1>1. Init => Agreed
  <2> SUFFICES ASSUME Init PROVE Agreed
    OBVIOUS
  <2>1. \A s \in Subs : ItemsOf(s) = {}
    BY InitTypes
  <2> QED
    BY <2>1 DEF Agree
<1>2. Types /\ Types' /\ Rated' /\ Agreed /\ [Next]_vars => Agreed'
  BY AgreeNext DEF Types
<1>3. Types /\ Agreed => LegsAgree
  <2> SUFFICES ASSUME Types, Agreed, NEW s \in Subs,
                      \A p \in Handlers : h[p].op = "reprice" => h[p].s # s,
                      NEW a \in Accounts, NEW b \in Accounts,
                      NEW k \in HeldJobs(a, s), NEW l \in HeldJobs(b, s)
               PROVE  bds[a].escrows[k].C = bds[b].escrows[l].C
    BY DEF LegsAgree
  <2>1. ~Repricer(s) /\ Agree(s)
    BY DEF Repricer
  <2>2. PICK y, z : y = <<a, <<k, -1>> >> /\ z = <<b, <<l, -1>> >>
    OBVIOUS
  <2>3. /\ y \in ItemsOf(s) /\ RateOf(y) = bds[a].escrows[k].C
        /\ z \in ItemsOf(s) /\ RateOf(z) = bds[b].escrows[l].C
    BY <2>2, HeldIs DEF Types
  <2> QED
    BY <2>1, <2>3 DEF Agree
<1>4. Spec => [](Types /\ Covered /\ Rated)
  BY RatesHold
<1> HIDE DEF Agreed
<1> QED
  BY <1>1, <1>2, <1>3, <1>4, PTL DEF Spec

-----------------------------------------------------------------------------
(* Two tasks of an array have two items.                                   *)
LEMMA TaskItemIs ==
  ASSUME NEW s \in Subs, IsArray(s), NEW L, Whole(s, L), NEW j \in Jobs, j[1] = s
  PROVE  /\ TaskItem(L, j) \in Slices(s, L)
         /\ \A i \in Jobs : i[1] = s /\ TaskItem(L, i) = TaskItem(L, j) => i = j
<1>0. Placed(s, L)
  BY DEF Whole
<1>1. ASSUME NEW i \in Jobs, i[1] = s
      PROVE  \E k \in 1 .. Len(L) :
               /\ TaskItem(L, i) = <<L[k].a, <<L[k].key, i[2] - L[k].first>> >>
               /\ TaskItem(L, i) \in Slice(s, L[k]) /\ i[2] \in Nat /\ L[k].first \in Nat
  <2>1. PICK t, k : t = i[2] /\ k = legForTask(L, t)
    OBVIOUS
  <2>2. t \in 0 .. (Submissions[s].n - 1) /\ Submissions[s].n \in Nat
    BY <1>1, <2>1, JobIs, SubIs DEF SubRecord
  <2>3. k \in 1 .. Len(L) /\ L[k].first <= t /\ t < L[k].first + L[k].n
    BY <2>1, <2>2, LegForTask
  <2>4. L[k].first \in Nat /\ L[k].n \in Nat /\ t \in Nat
    BY <1>0, <2>2, <2>3, LegAt
  <2>5. t - L[k].first \in 0 .. (L[k].n - 1)
    BY <2>3, <2>4, TaskWithin
  <2>6. TaskItem(L, i) = <<L[k].a, <<L[k].key, t - L[k].first>> >>
    BY <1>1, <2>1 DEF TaskItem, LegItem
  <2>7. TaskItem(L, i) \in Slice(s, L[k])
    BY <2>5, <2>6 DEF Slice
  <2> QED
    BY <2>1, <2>3, <2>4, <2>6, <2>7
<1>2. TaskItem(L, j) \in Slices(s, L)
  BY <1>1 DEF Slices
<1>3. ASSUME NEW i \in Jobs, i[1] = s, TaskItem(L, i) = TaskItem(L, j) PROVE i = j
  <2>1. PICK k \in 1 .. Len(L) :
           /\ TaskItem(L, i) = <<L[k].a, <<L[k].key, i[2] - L[k].first>> >>
           /\ TaskItem(L, i) \in Slice(s, L[k]) /\ i[2] \in Nat /\ L[k].first \in Nat
    BY <1>1, <1>3
  <2>2. PICK m \in 1 .. Len(L) :
           /\ TaskItem(L, j) = <<L[m].a, <<L[m].key, j[2] - L[m].first>> >>
           /\ TaskItem(L, j) \in Slice(s, L[m]) /\ j[2] \in Nat /\ L[m].first \in Nat
    BY <1>1
  <2>3. k = m
    BY <1>0, <1>3, <2>1, <2>2, SlicesApart
  <2>4. i[2] - L[k].first = j[2] - L[k].first
    <3>1. PICK u, v : u = i[2] - L[k].first /\ v = j[2] - L[m].first
      OBVIOUS
    <3>2. <<L[k].a, <<L[k].key, u>> >> = <<L[m].a, <<L[m].key, v>> >>
      BY <1>3, <2>1, <2>2, <3>1
    <3>3. u = v
      BY <3>2
    <3> QED
      BY <2>3, <3>1, <3>3
  <2>5. i[2] = j[2]
    BY <2>1, <2>2, <2>4
  <2> QED
    BY <1>3, <2>5, JobIs
<1> QED
  BY <1>2, <1>3

(* A job that is not an array has one number.                              *)
LEMMA OneJob ==
  ASSUME NEW i \in Jobs, NEW j \in Jobs, i[1] = j[1], ~IsArray(j[1])
  PROVE  i = j
<1>1. PICK n : n = Submissions[j[1]].n
  OBVIOUS
<1>2. n \in Nat \ {0} /\ ~(n > 1)
  BY <1>1, JobIs, SubIs DEF SubRecord, IsArray
<1>3. n = 1
  BY <1>2
<1>4. i[2] \in 0 .. (n - 1) /\ j[2] \in 0 .. (n - 1)
  BY <1>1, JobIs
<1>5. i[2] = j[2]
  BY <1>3, <1>4
<1> QED
  BY <1>5, JobIs

(* What is open for a job whose route and items stay.                      *)
LEMMA OpenStay ==
  ASSUME NEW j \in Jobs, j[1] \in DOMAIN routes, ItemsOf(j[1])' = ItemsOf(j[1]),
         routes'[j[1]] = routes[j[1]]
  PROVE  Opened(j)' <=> Opened(j)
<1>1. PICK L, I : L = routes[j[1]] /\ I = ItemsOf(j[1])
  OBVIOUS
<1>2. Opened(j) <=> (IsArray(j[1]) => TaskItem(L, j) \in I) /\ (~IsArray(j[1]) => I # {})
  BY <1>1 DEF Opened
<1>3. Opened(j)' <=> (IsArray(j[1]) => TaskItem(L, j) \in I) /\ (~IsArray(j[1]) => I # {})
  BY <1>1 DEF Opened, TaskItem, LegItem, legForTask, IsArray
<1> QED
  BY <1>2, <1>3

(* A settle that will drop a job goes on doing so.                         *)
LEMMA CloserStay ==
  ASSUME Types, NEW p \in Handlers, NEW g2, h' = [h EXCEPT ![p] = g2], NEW j, Closed(j),
         Closer(h[p], j) => Closer(g2, j)
  PROVE  Closed(j)'
<1>1. h'[p] = g2 /\ \A q \in Handlers \ {p} : h'[q] = h[q]
  BY DEF Types, Slots
<1>2. PICK q, g : q \in Handlers /\ h[q] = g /\ Closer(g, j)
  BY DEF Closed
<1>3. PICK f : f = h'[q]
  OBVIOUS
<1>4. Closer(f, j)
  BY <1>1, <1>2, <1>3
<1> QED
  BY <1>3, <1>4 DEF Closed, Closer, IsArray, IsMulti

(* One handler moves.                                                      *)
LEMMA ShrinkStep ==
  ASSUME Types, Shrinking, swept' = swept, NEW p \in Handlers, NEW g2, h' = [h EXCEPT ![p] = g2],
         Solo(g2), AtWork(g2)',
         \A q \in Handlers \ {p} : \A g : h[q] = g /\ g.op \in BindOps => AtWork(g)',
         \A s \in Subs : \A L : s \in DOMAIN routes' /\ routes'[s] = L =>
           (s \in DOMAIN routes /\ routes[s] = L) \/ IsMulti(s) \/ Len(L) = 1,
         \A j \in Jobs : j[1] \notin swept => Alive(j)' /\ Named(j)',
         \A s \in Subs \ swept : Reckoned(s)'
  PROVE  Shrinking'
<1>1. h'[p] = g2 /\ \A q \in Handlers \ {p} : h'[q] = h[q]
  BY DEF Types, Slots
<1>2. ASSUME NEW q \in Handlers, NEW g, h'[q] = g PROVE Solo(g) /\ AtWork(g)'
  <2>1. CASE q = p
    BY <1>1, <1>2, <2>1
  <2>2. CASE q # p
    <3>1. h[q] = g /\ Solo(g)
      BY <1>1, <1>2, <2>2 DEF Shrinking
    <3>2. AtWork(g)'
      BY <2>2, <3>1 DEF AtWork
    <3> QED
      BY <3>1, <3>2
  <2> QED
    BY <2>1, <2>2
<1>3. ASSUME NEW s \in Subs, NEW L, s \in DOMAIN routes', routes'[s] = L
      PROVE  IsMulti(s) \/ Len(L) = 1
  BY <1>3 DEF Shrinking
<1> QED
  BY <1>2, <1>3 DEF Shrinking, Solo, IsMulti

(* A handler that touches neither routes nor counts: what is held stays,   *)
(* or is a job's it will drop; what it names is open.                      *)
LEMMA ShrinkStay ==
  ASSUME Types, Shrinking, swept' = swept, NEW p \in Handlers, NEW g2, h' = [h EXCEPT ![p] = g2],
         Solo(g2), AtWork(g2)', routes' = routes, tokenArrayN' = tokenArrayN,
         slurm' = slurm, h[p].op # "drop", g2.op # "drop" \/ g2.task # TRUE,
         \A j \in Jobs : Closer(h[p], j) => Closer(g2, j),
         \A t \in Subs : granted[t] = "yes" => ItemsOf(t)' = ItemsOf(t) \/ Ends(t, g2),
         \A j \in DOMAIN jobToToken' :
           \/ j \in DOMAIN jobToToken \/ j[1] \in swept
           \/ j[1] \in DOMAIN routes /\ Opened(j)
  PROVE  Shrinking'
<1>1. ASSUME NEW j \in Jobs, j[1] \notin swept PROVE Alive(j)' /\ Named(j)'
  <2>1. PICK t : t = j[1]
    OBVIOUS
  <2>2. t \in Subs /\ Alive(j) /\ Named(j)
    BY <1>1, <2>1, JobIs DEF Shrinking
  <2>3. t \in DOMAIN routes \/ j \in DOMAIN jobToToken => granted[t] = "yes"
    BY <2>1 DEF Types, Tables
  <2>4. Closed(j) => Closed(j)'
    BY CloserStay
  <2>5. InTables(j)' => InTables(j) \/ (t \in DOMAIN routes /\ Opened(j))
    BY <1>1, <2>1 DEF InTables, IsArray
  <2>6. CASE ItemsOf(t)' = ItemsOf(t)
    <3>1. t \in DOMAIN routes => (Opened(j)' <=> Opened(j))
      BY <2>1, <2>6, OpenStay
    <3>2. Alive(j)'
      BY <2>1, <2>2, <3>1 DEF Alive
    <3>3. Named(j)'
      BY <2>1, <2>2, <2>4, <2>5, <3>1 DEF Named
    <3> QED
      BY <3>2, <3>3
  <2>7. CASE Ends(t, g2)
    <3>1. PICK i \in Jobs : i[1] = t /\ slurm[i] = "gone" /\ Closer(g2, i) /\ ~IsArray(t)
      BY <2>7 DEF Ends
    <3>2. i = j
      BY <2>1, <3>1, OneJob
    <3>3. h'[p] = g2
      BY DEF Types, Slots
    <3>4. Closed(j)'
      BY <3>1, <3>2, <3>3 DEF Closed, Closer, IsArray, IsMulti
    <3>5. Named(j)' /\ Alive(j)'
      BY <3>1, <3>2, <3>4 DEF Named, Alive
    <3> QED
      BY <3>5
  <2>8. CASE granted[t] # "yes"
    <3>1. t \notin DOMAIN routes /\ j \notin DOMAIN jobToToken
      BY <2>3, <2>8
    <3>2. ~InTables(j)'
      BY <2>1, <2>5, <3>1 DEF InTables
    <3> QED
      BY <2>1, <3>1, <3>2 DEF Alive, Named
  <2> QED
    BY <2>2, <2>6, <2>7, <2>8
<1>2. ASSUME NEW t \in Subs \ swept PROVE Reckoned(t)'
  <2>1. Reckoned(t)
    BY DEF Shrinking
  <2>2. Drops(t)' = Drops(t)
    <3>1. Drops(t)' = Drops(t) \ {p}
      BY DropsMove
    <3>2. p \notin Drops(t)
      BY DEF Drops
    <3> QED
      BY <3>1, <3>2
  <2>3. t \in DOMAIN routes /\ IsArray(t) => ItemsOf(t)' = ItemsOf(t)
    BY DEF Types, Tables, Ends
  <2> QED
    BY <2>1, <2>2, <2>3 DEF Reckoned, IsArray
<1>3. ASSUME NEW q \in Handlers \ {p}, NEW g, h[q] = g, g.op \in BindOps PROVE AtWork(g)'
  BY <1>3 DEF Shrinking, AtWork
<1> QED
  BY <1>1, <1>2, <1>3, ShrinkStep

(* A gate's step.                                                          *)
LEMMA ShrinkGate ==
  ASSUME Types, Shrinking, GateStep
  PROVE  Shrinking'
<1>0. PICK p \in Handlers, s \in Subs :
        \E g2, v : GateFrame(p, s, g2, v) /\ GateMove(p, s, g2, v)
  BY DEF GateStep
<1>1. PICK g2, v : GateFrame(p, s, g2, v) /\ GateMove(p, s, g2, v)
  BY <1>0
<1>2. g2.op \notin BindOps \cup DoneOps /\ Others(s)
  BY <1>1, GateMovesOn
<1>3. /\ h' = [h EXCEPT ![p] = g2] /\ Keeps /\ slurm' = slurm /\ swept' = swept
      /\ h[p].op \notin BindOps \cup DoneOps /\ granted[s] # "yes"
  BY <1>1 DEF GateFrame, GateOps, BindOps, DoneOps, Idle
<1>4. Solo(h[p]) /\ Slot(h[p])
  BY GateSlot DEF Shrinking
<1>5. Solo(g2)
  <2>1. CASE Refusal(p, s, g2, v) \/ Rejects(p, s, g2, v)
    BY <2>1 DEF Refusal, Rejects, Solo, Idle, BindOps, DoneOps
  <2>2. CASE GivesUp(p, s, g2, v) \/ CancelsOne(p, s, g2, v)
    BY <2>2 DEF GivesUp, CancelsOne, RollbackSlot, Solo, BindOps, DoneOps
  <2>3. h[p].op = "read" => IsMulti(s)
    BY <1>1, <1>4 DEF GateFrame, Solo, Idle
  <2>4. CASE ReadsOn(p, s, g2, v)
    BY <2>3, <2>4 DEF ReadsOn, ReadSlot, Solo, BindOps, DoneOps
  <2>5. CASE Plans(p, s, g2, v)
    BY <2>3, <2>5 DEF Plans, PlaceSlot, Solo, BindOps, DoneOps
  <2>6. CASE Admission(p, s, g2, v)
    BY <2>6 DEF Admission, RecordSlot, Solo, BindOps, DoneOps
  <2>7. CASE PlacesOne(p, s, g2, v)
    <3>1. h[p].op = "place" /\ g2.s = s /\ h[p].s = s
      BY <2>7 DEF PlacesOne, PlaceSlot
    <3>2. IsMulti(s)
      BY <1>4, <3>1 DEF Solo
    <3> QED
      BY <3>1, <3>2 DEF Solo
  <2> QED
    BY <1>1, <2>1, <2>2, <2>4, <2>5, <2>6, <2>7 DEF GateMove
<1>6. AtWork(g2)'
  BY <1>2 DEF AtWork
<1>7. \A j \in Jobs : Closer(h[p], j) => Closer(g2, j)
  BY <1>3 DEF Closer
<1>8. \A t \in Subs : granted[t] = "yes" => ItemsOf(t)' = ItemsOf(t)
  BY <1>2, <1>3 DEF Others, Same
<1> QED
  BY <1>2, <1>3, <1>5, <1>6, <1>7, <1>8, ShrinkStay DEF Keeps, DoneOps

(* A route is recorded: all its legs hold is open.                         *)
LEMMA ShrinkRecord ==
  ASSUME Types, Covered, Shrinking, NEW p \in Handlers, NEW g, RecordStep(p, g)
  PROVE  Shrinking'
<1>1. /\ Quiet /\ g = h[p] /\ g.op = "record" /\ Recorded(p, g) /\ jobToToken' = jobToToken
      /\ slurm' = [j \in Jobs |-> IF j[1] = g.s THEN "queued" ELSE slurm[j]]
      /\ swept' = swept
  BY DEF RecordStep
<1>2. PICK s, L : s = g.s /\ L = g.legs
  OBVIOUS
<1>3. /\ RecordSlot(g) /\ s \in Subs /\ granted[s] = "asked"
      /\ s \notin DOMAIN routes /\ s \notin DOMAIN tokenArrayN
      /\ DOMAIN routes' = DOMAIN routes \cup {s} /\ routes'[s] = L
      /\ \A t \in DOMAIN routes \ {s} : routes'[t] = routes[t]
      /\ IsArray(s) =>
           /\ DOMAIN tokenArrayN' = DOMAIN tokenArrayN \cup {s}
           /\ tokenArrayN'[s] = Submissions[s].n
           /\ \A t \in DOMAIN tokenArrayN \ {s} : tokenArrayN'[t] = tokenArrayN[t]
      /\ ~IsArray(s) => tokenArrayN' = tokenArrayN
      /\ h' = [h EXCEPT ![p] = Idle]
  BY <1>1, <1>2 DEF Recorded
<1>4. /\ Whole(s, L) /\ Covers(s, L)
      /\ s \notin swept => Slices(s, L) \subseteq ItemsOf(s)
      /\ IsMulti(s) \/ Len(L) = 1
  <2>1. Whole(s, L)
    BY <1>2, <1>3 DEF RecordSlot
  <2>2. Holding(g) /\ Solo(g)
    BY <1>1 DEF Covered, Shrinking
  <2> QED
    BY <1>1, <1>2, <2>1, <2>2 DEF Holding, Solo
<1>5. Placed(s, L) /\ Len(L) > 0 /\ Off(s, L, Len(L)) = Need(s)
  BY <1>4 DEF Whole
<1>6. ASSUME s \notin swept PROVE ItemsOf(s)' = Slices(s, L)
  <2>1. ItemsOf(s) = Slices(s, L)
    BY <1>4, <1>6 DEF Covers, Slices
  <2> QED
    BY <1>1, <1>3, <2>1 DEF Quiet, Same
<1>7. Idle.op = "idle" /\ Solo(Idle) /\ AtWork(Idle)'
  BY DEF Idle, Solo, AtWork, BindOps, DoneOps
<1>8. \A j \in Jobs : ~Closer(h[p], j)
  BY <1>1 DEF Closer, DoneOps
<1>9. ASSUME NEW j \in Jobs, j[1] = s, s \notin swept PROVE Opened(j)'
  <2>1. IsArray(s) => TaskItem(L, j) \in Slices(s, L)
    BY <1>3, <1>4, <1>9, TaskItemIs
  <2>2. ~IsArray(s) => Slices(s, L) # {}
    <3>1. 1 \in 1 .. Len(L)
      BY <1>5 DEF Placed
    <3>2. ~IsArray(s) => <<L[1].a, <<L[1].key, -1>> >> \in Slice(s, L[1])
      BY DEF Slice
    <3> QED
      BY <3>1, <3>2 DEF Slices
  <2>3. PICK R, I : R = routes'[s] /\ I = ItemsOf(s)' /\ R = L
    BY <1>3
  <2>4. (IsArray(s) => TaskItem(R, j) \in I) /\ (~IsArray(s) => I # {})
    BY <1>6, <1>9, <2>1, <2>2, <2>3
  <2> QED
    BY <1>9, <2>3, <2>4 DEF Opened, TaskItem, LegItem, legForTask, IsArray
<1>10. ASSUME NEW j \in Jobs, j[1] \notin swept PROVE Alive(j)' /\ Named(j)'
  <2>1. CASE j[1] = s
    BY <1>3, <1>9, <1>10, <2>1 DEF Alive, Named
  <2>2. CASE j[1] # s
    <3>1. j[1] \in Subs /\ Alive(j) /\ Named(j) /\ ItemsOf(j[1])' = ItemsOf(j[1])
      BY <1>1, <1>10, JobIs DEF Shrinking, Quiet, Same
    <3>2. /\ (j[1] \in DOMAIN routes') <=> (j[1] \in DOMAIN routes)
          /\ j[1] \in DOMAIN routes => routes'[j[1]] = routes[j[1]]
          /\ slurm'[j] = slurm[j] /\ jobToToken' = jobToToken
      BY <1>1, <1>2, <1>3, <2>2
    <3>3. j[1] \in DOMAIN routes => (Opened(j)' <=> Opened(j))
      BY <3>1, <3>2, OpenStay
    <3>4. Closed(j) => Closed(j)'
      BY <1>3, <1>8, CloserStay
    <3>5. InTables(j)' <=> InTables(j)
      BY <3>2 DEF InTables, IsArray
    <3> QED
      BY <3>1, <3>2, <3>3, <3>4, <3>5 DEF Alive, Named
  <2> QED
    BY <2>1, <2>2
<1>11. ASSUME NEW t \in Subs PROVE Drops(t)' = Drops(t)
  <2>1. Drops(t)' = Drops(t) \ {p}
    <3>1. h' = [h EXCEPT ![p] = Idle] /\ Idle.op # "drop"
      BY <1>3, <1>7
    <3> QED
      BY <3>1, DropsMove
  <2>2. p \notin Drops(t)
    BY <1>1 DEF Drops
  <2> QED
    BY <2>1, <2>2
<1>12. Drops(s) = {}
  <2>1. ASSUME NEW q \in Drops(s) PROVE FALSE
    <3>1. q \in Handlers /\ h[q].op = "drop" /\ h[q].s = s
      BY <2>1 DEF Drops
    <3>2. granted[h[q].s] = "yes"
      BY <3>1, GateSlot DEF Routes, DoneOps
    <3> QED
      BY <1>3, <3>1, <3>2
  <2> QED
    BY <2>1
<1>13. IsArray(s) => Cardinality(Slices(s, L)) = Submissions[s].n
  <2> SUFFICES ASSUME IsArray(s) PROVE Cardinality(Slices(s, L)) = Submissions[s].n
    OBVIOUS
  <2>1. PICK F : F = [y \in Slices(s, L) |-> Submissions[s].w]
    OBVIOUS
  <2>2. \A k \in 1 .. Len(L) : \A y \in Slice(s, L[k]) : F[y] = L[k].w
    BY <1>5, <2>1 DEF Slices, Placed, LegOK
  <2>3. Cardinality(Slices(s, L)) = Off(s, L, Len(L))
    <3>1. s \in Subs /\ Placed(s, L)
      BY <1>3, <1>5
    <3>2. /\ IsFiniteSet(Slices(s, L))
          /\ IsArray(s) => Cardinality(Slices(s, L)) = Off(s, L, Len(L))
      BY <2>2, <3>1, SlicesTotal
    <3> QED
      BY <3>2
  <2> QED
    BY <1>5, <2>3 DEF Need
<1>14. ASSUME NEW t \in Subs \ swept PROVE Reckoned(t)'
  <2>1. CASE t = s
    <3>1. Cardinality({}) = 0 /\ Submissions[s].n \in Nat
      BY <1>3, FS_EmptySet, SubIs DEF SubRecord
    <3>2. ItemsOf(s)' = Slices(s, L) /\ Drops(s)' = {}
      BY <1>3, <1>6, <1>11, <1>12, <2>1
    <3>3. ASSUME IsArray(s)
          PROVE  /\ s \in DOMAIN routes' /\ s \in DOMAIN tokenArrayN'
                 /\ tokenArrayN'[s] = Cardinality(ItemsOf(s)') + Cardinality(Drops(s)')
      BY <1>3, <1>13, <3>1, <3>2, <3>3
    <3> QED
      BY <2>1, <3>3 DEF Reckoned, IsArray
  <2>2. CASE t # s
    <3>1. Reckoned(t) /\ ItemsOf(t)' = ItemsOf(t) /\ Drops(t)' = Drops(t)
      BY <1>1, <1>11 DEF Shrinking, Quiet, Same
    <3>2. /\ (t \in DOMAIN routes') <=> (t \in DOMAIN routes)
          /\ (t \in DOMAIN tokenArrayN') <=> (t \in DOMAIN tokenArrayN)
          /\ t \in DOMAIN tokenArrayN => tokenArrayN'[t] = tokenArrayN[t]
      BY <1>3, <2>2
    <3> QED
      BY <3>1, <3>2 DEF Reckoned, IsArray
  <2> QED
    BY <2>1, <2>2
<1>15. ASSUME NEW q \in Handlers \ {p}, NEW f, h[q] = f, f.op \in BindOps PROVE AtWork(f)'
  <2>1. /\ slurm[f.j] = "running" /\ f.j \in Jobs /\ f.j[1] = f.s
        /\ f.s \notin swept => f.s \in DOMAIN routes
    BY <1>15, PastGate DEF Shrinking, AtWork
  <2>2. f.s # s
    BY <1>3, <1>15, PastGate DEF Routes
  <2> QED
    BY <1>1, <1>2, <1>3, <2>1, <2>2 DEF AtWork
<1>16. ASSUME NEW t \in Subs, NEW M, t \in DOMAIN routes', routes'[t] = M
       PROVE  (t \in DOMAIN routes /\ routes[t] = M) \/ IsMulti(t) \/ Len(M) = 1
  BY <1>3, <1>4, <1>16
<1> QED
  BY <1>1, <1>3, <1>7, <1>10, <1>14, <1>15, <1>16, ShrinkStep

(* A hook arrives, or a job id is recorded.                                *)
LEMMA ShrinkHook ==
  ASSUME Types, Shrinking, NEW p \in Handlers
  PROVE  /\ \A j \in Jobs : \A g2 : BindArrives(p, j, g2) \/ SettleArrives(p, j, g2) => Shrinking'
         /\ \A g, g2 : BindsJob(p, g, g2) => Shrinking'
<1>0. Quiet => \A t \in Subs : ItemsOf(t)' = ItemsOf(t)
  BY DEF Quiet, Same
<1>1. ASSUME NEW j \in Jobs, NEW g2, BindArrives(p, j, g2) \/ SettleArrives(p, j, g2)
      PROVE  Shrinking'
  <2>1. /\ h' = [h EXCEPT ![p] = g2] /\ slurm' = slurm /\ Keeps /\ Quiet /\ h[p] = Idle
        /\ g2.s = j[1] /\ g2.j = j /\ j[1] \in DOMAIN routes /\ g2.legs = routes[j[1]]
        /\ (g2.op = "bind" /\ slurm[j] = "running") \/ g2.op = "settle"
        /\ swept' = swept
    BY <1>1 DEF BindArrives, SettleArrives, PastFrame
  <2>2. j[1] \in Subs /\ (IsMulti(j[1]) \/ Len(routes[j[1]]) = 1)
    BY <2>1, JobIs DEF Shrinking
  <2>3. Solo(g2) /\ g2.op # "drop"
    BY <2>1, <2>2 DEF Solo
  <2>4. AtWork(g2)'
    BY <2>1 DEF AtWork, Keeps, BindOps
  <2>5. h[p].op # "drop" /\ \A i \in Jobs : ~Closer(h[p], i)
    BY <2>1 DEF Idle, Closer, DoneOps
  <2> QED
    BY <1>0, <2>1, <2>3, <2>4, <2>5, ShrinkStay DEF Keeps
<1>2. ASSUME NEW g, NEW g2, BindsJob(p, g, g2) PROVE Shrinking'
  <2>1. /\ h' = [h EXCEPT ![p] = g2] /\ slurm' = slurm /\ Quiet /\ g = h[p]
        /\ routes' = routes /\ tokenArrayN' = tokenArrayN /\ g.op = "bind"
        /\ BindSlot(g2) /\ g2.s = g.s /\ g2.j = g.j /\ g2.legs = g.legs
        /\ g.j \in Jobs /\ g.j[1] = g.s
        /\ DOMAIN jobToToken' = DOMAIN jobToToken \cup {g.j} /\ swept' = swept
    BY <1>2 DEF BindsJob, PastFrame, BoundJob
  <2>2. Solo(g) /\ AtWork(g) /\ (g.s \notin swept => Alive(g.j))
    BY <2>1 DEF Shrinking
  <2>3. slurm[g.j] = "running" /\ (g.s \notin swept => g.s \in DOMAIN routes)
    BY <2>1, <2>2 DEF AtWork, BindOps
  <2>4. g.s \notin swept => Opened(g.j)
    BY <2>1, <2>2, <2>3 DEF Alive
  <2>5. g2.op \in BindOps
    BY <2>1 DEF BindSlot
  <2>6. Solo(g2) /\ g2.op # "drop"
    BY <2>1, <2>2, <2>5 DEF Solo, BindOps
  <2>7. AtWork(g2)'
    BY <2>1, <2>3 DEF AtWork
  <2>8. h[p].op # "drop" /\ \A i \in Jobs : ~Closer(h[p], i)
    BY <2>1 DEF Closer, DoneOps
  <2> QED
    BY <1>0, <2>1, <2>3, <2>4, <2>6, <2>7, <2>8, ShrinkStay
<1> QED
  BY <1>1, <1>2

(* A task is settled: one item less, one drop more, and its own.           *)
LEMMA ShrinkTask ==
  ASSUME Types, Shrinking, swept' = swept, NEW p \in Handlers, NEW g, g = h[p], g.op = "settle",
         g.task = TRUE, IsArray(g.s), NEW u, Shut(g.s, ItemOf(g), u),
         NEW g2, h' = [h EXCEPT ![p] = g2], g2.s = g.s, g2.legs = g.legs, g2.j = g.j,
         g2.task = TRUE, g2.op = "drop", Keeps, slurm' = slurm
  PROVE  Shrinking'
<1>0. PICK s, L, y : s = g.s /\ L = g.legs /\ y = ItemOf(g)
  OBVIOUS
<1>1. /\ s \in Subs /\ g.j \in Jobs /\ g.j[1] = s /\ Whole(s, L)
      /\ slurm[g.j] = "gone" /\ (s \in DOMAIN routes => routes[s] = L)
  <2>1. g.op \in BindOps \cup DoneOps /\ g.op \in DoneOps
    BY DEF DoneOps
  <2> QED
    BY <1>0, <2>1, PastGate DEF Routes
<1>2. IsArray(s) /\ y = TaskItem(L, g.j)
  <2>1. ItemOf(g) = TaskItem(g.legs, g.j)
    BY <1>0, <1>1 DEF ItemOf, LegOf, TaskItem
  <2> QED
    BY <1>0, <2>1
<1>3. /\ y \in ItemsOf(s) /\ ItemsOf(s)' = ItemsOf(s) \ {y}
      /\ \A t \in Subs \ {s} : ItemsOf(t)' = ItemsOf(t)
  BY <1>0 DEF Shut, Others, Same
<1>4. h'[p] = g2 /\ routes' = routes /\ jobToToken' = jobToToken /\ tokenArrayN' = tokenArrayN
  BY DEF Types, Slots, Keeps
<1>5. ASSUME NEW j \in Jobs PROVE ~Closer(h[p], j)
  BY <1>0, <1>1, <1>2 DEF Closer, DoneOps
<1>6. ASSUME NEW j \in Jobs, j[1] \notin swept PROVE Alive(j)' /\ Named(j)'
  <2>1. Alive(j) /\ Named(j) /\ j[1] \in Subs
    BY <1>6, JobIs DEF Shrinking
  <2>2. Closed(j) => Closed(j)'
    BY <1>5, CloserStay
  <2>3. InTables(j)' <=> InTables(j)
    BY <1>4 DEF InTables, IsArray
  <2>4. CASE j = g.j
    <3>1. Closer(g2, j)
      BY <2>4 DEF Closer, DoneOps
    <3>2. Closed(j)'
      BY <1>4, <3>1 DEF Closed, Closer, IsArray, IsMulti
    <3> QED
      BY <1>1, <2>4, <3>2 DEF Alive, Named
  <2>5. CASE j # g.j
    <3>1. j[1] \in DOMAIN routes => (Opened(j) => Opened(j)')
      <4>1. CASE j[1] # s
        BY <1>3, <1>4, <2>1, <4>1, OpenStay, SMTT(30)
      <4>2. CASE j[1] = s /\ s \in DOMAIN routes
        <5>1. TaskItem(L, j) # y
          BY <1>1, <1>2, <2>5, <4>2, TaskItemIs
        <5>2. PICK I, R : I = ItemsOf(s)' /\ R = routes'[s] /\ R = L
          BY <1>1, <1>4, <4>2
        <5>3. Opened(j) => TaskItem(R, j) \in I
          BY <1>1, <1>2, <1>3, <4>2, <5>1, <5>2 DEF Opened
        <5> QED
          BY <1>2, <4>2, <5>2, <5>3 DEF Opened, TaskItem, LegItem, legForTask, IsArray
      <4> QED
        BY <4>1, <4>2
    <3> QED
      BY <1>4, <2>1, <2>2, <2>3, <3>1 DEF Alive, Named
  <2> QED
    BY <2>4, <2>5
<1>7. ASSUME NEW t \in Subs \ swept, t # s PROVE Reckoned(t)'
  <2>1. Drops(t)' = Drops(t)
    <3>1. g2.s # t /\ g.s # t
      BY <1>0, <1>7
    <3>2. \A q \in Handlers \ {p} : h'[q] = h[q]
      BY DEF Types, Slots
    <3> QED
      BY <1>4, <3>1, <3>2 DEF Drops
  <2>2. Reckoned(t) /\ ItemsOf(t)' = ItemsOf(t)
    BY <1>3, <1>7 DEF Shrinking
  <2> QED
    BY <1>4, <2>1, <2>2 DEF Reckoned, IsArray
<1>8. ASSUME s \notin swept PROVE Reckoned(s)'
  <2>1. Reckoned(s)
    BY <1>1, <1>8 DEF Shrinking
  <2>2. PICK A, D : A = ItemsOf(s) /\ D = Drops(s)
    OBVIOUS
  <2>3. Drops(s)' = D \cup {p} /\ p \notin D
    <3>1. Drops(s)' = Drops(s) \cup {p}
      BY <1>0, DropsMove
    <3>2. p \notin Drops(s)
      BY DEF Drops
    <3> QED
      BY <2>2, <3>1, <3>2
  <2>4. IsFiniteSet(A) /\ IsFiniteSet(D)
    BY <1>1, <2>2, ItemParts, DropsFinite DEF Types
  <2>5. Cardinality(A \ {y}) = Cardinality(A) - 1 /\ Cardinality(D \cup {p}) = Cardinality(D) + 1
    BY <1>3, <2>2, <2>3, <2>4, FS_RemoveElement, FS_AddElement
  <2>6. Cardinality(A) \in Nat /\ Cardinality(D) \in Nat
    BY <2>4, FS_CardinalityType
  <2>7. Cardinality(A) + Cardinality(D) = Cardinality(A \ {y}) + Cardinality(D \cup {p})
    BY <2>5, <2>6
  <2>8. ItemsOf(s)' = A \ {y} /\ Drops(s)' = D \cup {p}
    BY <1>3, <2>2, <2>3
  <2> QED
    BY <1>2, <1>4, <2>1, <2>2, <2>7, <2>8 DEF Reckoned, IsArray
<1>9. ASSUME NEW q \in Handlers \ {p}, NEW f, h[q] = f, f.op \in BindOps PROVE AtWork(f)'
  BY <1>4, <1>9 DEF Shrinking, AtWork
<1>10. Solo(g2) /\ AtWork(g2)'
  <2>1. Solo(g)
    BY DEF Shrinking
  <2> QED
    BY <2>1 DEF Solo, AtWork, BindOps, DoneOps
<1> QED
  BY <1>4, <1>6, <1>7, <1>8, <1>9, <1>10, ShrinkStep

(* A call of a handler past its gate.                                      *)
LEMMA ShrinkCall ==
  ASSUME Epilog = FALSE, Types, Shrinking, NEW p \in Handlers, NEW g, CallStep(p, g)
  PROVE  Shrinking'
<1>0. g = h[p] /\ Works(p, g) /\ Keeps /\ slurm' = slurm /\ swept' = swept
  BY DEF CallStep, Works
<1>1. Solo(g) /\ AtWork(g)
  BY <1>0 DEF Shrinking
<1>2. ASSUME BindSlot(g), \A t \in Subs : ItemsOf(t)' = ItemsOf(t), NEW g2,
             h' = [h EXCEPT ![p] = g2],
             \/ g2 = Idle
             \/ BindSlot(g2) /\ g2.s = g.s /\ g2.legs = g.legs /\ g2.j = g.j
      PROVE  Shrinking'
  <2>1. g.op \in BindOps /\ (g2 = Idle \/ g2.op \in BindOps)
    BY <1>2 DEF BindSlot
  <2>2. h[p].op # "drop" /\ \A j \in Jobs : ~Closer(h[p], j)
    BY <1>0, <2>1 DEF Closer, BindOps, DoneOps
  <2>3. Solo(g2) /\ g2.op # "drop"
    BY <1>1, <1>2, <2>1 DEF Solo, Idle, BindOps, DoneOps
  <2>4. AtWork(g2)'
    BY <1>0, <1>1, <1>2, <2>1 DEF AtWork, Idle, BindOps, Keeps
  <2> QED
    BY <1>0, <1>2, <2>2, <2>3, <2>4, ShrinkStay DEF Keeps
<1>3. ASSUME NEW s \in Subs, NEW y, NEW c, Lowered(s, y, c) \/ Lit(s, y) \/ Quiet
      PROVE  \A t \in Subs : ItemsOf(t)' = ItemsOf(t)
  BY <1>3 DEF Lowered, Lit, Quiet, Others, Same
<1>4. CASE BindSlot(g) /\ Repricing(p, g)
  <2>1. PICK g2 : /\ h' = [h EXCEPT ![p] = g2] /\ BindSlot(g2)
                  /\ g2.s = g.s /\ g2.legs = g.legs /\ g2.j = g.j
    BY <1>4 DEF Repricing
  <2>2. g.s \in Subs
    BY <1>4 DEF BindSlot
  <2>3. PICK y, c : Lowered(g.s, y, c) \/ Quiet
    BY <1>4 DEF Repricing
  <2> QED
    BY <1>2, <1>3, <1>4, <2>1, <2>2, <2>3
<1>5. CASE BindSlot(g) /\ Starting(p, g)
  <2>1. PICK g2 : /\ h' = [h EXCEPT ![p] = g2]
                  /\ IsArray(g.s) \/ g.k = Len(g.legs) => g2 = Idle
                  /\ ~IsArray(g.s) /\ g.k < Len(g.legs) =>
                       BindSlot(g2) /\ g2.s = g.s /\ g2.legs = g.legs /\ g2.j = g.j
    BY <1>5 DEF Starting
  <2>2. g.s \in Subs /\ (g.k = Len(g.legs) \/ g.k < Len(g.legs))
    BY <1>5 DEF BindSlot
  <2>3. PICK y : Lit(g.s, y) \/ Quiet
    BY <1>5 DEF Starting
  <2> QED
    BY <1>2, <1>3, <1>5, <2>1, <2>2, <2>3
<1>6. CASE DoneSlot(g) /\ g.op = "settle" /\ g.task = FALSE /\ SettlingLeg(p, g)
  <2>0. PICK s, j : s = g.s /\ j = g.j
    OBVIOUS
  <2>1. /\ s \in Subs /\ j \in Jobs /\ j[1] = s /\ ~IsArray(s) /\ slurm[j] = "gone"
        /\ g.k \in 1 .. Len(g.legs) /\ Len(g.legs) \in Nat
    <3>1. g.op \in BindOps \cup DoneOps /\ g.op \in DoneOps
      BY <1>6 DEF DoneOps
    <3> QED
      BY <1>0, <1>6, <2>0, <3>1, PastGate DEF Routes, DoneSlot
  <2>2. IsMulti(s) \/ Len(g.legs) = 1
    BY <1>1, <1>6, <2>0 DEF Solo, DoneOps
  <2>3. PICK y, g2 :
           /\ h' = [h EXCEPT ![p] = g2]
           /\ \/ (\E u : Shut(s, y, u)) /\ MovesOn(g, g2)
              \/ Quiet /\ MovesOn(g, g2)
              \/ Quiet /\ g2 = Idle /\ ~IsMulti(s)
    BY <1>6, <2>0 DEF SettlingLeg
  <2>4. h[p].op # "drop"
    BY <1>0, <1>6
  <2>5. CASE MovesOn(g, g2)
    <3>1. /\ g2.s = s /\ g2.legs = g.legs /\ g2.j = j /\ g2.task = FALSE
          /\ g.k < Len(g.legs) => g2.op = "settle"
          /\ g.k = Len(g.legs) => g2.op = "drop"
      BY <1>6, <2>0, <2>5 DEF MovesOn
    <3>2. Closer(g2, j) /\ g2.op \in DoneOps
      <4>1. g.k < Len(g.legs) \/ g.k = Len(g.legs)
        BY <2>1
      <4>2. g.k < Len(g.legs) => IsMulti(s)
        <5>0. PICK k, n : k = g.k /\ n = Len(g.legs) /\ k \in 1 .. n /\ n \in Nat
          BY <2>1
        <5>1. k < n => n # 1
          BY <5>0, SMTT(30)
        <5> QED
          BY <2>2, <5>0, <5>1
      <4> QED
        BY <2>1, <3>1, <4>1, <4>2 DEF Closer, DoneOps
    <3>3. \A i \in Jobs : Closer(h[p], i) => Closer(g2, i)
      BY <1>0, <2>0, <3>2 DEF Closer
    <3>4. Ends(s, g2)
      BY <2>1, <3>2 DEF Ends
    <3>5. \A t \in Subs : ItemsOf(t)' = ItemsOf(t) \/ Ends(t, g2)
      BY <2>3, <3>4 DEF Shut, Others, Quiet, Same
    <3>6. Solo(g2)
      BY <2>2, <3>1, <3>2 DEF Solo, DoneOps
    <3>7. AtWork(g2)'
      BY <3>2 DEF AtWork, BindOps, DoneOps
    <3> QED
      BY <1>0, <2>3, <2>4, <3>1, <3>3, <3>5, <3>6, <3>7, ShrinkStay DEF Keeps
  <2>6. CASE Quiet /\ g2 = Idle /\ ~IsMulti(s)
    <3>1. \A i \in Jobs : ~Closer(h[p], i)
      BY <1>0, <1>6, <2>0, <2>1, <2>6 DEF Closer
    <3>2. Solo(g2) /\ g2.op # "drop" /\ AtWork(g2)'
      BY <2>6 DEF Solo, AtWork, Idle, BindOps, DoneOps
    <3>3. \A t \in Subs : ItemsOf(t)' = ItemsOf(t)
      BY <2>6 DEF Quiet, Same
    <3> QED
      BY <1>0, <2>3, <2>4, <3>1, <3>2, <3>3, ShrinkStay DEF Keeps
  <2> QED
    BY <2>3, <2>5, <2>6
<1>7. CASE DoneSlot(g) /\ g.op = "settle" /\ g.task = TRUE /\ IsArray(g.s) /\ SettlingTask(p, g)
  <2>1. CASE Quiet /\ h' = [h EXCEPT ![p] = Idle]
    <3>1. g.s = g.j[1] /\ h[p].op # "drop"
      BY <1>0, <1>7 DEF DoneSlot
    <3>2. \A i \in Jobs : ~Closer(h[p], i)
      BY <1>0, <1>7, <3>1 DEF Closer
    <3>3. Solo(Idle) /\ Idle.op # "drop" /\ AtWork(Idle)'
      BY DEF Solo, AtWork, Idle, BindOps, DoneOps
    <3>4. \A t \in Subs : ItemsOf(t)' = ItemsOf(t)
      BY <2>1 DEF Quiet, Same
    <3> QED
      BY <1>0, <2>1, <3>1, <3>2, <3>3, <3>4, ShrinkStay DEF Keeps
  <2>2. CASE ~(Quiet /\ h' = [h EXCEPT ![p] = Idle])
    <3>1. PICK u, g2 : /\ Shut(g.s, ItemOf(g), u) /\ h' = [h EXCEPT ![p] = g2]
                       /\ g2.s = g.s /\ g2.legs = g.legs /\ g2.j = g.j
                       /\ g2.task = TRUE /\ g2.op = "drop"
      BY <1>7, <2>2 DEF SettlingTask
    <3> QED
      BY <1>0, <1>7, <3>1, ShrinkTask
  <2> QED
    BY <2>1, <2>2
<1> QED
  BY <1>0, <1>4, <1>5, <1>6, <1>7 DEF Works

(* A route is dropped.                                                     *)
LEMMA ShrinkDrop ==
  ASSUME Epilog = FALSE, Types, Shrinking, NEW p \in Handlers, NEW g, DropStep(p, g)
  PROVE  Shrinking'
<1>1. /\ Quiet /\ g = h[p] /\ DoneSlot(g) /\ g.op = "drop" /\ DropTables(g)
      /\ h' = [h EXCEPT ![p] = Idle] /\ slurm' = slurm /\ swept' = swept
  BY DEF DropStep, PastFrame
<1>2. PICK s, i : s = g.s /\ i = g.j
  OBVIOUS
<1>3. /\ s \in Subs /\ i \in Jobs /\ i[1] = s /\ slurm[i] = "gone"
      /\ g.task \in BOOLEAN /\ (g.task = TRUE <=> IsArray(s))
  <2>1. g.op \in BindOps \cup DoneOps /\ g.op \in DoneOps
    BY <1>1 DEF DoneOps
  <2> QED
    BY <1>1, <1>2, <2>1, PastGate DEF Routes, DoneSlot
<1>4. /\ DOMAIN jobToToken' = DOMAIN jobToToken \ {i}
      /\ Last(g) => DOMAIN routes' = DOMAIN routes \ {s}
      /\ ~Last(g) => DOMAIN routes' = DOMAIN routes
      /\ \A t \in DOMAIN routes' : routes'[t] = routes[t]
      /\ g.task = TRUE /\ Last(g) => DOMAIN tokenArrayN' = DOMAIN tokenArrayN \ {s}
      /\ g.task = FALSE \/ ~Last(g) => DOMAIN tokenArrayN' = DOMAIN tokenArrayN
      /\ \A t \in DOMAIN tokenArrayN' \ {s} : tokenArrayN'[t] = tokenArrayN[t]
      /\ s \in DOMAIN tokenArrayN' /\ g.task = TRUE => tokenArrayN'[s] = tokenArrayN[s] - 1
  BY <1>1, <1>2 DEF DropTables
<1>5. Last(g) <=> ~IsArray(s) \/ (s \in DOMAIN tokenArrayN /\ tokenArrayN[s] <= 1)
  BY <1>2, <1>3 DEF Last
<1>6. Idle.op = "idle" /\ Solo(Idle) /\ AtWork(Idle)'
  BY DEF Idle, Solo, AtWork, BindOps, DoneOps
<1>7. ASSUME NEW t \in Subs PROVE Drops(t)' = Drops(t) \ {p} /\ ItemsOf(t)' = ItemsOf(t)
  <2>1. Idle.op # "drop"
    BY <1>6
  <2> QED
    BY <1>1, <2>1, DropsMove DEF Quiet, Same
<1>8. ASSUME NEW j \in Jobs, Closed(j), j # i PROVE Closed(j)'
  <2>1. ~Closer(h[p], j)
    BY <1>1, <1>2, <1>8 DEF Closer
  <2> QED
    BY <1>1, <1>8, <2>1, CloserStay
<1>9. ASSUME IsArray(s), Last(g), s \notin swept PROVE ItemsOf(s) = {} /\ Drops(s) = {p}
  <2>1. p \in Drops(s) /\ Reckoned(s)
    BY <1>1, <1>2, <1>3, <1>9 DEF Drops, Shrinking
  <2>2. PICK A, D : A = ItemsOf(s) /\ D = Drops(s)
    OBVIOUS
  <2>3. IsFiniteSet(A) /\ IsFiniteSet(D)
    BY <1>3, <2>2, ItemParts, DropsFinite DEF Types
  <2>4. Cardinality(A) + Cardinality(D) <= 1
    BY <1>5, <1>9, <2>1, <2>2 DEF Reckoned
  <2>5. IsFiniteSet(D \ {p}) /\ Cardinality(D \ {p}) = Cardinality(D) - 1
    BY <2>1, <2>2, <2>3, FS_RemoveElement
  <2>6. Cardinality(A) \in Nat /\ Cardinality(D) \in Nat /\ Cardinality(D \ {p}) \in Nat
    BY <2>3, <2>5, FS_CardinalityType
  <2>7. Cardinality(A) = 0 /\ Cardinality(D \ {p}) = 0
    BY <2>4, <2>5, <2>6
  <2>8. A = {} /\ D \ {p} = {}
    BY <2>3, <2>5, <2>7, FS_EmptySet
  <2> QED
    BY <2>1, <2>2, <2>8
<1>10. ASSUME NEW j \in Jobs, j[1] \notin swept, j[1] # s PROVE Alive(j)' /\ Named(j)'
  <2>1. j[1] \in Subs /\ Alive(j) /\ Named(j)
    BY <1>10, JobIs DEF Shrinking
  <2>2. /\ (j[1] \in DOMAIN routes') <=> (j[1] \in DOMAIN routes)
        /\ j[1] \in DOMAIN routes => routes'[j[1]] = routes[j[1]]
        /\ j \in DOMAIN jobToToken' <=> j \in DOMAIN jobToToken
    BY <1>3, <1>4, <1>10
  <2>3. j[1] \in DOMAIN routes => (Opened(j)' <=> Opened(j))
    BY <1>7, <2>1, <2>2, OpenStay
  <2>4. Closed(j) => Closed(j)'
    BY <1>3, <1>8, <1>10
  <2>5. InTables(j)' <=> InTables(j)
    BY <2>2 DEF InTables, IsArray
  <2> QED
    BY <1>1, <2>1, <2>2, <2>3, <2>4, <2>5 DEF Alive, Named
<1>11. ASSUME NEW j \in Jobs, j[1] = s, s \notin swept, IsArray(s), ~Last(g)
       PROVE  Alive(j)' /\ Named(j)'
  <2>1. Alive(j) /\ Named(j) /\ DOMAIN routes' = DOMAIN routes
    BY <1>4, <1>11 DEF Shrinking
  <2>2. j[1] \in DOMAIN routes => (Opened(j)' <=> Opened(j))
    BY <1>3, <1>4, <1>7, <1>11, <2>1, OpenStay
  <2>3. InTables(j)' => InTables(j) /\ j # i
    BY <1>4, <1>11 DEF InTables, IsArray
  <2> QED
    BY <1>1, <1>8, <2>1, <2>2, <2>3 DEF Alive, Named
<1>12. ASSUME NEW j \in Jobs, j[1] = s, s \notin swept, IsArray(s), Last(g)
       PROVE  Alive(j)' /\ Named(j)'
  <2>1. s \notin DOMAIN routes' /\ Named(j)
    BY <1>4, <1>12 DEF Shrinking
  <2>2. ~Opened(j)
    BY <1>9, <1>12 DEF Opened
  <2>3. ASSUME Closed(j) PROVE j = i
    <3>1. PICK q, f : q \in Handlers /\ h[q] = f /\ Closer(f, j)
      BY <2>3 DEF Closed
    <3>2. f.op = "drop" /\ f.j = j /\ f.op \in BindOps \cup DoneOps
      BY <1>12, <3>1 DEF Closer
    <3>3. DoneSlot(f) /\ f.s = s
      <4>1. Slot(f)
        BY <3>1, GateSlot
      <4>2. DoneSlot(f)
        BY <3>2, <4>1, SlotKind DEF DoneOps
      <4> QED
        BY <1>12, <3>2, <4>2 DEF DoneSlot
    <3>4. f.task = TRUE
      BY <1>12, <3>3 DEF DoneSlot
    <3>5. q \in Drops(s)
      BY <3>1, <3>2, <3>3, <3>4 DEF Drops
    <3>6. q = p
      BY <1>9, <1>12, <3>5
    <3> QED
      BY <1>1, <1>2, <3>1, <3>2, <3>6
  <2>4. InTables(j)' => InTables(j) /\ j # i
    BY <1>4, <1>12 DEF InTables, IsArray
  <2> QED
    BY <1>12, <2>1, <2>2, <2>3, <2>4 DEF Alive, Named
<1>13. ASSUME NEW j \in Jobs, j[1] = s, ~IsArray(s) PROVE Alive(j)' /\ Named(j)'
  <2>1. j = i
    BY <1>3, <1>13, OneJob
  <2>2. s \notin DOMAIN routes' /\ i \notin DOMAIN jobToToken'
    BY <1>4, <1>5, <1>13
  <2>3. ~InTables(j)'
    BY <1>13, <2>1, <2>2 DEF InTables
  <2> QED
    BY <1>13, <2>2, <2>3 DEF Alive, Named
<1>14. ASSUME NEW t \in Subs \ swept PROVE Reckoned(t)'
  <2>0. Reckoned(t) /\ Drops(t)' = Drops(t) \ {p} /\ ItemsOf(t)' = ItemsOf(t)
    BY <1>7 DEF Shrinking
  <2>1. CASE t # s
    <3>1. p \notin Drops(t)
      BY <1>1, <1>2, <2>1 DEF Drops
    <3>2. /\ (t \in DOMAIN routes') <=> (t \in DOMAIN routes)
          /\ (t \in DOMAIN tokenArrayN') <=> (t \in DOMAIN tokenArrayN)
          /\ t \in DOMAIN tokenArrayN => tokenArrayN'[t] = tokenArrayN[t]
      <4>1. g.task = TRUE \/ g.task = FALSE
        BY <1>3
      <4> QED
        BY <1>3, <1>4, <2>1, <4>1
    <3>3. Drops(t)' = Drops(t)
      BY <2>0, <3>1
    <3> QED
      BY <2>0, <3>2, <3>3 DEF Reckoned, IsArray
  <2>2. CASE t = s /\ ~IsArray(s)
    BY <2>2 DEF Reckoned, IsArray
  <2>3. CASE t = s /\ IsArray(s) /\ Last(g)
    <3>1. s \notin DOMAIN routes' /\ s \notin DOMAIN tokenArrayN'
      BY <1>3, <1>4, <2>3
    <3> QED
      BY <2>3, <3>1 DEF Reckoned, IsArray
  <2>4. CASE t = s /\ IsArray(s) /\ ~Last(g)
    <3>1. /\ DOMAIN routes' = DOMAIN routes /\ DOMAIN tokenArrayN' = DOMAIN tokenArrayN
          /\ s \in DOMAIN tokenArrayN => tokenArrayN'[s] = tokenArrayN[s] - 1
      BY <1>3, <1>4, <2>4
    <3>2. p \in Drops(s)
      BY <1>1, <1>2, <1>3, <2>4 DEF Drops
    <3>3. PICK A, D : A = ItemsOf(s) /\ D = Drops(s)
      OBVIOUS
    <3>4. IsFiniteSet(A) /\ IsFiniteSet(D)
      BY <1>3, <3>3, ItemParts, DropsFinite DEF Types
    <3>5. Cardinality(D \ {p}) = Cardinality(D) - 1
      BY <3>2, <3>3, <3>4, FS_RemoveElement
    <3>6. Cardinality(A) \in Nat /\ Cardinality(D) \in Nat
      BY <3>4, FS_CardinalityType
    <3>7. ItemsOf(s)' = A /\ Drops(s)' = D \ {p}
      BY <2>0, <2>4, <3>3
    <3>8. s \in DOMAIN routes => tokenArrayN[s] = Cardinality(A) + Cardinality(D)
      BY <2>0, <2>4, <3>3 DEF Reckoned
    <3>9. s \in DOMAIN routes' => tokenArrayN'[s] = Cardinality(A) + Cardinality(D \ {p})
      BY <2>0, <2>4, <3>1, <3>5, <3>6, <3>8 DEF Reckoned
    <3> QED
      BY <2>0, <2>4, <3>1, <3>7, <3>9 DEF Reckoned, IsArray
  <2> QED
    BY <2>1, <2>2, <2>3, <2>4
<1>15. ASSUME NEW q \in Handlers \ {p}, NEW f, h[q] = f, f.op \in BindOps PROVE AtWork(f)'
  <2>0. CASE f.s \in swept
    BY <1>1, <1>15, <2>0 DEF Shrinking, AtWork
  <2> SUFFICES ASSUME f.s \notin swept PROVE AtWork(f)'
    BY <2>0
  <2>1. /\ slurm[f.j] = "running" /\ f.s \in DOMAIN routes /\ f.j \in Jobs /\ f.j[1] = f.s
    BY <1>15, PastGate DEF Shrinking, AtWork
  <2>2. Alive(f.j)
    BY <2>1 DEF Shrinking
  <2>3. f.s # s \/ ~Last(g)
    <3>1. CASE f.s = s /\ IsArray(s) /\ Last(g)
      <4>1. Opened(f.j)
        BY <2>1, <2>2 DEF Alive
      <4> QED
        BY <1>9, <2>1, <3>1, <4>1 DEF Opened
    <3>2. CASE f.s = s /\ ~IsArray(s)
      <4>1. f.j = i
        BY <1>3, <2>1, <3>2, OneJob
      <4> QED
        BY <1>3, <2>1, <4>1
    <3> QED
      BY <3>1, <3>2
  <2> QED
    BY <1>1, <1>4, <2>1, <2>3 DEF AtWork
<1>16. ASSUME NEW t \in Subs, NEW M, t \in DOMAIN routes', routes'[t] = M
       PROVE  (t \in DOMAIN routes /\ routes[t] = M) \/ IsMulti(t) \/ Len(M) = 1
  BY <1>4, <1>16
<1>17. ASSUME NEW j \in Jobs, j[1] \notin swept PROVE Alive(j)' /\ Named(j)'
  <2>1. CASE j[1] # s
    BY <1>10, <1>17, <2>1, Zenon
  <2>2. CASE j[1] = s /\ ~IsArray(s)
    BY <1>13, <2>2, Zenon
  <2>3. CASE j[1] = s /\ IsArray(s) /\ ~Last(g)
    BY <1>11, <1>17, <2>3, Zenon
  <2>4. CASE j[1] = s /\ IsArray(s) /\ Last(g)
    BY <1>12, <1>17, <2>4, Zenon
  <2> QED
    BY <2>1, <2>2, <2>3, <2>4, Zenon
<1> QED
  BY <1>1, <1>6, <1>14, <1>15, <1>16, <1>17, ShrinkStep

(* Every step keeps it.                                                    *)
LEMMA ShrinkNext ==
  ASSUME Epilog = FALSE, LateBinds = FALSE, Types, Covered, Shrinking, [Next]_vars
  PROVE  Shrinking'
<1>0. Moves
  BY StepKinds
<1>1. CASE GateStep
  BY <1>1, ShrinkGate
<1>2. CASE RefundStep
  <2>1. PICK s \in Subs : Others(s) /\ swept' = swept \cup {s}
    <3>1. PICK s \in Subs, a \in Accounts, x \in Items :
             Closes(s, <<a, x>>, 0, "sweep") /\ swept' = swept \cup {s}
      BY <1>2 DEF RefundStep
    <3>2. Others(s)
      BY <3>1 DEF Closes, Shut, Quiet, Others
    <3> QED
      BY <3>1, <3>2
  <2>2. /\ h' = h /\ slurm' = slurm /\ routes' = routes
        /\ jobToToken' = jobToToken /\ tokenArrayN' = tokenArrayN
    BY <1>2 DEF RefundStep, Keeps
  <2>3. ASSUME NEW j \in Jobs, j[1] \notin swept' PROVE Alive(j)' /\ Named(j)'
    <3>1. j[1] \in Subs \ {s} /\ Alive(j) /\ Named(j)
      BY <2>1, <2>3, JobIs DEF Shrinking
    <3>2. ItemsOf(j[1])' = ItemsOf(j[1])
      BY <2>1, <3>1 DEF Others, Same
    <3>3. j[1] \in DOMAIN routes => (Opened(j)' <=> Opened(j))
      BY <2>2, <3>2, OpenStay
    <3>4. Closed(j) => Closed(j)'
      BY <2>2 DEF Closed, Closer, IsArray, IsMulti
    <3>5. InTables(j)' <=> InTables(j)
      BY <2>2 DEF InTables, IsArray
    <3> QED
      BY <2>2, <3>1, <3>3, <3>4, <3>5 DEF Alive, Named
  <2>4. ASSUME NEW t \in Subs \ swept' PROVE Reckoned(t)'
    <3>1. Reckoned(t) /\ ItemsOf(t)' = ItemsOf(t) /\ Drops(t)' = Drops(t)
      BY <2>1, <2>2, <2>4 DEF Shrinking, Others, Same, Drops
    <3> QED
      BY <2>2, <3>1 DEF Reckoned, IsArray
  <2>5. ASSUME NEW p \in Handlers, NEW g, h'[p] = g PROVE Solo(g) /\ AtWork(g)'
    BY <2>1, <2>2, <2>5 DEF Shrinking, AtWork
  <2> QED
    BY <2>2, <2>3, <2>4, <2>5 DEF Shrinking, Solo, IsMulti
<1>3. CASE CrashStep
  <2>1. /\ DOMAIN routes' = {} /\ DOMAIN jobToToken' = {} /\ DOMAIN tokenArrayN' = {}
        /\ \A p \in Handlers : h'[p] = Idle
    BY <1>3 DEF CrashStep, Empty
  <2>2. ASSUME NEW p \in Handlers, NEW g, h'[p] = g PROVE Solo(g) /\ AtWork(g)'
    BY <2>1, <2>2 DEF Solo, AtWork, Idle, BindOps, DoneOps
  <2>3. ASSUME NEW j \in Jobs, j[1] \notin swept PROVE Alive(j)' /\ Named(j)'
    BY <2>1 DEF Alive, Named, InTables
  <2>4. ASSUME NEW s \in Subs PROVE Reckoned(s)'
    BY <2>1 DEF Reckoned
  <2>5. swept' = swept
    BY <1>3 DEF CrashStep
  <2> QED
    BY <2>1, <2>2, <2>3, <2>4, <2>5 DEF Shrinking, Solo, IsMulti
<1>4. CASE IdleStep
  <2>1. /\ Quiet /\ h' = h /\ Keeps /\ swept' = swept
        /\ slurm' = slurm \/ \E j \in Jobs : SlurmStart(j) \/ SlurmEnd(j)
    BY <1>4 DEF IdleStep
  <2>2. \A s \in Subs : ItemsOf(s)' = ItemsOf(s) /\ Drops(s)' = Drops(s)
    BY <2>1 DEF Quiet, Same, Drops
  <2>3. \A j \in Jobs : slurm'[j] # "gone" => slurm[j] # "gone"
    BY <2>1 DEF SlurmStart, SlurmEnd, Types, World
  <2>4. ASSUME NEW j \in Jobs, j[1] \notin swept PROVE Alive(j)' /\ Named(j)'
    <3>1. Alive(j) /\ Named(j) /\ j[1] \in Subs
      BY <2>4, JobIs DEF Shrinking
    <3>2. j[1] \in DOMAIN routes => (Opened(j)' <=> Opened(j))
      BY <2>1, <2>2, <3>1, OpenStay DEF Keeps
    <3>3. Closed(j) => Closed(j)'
      BY <2>1 DEF Closed, Closer, IsArray, IsMulti
    <3>4. InTables(j)' <=> InTables(j)
      BY <2>1 DEF InTables, Keeps, IsArray
    <3> QED
      BY <2>1, <2>3, <3>1, <3>2, <3>3, <3>4 DEF Alive, Named, Keeps
  <2>5. ASSUME NEW s \in Subs \ swept PROVE Reckoned(s)'
    BY <2>1, <2>2 DEF Shrinking, Reckoned, Keeps, IsArray
  <2>6. ASSUME NEW p \in Handlers, NEW g, h'[p] = g PROVE Solo(g) /\ AtWork(g)'
    <3>1. h[p] = g /\ Solo(g) /\ AtWork(g)
      BY <2>1, <2>6 DEF Shrinking
    <3>2. ASSUME g.op \in BindOps PROVE slurm'[g.j] = "running"
      <4>1. slurm[g.j] = "running" /\ g.j \in Jobs
        BY <3>1, <3>2, PastGate DEF AtWork
      <4>2. Binding(p, g.j)
        BY <3>1, <3>2 DEF Binding, BindOps
      <4>3. ASSUME NEW j \in Jobs, SlurmStart(j) PROVE slurm'[g.j] = "running"
        BY <4>1, <4>3 DEF SlurmStart, Types, World
      <4>4. ASSUME NEW j \in Jobs, SlurmEnd(j) PROVE slurm'[g.j] = "running"
        <5>1. j # g.j
          BY <4>1, <4>2, <4>4 DEF SlurmEnd
        <5> QED
          BY <4>1, <4>4, <5>1 DEF SlurmEnd, Types, World
      <4> QED
        BY <2>1, <4>1, <4>3, <4>4
    <3> QED
      BY <2>1, <3>1, <3>2 DEF AtWork, Keeps
  <2> QED
    BY <2>1, <2>4, <2>5, <2>6 DEF Shrinking, Solo, IsMulti, Keeps
<1>5. ASSUME NEW p \in Handlers, HandlerMoves(p) PROVE Shrinking'
  <2>1. ASSUME NEW g, RecordStep(p, g) PROVE Shrinking'
    BY <2>1, ShrinkRecord
  <2>2. ASSUME NEW g, CallStep(p, g) PROVE Shrinking'
    BY <2>2, ShrinkCall
  <2>3. ASSUME NEW g, DropStep(p, g) PROVE Shrinking'
    BY <2>3, ShrinkDrop
  <2> QED
    BY <1>5, <2>1, <2>2, <2>3, ShrinkHook DEF HandlerMoves
<1> QED
  BY <1>0, <1>1, <1>2, <1>3, <1>4, <1>5 DEF Moves

(* The tables do not grow unbounded, for any number of submissions, tasks, *)
(* sources, hooks and handlers, whatever is refused, not written or lost   *)
(* in a crash, with any janitors at work: once a submission that none of   *)
(* them swept holds nothing and no handler is at work, no table names it.  *)
(* Left out are the other cases in which the code keeps an entry: a bind   *)
(* that its job's end overtakes, and the fallback hook, which names no     *)
(* task.                                                                   *)
THEOREM TablesAreReclaimed ==
  LateBinds = FALSE /\ Epilog = FALSE => (Spec => []TablesReclaimed)
<1> SUFFICES ASSUME LateBinds = FALSE, Epilog = FALSE
             PROVE  Spec => []TablesReclaimed
  OBVIOUS
<1>1. Init => Shrinking
  <2> SUFFICES ASSUME Init PROVE Shrinking
    OBVIOUS
  <2>1. /\ DOMAIN routes = {} /\ DOMAIN jobToToken = {} /\ DOMAIN tokenArrayN = {}
        /\ \A p \in Handlers : h[p] = Idle
    BY DEF Init, Empty
  <2>2. Solo(Idle) /\ AtWork(Idle)
    BY DEF Solo, AtWork, Idle, BindOps, DoneOps
  <2> QED
    BY <2>1, <2>2 DEF Shrinking, Alive, Named, InTables, Reckoned
<1>2. Types /\ Covered /\ Shrinking /\ [Next]_vars => Shrinking'
  BY ShrinkNext
<1>3. Types /\ Shrinking => TablesReclaimed
  <2> SUFFICES ASSUME Types, Shrinking, NEW s \in Subs \ swept, granted[s] = "yes", ~Held(s),
                      \A p \in Handlers : h[p] = Idle
               PROVE  /\ s \notin DOMAIN routes \cup DOMAIN tokenArrayN
                      /\ s \notin Range(jobToToken)
    BY DEF TablesReclaimed
  <2>1. ItemsOf(s) = {}
    BY HeldIs DEF Types
  <2>2. \A j : ~Closed(j)
    BY DEF Closed, Closer, Idle, DoneOps
  <2>3. ASSUME NEW j \in Jobs, j[1] = s PROVE ~InTables(j)
    <3>1. ~Opened(j) /\ Named(j)
      BY <2>1, <2>3 DEF Opened, Shrinking
    <3> QED
      BY <2>2, <3>1 DEF Named
  <2>4. s \notin DOMAIN tokenArrayN
    <3> SUFFICES ASSUME s \in DOMAIN tokenArrayN PROVE FALSE
      OBVIOUS
    <3>1. IsArray(s) /\ tokenArrayN[s] \in 1 .. Submissions[s].n /\ Reckoned(s)
      BY DEF Types, Tables, Shrinking
    <3>2. Drops(s) = {}
      BY DEF Drops, Idle
    <3>3. Cardinality({}) = 0
      BY FS_EmptySet
    <3>4. tokenArrayN[s] = 0
      BY <2>1, <3>1, <3>2, <3>3 DEF Reckoned
    <3>5. Submissions[s].n \in Nat
      BY SubIs DEF SubRecord
    <3> QED
      BY <3>1, <3>4, <3>5
  <2>5. s \notin DOMAIN routes
    <3>1. CASE IsArray(s)
      BY <2>4, <3>1 DEF Shrinking, Reckoned
    <3>2. CASE ~IsArray(s)
      <4>1. <<s, 0>> \in Jobs /\ <<s, 0>>[1] = s
        <5>1. Submissions[s].n \in Nat \ {0}
          BY SubIs DEF SubRecord
        <5>2. 0 \in 0 .. (Submissions[s].n - 1)
          BY <5>1
        <5> QED
          BY <5>2 DEF Jobs
      <4>2. ~InTables(<<s, 0>>)
        BY <2>3, <4>1
      <4> QED
        BY <3>2, <4>1, <4>2 DEF InTables
    <3> QED
      BY <3>1, <3>2
  <2>6. s \notin Range(jobToToken)
    <3> SUFFICES ASSUME NEW j \in DOMAIN jobToToken, jobToToken[j] = s PROVE FALSE
      BY DEF Range
    <3>1. j \in Jobs /\ j[1] = s
      BY DEF Types, Tables
    <3> QED
      BY <2>3, <3>1 DEF InTables
  <2> QED
    BY <2>4, <2>5, <2>6
<1> QED
  BY <1>1, <1>2, <1>3, CoveredHolds, PTL DEF Spec
=============================================================================
