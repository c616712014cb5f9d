----------------------------- MODULE ShimProofs -----------------------------
(***************************************************************************)
(* A submission pays once and, where the partition fails closed, is funded *)
(* before it queues, for any number of submissions and transports,         *)
(* whichever attempts time out, are lost or are answered to nobody.        *)
(***************************************************************************)
EXTENDS Shim, CoinsProofs

-----------------------------------------------------------------------------
(* The budget of this model: burst off, no arrays, escrows under tokens.   *)
NoFunction == [x \in {} |-> 0]

Escrow ==
  [C : {Rate}, Reserved : Nat, W : Nat, Started : BOOLEAN, BurstResv : {0},
   Submitted : Nat]

EscrowMaps == UNION {[T -> Escrow] : T \in SUBSET Tokens}

PlainRecord ==
  [C : {Rate}, TS : {0}, TE : {MaxClock + 1}, B : Int, ReservedTotal : Int,
   Consumed : Nat, WriteOff : Nat, B0 : {Opening},
   BillInfraFailures : {FALSE}, K : {0}, BurstEnabled : {FALSE},
   BurstCeilingPct : {0}, BurstDrawCap : {0}, burstPot : {0}, fracAcc : {0},
   rLive : {0}, lastTouch : {0}, escrows : EscrowMaps,
   arrays : {NoFunction}, status : {"Active"}]

JobRecord ==
  [st : {"new", "refused", "queued", "running", "gone"}, w : Nat,
   end : Ends \cup {<<"none", 0>>}, comment : Seq(STRING \cup Tokens)]

ShimRecord == [pc : {"new", "try", "wait", "done"}, k : 0 .. Len(Transports)]

-----------------------------------------------------------------------------
(* The inductive invariant.                                                *)
Daemon ==
  /\ inbox \subseteq Tokens /\ routes \subseteq Tokens /\ lapsed \subseteq Tokens
  /\ DOMAIN replies \subseteq Tokens
  /\ replies = [t \in DOMAIN replies |-> replies[t]]
  /\ \A t \in DOMAIN replies : replies[t] \in {"allow", "reject"}
  /\ DOMAIN jobToToken \subseteq Subs
  /\ jobToToken = [s \in DOMAIN jobToToken |-> jobToToken[s]]
  /\ clock \in 0 .. MaxClock /\ up \in BOOLEAN /\ crashes \in 0 .. MaxCrashes

Slurm == shim \in [Subs -> ShimRecord] /\ job \in [Subs -> JobRecord]

Typed == bd \in PlainRecord /\ Daemon /\ Slurm /\ billed \in [Tokens -> Nat]

(* The token of the attempt the plugin is at.                              *)
Mine(s) == <<s, shim[s].k>>

(* Has the frame of token t been sent, as far as the plugin's place tells. *)
Sent(t) ==
  \/ t[2] < shim[t[1]].k
  \/ t[2] = shim[t[1]].k /\ shim[t[1]].pc \in {"wait", "done"}

(* A token nobody has sent is nowhere.                                     *)
Unsent(t) ==
  ~Sent(t) => /\ t \notin inbox /\ t \notin DOMAIN replies
              /\ t \notin DOMAIN bd.escrows /\ billed[t] = 0

(* A frame is handled once: what is still to be read is not yet answered.  *)
Pending(t) ==
  t \in inbox => /\ t \notin DOMAIN replies /\ t \notin DOMAIN bd.escrows
                 /\ t \notin Carried(t[1]) /\ billed[t] = 0

(* An escrow holds its job's whole walltime, and has not been billed.      *)
Held(t) ==
  t \in DOMAIN bd.escrows =>
    /\ bd.escrows[t].W = job[t[1]].w
    /\ bd.escrows[t].Reserved = Rate * job[t[1]].w
    /\ billed[t] = 0

(* A token allowed is funded until its job has ended or the sweep came.    *)
Allowed(t) ==
  (/\ t \in DOMAIN replies \/ t \in Carried(t[1])
   /\ t \in DOMAIN replies => replies[t] = "allow"
   /\ job[t[1]].st # "gone") =>
     t \in DOMAIN bd.escrows \/ t \in lapsed

TokenInv(t) == Unsent(t) /\ Pending(t) /\ Held(t) /\ Allowed(t)

(* What a job's end costs.                                                 *)
Due(j) == Rate * (IF j.end[1] = "timeout" THEN j.w ELSE Clamp(j.end[2], j.w))

(* Only the token a job carries is ever billed, for what the job ran.      *)
Paid(t) ==
  billed[t] > 0 => /\ t \in Carried(t[1]) /\ job[t[1]].st = "gone"
                   /\ billed[t] = Due(job[t[1]])

(* A job carries the token of the attempt that was allowed, and none       *)
(* before its plugin returns.                                              *)
Carries(s) ==
  /\ shim[s].pc = "new" <=> shim[s].k = 0
  /\ shim[s].pc # "done" => job[s].st = "new" /\ Carried(s) = {}
  /\ Carried(s) \subseteq {Mine(s)}
  /\ Carried(s) # {} => job[s].st \in {"queued", "running", "gone"}
  /\ Mine(s) \in Carried(s) /\ Mine(s) \in DOMAIN replies => replies[Mine(s)] = "allow"
  /\ Submissions[s].closed /\ job[s].st \in {"queued", "running"} =>
       Carried(s) # {}

(* A bound job is running or has run, under the token it carries, and its  *)
(* escrow is dispatched.                                                   *)
Bound(s) ==
  s \in DOMAIN jobToToken =>
    /\ jobToToken[s] \in Carried(s)
    /\ job[s].st = "running" \/ (job[s].st = "gone" /\ job[s].end \in Ends)
    /\ jobToToken[s] \in DOMAIN bd.escrows => bd.escrows[jobToToken[s]].Started

(* The books: what was spent is what was billed, and the balance is what   *)
(* is left of the opening one beside the holds.                            *)
HoldsOf(b) == [t \in DOMAIN b.escrows |-> b.escrows[t].Reserved]

Balanced(b, f) ==
  /\ Spent(b) = Total(f)
  /\ b.B = Opening - Spent(b) - Total(HoldsOf(b))

Books == Balanced(bd, billed)

SInv ==
  /\ Typed /\ Books
  /\ \A t \in Tokens : TokenInv(t) /\ Paid(t)
  /\ \A s \in Subs : Carries(s) /\ Bound(s)

-----------------------------------------------------------------------------
(* What the methods do to such a budget.                                   *)

(* A new escrow of w seconds under t.                                      *)
Gains(b, b2, t, w) ==
  /\ b2 \in PlainRecord /\ t \notin DOMAIN b.escrows
  /\ DOMAIN b2.escrows = DOMAIN b.escrows \cup {t}
  /\ \A u \in DOMAIN b.escrows : b2.escrows[u] = b.escrows[u]
  /\ b2.escrows[t].W = w /\ b2.escrows[t].Reserved = Rate * w
  /\ b2.B = b.B - Rate * w /\ Spent(b2) = Spent(b)

(* The escrow of t is dispatched.                                          *)
Lights(b, b2, t) ==
  /\ b2 \in PlainRecord
  /\ DOMAIN b2.escrows = DOMAIN b.escrows
  /\ \A u \in DOMAIN b.escrows \ {t} : b2.escrows[u] = b.escrows[u]
  /\ t \in DOMAIN b.escrows =>
       /\ b2.escrows[t].Started = TRUE
       /\ b2.escrows[t].W = b.escrows[t].W
       /\ b2.escrows[t].Reserved = b.escrows[t].Reserved
  /\ b2.B = b.B /\ Spent(b2) = Spent(b)

(* The escrow of t is closed, `used' of it billed or written off.          *)
Pays(b, b2, t, used) ==
  /\ b2 \in PlainRecord /\ t \in DOMAIN b.escrows /\ used \in Nat
  /\ DOMAIN b2.escrows = DOMAIN b.escrows \ {t}
  /\ \A u \in DOMAIN b2.escrows : b2.escrows[u] = b.escrows[u]
  /\ b2.B = b.B + (b.escrows[t].Reserved - used)
  /\ Spent(b2) = Spent(b) + used

(* The fields of such a budget.                                            *)
LEMMA PlainFields ==
  ASSUME NEW b \in PlainRecord
  PROVE  /\ b.C = Rate /\ b.B \in Int /\ b.ReservedTotal \in Int
         /\ b.Consumed \in Nat /\ b.WriteOff \in Nat /\ b.BurstEnabled = FALSE
         /\ b.BillInfraFailures = FALSE /\ b.burstPot = 0
         /\ b.escrows \in EscrowMaps
  BY DEF PlainRecord

(* A table of escrows, by its domain and its values.                       *)
LEMMA EscrowMap ==
  ASSUME NEW f
  PROVE  f \in EscrowMaps <=>
           /\ DOMAIN f \subseteq Tokens /\ f = [t \in DOMAIN f |-> f[t]]
           /\ \A t \in DOMAIN f : f[t] \in Escrow
<1>1. ASSUME f \in EscrowMaps
      PROVE  /\ DOMAIN f \subseteq Tokens /\ f = [t \in DOMAIN f |-> f[t]]
             /\ \A t \in DOMAIN f : f[t] \in Escrow
  <2>1. PICK T \in SUBSET Tokens : f \in [T -> Escrow]
    BY <1>1 DEF EscrowMaps
  <2> QED
    BY <2>1
<1>2. ASSUME DOMAIN f \subseteq Tokens, f = [t \in DOMAIN f |-> f[t]],
             \A t \in DOMAIN f : f[t] \in Escrow
      PROVE  f \in EscrowMaps
  <2>1. f \in [DOMAIN f -> Escrow]
    BY <1>2
  <2> QED
    BY <1>2, <2>1 DEF EscrowMaps
<1> QED
  BY <1>1, <1>2

(* The fields of a result.                                                 *)
LEMMA ResultIs ==
  ASSUME NEW x, NEW y, NEW cmd, NEW r
  PROVE  /\ r = logCmd(x, y, cmd, TRUE) => r.ok = TRUE /\ r.bd = y
         /\ r = Rejected(x) => r.ok = FALSE /\ r.bd = x
  BY DEF logCmd, Rejected

(* A gate escrows the whole walltime, or changes nothing.                  *)
LEMMA SubmitDoes ==
  ASSUME NEW b \in PlainRecord, NEW t \in Tokens, NEW w \in Nat, NEW now \in Nat
  PROVE  LET r == SubmitAt(b, t, 0, w, now, TRUE)
         IN  \/ r.ok = FALSE /\ r.bd = b
             \/ r.ok = TRUE /\ Gains(b, r.bd, t, w)
<1> DEFINE r == SubmitAt(b, t, 0, w, now, TRUE)
           cost == Rate * w
           e == [C |-> Rate, Reserved |-> cost, W |-> w, Started |-> FALSE,
                 BurstResv |-> 0, Submitted |-> now]
           f == Put(b.escrows, t, e)
           b2 == [b EXCEPT !.B = @ - cost, !.ReservedTotal = @ + cost,
                           !.escrows = f]
           cmd == [kind |-> "submit", id |-> t, c |-> Rate, w |-> w,
                   now |-> now]
<1>1. /\ b.C = Rate /\ b.B \in Int /\ b.ReservedTotal \in Int
      /\ b.Consumed \in Nat /\ b.WriteOff \in Nat /\ b.escrows \in EscrowMaps
  BY PlainFields
<1>2. RateOrFlat(b, 0) = Rate
  BY <1>1 DEF RateOrFlat
<1>3. cost \in Nat
  BY ShimAssumption
<1>4. \/ r = Rejected(b)
      \/ t \notin DOMAIN b.escrows /\ r = logCmd(b, b2, cmd, TRUE)
  BY <1>2 DEF SubmitAt
<1> HIDE DEF r, b2, cmd
<1>5. CASE r = Rejected(b)
  BY <1>5, ResultIs DEF r
<1>6. CASE t \notin DOMAIN b.escrows /\ r = logCmd(b, b2, cmd, TRUE)
  <2>1. r.ok = TRUE /\ r.bd = b2
    BY <1>6, ResultIs
  <2>2. e \in Escrow /\ e.W = w /\ e.Reserved = cost
    BY <1>3 DEF Escrow
  <2> HIDE DEF e, cost
  <2>3. /\ DOMAIN f = DOMAIN b.escrows \cup {t} /\ f[t] = e
        /\ \A u \in DOMAIN b.escrows : f[u] = b.escrows[u]
        /\ f = [u \in DOMAIN f |-> f[u]]
    BY <1>6 DEF Put
  <2>4. f \in EscrowMaps
    BY <1>1, <2>2, <2>3, EscrowMap
  <2> HIDE DEF f
  <2>5. b.B - cost \in Int /\ b.ReservedTotal + cost \in Int
    BY <1>1, <1>3
  <2>6. /\ b2 \in PlainRecord /\ b2.escrows = f /\ b2.B = b.B - cost
        /\ b2.Consumed = b.Consumed /\ b2.WriteOff = b.WriteOff
    BY <2>4, <2>5 DEF PlainRecord, b2
  <2>7. Spent(b2) = Spent(b)
    BY <2>6 DEF Spent
  <2>8. Gains(b, b2, t, w)
    BY <1>6, <2>2, <2>3, <2>6, <2>7 DEF Gains, cost
  <2> QED
    BY <2>1, <2>8 DEF r
<1> QED
  BY <1>4, <1>5, <1>6

(* A dispatch lights the escrow, if there is one, and moves no money.      *)
LEMMA StartDoes ==
  ASSUME NEW b \in PlainRecord, NEW t \in Tokens, NEW now \in Nat
  PROVE  Lights(b, Start(b, t, now, TRUE).bd, t)
<1> DEFINE r == Start(b, t, now, TRUE)
           e == b.escrows[t]
           b2 == [b EXCEPT !.burstPot = @ - 0, !.escrows[t].Started = TRUE,
                           !.escrows[t].BurstResv = 0]
           cmd == [kind |-> "start", id |-> t, now |-> now]
<1>1. /\ b.BurstEnabled = FALSE /\ b.burstPot = 0 /\ b.escrows \in EscrowMaps
  BY PlainFields
<1>2. CASE t \notin DOMAIN b.escrows
  <2>1. r.bd = b
    BY <1>2 DEF Start, Rejected
  <2> QED
    BY <1>2, <2>1 DEF Lights
<1>3. CASE t \in DOMAIN b.escrows
  <2>1. e \in Escrow /\ DOMAIN b.escrows \subseteq Tokens
    BY <1>1, <1>3, EscrowMap
  <2>2. CASE e.Started
    <3>1. r.bd = b
      BY <1>3, <2>2 DEF Start
    <3>2. e.Started = TRUE
      BY <2>1, <2>2 DEF Escrow
    <3> QED
      BY <3>1, <3>2 DEF Lights
  <2>3. CASE ~e.Started
    <3>1. accrue(b, now) = b
      BY <1>1 DEF accrue
    <3>2. BurstResvFor(b, e.C, e.W) = 0 /\ Burning(b, e.C) = b /\ BurstGate(b, 0)
      BY <1>1 DEF BurstResvFor, Burning, BurstGate
    <3>3. r = logCmd(b, b2, cmd, TRUE)
      BY <1>3, <2>3, <3>1, <3>2 DEF Start
    <3> HIDE DEF r, cmd, b2
    <3>4. r.bd = b2
      BY <3>3, ResultIs
    <3> DEFINE e2 == [e EXCEPT !.Started = TRUE, !.BurstResv = 0]
               f == [b.escrows EXCEPT ![t] = e2]
    <3>5. b2 = [b EXCEPT !.burstPot = 0, !.escrows = f]
      <4>1. b.burstPot - 0 = 0
        BY <1>1
      <4>2. DOMAIN b = DOMAIN b2 /\ "burstPot" \in DOMAIN b /\ "escrows" \in DOMAIN b
        BY DEF PlainRecord, b2
      <4>3. b2.escrows = f
        <5>1. b2.escrows = [b.escrows EXCEPT ![t] = [[b.escrows[t] EXCEPT !.Started = TRUE]
                                                      EXCEPT !.BurstResv = 0]]
          BY <1>3, <4>2 DEF b2
        <5> QED
          BY <5>1
      <4> QED
        BY <4>1, <4>2, <4>3 DEF b2
    <3>6. e2 \in Escrow /\ e2.Started = TRUE /\ e2.W = e.W /\ e2.Reserved = e.Reserved
      BY <2>1 DEF Escrow
    <3> HIDE DEF e2, e
    <3>7. /\ DOMAIN f = DOMAIN b.escrows /\ f[t] = e2
          /\ \A u \in DOMAIN b.escrows \ {t} : f[u] = b.escrows[u]
          /\ f = [u \in DOMAIN f |-> f[u]]
      BY <1>3
    <3>8. f \in EscrowMaps
      BY <1>1, <3>6, <3>7, EscrowMap
    <3> HIDE DEF f
    <3>9. /\ b2 \in PlainRecord /\ b2.escrows = f /\ b2.B = b.B
          /\ b2.Consumed = b.Consumed /\ b2.WriteOff = b.WriteOff
      BY <3>5, <3>8 DEF PlainRecord
    <3>10. Lights(b, b2, t)
      BY <3>6, <3>7, <3>9 DEF Lights, Spent, e
    <3> QED
      BY <3>4, <3>10 DEF r
  <2> QED
    BY <2>2, <2>3
<1> QED
  BY <1>2, <1>3

(* A clamped time is a natural, and the walltime clamps to itself.         *)
LEMMA ClampNat ==
  ASSUME NEW x \in Int, NEW hi \in Nat
  PROVE  Clamp(x, hi) \in Nat /\ Clamp(hi, hi) = hi
  BY DEF Clamp

(* settle closes the escrow and bills the time it is given.                *)
LEMMA SettleDoes ==
  ASSUME NEW b \in PlainRecord, NEW t \in Tokens, NEW rt \in Int, NEW wo \in BOOLEAN,
         NEW now \in Nat, t \in DOMAIN b.escrows
  PROVE  Pays(b, settle(b, t, rt, wo, now), t, Rate * Clamp(rt, b.escrows[t].W))
<1> DEFINE e == b.escrows[t]
           used == Rate * Clamp(rt, e.W)
           b1 == [b EXCEPT !.ReservedTotal = @ - e.Reserved,
                           !.B = @ + (e.Reserved - used),
                           !.WriteOff = IF wo THEN @ + used ELSE @,
                           !.Consumed = IF wo THEN @ ELSE @ + used]
           f == Drop(b.escrows, t)
           b2 == [b1 EXCEPT !.escrows = f]
<1>1. /\ b.BurstEnabled = FALSE /\ b.B \in Int /\ b.ReservedTotal \in Int
      /\ b.Consumed \in Nat /\ b.WriteOff \in Nat /\ b.escrows \in EscrowMaps
  BY PlainFields
<1>2. e \in Escrow /\ DOMAIN b.escrows \subseteq Tokens
  BY <1>1, EscrowMap
<1>3. e.C = Rate /\ e.W \in Nat /\ e.Reserved \in Nat
  BY <1>2 DEF Escrow
<1>4. used \in Nat
  <2>1. Clamp(rt, e.W) \in Nat /\ Rate \in Nat
    BY <1>3, ClampNat, ShimAssumption
  <2> QED
    BY <2>1
<1>5. accrue(b, now) = b
  BY <1>1 DEF accrue
<1>6. Bill(b, e.Reserved, used, wo) = b1
  BY DEF Bill
<1> HIDE DEF used
<1>7. /\ b.B + (e.Reserved - used) \in Int /\ b.ReservedTotal - e.Reserved \in Int
      /\ b.WriteOff + used \in Nat /\ b.Consumed + used \in Nat
  BY <1>1, <1>3, <1>4
<1> HIDE DEF e
<1>8. /\ b1 \in PlainRecord /\ b1.escrows = b.escrows /\ b1.BurstEnabled = FALSE
      /\ b1.B = b.B + (e.Reserved - used)
      /\ b1.WriteOff = IF wo THEN b.WriteOff + used ELSE b.WriteOff
      /\ b1.Consumed = IF wo THEN b.Consumed ELSE b.Consumed + used
  BY <1>1, <1>7 DEF PlainRecord
<1> HIDE DEF b1
<1>9. StopBurning(b1, e.C, e.W, e.Started, e.BurstResv, Clamp(rt, e.W)) = b1
  BY <1>8 DEF StopBurning
<1>10. settle(b, t, rt, wo, now) = b2
  BY <1>3, <1>5, <1>6, <1>8, <1>9 DEF settle, e, used
<1>11. /\ DOMAIN f = DOMAIN b.escrows \ {t}
       /\ \A u \in DOMAIN f : f[u] = b.escrows[u]
       /\ f = [u \in DOMAIN f |-> f[u]]
  BY DEF Drop, Restrict
<1>12. f \in EscrowMaps
  BY <1>1, <1>11, EscrowMap
<1> HIDE DEF f
<1>13. /\ b2 \in PlainRecord /\ b2.escrows = f /\ b2.B = b1.B
       /\ b2.Consumed = b1.Consumed /\ b2.WriteOff = b1.WriteOff
  BY <1>8, <1>12 DEF PlainRecord
<1> HIDE DEF b2
<1>14. Spent(b2) = Spent(b) + used
  BY <1>1, <1>4, <1>8, <1>13 DEF Spent
<1>15. Pays(b, b2, t, used)
  BY <1>4, <1>8, <1>11, <1>13, <1>14 DEF Pays, e
<1> QED
  BY <1>10, <1>15 DEF used, e

(* An exit of a token without an escrow is refused; one with an escrow     *)
(* pays for the time it is given.                                          *)
Exits(b, t, rt, r) ==
  /\ t \notin DOMAIN b.escrows => r.ok = FALSE /\ r.bd = b
  /\ t \in DOMAIN b.escrows =>
       r.ok = TRUE /\ Pays(b, r.bd, t, Rate * Clamp(rt, b.escrows[t].W))

(* Every exit is such an exit.                                             *)
LEMMA ExitDoes ==
  ASSUME NEW b \in PlainRecord, NEW t \in Tokens, NEW rt, NEW wo \in BOOLEAN,
         NEW now \in Nat, NEW cmd, t \in DOMAIN b.escrows => rt \in Int,
         NEW r, r = Settled(b, t, rt, wo, now, cmd, TRUE)
  PROVE  Exits(b, t, rt, r)
<1>1. CASE t \notin DOMAIN b.escrows
  <2>1. r = Rejected(b)
    BY <1>1 DEF Settled
  <2> QED
    BY <1>1, <2>1, ResultIs DEF Exits
<1>2. CASE t \in DOMAIN b.escrows
  <2>1. r = logCmd(b, settle(b, t, rt, wo, now), cmd, TRUE)
    BY <1>2 DEF Settled
  <2>2. r.ok = TRUE /\ r.bd = settle(b, t, rt, wo, now)
    BY <2>1, ResultIs, ZenonT(60)
  <2>3. rt \in Int
    BY <1>2
  <2>4. Pays(b, settle(b, t, rt, wo, now), t, Rate * Clamp(rt, b.escrows[t].W))
    BY <1>2, <2>3, SettleDoes
  <2> QED
    BY <1>2, <2>2, <2>4 DEF Exits
<1> QED
  BY <1>1, <1>2

(* An escrow's fields.                                                     *)
LEMMA EscrowFields ==
  ASSUME NEW b \in PlainRecord, NEW t \in DOMAIN b.escrows
  PROVE  /\ t \in Tokens /\ b.escrows[t] \in Escrow
         /\ b.escrows[t].W \in Nat /\ b.escrows[t].Reserved \in Nat
         /\ b.escrows[t].Started \in BOOLEAN
<1>1. b.escrows \in EscrowMaps
  BY PlainFields
<1>2. t \in Tokens /\ b.escrows[t] \in Escrow
  BY <1>1, EscrowMap
<1> QED
  BY <1>2 DEF Escrow

(* The sweep's cancel of an unstarted escrow refunds all of it.            *)
LEMMA SweepDoes ==
  ASSUME NEW b \in PlainRecord, NEW t \in Tokens, NEW now \in Nat,
         t \in DOMAIN b.escrows, ~b.escrows[t].Started
  PROVE  Pays(b, Cancel(b, t, 0, now, TRUE).bd, t, 0)
<1> DEFINE r == Cancel(b, t, 0, now, TRUE)
           cmd == [kind |-> "cancel", id |-> t, elapsed |-> 0, now |-> now]
           W == b.escrows[t].W
<1> DEFINE wo == FALSE
<1>1. r = Settled(b, t, 0, wo, now, cmd, TRUE)
  BY DEF Cancel
<1>0. wo \in BOOLEAN /\ 0 \in Int
  OBVIOUS
<1> HIDE DEF r, cmd, wo
<1>2. Pays(b, r.bd, t, Rate * Clamp(0, W))
  <2>1. Exits(b, t, 0, r)
    BY <1>0, <1>1, ExitDoes
  <2> QED
    BY <2>1 DEF Exits, W
<1>3. W \in Nat
  BY EscrowFields
<1> HIDE DEF W
<1>4. Clamp(0, W) = 0 /\ Rate * 0 = 0
  BY <1>3, ShimAssumption DEF Clamp
<1> QED
  BY <1>2, <1>4 DEF r

(* What the job's end maps to, on the escrow of a dispatched job.          *)
Priced(end, w) == Rate * (IF end[1] = "timeout" THEN w ELSE Clamp(end[2], w))

(* A SETTLE of each kind pays what the job's end costs.                    *)
LEMMA HandleDoes ==
  ASSUME bd \in PlainRecord, clock \in Nat, NEW t \in Tokens, NEW end \in Ends,
         t \in DOMAIN bd.escrows => bd.escrows[t].Started = TRUE,
         NEW r, r = handleSettle(t, end[1], end[2])
  PROVE  /\ t \notin DOMAIN bd.escrows => r.ok = FALSE /\ r.bd = bd
         /\ t \in DOMAIN bd.escrows =>
              r.ok = TRUE /\ Pays(bd, r.bd, t, Priced(end, bd.escrows[t].W))
<1> DEFINE W == bd.escrows[t].W
           St == bd.escrows[t].Started
           k == end[1]
           rt == end[2]
<1>1. k \in {"complete", "timeout", "cancel", "infrafail"} /\ rt \in Int
  BY ShimAssumption
<1>2. t \in DOMAIN bd.escrows => W \in Nat
  BY EscrowFields
<1>3. t \in DOMAIN bd.escrows => Clamp(W, W) = W
  BY <1>2 DEF Clamp
<1>4. PICK b \in PlainRecord : b = bd
  OBVIOUS
<1>5. PICK now \in Nat : now = clock
  OBVIOUS
<1>6. PICK w : w = W
  OBVIOUS
<1> DEFINE wo == FALSE
           wt == TRUE
<1>0. wo \in BOOLEAN /\ wt \in BOOLEAN
  OBVIOUS
<1> HIDE DEF W, k, rt, wo, wt
<1>7. CASE k = "complete"
  <2>1. r = Complete(bd, t, rt, clock, TRUE)
    BY <1>7 DEF handleSettle, k, rt
  <2>2. r = Settled(b, t, rt, FALSE, now, [kind |-> "complete", id |-> t, runtime |-> rt,
                    now |-> now], TRUE)
    BY <1>4, <1>5, <2>1 DEF Complete
  <2>3. PICK cmd : r = Settled(b, t, rt, wo, now, cmd, TRUE)
    BY <2>2 DEF wo
  <2>4. Exits(b, t, rt, r)
    BY <1>0, <1>1, <2>3, ExitDoes
  <2> QED
    BY <1>4, <1>7, <2>4 DEF Exits, Priced, k, rt
<1>8. CASE k = "timeout"
  <2>1. r = Timeout(bd, t, clock, TRUE)
    BY <1>8 DEF handleSettle, k
  <2>2. r = Settled(b, t, w, FALSE, now, [kind |-> "timeout", id |-> t,
                    now |-> now], TRUE)
    BY <1>4, <1>5, <1>6, <2>1 DEF Timeout, W
  <2>3. PICK cmd : r = Settled(b, t, w, wo, now, cmd, TRUE)
    BY <2>2 DEF wo
  <2>4. t \in DOMAIN b.escrows => w \in Int
    BY <1>2, <1>4, <1>6
  <2>5. Exits(b, t, w, r)
    BY <1>0, <2>3, <2>4, ExitDoes
  <2> QED
    BY <1>3, <1>4, <1>6, <1>8, <2>5 DEF Exits, Priced, k, W
<1>9. CASE k = "cancel"
  <2>1. r = Cancel(bd, t, rt, clock, TRUE)
    BY <1>9 DEF handleSettle, k, rt
  <2>2. PICK el : el = IF St THEN rt ELSE 0
    OBVIOUS
  <2>3. r = Settled(b, t, el, FALSE, now, [kind |-> "cancel", id |-> t, elapsed |-> rt,
                    now |-> now], TRUE)
    BY <1>4, <1>5, <2>1, <2>2 DEF Cancel
  <2>4. PICK cmd : r = Settled(b, t, el, wo, now, cmd, TRUE)
    BY <2>3 DEF wo
  <2>5. t \in DOMAIN b.escrows => el = rt
    BY <1>4, <2>2
  <2>6. Exits(b, t, el, r)
    BY <1>0, <1>1, <2>4, <2>5, ExitDoes
  <2> QED
    BY <1>4, <1>9, <2>5, <2>6 DEF Exits, Priced, k, rt
<1>10. CASE k = "infrafail"
  <2>1. r = InfraFail(bd, t, rt, clock, TRUE)
    BY <1>10 DEF handleSettle, k, rt
  <2>2. b.BillInfraFailures = FALSE
    BY PlainFields
  <2>3. r = Settled(b, t, rt, TRUE, now, [kind |-> "infrafail", id |-> t, elapsed |-> rt,
                    now |-> now], TRUE)
    BY <1>4, <1>5, <2>1, <2>2 DEF InfraFail
  <2>4. PICK cmd : r = Settled(b, t, rt, wt, now, cmd, TRUE)
    BY <2>3 DEF wt
  <2>5. Exits(b, t, rt, r)
    BY <1>0, <1>1, <2>4, ExitDoes
  <2> QED
    BY <1>4, <1>10, <2>5 DEF Exits, Priced, k, rt
<1> QED
  BY <1>1, <1>7, <1>8, <1>9, <1>10

-----------------------------------------------------------------------------
(* The books across a budget call.                                         *)

(* There are finitely many tokens, so the holds have a total.              *)
LEMMA TokensFinite == IsFiniteSet(Tokens)
<1>1. IsFiniteSet(Subs) /\ Len(Transports) \in Int
  BY ShimAssumption
<1>2. IsFiniteSet(1 .. Len(Transports))
  BY <1>1, FS_Interval
<1> QED
  BY <1>1, <1>2, FS_Product DEF Tokens

(* The holds of a budget are a finite family of amounts.                   *)
LEMMA HoldsFamily ==
  ASSUME NEW b \in PlainRecord
  PROVE  /\ Family(HoldsOf(b)) /\ DOMAIN HoldsOf(b) = DOMAIN b.escrows
         /\ Total(HoldsOf(b)) \in Nat
         /\ \A t \in DOMAIN b.escrows : HoldsOf(b)[t] = b.escrows[t].Reserved
<1>1. /\ DOMAIN HoldsOf(b) = DOMAIN b.escrows
      /\ \A t \in DOMAIN b.escrows : HoldsOf(b)[t] = b.escrows[t].Reserved
  BY DEF HoldsOf
<1>2. DOMAIN b.escrows \subseteq Tokens
  BY PlainFields, EscrowMap
<1>3. IsFiniteSet(DOMAIN b.escrows)
  BY <1>2, TokensFinite, FS_Subset
<1>4. \A t \in DOMAIN b.escrows : b.escrows[t].Reserved \in Nat
  BY EscrowFields
<1>5. Family(HoldsOf(b))
  BY <1>1, <1>3, <1>4 DEF Family
<1> QED
  BY <1>1, <1>5, CoinsFinite

(* The bills are a finite family of amounts.                               *)
LEMMA BilledFamily ==
  ASSUME NEW f \in [Tokens -> Nat]
  PROVE  Family(f) /\ Total(f) \in Nat
<1>1. Family(f)
  BY TokensFinite DEF Family
<1> QED
  BY <1>1, CoinsFinite

(* What Call records for a call that spends x on behalf of token t.        *)
Charges(f, g, t, x) == g = [f EXCEPT ![t] = @ + x]

(* A charge raises one token's bill, and the total by as much.             *)
LEMMA BilledMore ==
  ASSUME NEW f \in [Tokens -> Nat], NEW t \in Tokens, NEW x \in Nat,
         NEW g, Charges(f, g, t, x)
  PROVE  /\ g \in [Tokens -> Nat] /\ g[t] = f[t] + x
         /\ \A u \in Tokens \ {t} : g[u] = f[u]
         /\ Total(g) = Total(f) + x
<1>1. f[t] \in Nat /\ f[t] + x \in Nat
  OBVIOUS
<1>2. g \in [Tokens -> Nat] /\ g[t] = f[t] + x /\ \A u \in Tokens \ {t} : g[u] = f[u]
  BY <1>1 DEF Charges
<1>3. Family(f) /\ Total(f) \in Nat
  BY BilledFamily
<1>4. Total(g) = Total(f) - f[t] + g[t]
  <2>1. /\ t \in DOMAIN f /\ DOMAIN g = DOMAIN f /\ g[t] \in Nat
        /\ \A u \in DOMAIN f \ {t} : g[u] = f[u]
    BY <1>1, <1>2
  <2> QED
    BY ONLY <1>3, <2>1, TotalUpdate
<1>5. ASSUME NEW p \in Nat, NEW q \in Nat
      PROVE  p - q + (q + x) = p + x
  OBVIOUS
<1> QED
  BY <1>1, <1>2, <1>3, <1>4, <1>5

(* What was spent is a natural.                                            *)
LEMMA SpentNat ==
  ASSUME NEW b \in PlainRecord
  PROVE  Spent(b) \in Nat
<1>1. b.Consumed \in Nat /\ b.WriteOff \in Nat
  BY PlainFields
<1> QED
  BY <1>1 DEF Spent

(* A new escrow moves its cost from the balance to the holds.              *)
LEMMA GainsBalanced ==
  ASSUME NEW b \in PlainRecord, NEW b2, NEW t \in Tokens, NEW w \in Nat,
         Gains(b, b2, t, w), NEW f, Balanced(b, f)
  PROVE  Balanced(b2, f)
<1> DEFINE h == HoldsOf(b)
           h2 == HoldsOf(b2)
           cost == Rate * w
<1>1. b2 \in PlainRecord /\ b2.B = b.B - cost /\ Spent(b2) = Spent(b)
  BY DEF Gains
<1>2. /\ Family(h2) /\ DOMAIN h2 = DOMAIN b2.escrows /\ Total(h2) \in Nat
      /\ \A u \in DOMAIN b2.escrows : h2[u] = b2.escrows[u].Reserved
  BY <1>1, HoldsFamily
<1>3. /\ DOMAIN h = DOMAIN b.escrows /\ Total(h) \in Nat
      /\ \A u \in DOMAIN b.escrows : h[u] = b.escrows[u].Reserved
  BY HoldsFamily
<1> HIDE DEF h, h2
<1>4. /\ t \in DOMAIN h2 /\ DOMAIN h = DOMAIN h2 \ {t}
      /\ \A u \in DOMAIN h : h[u] = h2[u] /\ h2[t] = cost
  BY <1>2, <1>3 DEF Gains
<1>5. h2[t] = cost
  BY <1>2 DEF Gains
<1>6. Total(h2) = Total(h) + cost
  BY <1>2, <1>4, <1>5, TotalSplit
<1>7. cost \in Nat /\ b.B \in Int /\ Spent(b) \in Nat
  <2>1. Rate \in Nat
    BY ShimAssumption
  <2>2. b.B \in Int
    BY PlainFields
  <2>3. cost \in Nat
    BY <2>1
  <2> QED
    BY <2>2, <2>3, SpentNat
<1> HIDE DEF cost
<1>8. Spent(b) = Total(f) /\ b.B = Opening - Spent(b) - Total(h)
  BY DEF Balanced, h
<1>9. Opening \in Nat
  BY ShimAssumption
<1>10. b2.B = Opening - Spent(b2) - Total(h2)
  BY <1>1, <1>3, <1>6, <1>7, <1>8, <1>9
<1> QED
  BY <1>1, <1>8, <1>10 DEF Balanced, h2

(* A dispatch leaves the books alone.                                      *)
LEMMA LightsBalanced ==
  ASSUME NEW b \in PlainRecord, NEW b2, NEW t \in Tokens, Lights(b, b2, t),
         NEW f, Balanced(b, f)
  PROVE  Balanced(b2, f)
<1>1. b2 \in PlainRecord /\ b2.B = b.B /\ Spent(b2) = Spent(b)
  BY DEF Lights
<1>2. /\ DOMAIN HoldsOf(b2) = DOMAIN HoldsOf(b)
      /\ \A u \in DOMAIN HoldsOf(b2) : HoldsOf(b2)[u] = HoldsOf(b)[u]
  BY <1>1, HoldsFamily DEF Lights
<1>3. Total(HoldsOf(b2)) = Total(HoldsOf(b))
  BY <1>2, TotalSame
<1> QED
  BY <1>1, <1>3 DEF Balanced

(* A settlement moves its bill to the spent, the rest to the balance.      *)
LEMMA PaysBalanced ==
  ASSUME NEW b \in PlainRecord, NEW b2, NEW t \in Tokens, NEW used \in Nat,
         Pays(b, b2, t, used), NEW f \in [Tokens -> Nat], Balanced(b, f),
         NEW g, Charges(f, g, t, used)
  PROVE  Balanced(b2, g)
<1> DEFINE h == HoldsOf(b)
           h2 == HoldsOf(b2)
           held == b.escrows[t].Reserved
<1>1. /\ b2 \in PlainRecord /\ b2.B = b.B + (held - used)
      /\ Spent(b2) = Spent(b) + used /\ t \in DOMAIN b.escrows
  BY DEF Pays
<1>2. /\ DOMAIN h2 = DOMAIN b2.escrows /\ Total(h2) \in Nat
      /\ \A u \in DOMAIN b2.escrows : h2[u] = b2.escrows[u].Reserved
  BY <1>1, HoldsFamily
<1>3. /\ Family(h) /\ DOMAIN h = DOMAIN b.escrows /\ Total(h) \in Nat
      /\ \A u \in DOMAIN b.escrows : h[u] = b.escrows[u].Reserved
  BY HoldsFamily
<1>4. held \in Nat
  BY <1>1, EscrowFields
<1>5. h[t] = held
  BY <1>1, <1>3
<1> HIDE DEF h, h2, held
<1>6. DOMAIN h2 = DOMAIN h \ {t} /\ \A u \in DOMAIN h2 : h2[u] = h[u]
  BY <1>2, <1>3 DEF Pays
<1>7. Total(h) = Total(h2) + held
  BY <1>1, <1>3, <1>5, <1>6, TotalSplit
<1>8. Spent(b) = Total(f) /\ b.B = Opening - Spent(b) - Total(h)
  BY DEF Balanced, h
<1>9. Opening \in Nat /\ Spent(b) \in Nat
  BY ShimAssumption, SpentNat
<1>10. b2.B = Opening - Spent(b2) - Total(h2)
  BY <1>1, <1>2, <1>4, <1>7, <1>8, <1>9
<1>11. Total(g) = Total(f) + used
  BY ONLY BilledMore, t \in Tokens, used \in Nat, f \in [Tokens -> Nat],
          Charges(f, g, t, used)
<1> QED
  BY <1>1, <1>8, <1>10, <1>11 DEF Balanced, h2

-----------------------------------------------------------------------------
(* What a step may leave alone.                                            *)

(* A token names its submission and its attempt.                           *)
LEMMA TokenIs ==
  ASSUME NEW t \in Tokens
  PROVE  t[1] \in Subs /\ t[2] \in 1 .. Len(Transports) /\ t = <<t[1], t[2]>>
  BY DEF Tokens

(* What a job carries is its own last attempt's token.                     *)
LEMMA CarriedAreTokens ==
  ASSUME NEW s \in Subs, Carries(s), NEW t \in Carried(s)
  PROVE  t \in Tokens /\ t = Mine(s) /\ t[1] = s
  BY DEF Carries, Mine, Carried

(* Nothing a token's invariant speaks of changes, but for what may grow.   *)
TokenKept(u) ==
  /\ Sent(u) => Sent(u)'
  /\ u \in Carried(u[1])' <=> u \in Carried(u[1])
  /\ job'[u[1]].w = job[u[1]].w
  /\ job[u[1]].st = "gone" => job'[u[1]].st = "gone" /\ job'[u[1]].end = job[u[1]].end
  /\ u \in inbox' => u \in inbox
  /\ u \in DOMAIN replies' <=> u \in DOMAIN replies
  /\ u \in DOMAIN replies => replies'[u] = replies[u]
  /\ u \in DOMAIN bd'.escrows <=> u \in DOMAIN bd.escrows
  /\ u \in DOMAIN bd.escrows =>
       /\ bd'.escrows[u].W = bd.escrows[u].W
       /\ bd'.escrows[u].Reserved = bd.escrows[u].Reserved
  /\ billed'[u] = billed[u]
  /\ u \in lapsed => u \in lapsed'

(* A token a step leaves alone keeps its invariant.                        *)
LEMMA KeptToken ==
  ASSUME NEW u \in Tokens, TokenInv(u), Paid(u), TokenKept(u)
  PROVE  TokenInv(u)' /\ Paid(u)'
<1>1. Unsent(u)'
  BY DEF TokenInv, Unsent, TokenKept
<1>2. Pending(u)'
  BY DEF TokenInv, Pending, TokenKept
<1>3. Held(u)'
  BY DEF TokenInv, Held, TokenKept
<1>4. Allowed(u)'
  BY DEF TokenInv, Allowed, TokenKept
<1>5. Paid(u)'
  BY DEF Paid, TokenKept, Due
<1> QED
  BY <1>1, <1>2, <1>3, <1>4, <1>5 DEF TokenInv

(* A submission whose plugin and job do not move.                          *)
SubKept(s) == shim'[s] = shim[s] /\ job'[s] = job[s]

(* A submission a step leaves alone carries what it carried.               *)
LEMMA KeptCarries ==
  ASSUME NEW s \in Subs, Carries(s), SubKept(s),
         Mine(s) \in DOMAIN replies' /\ Mine(s) \in Carried(s) =>
           replies'[Mine(s)] = "allow"
  PROVE  Carries(s)'
<1>1. Mine(s)' = Mine(s) /\ Carried(s)' = Carried(s)
  BY DEF Mine, Carried, SubKept
<1> QED
  BY <1>1 DEF Carries, SubKept

(* The binding of a submission, when its job's state stays or ends.        *)
LEMMA KeptBound ==
  ASSUME NEW s \in Subs, Bound(s),
         s \in DOMAIN jobToToken' => s \in DOMAIN jobToToken,
         s \in DOMAIN jobToToken => jobToToken'[s] = jobToToken[s],
         Carried(s)' = Carried(s),
         \/ job'[s] = job[s]
         \/ job[s].st = "running" /\ job'[s].st = "gone" /\ job'[s].end \in Ends,
         s \in DOMAIN jobToToken /\ jobToToken[s] \in DOMAIN bd'.escrows =>
           /\ jobToToken[s] \in DOMAIN bd.escrows
           /\ bd.escrows[jobToToken[s]].Started =>
                bd'.escrows[jobToToken[s]].Started
  PROVE  Bound(s)'
  BY DEF Bound

(* A budget call is charged to the token it is made for.                   *)
LEMMA CallCharges ==
  ASSUME NEW t, NEW b2, NEW x, NEW r, r.bd = b2, Call(t, r),
         Spent(bd) \in Nat, x \in Nat, Spent(b2) = Spent(bd) + x
  PROVE  bd' = b2 /\ Charges(billed, billed', t, x)
<1>1. Spent(b2) - Spent(bd) = x
  OBVIOUS
<1> QED
  BY <1>1 DEF Call, Charges

-----------------------------------------------------------------------------
(* The steps of the plugin and of Slurm: one submission moves, and the     *)
(* daemon's state does not, but for a frame it may be sent.                *)
DaemonStill ==
  UNCHANGED <<bd, clock, up, replies, daemon, billed, lapsed, crashes>>

OwnGood(s) ==
  /\ \A u \in Tokens : u[1] = s => TokenInv(u)' /\ Paid(u)'
  /\ Carries(s)' /\ Bound(s)'

(* Such a step is sound if it is sound for its own submission.             *)
LEMMA SubStep ==
  ASSUME SInv, NEW s \in Subs, DaemonStill, Slurm', inbox' \subseteq Tokens,
         \A x \in Subs \ {s} : SubKept(x),
         \A u \in Tokens : u[1] # s /\ u \in inbox' => u \in inbox,
         OwnGood(s)
  PROVE  SInv'
<1>1. /\ bd' = bd /\ clock' = clock /\ up' = up /\ replies' = replies
      /\ routes' = routes /\ jobToToken' = jobToToken
      /\ billed' = billed /\ lapsed' = lapsed /\ crashes' = crashes
  BY DEF DaemonStill, daemon
<1>2. Typed'
  BY <1>1 DEF SInv, Typed, Daemon
<1>3. Books'
  BY <1>1 DEF SInv, Books
<1>4. ASSUME NEW u \in Tokens  PROVE TokenInv(u)' /\ Paid(u)'
  <2>1. CASE u[1] = s
    BY <2>1 DEF OwnGood
  <2>2. CASE u[1] # s
    <3>1. u[1] \in Subs
      BY TokenIs
    <3>2. shim'[u[1]] = shim[u[1]] /\ job'[u[1]] = job[u[1]]
      BY <2>2, <3>1 DEF SubKept
    <3>3. Sent(u)' = Sent(u) /\ Carried(u[1])' = Carried(u[1])
      BY <3>2 DEF Sent, Carried
    <3>4. TokenKept(u)
      BY <1>1, <2>2, <3>2, <3>3 DEF TokenKept
    <3> QED
      BY <3>4, KeptToken DEF SInv
  <2> QED
    BY <2>1, <2>2
<1>5. ASSUME NEW x \in Subs  PROVE Carries(x)' /\ Bound(x)'
  <2>1. CASE x = s
    BY <2>1 DEF OwnGood
  <2>2. CASE x # s
    <3>1. SubKept(x) /\ Carries(x) /\ Bound(x)
      BY <2>2 DEF SInv
    <3>2. Carries(x)'
      BY <1>1, <3>1, KeptCarries DEF Carries
    <3>3. Carried(x)' = Carried(x) /\ job'[x] = job[x]
      BY <3>1 DEF SubKept, Carried
    <3>4. Bound(x)'
      BY <1>1, <3>1, <3>3 DEF Bound
    <3> QED
      BY <3>2, <3>4
  <2> QED
    BY <2>1, <2>2
<1> QED
  BY <1>2, <1>3, <1>4, <1>5 DEF SInv

(* The plugin's and Slurm's assignments to one submission.                 *)
LEMMA Writes ==
  ASSUME NEW s \in Subs, Slurm, NEW j \in JobRecord, NEW p \in ShimRecord,
         shim' = [shim EXCEPT ![s] = p], job' = [job EXCEPT ![s] = j]
  PROVE  /\ Slurm' /\ shim'[s] = p /\ job'[s] = j
         /\ \A x \in Subs \ {s} : SubKept(x)
<1>1. shim \in [Subs -> ShimRecord] /\ job \in [Subs -> JobRecord]
  BY DEF Slurm
<1> QED
  BY <1>1 DEF Slurm, SubKept

(* Appending a tag adds one member to the tags.                            *)
LEMMA RangeGrows ==
  ASSUME NEW S, NEW c \in Seq(S), NEW x \in S
  PROVE  /\ Range(c \o <<x>>) = Range(c) \cup {x} /\ c \o <<x>> \in Seq(S)
         /\ c \o <<>> = c
<1>1. /\ DOMAIN (c \o <<x>>) = 1 .. (Len(c) + 1) /\ Len(c) \in Nat
      /\ DOMAIN c = 1 .. Len(c)
      /\ \A i \in 1 .. Len(c) : (c \o <<x>>)[i] = c[i]
      /\ (c \o <<x>>)[Len(c) + 1] = x
  OBVIOUS
<1>2. Range(c \o <<x>>) = Range(c) \cup {x}
  <2> DEFINE d == c \o <<x>>
  <2>1. /\ DOMAIN d = 1 .. (Len(c) + 1) /\ \A i \in 1 .. Len(c) : d[i] = c[i]
        /\ d[Len(c) + 1] = x
    BY <1>1
  <2> HIDE DEF d
  <2>2. ASSUME NEW y \in Range(d)  PROVE y \in Range(c) \cup {x}
    <3>1. PICK i \in 1 .. (Len(c) + 1) : y = d[i]
      BY <2>1 DEF Range
    <3>2. CASE i \in 1 .. Len(c)
      BY <1>1, <2>1, <3>1, <3>2 DEF Range
    <3>3. CASE i = Len(c) + 1
      BY <2>1, <3>1, <3>3
    <3> QED
      BY <1>1, <3>2, <3>3
  <2>3. ASSUME NEW y \in Range(c) \cup {x}  PROVE y \in Range(d)
    <3>1. CASE y = x
      <4>1. Len(c) + 1 \in DOMAIN d
        BY <1>1, <2>1
      <4> QED
        BY <2>1, <3>1, <4>1 DEF Range
    <3>2. CASE y \in Range(c)
      <4>1. PICK i \in 1 .. Len(c) : y = c[i]
        BY <1>1, <3>2 DEF Range
      <4>2. i \in DOMAIN d
        BY <1>1, <2>1
      <4> QED
        BY <2>1, <4>1, <4>2 DEF Range
    <3> QED
      BY <3>1, <3>2
  <2> QED
    BY <2>2, <2>3 DEF d
<1> QED
  BY <1>2

(* The state of one submission, named for a step.                          *)
LEMMA SubFields ==
  ASSUME SInv, NEW s \in Subs
  PROVE  /\ Slurm /\ shim[s] \in ShimRecord /\ job[s] \in JobRecord
         /\ shim[s].k \in 0 .. Len(Transports) /\ job[s].w \in Nat
         /\ shim[s] = [pc |-> shim[s].pc, k |-> shim[s].k]
         /\ job[s].comment \in Seq(STRING \cup Tokens)
         /\ Carries(s) /\ Bound(s) /\ Len(Transports) \in Nat \ {0}
<1>1. Slurm /\ Carries(s) /\ Bound(s)
  BY DEF SInv, Typed
<1>2. shim[s] \in ShimRecord /\ job[s] \in JobRecord
  BY <1>1 DEF Slurm
<1> QED
  BY <1>1, <1>2, ShimAssumption DEF ShimRecord, JobRecord

(* A submission none of whose frames was sent has no token anywhere.       *)
LEMMA SubmitStep ==
  ASSUME SInv, NEW s \in Subs, slurm_job_submit(s)
  PROVE  SInv'
<1>0. /\ Slurm /\ shim[s] \in ShimRecord /\ job[s] \in JobRecord
      /\ Carries(s) /\ Bound(s) /\ Len(Transports) \in Nat \ {0}
  BY SubFields
<1>1. shim[s].pc = "new" /\ shim[s].k = 0 /\ job[s].st = "new" /\ Carried(s) = {}
  BY <1>0 DEF slurm_job_submit, Carries
<1>2. PICK w \in Submissions[s].ws : job' = [job EXCEPT ![s].w = w]
  BY DEF slurm_job_submit
<1> DEFINE j == [job[s] EXCEPT !.w = w]
           p == [pc |-> "try", k |-> 1]
<1>3. w \in Nat
  BY ShimAssumption
<1>4. j \in JobRecord /\ j.st = job[s].st /\ j.comment = job[s].comment
  BY <1>0, <1>3 DEF JobRecord
<1>5. p \in ShimRecord
  BY <1>0 DEF ShimRecord
<1>6. job' = [job EXCEPT ![s] = j] /\ shim' = [shim EXCEPT ![s] = p]
  BY <1>2 DEF slurm_job_submit
<1> HIDE DEF j
<1>7. /\ Slurm' /\ shim'[s] = p /\ job'[s] = j
      /\ \A x \in Subs \ {s} : SubKept(x)
  BY <1>0, <1>4, <1>5, <1>6, Writes
<1>8. DaemonStill /\ inbox' = inbox
  BY DEF slurm_job_submit, DaemonStill
<1>9. /\ bd' = bd /\ replies' = replies /\ billed' = billed
      /\ jobToToken' = jobToToken
  BY <1>8 DEF DaemonStill, daemon
<1>10. Carried(s)' = {}
  BY <1>1, <1>4, <1>7 DEF Carried
<1>11. ASSUME NEW u \in Tokens, u[1] = s  PROVE TokenInv(u)' /\ Paid(u)'
  <2>1. TokenInv(u) /\ u[2] \in 1 .. Len(Transports)
    BY TokenIs DEF SInv
  <2>2. ~Sent(u)
    BY <1>0, <1>1, <1>11, <2>1 DEF Sent
  <2>3. /\ u \notin inbox /\ u \notin DOMAIN replies
        /\ u \notin DOMAIN bd.escrows /\ billed[u] = 0
    BY <2>1, <2>2 DEF TokenInv, Unsent
  <2>4. u \notin Carried(u[1])'
    BY <1>10, <1>11
  <2> QED
    BY <1>8, <1>9, <2>3, <2>4
       DEF TokenInv, Paid, Unsent, Pending, Held, Allowed
<1>12. Carries(s)'
  <2>1. job'[s].st = "new" /\ shim'[s].pc = "try" /\ shim'[s].k = 1
    BY <1>1, <1>4, <1>7
  <2> QED
    BY <1>10, <2>1 DEF Carries
<1>13. Bound(s)'
  BY <1>0, <1>1, <1>9 DEF Bound
<1>14. OwnGood(s)
  BY <1>11, <1>12, <1>13 DEF OwnGood
<1>15. inbox' \subseteq Tokens
  BY <1>8 DEF SInv, Typed, Daemon
<1> QED
  BY <1>7, <1>8, <1>14, <1>15, SubStep

(* A frame is sent with a token nobody has seen.                           *)
LEMMA SendStep ==
  ASSUME SInv, NEW s \in Subs, send(s)
  PROVE  SInv'
<1>0. /\ Slurm /\ shim[s] \in ShimRecord /\ job[s] \in JobRecord
      /\ shim[s].k \in 0 .. Len(Transports)
      /\ Carries(s) /\ Bound(s) /\ Len(Transports) \in Nat \ {0}
  BY SubFields
<1> DEFINE p == [shim[s] EXCEPT !.pc = "wait"]
           t == Mine(s)
<1>1. shim[s].pc = "try" /\ job[s].st = "new" /\ Carried(s) = {} /\ shim[s].k # 0
  BY <1>0 DEF send, Carries
<1>2. p \in ShimRecord /\ p.pc = "wait" /\ p.k = shim[s].k
  BY <1>0 DEF ShimRecord
<1>3. job' = job /\ shim' = [shim EXCEPT ![s] = p]
  BY DEF send
<1> HIDE DEF p
<1>4. job' = [job EXCEPT ![s] = job[s]]
  BY <1>0, <1>3 DEF Slurm
<1>5. /\ Slurm' /\ shim'[s] = p /\ job'[s] = job[s]
      /\ \A x \in Subs \ {s} : SubKept(x)
  BY <1>0, <1>2, <1>3, <1>4, Writes
<1>6. DaemonStill /\ inbox' \in {inbox, inbox \cup {t}}
  BY DEF send, DaemonStill, Mine
<1>7. /\ bd' = bd /\ replies' = replies /\ billed' = billed
      /\ jobToToken' = jobToToken /\ lapsed' = lapsed
  BY <1>6 DEF DaemonStill, daemon
<1>8. t \in Tokens /\ t[1] = s /\ t[2] = shim[s].k
  BY <1>0, <1>1 DEF Mine, Tokens
<1> HIDE DEF t
<1>9. Carried(s)' = {}
  BY <1>1, <1>5 DEF Carried
<1>10. ASSUME NEW u \in Tokens, u[1] = s  PROVE TokenInv(u)' /\ Paid(u)'
  <2>1. TokenInv(u) /\ Paid(u) /\ u = <<u[1], u[2]>>
    BY TokenIs DEF SInv
  <2>2. CASE u = t
    <3>1. ~Sent(u)
      BY <1>0, <1>1, <1>8, <2>2 DEF Sent
    <3>2. /\ u \notin DOMAIN replies /\ u \notin DOMAIN bd.escrows /\ billed[u] = 0
      BY <2>1, <3>1 DEF TokenInv, Unsent
    <3>3. Sent(u)'
      BY <1>2, <1>5, <1>8, <2>2 DEF Sent
    <3>4. u \notin Carried(u[1])'
      BY <1>9, <1>10
    <3> QED
      BY <1>7, <3>2, <3>3, <3>4
         DEF TokenInv, Paid, Unsent, Pending, Held, Allowed
  <2>3. CASE u # t
    <3>1. u \in inbox' => u \in inbox
      BY <1>6, <2>3
    <3>2. Sent(u) => Sent(u)'
      BY <1>1, <1>2, <1>5, <1>10 DEF Sent
    <3>3. u \notin Carried(u[1])' /\ u \notin Carried(u[1])
      BY <1>1, <1>9, <1>10
    <3>4. TokenKept(u)
      BY <1>3, <1>7, <3>1, <3>2, <3>3 DEF TokenKept
    <3> QED
      BY <2>1, <3>4, KeptToken
  <2> QED
    BY <2>2, <2>3
<1>11. Carries(s)'
  <2>1. job'[s].st = "new" /\ shim'[s].pc = "wait" /\ shim'[s].k = shim[s].k
    BY <1>1, <1>2, <1>5
  <2> QED
    BY <1>1, <1>9, <2>1 DEF Carries
<1>12. Bound(s)'
  BY <1>0, <1>1, <1>7 DEF Bound
<1>13. OwnGood(s)
  BY <1>10, <1>11, <1>12 DEF OwnGood
<1>14. inbox' \subseteq Tokens
  BY <1>6, <1>8 DEF SInv, Typed, Daemon
<1>15. \A u \in Tokens : u[1] # s /\ u \in inbox' => u \in inbox
  BY <1>6, <1>8
<1> QED
  BY <1>5, <1>6, <1>13, <1>14, <1>15, SubStep

(* The plugin's return, with or without a token.                           *)
LEMMA ReturnDoes ==
  ASSUME SInv, NEW s \in Subs, NEW st \in {"refused", "queued"}, NEW tag,
         Return(s, st, tag),
         \/ tag = <<>>
         \/ tag = <<Mine(s)>> /\ Mine(s) \in Tokens
  PROVE  /\ Slurm' /\ \A x \in Subs \ {s} : SubKept(x)
         /\ shim'[s].pc = "done" /\ shim'[s].k = shim[s].k
         /\ job'[s].st = st /\ job'[s].w = job[s].w /\ job'[s].end = job[s].end
         /\ tag = <<>> => Carried(s)' = Carried(s)
         /\ tag # <<>> => Carried(s)' = Carried(s) \cup {Mine(s)}
<1>0. /\ Slurm /\ shim[s] \in ShimRecord /\ job[s] \in JobRecord
      /\ job[s].comment \in Seq(STRING \cup Tokens)
  BY SubFields
<1> DEFINE p == [shim[s] EXCEPT !.pc = "done"]
           c == job[s].comment \o tag
           j == [job[s] EXCEPT !.st = st, !.comment = c]
<1>1. /\ tag = <<>> => c = job[s].comment
      /\ tag # <<>> => Range(c) = Range(job[s].comment) \cup {Mine(s)}
      /\ c \in Seq(STRING \cup Tokens)
  <2>1. CASE tag = <<>>
    BY <1>0, <2>1
  <2>2. CASE tag = <<Mine(s)>> /\ Mine(s) \in Tokens
    <3>1. PICK m : m = Mine(s)
      OBVIOUS
    <3>2. m \in STRING \cup Tokens
      BY <2>2, <3>1
    <3>3. PICK cc \in Seq(STRING \cup Tokens) : cc = job[s].comment
      BY <1>0
    <3>4. Range(cc \o <<m>>) = Range(cc) \cup {m} /\ cc \o <<m>> \in Seq(STRING \cup Tokens)
      BY <3>2, RangeGrows
    <3>5. tag # <<>>
      BY <2>2
    <3> QED
      BY <2>2, <3>1, <3>3, <3>4, <3>5
  <2> QED
    BY <2>1, <2>2
<1> HIDE DEF c
<1>2. p \in ShimRecord /\ p.pc = "done" /\ p.k = shim[s].k
  BY <1>0 DEF ShimRecord
<1>3. /\ j \in JobRecord /\ j.st = st /\ j.w = job[s].w /\ j.end = job[s].end
      /\ j.comment = c
  BY <1>0, <1>1 DEF JobRecord
<1>4. shim' = [shim EXCEPT ![s] = p]
  BY DEF Return
<1>5. job' = [job EXCEPT ![s] = j]
  BY <1>0 DEF Return, c, Slurm
<1> HIDE DEF p, j
<1>6. /\ Slurm' /\ shim'[s] = p /\ job'[s] = j
      /\ \A x \in Subs \ {s} : SubKept(x)
  BY <1>0, <1>2, <1>3, <1>4, <1>5, Writes
<1>7. Carried(s)' = Range(c) \cap Tokens
  BY <1>3, <1>6 DEF Carried
<1>8. /\ tag = <<>> => Carried(s)' = Carried(s)
      /\ tag # <<>> => Carried(s)' = Carried(s) \cup {Mine(s)}
  <2>1. tag # <<>> => Mine(s) \in Tokens
    OBVIOUS
  <2> QED
    BY <1>1, <1>7, <2>1 DEF Carried
<1> QED
  BY <1>2, <1>3, <1>6, <1>8

(* The plugin moves on while nothing else does: tokens once sent stay      *)
(* sent, and no job carries a token yet.                                   *)
LEMMA NoVerdictStep ==
  ASSUME SInv, NEW s \in Subs, noVerdict(s)
  PROVE  SInv'
<1>0. /\ Slurm /\ shim[s] \in ShimRecord /\ job[s] \in JobRecord
      /\ shim[s].k \in 0 .. Len(Transports)
      /\ Carries(s) /\ Bound(s) /\ Len(Transports) \in Nat \ {0}
  BY SubFields
<1>1. shim[s].pc \in {"try", "wait"} /\ job[s].st = "new" /\ Carried(s) = {} /\ shim[s].k # 0
  BY <1>0 DEF noVerdict, Carries
<1>2. DaemonStill /\ inbox' = inbox
  BY DEF noVerdict, DaemonStill
<1>3. /\ bd' = bd /\ replies' = replies /\ billed' = billed
      /\ jobToToken' = jobToToken /\ lapsed' = lapsed
  BY <1>2 DEF DaemonStill, daemon
<1>4. \/ /\ shim[s].k < Len(Transports) /\ job' = job
         /\ shim' = [shim EXCEPT ![s] = [pc |-> "try", k |-> shim[s].k + 1]]
      \/ Return(s, failMode(s), <<>>)
  BY <1>0 DEF noVerdict, NextTransport, Slurm
<1>5. /\ Slurm' /\ \A x \in Subs \ {s} : SubKept(x)
      /\ Carried(s)' = {} /\ job'[s].w = job[s].w
      /\ Carries(s)' /\ \A u \in Tokens : u[1] = s => (Sent(u) => Sent(u)')
  <2>1. CASE /\ shim[s].k < Len(Transports) /\ job' = job
             /\ shim' = [shim EXCEPT ![s] = [pc |-> "try", k |-> shim[s].k + 1]]
    <3> DEFINE p == [pc |-> "try", k |-> shim[s].k + 1]
    <3>1. p \in ShimRecord /\ p.pc = "try" /\ p.k = shim[s].k + 1
      BY <1>0, <2>1 DEF ShimRecord
    <3>2. job' = [job EXCEPT ![s] = job[s]] /\ shim' = [shim EXCEPT ![s] = p]
      BY <1>0, <2>1 DEF Slurm
    <3> HIDE DEF p
    <3>3. /\ Slurm' /\ shim'[s] = p /\ job'[s] = job[s]
          /\ \A x \in Subs \ {s} : SubKept(x)
      BY <1>0, <3>1, <3>2, Writes
    <3>4. Carried(s)' = {}
      BY <1>1, <3>3 DEF Carried
    <3>5. Carries(s)'
      <4>1. job'[s].st = "new" /\ shim'[s].pc = "try" /\ shim'[s].k # 0
        BY <1>0, <1>1, <3>1, <3>3
      <4> QED
        BY <3>4, <4>1 DEF Carries
    <3>6. ASSUME NEW u \in Tokens, u[1] = s, Sent(u)  PROVE Sent(u)'
      <4>1. u[2] \in Nat /\ shim[s].k \in Nat
        BY <1>0, TokenIs
      <4>2. u[2] <= shim[s].k
        BY <3>6, <4>1 DEF Sent
      <4>3. u[2] < shim'[s].k
        BY <3>1, <3>3, <4>1, <4>2
      <4> QED
        BY <3>6, <4>3 DEF Sent
    <3> QED
      BY <3>3, <3>4, <3>5, <3>6
  <2>2. CASE Return(s, failMode(s), <<>>)
    <3>1. /\ failMode(s) \in {"refused", "queued"}
          /\ Submissions[s].closed => failMode(s) = "refused"
      BY DEF failMode
    <3>2. PICK st \in {"refused", "queued"} : st = failMode(s)
      BY <3>1
    <3>3. Return(s, st, <<>>)
      BY <2>2, <3>2
    <3>4. /\ Slurm' /\ \A x \in Subs \ {s} : SubKept(x)
          /\ shim'[s].pc = "done" /\ shim'[s].k = shim[s].k
          /\ job'[s].st = st /\ job'[s].w = job[s].w
          /\ Carried(s)' = Carried(s)
      BY <3>3, ReturnDoes
    <3>5. Carried(s)' = {}
      BY <1>1, <3>4
    <3>6. Carries(s)'
      BY <1>1, <3>1, <3>2, <3>4, <3>5 DEF Carries
    <3>7. ASSUME NEW u \in Tokens, u[1] = s, Sent(u)  PROVE Sent(u)'
      BY <3>4, <3>7 DEF Sent
    <3> QED
      BY <3>4, <3>5, <3>6, <3>7
  <2> QED
    BY <1>4, <2>1, <2>2
<1>6. ASSUME NEW u \in Tokens, u[1] = s  PROVE TokenInv(u)' /\ Paid(u)'
  <2>1. TokenInv(u) /\ Paid(u)
    BY DEF SInv
  <2>2. TokenKept(u)
    BY <1>1, <1>2, <1>3, <1>5, <1>6 DEF TokenKept
  <2> QED
    BY <2>1, <2>2, KeptToken
<1>7. Bound(s)'
  BY <1>0, <1>1, <1>3 DEF Bound
<1>8. OwnGood(s)
  BY <1>5, <1>6, <1>7 DEF OwnGood
<1>9. inbox' \subseteq Tokens
  BY <1>2 DEF SInv, Typed, Daemon
<1> QED
  BY <1>2, <1>5, <1>8, <1>9, SubStep

(* A verdict is taken: an allowed token is funded or has lapsed.           *)
LEMMA ReceiveStep ==
  ASSUME SInv, NEW s \in Subs, receive(s)
  PROVE  SInv'
<1>0. /\ Slurm /\ shim[s] \in ShimRecord /\ job[s] \in JobRecord
      /\ shim[s].k \in 0 .. Len(Transports)
      /\ Carries(s) /\ Bound(s) /\ Len(Transports) \in Nat \ {0}
  BY SubFields
<1> DEFINE t == Mine(s)
<1>1. /\ shim[s].pc = "wait" /\ job[s].st = "new" /\ Carried(s) = {}
      /\ shim[s].k # 0 /\ t \in DOMAIN replies
  BY <1>0 DEF receive, Carries, Mine
<1>2. DaemonStill /\ inbox' = inbox
  BY DEF receive, DaemonStill
<1>3. /\ bd' = bd /\ replies' = replies /\ billed' = billed
      /\ jobToToken' = jobToToken /\ lapsed' = lapsed
  BY <1>2 DEF DaemonStill, daemon
<1>4. t \in Tokens /\ t[1] = s
  BY <1>0, <1>1 DEF Mine, Tokens
<1>5. \/ replies[t] = "allow" /\ Return(s, "queued", <<t>>)
      \/ Return(s, "refused", <<>>)
  BY DEF receive, Mine
<1>6. /\ Slurm' /\ \A x \in Subs \ {s} : SubKept(x)
      /\ shim'[s].pc = "done" /\ shim'[s].k = shim[s].k /\ job'[s].w = job[s].w
      /\ \/ Carried(s)' = {t} /\ replies[t] = "allow" /\ job'[s].st = "queued"
         \/ Carried(s)' = {} /\ job'[s].st = "refused"
  <2>1. CASE replies[t] = "allow" /\ Return(s, "queued", <<t>>)
    <3>1. "queued" \in {"refused", "queued"} /\ <<t>> # <<>>
      OBVIOUS
    <3>2. PICK tag : tag = <<t>>
      OBVIOUS
    <3>3. Return(s, "queued", tag)
      BY <2>1, <3>2
    <3>4. PICK st \in {"refused", "queued"} : st = "queued"
      BY <3>1
    <3>5. Return(s, st, tag)
      BY <3>3, <3>4
    <3>6. tag # <<>> /\ tag = <<Mine(s)>> /\ Mine(s) \in Tokens
      BY <1>4, <3>1, <3>2
    <3>7. /\ Slurm' /\ \A x \in Subs \ {s} : SubKept(x)
          /\ shim'[s].pc = "done" /\ shim'[s].k = shim[s].k
          /\ job'[s].st = st /\ job'[s].w = job[s].w
          /\ Carried(s)' = Carried(s) \cup {Mine(s)}
      BY <3>5, <3>6, ReturnDoes
    <3> QED
      BY <1>1, <2>1, <3>7, <3>4
  <2>2. CASE Return(s, "refused", <<>>)
    <3>1. /\ Slurm' /\ \A x \in Subs \ {s} : SubKept(x)
          /\ shim'[s].pc = "done" /\ shim'[s].k = shim[s].k
          /\ job'[s].st = "refused" /\ job'[s].w = job[s].w
          /\ Carried(s)' = Carried(s)
      BY <2>2, ReturnDoes
    <3> QED
      BY <1>1, <3>1
  <2> QED
    BY <1>5, <2>1, <2>2
<1> HIDE DEF t
<1>7. Mine(s)' = t
  BY <1>6 DEF Mine, t
<1>8. ASSUME NEW u \in Tokens, u[1] = s  PROVE TokenInv(u)' /\ Paid(u)'
  <2>1. TokenInv(u) /\ Paid(u)
    BY DEF SInv
  <2>2. Sent(u) => Sent(u)'
    BY <1>1, <1>6, <1>8 DEF Sent
  <2>3. u \notin Carried(u[1])
    BY <1>1, <1>8
  <2>4. CASE u \notin Carried(s)'
    <3>1. TokenKept(u)
      BY <1>1, <1>2, <1>3, <1>6, <1>8, <2>2, <2>3, <2>4 DEF TokenKept
    <3> QED
      BY <2>1, <3>1, KeptToken
  <2>5. CASE u \in Carried(s)'
    <3>1. u = t /\ replies[t] = "allow" /\ job'[s].st = "queued"
      BY <1>6, <2>5
    <3>2. u \in DOMAIN bd.escrows \/ u \in lapsed
      BY <1>1, <1>8, <2>1, <3>1 DEF TokenInv, Allowed
    <3>3. u \notin inbox
      BY <1>1, <2>1, <3>1 DEF TokenInv, Pending
    <3>4. ~(billed[u] > 0)
      BY <2>1, <2>3 DEF Paid
    <3>5. Unsent(u)' /\ Pending(u)'
      BY <1>2, <1>3, <2>1, <2>2, <3>3 DEF TokenInv, Unsent, Pending
    <3>6. Held(u)' /\ Allowed(u)'
      BY <1>3, <1>6, <1>8, <2>1, <3>2 DEF TokenInv, Held, Allowed
    <3>7. Paid(u)'
      BY <1>3, <3>4 DEF Paid
    <3> QED
      BY <3>5, <3>6, <3>7 DEF TokenInv
  <2> QED
    BY <2>4, <2>5
<1>9. Carries(s)'
  BY <1>1, <1>3, <1>6, <1>7 DEF Carries
<1>10. Bound(s)'
  BY <1>0, <1>1, <1>3 DEF Bound
<1>11. OwnGood(s)
  BY <1>8, <1>9, <1>10 DEF OwnGood
<1>12. inbox' \subseteq Tokens
  BY <1>2 DEF SInv, Typed, Daemon
<1> QED
  BY <1>2, <1>6, <1>11, <1>12, SubStep

(* Slurm starts or ends a job: what it owes is not asked before it has     *)
(* gone, and nothing is billed before.                                     *)
LEMMA JobStep ==
  ASSUME SInv, NEW s \in Subs, DaemonStill, inbox' = inbox, shim' = shim,
         NEW st, NEW end,
         job' = [job EXCEPT ![s] = [job[s] EXCEPT !.st = st, !.end = end]],
         \/ job[s].st = "queued" /\ st \in {"running", "gone"} /\ end = job[s].end
         \/ job[s].st = "running" /\ st = "gone" /\ end \in Ends
  PROVE  SInv'
<1>0. /\ Slurm /\ shim[s] \in ShimRecord /\ job[s] \in JobRecord
      /\ Carries(s) /\ Bound(s)
  BY SubFields
<1> DEFINE j == [job[s] EXCEPT !.st = st, !.end = end]
<1>1. /\ j \in JobRecord /\ j.st = st /\ j.end = end /\ j.w = job[s].w
      /\ j.comment = job[s].comment
  BY <1>0 DEF JobRecord
<1> HIDE DEF j
<1>2. job' = [job EXCEPT ![s] = j] /\ shim' = [shim EXCEPT ![s] = shim[s]]
  BY <1>0 DEF j, Slurm
<1>3. /\ Slurm' /\ shim'[s] = shim[s] /\ job'[s] = j
      /\ \A x \in Subs \ {s} : SubKept(x)
  BY <1>0, <1>1, <1>2, Writes
<1>4. /\ bd' = bd /\ replies' = replies /\ billed' = billed
      /\ jobToToken' = jobToToken /\ lapsed' = lapsed
  BY DEF DaemonStill, daemon
<1>5. Carried(s)' = Carried(s) /\ Mine(s)' = Mine(s)
  BY <1>1, <1>3 DEF Carried, Mine
<1>6. ASSUME NEW u \in Tokens, u[1] = s  PROVE TokenInv(u)' /\ Paid(u)'
  <2>1. TokenInv(u) /\ Paid(u)
    BY DEF SInv
  <2>2. Sent(u)' = Sent(u)
    BY <1>3, <1>6 DEF Sent
  <2>3. job[s].st # "gone" /\ job'[s].w = job[s].w
    BY <1>1, <1>3
  <2>4. TokenKept(u)
    BY <1>4, <1>5, <1>6, <2>2, <2>3 DEF TokenKept
  <2> QED
    BY <2>1, <2>4, KeptToken
<1>7. Carries(s)'
  BY <1>0, <1>1, <1>3, <1>4, <1>5 DEF Carries
<1>8. Bound(s)'
  BY <1>0, <1>1, <1>3, <1>4, <1>5 DEF Bound
<1>9. OwnGood(s)
  BY <1>6, <1>7, <1>8 DEF OwnGood
<1>10. inbox' \subseteq Tokens
  BY DEF SInv, Typed, Daemon
<1> QED
  BY <1>3, <1>9, <1>10, SubStep

(* Slurm starting a queued job keeps the invariant.                        *)
LEMMA SlurmStartStep ==
  ASSUME SInv, NEW s \in Subs, SlurmStart(s)
  PROVE  SInv'
<1>0. Slurm /\ job[s] \in JobRecord
  BY SubFields
<1> DEFINE j == [job[s] EXCEPT !.st = "running", !.end = job[s].end]
<1>1. j = [job[s] EXCEPT !.st = "running"]
  BY <1>0 DEF JobRecord
<1>2. job' = [job EXCEPT ![s] = j]
  BY <1>1 DEF SlurmStart
<1>3. DaemonStill /\ inbox' = inbox /\ shim' = shim /\ job[s].st = "queued"
  BY DEF SlurmStart, DaemonStill
<1>4. "running" \in {"running", "gone"}
  OBVIOUS
<1> QED
  BY <1>2, <1>3, <1>4, JobStep

(* A job's end, or its removal from the queue, keeps the invariant.        *)
LEMMA SlurmEndStep ==
  ASSUME SInv, NEW s \in Subs, SlurmEnd(s)
  PROVE  SInv'
<1>0. Slurm /\ job[s] \in JobRecord
  BY SubFields
<1>1. DaemonStill /\ inbox' = inbox /\ shim' = shim
  BY DEF SlurmEnd, DaemonStill
<1>2. CASE job[s].st = "queued" /\ job' = [job EXCEPT ![s].st = "gone"]
  <2> DEFINE j == [job[s] EXCEPT !.st = "gone", !.end = job[s].end]
  <2>1. j = [job[s] EXCEPT !.st = "gone"]
    BY <1>0 DEF JobRecord
  <2>2. job' = [job EXCEPT ![s] = j]
    BY <1>2, <2>1
  <2>3. PICK st, end : st = "gone" /\ end = job[s].end
    OBVIOUS
  <2>4. /\ job' = [job EXCEPT ![s] = [job[s] EXCEPT !.st = st, !.end = end]]
        /\ job[s].st = "queued" /\ st \in {"running", "gone"} /\ end = job[s].end
    BY <1>2, <2>2, <2>3
  <2> QED
    BY <1>1, <2>4, JobStep
<1>3. ASSUME NEW end \in Ends, job[s].st = "running",
             job' = [job EXCEPT ![s].st = "gone", ![s].end = end]
      PROVE  SInv'
  <2>1. job' = [job EXCEPT ![s] = [job[s] EXCEPT !.st = "gone", !.end = end]]
    BY <1>0, <1>3 DEF Slurm
  <2>2. PICK st : st = "gone"
    OBVIOUS
  <2>3. /\ job' = [job EXCEPT ![s] = [job[s] EXCEPT !.st = st, !.end = end]]
        /\ job[s].st = "running" /\ st = "gone" /\ end \in Ends
    BY <1>3, <2>1, <2>2
  <2> QED
    BY <1>1, <2>3, JobStep
<1> QED
  BY <1>2, <1>3 DEF SlurmEnd

-----------------------------------------------------------------------------
(* The steps of the daemon: no submission moves.                           *)
LEMMA DaemonStep ==
  ASSUME SInv, shim' = shim, job' = job, Typed', Books',
         \A u \in Tokens : TokenInv(u)' /\ Paid(u)',
         \A s \in Subs : Mine(s) \in DOMAIN replies' /\ Mine(s) \in Carried(s) =>
                           replies'[Mine(s)] = "allow",
         \A s \in Subs : Bound(s)'
  PROVE  SInv'
<1>1. ASSUME NEW s \in Subs  PROVE Carries(s)'
  <2>1. SubKept(s) /\ Carries(s)
    BY DEF SubKept, SInv
  <2> QED
    BY <2>1, KeptCarries
<1> QED
  BY <1>1 DEF SInv

(* A crash cuts connections and empties tables; no money moves.            *)
LEMMA CrashStep ==
  ASSUME SInv, Crash
  PROVE  SInv'
<1>1. /\ bd' = bd /\ clock' = clock /\ shim' = shim /\ job' = job
      /\ billed' = billed /\ lapsed' = lapsed /\ up' = FALSE /\ crashes' = crashes + 1
      /\ inbox' = {} /\ DOMAIN replies' = {} /\ routes' = {} /\ DOMAIN jobToToken' = {}
      /\ replies' = Empty /\ jobToToken' = Empty
  BY DEF Crash, Empty
<1>2. Typed'
  <2>1. crashes' \in 0 .. MaxCrashes
    BY <1>1, ShimAssumption DEF SInv, Typed, Daemon, Crash
  <2> QED
    BY <1>1, <2>1 DEF SInv, Typed, Daemon, Slurm, Empty
<1>3. Books'
  BY <1>1 DEF SInv, Books
<1>4. ASSUME NEW u \in Tokens  PROVE TokenInv(u)' /\ Paid(u)'
  <2>1. TokenInv(u) /\ Paid(u) /\ u[1] \in Subs
    BY TokenIs DEF SInv
  <2>2. Sent(u)' = Sent(u) /\ Carried(u[1])' = Carried(u[1])
    BY <1>1 DEF Sent, Carried
  <2>3. Unsent(u)' /\ Pending(u)' /\ Held(u)' /\ Paid(u)'
    BY <1>1, <2>1, <2>2 DEF TokenInv, Unsent, Pending, Held, Paid
  <2>4. u \in Carried(u[1]) /\ u \in DOMAIN replies => replies[u] = "allow"
    <3>1. Carries(u[1])
      BY <2>1 DEF SInv
    <3> QED
      BY <3>1 DEF Carries
  <2>5. Allowed(u)'
    BY <1>1, <2>1, <2>2, <2>4 DEF TokenInv, Allowed
  <2> QED
    BY <2>3, <2>5 DEF TokenInv
<1>5. \A s \in Subs : Bound(s)'
  BY <1>1 DEF Bound
<1> QED
  BY <1>1, <1>2, <1>3, <1>4, <1>5, DaemonStep

(* Nothing but the clock or the process moves.                             *)
LEMMA IdleStep ==
  ASSUME SInv,
         UNCHANGED <<bd, inbox, replies, daemon, shim, job, billed, lapsed, crashes>>,
         clock' \in 0 .. MaxClock, up' \in BOOLEAN
  PROVE  SInv'
<1>1. /\ bd' = bd /\ shim' = shim /\ job' = job /\ crashes' = crashes
      /\ billed' = billed /\ lapsed' = lapsed /\ inbox' = inbox
      /\ replies' = replies /\ routes' = routes /\ jobToToken' = jobToToken
  BY DEF daemon
<1>2. Typed'
  BY <1>1 DEF SInv, Typed, Daemon, Slurm
<1>3. Books'
  BY <1>1 DEF SInv, Books
<1>4. ASSUME NEW u \in Tokens  PROVE TokenInv(u)' /\ Paid(u)'
  <2>1. TokenInv(u) /\ Paid(u)
    BY DEF SInv
  <2>2. TokenKept(u)
    BY <1>1 DEF TokenKept, Sent, Carried
  <2> QED
    BY <2>1, <2>2, KeptToken
<1>5. ASSUME NEW s \in Subs  PROVE Bound(s)'
  <2>1. Bound(s) /\ Carried(s)' = Carried(s)
    BY <1>1 DEF SInv, Carried
  <2> QED
    BY <1>1, <2>1 DEF Bound
<1>6. \A s \in Subs : Mine(s) \in DOMAIN replies' /\ Mine(s) \in Carried(s) =>
                        replies'[Mine(s)] = "allow"
  BY <1>1 DEF SInv, Carries
<1> QED
  BY <1>1, <1>2, <1>3, <1>4, <1>5, <1>6, DaemonStep

(* The clock, a restart and a stuttering step keep the invariant.          *)
LEMMA TickStep ==
  ASSUME SInv, Tick \/ Restart \/ UNCHANGED vars
  PROVE  SInv'
<1>1. clock \in 0 .. MaxClock /\ up \in BOOLEAN /\ MaxClock \in Nat
  BY ShimAssumption DEF SInv, Typed, Daemon
<1>2. CASE Tick
  <2>1. clock' \in 0 .. MaxClock /\ up' \in BOOLEAN
    BY <1>1, <1>2 DEF Tick
  <2> QED
    BY <1>2, <2>1, IdleStep DEF Tick
<1>3. CASE Restart
  <2>1. clock' \in 0 .. MaxClock /\ up' \in BOOLEAN
    BY <1>1, <1>3 DEF Restart
  <2> QED
    BY <1>3, <2>1, IdleStep DEF Restart
<1>4. CASE UNCHANGED vars
  <2>1. clock' \in 0 .. MaxClock /\ up' \in BOOLEAN
    BY <1>1, <1>4 DEF vars
  <2> QED
    BY <1>4, <2>1, IdleStep DEF vars
<1> QED
  BY <1>2, <1>3, <1>4

(* A budget call on behalf of t leaves every other token as it was.        *)
EscrowKept(u) ==
  /\ u \in DOMAIN bd'.escrows <=> u \in DOMAIN bd.escrows
  /\ u \in DOMAIN bd.escrows =>
       /\ bd'.escrows[u].W = bd.escrows[u].W
       /\ bd'.escrows[u].Reserved = bd.escrows[u].Reserved

(* So those tokens keep their invariant.                                   *)
LEMMA OthersKept ==
  ASSUME SInv, NEW t \in Tokens, NEW x \in Nat, shim' = shim, job' = job,
         Charges(billed, billed', t, x), lapsed \subseteq lapsed',
         inbox' \subseteq inbox,
         NEW u \in Tokens, u # t, EscrowKept(u),
         u \in DOMAIN replies' <=> u \in DOMAIN replies,
         u \in DOMAIN replies => replies'[u] = replies[u]
  PROVE  TokenInv(u)' /\ Paid(u)'
<1>1. TokenInv(u) /\ Paid(u) /\ billed \in [Tokens -> Nat]
  BY DEF SInv, Typed
<1>2. billed'[u] = billed[u]
  BY <1>1 DEF Charges
<1>3. Sent(u)' = Sent(u) /\ Carried(u[1])' = Carried(u[1])
  BY DEF Sent, Carried
<1>4. TokenKept(u)
  BY <1>2, <1>3 DEF TokenKept, EscrowKept
<1> QED
  BY <1>1, <1>4, KeptToken

(* The gate: a frame is read once, and its token is escrowed or refused.   *)
LEMMA GateStep ==
  ASSUME SInv, NEW t \in Tokens, handleGate(t)
  PROVE  SInv'
<1>0. /\ bd \in PlainRecord /\ billed \in [Tokens -> Nat] /\ Balanced(bd, billed)
      /\ Daemon /\ Slurm /\ t[1] \in Subs /\ TokenInv(t) /\ Paid(t)
  BY TokenIs DEF SInv, Typed, Books
<1>1. /\ up /\ t \in inbox /\ inbox' = inbox \ {t}
      /\ clock' = clock /\ up' = up /\ jobToToken' = jobToToken /\ shim' = shim
      /\ job' = job /\ lapsed' = lapsed /\ crashes' = crashes
  BY DEF handleGate
<1>2. PICK w \in Nat : w = job[t[1]].w
  BY <1>0, SubFields
<1>3. PICK now \in Nat : now = clock
  BY <1>0, ShimAssumption DEF Daemon
<1>4. PICK r : r = SubmitAt(bd, t, 0, w, now, TRUE)
  OBVIOUS
<1>5. /\ Call(t, r)
      /\ routes' = IF r.ok THEN routes \cup {t} ELSE routes
      /\ replies' = Put(replies, t, IF r.ok THEN "allow" ELSE "reject")
  BY <1>2, <1>3, <1>4 DEF handleGate
<1>6. \/ r.ok = FALSE /\ r.bd = bd
      \/ r.ok = TRUE /\ Gains(bd, r.bd, t, w)
  <2>1. PICK b \in PlainRecord : b = bd
    BY <1>0
  <2>2. r = SubmitAt(b, t, 0, w, now, TRUE)
    BY <1>4, <2>1
  <2>3. \/ r.ok = FALSE /\ r.bd = b
        \/ r.ok = TRUE /\ Gains(b, r.bd, t, w)
    BY <2>2, SubmitDoes
  <2> QED
    BY <2>1, <2>3
<1>7. Spent(bd) \in Nat /\ Spent(r.bd) = Spent(bd) + 0
  BY <1>0, <1>6, SpentNat DEF Gains
<1>8. bd' = r.bd /\ Charges(billed, billed', t, 0)
  BY <1>5, <1>7, CallCharges
<1>9. billed' = billed
  BY <1>0, <1>8 DEF Charges
<1>10. /\ t \notin DOMAIN bd.escrows /\ t \notin DOMAIN replies
       /\ t \notin Carried(t[1]) /\ billed[t] = 0 /\ Sent(t)
  BY <1>0, <1>1 DEF TokenInv, Pending, Unsent
<1>11. /\ DOMAIN replies' = DOMAIN replies \cup {t}
       /\ replies' = [x \in DOMAIN replies' |-> replies'[x]]
       /\ \A x \in DOMAIN replies : x # t => replies'[x] = replies[x]
       /\ replies'[t] = IF r.ok THEN "allow" ELSE "reject"
  BY <1>5 DEF Put
<1>12. Typed'
  <2>1. bd' \in PlainRecord
    BY <1>0, <1>6, <1>8 DEF Gains
  <2>2. routes' \subseteq Tokens
    BY <1>0, <1>5 DEF Daemon
  <2>3. \A x \in DOMAIN replies' : replies'[x] \in {"allow", "reject"}
    BY <1>0, <1>11 DEF Daemon
  <2>4. Daemon'
    BY <1>0, <1>1, <1>11, <2>2, <2>3 DEF Daemon
  <2>5. Slurm'
    BY <1>0, <1>1 DEF Slurm
  <2> QED
    BY <1>0, <1>9, <2>1, <2>4, <2>5 DEF Typed
<1>13. Books'
  <2>1. Balanced(r.bd, billed)
    BY <1>0, <1>6, GainsBalanced
  <2> QED
    BY <1>8, <1>9, <2>1 DEF Books
<1>14. ASSUME NEW u \in Tokens  PROVE TokenInv(u)' /\ Paid(u)'
  <2>1. CASE u # t
    <3>1. EscrowKept(u)
      BY <1>6, <1>8, <2>1 DEF EscrowKept, Gains
    <3> QED
      BY <1>1, <1>8, <1>11, <2>1, <3>1, OthersKept
  <2>2. CASE u = t
    <3>1. Carried(u[1])' = Carried(u[1]) /\ Sent(u)' = Sent(u)
      BY <1>1 DEF Carried, Sent
    <3>2. Unsent(u)' /\ Pending(u)'
      BY <1>1, <1>10, <2>2, <3>1 DEF Unsent, Pending
    <3>3. Paid(u)'
      BY <1>9, <1>10, <2>2 DEF Paid
    <3>4. Held(u)'
      BY <1>1, <1>2, <1>6, <1>8, <1>9, <1>10, <2>2 DEF Held, Gains
    <3>5. Allowed(u)'
      BY <1>6, <1>8, <1>11, <2>2 DEF Allowed, Gains
    <3> QED
      BY <3>2, <3>3, <3>4, <3>5 DEF TokenInv
  <2> QED
    BY <2>1, <2>2
<1>15. ASSUME NEW s \in Subs
       PROVE  /\ Mine(s) \in DOMAIN replies' /\ Mine(s) \in Carried(s) =>
                   replies'[Mine(s)] = "allow"
              /\ Bound(s)'
  <2>1. Carries(s) /\ Bound(s) /\ Carried(s)' = Carried(s)
    BY <1>1 DEF SInv, Carried
  <2>2. t \notin Carried(s)
    BY <1>10, <2>1, CarriedAreTokens
  <2>3. Mine(s) \in Carried(s) => Mine(s) # t
    BY <2>2
  <2>4. Mine(s) \in DOMAIN replies' /\ Mine(s) \in Carried(s) =>
          replies'[Mine(s)] = "allow"
    BY <1>11, <2>1, <2>3 DEF Carries
  <2>5. Bound(s)'
    <3>1. SUFFICES ASSUME s \in DOMAIN jobToToken  PROVE Bound(s)'
      BY <1>1 DEF Bound
    <3>2. PICK v : v = jobToToken[s]
      OBVIOUS
    <3>3. v \in Carried(s) /\ v # t
      BY <2>1, <2>2, <3>1, <3>2 DEF Bound
    <3>4. v \in DOMAIN bd'.escrows =>
            v \in DOMAIN bd.escrows /\ bd'.escrows[v] = bd.escrows[v]
      BY <1>6, <1>8, <3>3 DEF Gains
    <3> QED
      BY <1>1, <2>1, <3>2, <3>4 DEF Bound
  <2> QED
    BY <2>4, <2>5
<1> QED
  BY <1>1, <1>12, <1>13, <1>14, <1>15, DaemonStep

(* A settlement leaves the books in order.                                 *)
LEMMA PaidBooks ==
  ASSUME bd \in PlainRecord, billed \in [Tokens -> Nat], Balanced(bd, billed),
         NEW t \in Tokens, NEW used \in Nat, Pays(bd, bd', t, used),
         Charges(billed, billed', t, used)
  PROVE  Books'
<1>1. PICK b \in PlainRecord : b = bd
  OBVIOUS
<1>2. PICK f \in [Tokens -> Nat] : f = billed
  OBVIOUS
<1>3. PICK b2 : b2 = bd'
  OBVIOUS
<1>4. PICK g : g = billed'
  OBVIOUS
<1>5. Pays(b, b2, t, used) /\ Balanced(b, f) /\ Charges(f, g, t, used)
  BY <1>1, <1>2, <1>3, <1>4
<1>6. Balanced(b2, g)
  BY <1>5, PaysBalanced
<1> QED
  BY <1>3, <1>4, <1>6 DEF Books

(* The sweep: an escrow nobody bound is refunded whole, and marked.        *)
LEMMA SweepStep ==
  ASSUME SInv, NEW t \in Tokens, SweepUnbound(t)
  PROVE  SInv'
<1>0. /\ bd \in PlainRecord /\ billed \in [Tokens -> Nat] /\ Balanced(bd, billed)
      /\ Daemon /\ Slurm /\ t[1] \in Subs /\ TokenInv(t) /\ Paid(t)
  BY TokenIs DEF SInv, Typed, Books
<1>1. /\ t \in DOMAIN bd.escrows /\ ~bd.escrows[t].Started
      /\ lapsed' = lapsed \cup {t} /\ inbox' = inbox /\ replies' = replies
      /\ routes' = routes
      /\ clock' = clock /\ up' = up /\ jobToToken' = jobToToken /\ shim' = shim
      /\ job' = job /\ crashes' = crashes
  BY DEF SweepUnbound, daemon
<1>2. PICK now \in Nat : now = clock
  BY <1>0, ShimAssumption DEF Daemon
<1>3. PICK r : r = Cancel(bd, t, 0, now, TRUE)
  OBVIOUS
<1>4. Call(t, r)
  BY <1>2, <1>3 DEF SweepUnbound
<1>5. Pays(bd, r.bd, t, 0)
  <2>1. PICK b \in PlainRecord : b = bd
    BY <1>0
  <2>2. Pays(b, Cancel(b, t, 0, now, TRUE).bd, t, 0)
    BY <1>1, <2>1, SweepDoes
  <2> QED
    BY <1>3, <2>1, <2>2
<1>6. Spent(bd) \in Nat /\ Spent(r.bd) = Spent(bd) + 0
  BY <1>0, <1>5, SpentNat DEF Pays
<1>7. bd' = r.bd /\ Charges(billed, billed', t, 0)
  BY <1>4, <1>6, CallCharges
<1>8. billed' = billed
  BY <1>0, <1>7 DEF Charges
<1>9. Typed'
  <2>1. bd' \in PlainRecord
    BY <1>5, <1>7 DEF Pays
  <2>2. Daemon' /\ Slurm'
    BY <1>0, <1>1 DEF Daemon, Slurm
  <2> QED
    BY <1>0, <1>8, <2>1, <2>2 DEF Typed
<1>10. Books'
  BY <1>0, <1>5, <1>7, PaidBooks
<1>11. ASSUME NEW u \in Tokens  PROVE TokenInv(u)' /\ Paid(u)'
  <2>1. CASE u # t
    <3>1. EscrowKept(u)
      BY <1>5, <1>7, <2>1 DEF EscrowKept, Pays
    <3> QED
      BY <1>1, <1>7, <2>1, <3>1, OthersKept
  <2>2. CASE u = t
    <3>1. Carried(u[1])' = Carried(u[1]) /\ Sent(u)' = Sent(u)
      BY <1>1 DEF Carried, Sent
    <3>2. u \notin DOMAIN bd'.escrows
      BY <1>5, <1>7, <2>2 DEF Pays
    <3>3. Unsent(u)' /\ Pending(u)' /\ Held(u)' /\ Allowed(u)'
      BY <1>0, <1>1, <1>8, <2>2, <3>1, <3>2
         DEF TokenInv, Unsent, Pending, Held, Allowed
    <3>4. Paid(u)'
      BY <1>0, <1>1, <1>8, <2>2, <3>1 DEF Paid
    <3> QED
      BY <3>3, <3>4 DEF TokenInv
  <2> QED
    BY <2>1, <2>2
<1>12. ASSUME NEW s \in Subs
       PROVE  /\ Mine(s) \in DOMAIN replies' /\ Mine(s) \in Carried(s) =>
                   replies'[Mine(s)] = "allow"
              /\ Bound(s)'
  <2>1. Carries(s) /\ Bound(s) /\ Carried(s)' = Carried(s)
    BY <1>1 DEF SInv, Carried
  <2>2. \A v \in DOMAIN bd'.escrows :
          v \in DOMAIN bd.escrows /\ bd'.escrows[v] = bd.escrows[v]
    BY <1>5, <1>7 DEF Pays
  <2>3. Bound(s)'
    BY <1>1, <2>1, <2>2 DEF Bound
  <2> QED
    BY <1>1, <2>1, <2>3 DEF Carries
<1> QED
  BY <1>1, <1>9, <1>10, <1>11, <1>12, DaemonStep

(* The prolog binds a running job to the one token it carries.             *)
LEMMA PrologStep ==
  ASSUME SInv, NEW s \in Subs, prolog(s)
  PROVE  SInv'
<1> DEFINE t == Stamped(s)
<1>0. /\ bd \in PlainRecord /\ billed \in [Tokens -> Nat] /\ Balanced(bd, billed)
      /\ Daemon /\ Slurm
  BY DEF SInv, Typed, Books
<1>1. /\ job[s].st = "running" /\ t \in routes
      /\ jobToToken' = Put(jobToToken, s, t)
      /\ lapsed' = lapsed /\ inbox' = inbox /\ replies' = replies
      /\ routes' = routes /\ clock' = clock /\ up' = up /\ shim' = shim
      /\ job' = job /\ crashes' = crashes
  BY DEF prolog
<1>2. t \in Tokens
  BY <1>0, <1>1 DEF Daemon
<1>3. t \in Carried(s)
  <2>1. job[s].comment \in Seq(STRING \cup Tokens)
    BY SubFields
  <2>2. t # None
    <3>1. PICK v \in Tokens : v = t
      BY <1>2
    <3>2. v = <<v[1], v[2]>>
      BY TokenIs
    <3>3. <<v[1], v[2]>> # <<>>
      OBVIOUS
    <3> QED
      BY <3>1, <3>2, <3>3 DEF None
  <2>3. job[s].comment # <<>> /\ t = job[s].comment[1]
    BY <2>2 DEF Stamped
  <2>4. 1 \in DOMAIN job[s].comment
    BY <2>1, <2>3
  <2>5. t \in Range(job[s].comment)
    BY <2>3, <2>4 DEF Range
  <2> QED
    BY <1>2, <2>5 DEF Carried
<1>4. PICK now \in Nat : now = clock
  BY <1>0, ShimAssumption DEF Daemon
<1> HIDE DEF t
<1>5. PICK v \in Tokens : v = t
  BY <1>2
<1>6. PICK r : r = Start(bd, v, now, TRUE)
  OBVIOUS
<1>7. Call(v, r)
  BY <1>4, <1>5, <1>6 DEF prolog, t
<1>8. Lights(bd, r.bd, v)
  <2>1. PICK b \in PlainRecord : b = bd
    BY <1>0
  <2>2. Lights(b, Start(b, v, now, TRUE).bd, v)
    BY StartDoes
  <2> QED
    BY <1>6, <2>1, <2>2
<1>9. Spent(bd) \in Nat /\ Spent(r.bd) = Spent(bd) + 0
  BY <1>0, <1>8, SpentNat DEF Lights
<1>10. bd' = r.bd /\ Charges(billed, billed', v, 0)
  BY <1>7, <1>9, CallCharges
<1>11. billed' = billed
  BY <1>0, <1>10 DEF Charges
<1>12. /\ DOMAIN jobToToken' = DOMAIN jobToToken \cup {s}
       /\ jobToToken' = [x \in DOMAIN jobToToken' |-> jobToToken'[x]]
       /\ jobToToken'[s] = v
       /\ \A x \in DOMAIN jobToToken : x # s => jobToToken'[x] = jobToToken[x]
  BY <1>1, <1>5 DEF Put
<1>13. Typed'
  <2>1. bd' \in PlainRecord
    BY <1>8, <1>10 DEF Lights
  <2>2. Daemon'
    BY <1>0, <1>1, <1>12 DEF Daemon
  <2>3. Slurm'
    BY <1>0, <1>1 DEF Slurm
  <2> QED
    BY <1>0, <1>11, <2>1, <2>2, <2>3 DEF Typed
<1>14. Books'
  <2>1. PICK b \in PlainRecord : b = bd
    BY <1>0
  <2>2. Balanced(b, billed) /\ Lights(b, bd', v)
    BY <1>0, <1>8, <1>10, <2>1
  <2>3. PICK b2, f : b2 = bd' /\ f = billed
    OBVIOUS
  <2>4. Balanced(b2, f)
    BY <2>2, <2>3, LightsBalanced
  <2> QED
    BY <1>11, <2>3, <2>4 DEF Books
<1>15. \A u \in DOMAIN bd.escrows : EscrowKept(u)
  BY <1>8, <1>10 DEF EscrowKept, Lights
<1>16. \A u \in Tokens : EscrowKept(u)
  BY <1>8, <1>10, <1>15 DEF EscrowKept, Lights
<1>17. ASSUME NEW u \in Tokens  PROVE TokenInv(u)' /\ Paid(u)'
  <2>1. TokenInv(u) /\ Paid(u)
    BY DEF SInv
  <2>2. TokenKept(u)
    BY <1>1, <1>11, <1>16 DEF TokenKept, EscrowKept, Sent, Carried
  <2> QED
    BY <2>1, <2>2, KeptToken
<1>18. \A u \in DOMAIN bd.escrows :
         u = v \/ bd.escrows[u].Started => bd'.escrows[u].Started
  BY <1>8, <1>10 DEF Lights
<1>19. DOMAIN bd'.escrows = DOMAIN bd.escrows
  BY <1>8, <1>10 DEF Lights
<1>20. ASSUME NEW x \in Subs
       PROVE  /\ Mine(x) \in DOMAIN replies' /\ Mine(x) \in Carried(x) =>
                   replies'[Mine(x)] = "allow"
              /\ Bound(x)'
  <2>1. Carries(x) /\ Bound(x) /\ Carried(x)' = Carried(x)
    BY <1>1 DEF SInv, Carried
  <2>2. CASE x = s
    BY <1>1, <1>3, <1>5, <1>12, <1>18, <1>19, <2>1, <2>2 DEF Bound, Carries
  <2>3. CASE x # s
    <3>1. Bound(x)'
      BY <1>1, <1>12, <1>18, <1>19, <2>1, <2>3 DEF Bound
    <3> QED
      BY <1>1, <2>1, <3>1 DEF Carries
  <2> QED
    BY <2>2, <2>3
<1> QED
  BY <1>1, <1>13, <1>14, <1>17, <1>20, DaemonStep

(* The completion hook: a bound job pays what it ran, and its routing is   *)
(* dropped, or the token's escrow is gone and nothing happens.             *)
LEMMA JobcompStep ==
  ASSUME SInv, NEW s \in Subs, jobcomp(s)
  PROVE  SInv'
<1>0. /\ bd \in PlainRecord /\ billed \in [Tokens -> Nat] /\ Balanced(bd, billed)
      /\ Daemon /\ Slurm /\ Carries(s) /\ Bound(s)
  BY DEF SInv, Typed, Books
<1>1. /\ job[s].st = "gone" /\ s \in DOMAIN jobToToken
      /\ lapsed' = lapsed /\ inbox' = inbox /\ replies' = replies
      /\ clock' = clock /\ up' = up /\ shim' = shim
      /\ job' = job /\ crashes' = crashes
  BY DEF jobcomp
<1>2. PICK t : t = jobToToken[s]
  OBVIOUS
<1>3. t \in Carried(s) /\ job[s].end \in Ends
  BY <1>0, <1>1, <1>2 DEF Bound
<1>4. t \in Tokens /\ t[1] = s
  BY <1>0, <1>3, CarriedAreTokens
<1>5. t \in DOMAIN bd.escrows => bd.escrows[t].Started = TRUE
  BY <1>0, <1>1, <1>2, EscrowFields DEF Bound
<1>6. PICK end \in Ends : end = job[s].end
  BY <1>3
<1>7. PICK r : r = handleSettle(t, end[1], end[2])
  OBVIOUS
<1>8. /\ Call(t, r)
      /\ routes' = IF r.ok THEN routes \ {t} ELSE routes
      /\ jobToToken' = IF r.ok THEN Drop(jobToToken, s) ELSE jobToToken
  BY <1>2, <1>6, <1>7 DEF jobcomp
<1>9. TokenInv(t) /\ Paid(t)
  BY <1>4 DEF SInv
<1>10. clock \in Nat
  BY <1>0, ShimAssumption DEF Daemon
<1>11. /\ t \notin DOMAIN bd.escrows => r.ok = FALSE /\ r.bd = bd
       /\ t \in DOMAIN bd.escrows =>
            r.ok = TRUE /\ Pays(bd, r.bd, t, Priced(end, bd.escrows[t].W))
  BY <1>0, <1>4, <1>5, <1>7, <1>10, HandleDoes
<1>12. /\ DOMAIN jobToToken' \subseteq DOMAIN jobToToken
       /\ jobToToken' = [x \in DOMAIN jobToToken' |-> jobToToken'[x]]
       /\ \A x \in DOMAIN jobToToken' : jobToToken'[x] = jobToToken[x]
  BY <1>0, <1>8 DEF Drop, Restrict, Daemon
<1>13. ASSUME bd' \in PlainRecord, billed' \in [Tokens -> Nat]  PROVE Typed'
  <2>1. routes' \subseteq Tokens
    BY <1>0, <1>8 DEF Daemon
  <2>2. Daemon'
    BY <1>0, <1>1, <1>12, <2>1 DEF Daemon
  <2>3. Slurm'
    BY <1>0, <1>1 DEF Slurm
  <2> QED
    BY <1>13, <2>2, <2>3 DEF Typed
<1>14. ASSUME \A v \in DOMAIN bd'.escrows :
                v \in DOMAIN bd.escrows /\ bd'.escrows[v] = bd.escrows[v],
              NEW x \in Subs
       PROVE  /\ Mine(x) \in DOMAIN replies' /\ Mine(x) \in Carried(x) =>
                   replies'[Mine(x)] = "allow"
              /\ Bound(x)'
  <2>1. Carries(x) /\ Bound(x) /\ Carried(x)' = Carried(x)
    BY <1>1 DEF SInv, Carried
  <2>2. Bound(x)'
    BY <1>1, <1>12, <1>14, <2>1 DEF Bound
  <2> QED
    BY <1>1, <2>1, <2>2 DEF Carries
<1>15. CASE t \notin DOMAIN bd.escrows
  <2>1. r.bd = bd /\ Spent(bd) \in Nat /\ Spent(r.bd) = Spent(bd) + 0
    BY <1>0, <1>11, <1>15, SpentNat
  <2>2. bd' = r.bd /\ Charges(billed, billed', t, 0)
    BY <1>8, <2>1, CallCharges
  <2>3. billed' = billed /\ bd' = bd
    BY <1>0, <2>1, <2>2 DEF Charges
  <2>4. Typed' /\ Books'
    BY <1>0, <1>13, <2>3 DEF Books
  <2>5. ASSUME NEW u \in Tokens  PROVE TokenInv(u)' /\ Paid(u)'
    <3>1. TokenInv(u) /\ Paid(u)
      BY DEF SInv
    <3>2. TokenKept(u)
      BY <1>1, <2>3 DEF TokenKept, Sent, Carried
    <3> QED
      BY <3>1, <3>2, KeptToken
  <2>6. \A v \in DOMAIN bd'.escrows :
          v \in DOMAIN bd.escrows /\ bd'.escrows[v] = bd.escrows[v]
    BY <2>3
  <2> QED
    BY <1>1, <1>14, <2>4, <2>5, <2>6, DaemonStep
<1>16. CASE t \in DOMAIN bd.escrows
  <2>1. bd.escrows[t].W = job[s].w /\ billed[t] = 0
    BY <1>4, <1>9, <1>16 DEF TokenInv, Held
  <2>2. PICK used : used = Priced(end, bd.escrows[t].W)
    OBVIOUS
  <2>3. used = Due(job[s])
    BY <1>6, <2>1, <2>2 DEF Priced, Due
  <2>4. Pays(bd, r.bd, t, used) /\ used \in Nat
    BY <1>11, <1>16, <2>2 DEF Pays
  <2>5. Spent(bd) \in Nat /\ Spent(r.bd) = Spent(bd) + used
    BY <1>0, <2>4, SpentNat DEF Pays
  <2>6. bd' = r.bd /\ Charges(billed, billed', t, used)
    BY <1>8, <2>4, <2>5, CallCharges
  <2>7. /\ billed' \in [Tokens -> Nat] /\ billed'[t] = used
    BY <1>0, <1>4, <2>1, <2>4, <2>6 DEF Charges
  <2>8. Books'
    BY <1>0, <1>4, <2>4, <2>6, PaidBooks
  <2>9. bd' \in PlainRecord
    BY <2>4, <2>6 DEF Pays
  <2>10. ASSUME NEW u \in Tokens  PROVE TokenInv(u)' /\ Paid(u)'
    <3>1. CASE u # t
      <4>1. EscrowKept(u)
        BY <2>4, <2>6, <3>1 DEF EscrowKept, Pays
      <4> QED
        BY <1>1, <1>4, <2>4, <2>6, <3>1, <4>1, OthersKept
    <3>2. CASE u = t
      <4>1. Carried(u[1])' = Carried(u[1]) /\ Sent(u)' = Sent(u)
        BY <1>1 DEF Carried, Sent
      <4>2. u \notin DOMAIN bd'.escrows
        BY <2>4, <2>6, <3>2 DEF Pays
      <4>3. Sent(u) /\ u \notin inbox
        BY <1>9, <1>16, <3>2 DEF TokenInv, Unsent, Pending
      <4>4. Unsent(u)' /\ Pending(u)' /\ Held(u)' /\ Allowed(u)'
        BY <1>1, <1>4, <3>2, <4>1, <4>2, <4>3 DEF Unsent, Pending, Held, Allowed
      <4>5. Paid(u)'
        BY <1>1, <1>3, <1>4, <2>3, <2>7, <3>2, <4>1 DEF Paid
      <4> QED
        BY <4>4, <4>5 DEF TokenInv
    <3> QED
      BY <3>1, <3>2
  <2>11. \A v \in DOMAIN bd'.escrows :
          v \in DOMAIN bd.escrows /\ bd'.escrows[v] = bd.escrows[v]
    BY <2>4, <2>6 DEF Pays
  <2> QED
    BY <1>1, <1>13, <1>14, <2>7, <2>8, <2>9, <2>10, <2>11, DaemonStep
<1> QED
  BY <1>15, <1>16

-----------------------------------------------------------------------------
(* The invariant holds at first, and every step keeps it.                  *)
LEMMA TotalNothing ==
  ASSUME NEW f, \A k \in DOMAIN f : f[k] = 0
  PROVE  Total(f) = 0
<1>1. \A k \in DOMAIN f : 1 .. f[k] = {}
  OBVIOUS
<1>2. CoinsOf(f) = {}
  BY <1>1 DEF CoinsOf
<1> QED
  BY <1>2, FS_EmptySet DEF Total

(* A sequence over a set is one over any larger set.                       *)
LEMMA SeqWider ==
  ASSUME NEW S, NEW T, NEW c \in Seq(S)
  PROVE  c \in Seq(S \cup T)
<1>1. Len(c) \in Nat /\ c \in [1 .. Len(c) -> S]
  OBVIOUS
<1>2. c \in [1 .. Len(c) -> S \cup T]
  BY <1>1
<1> QED
  BY <1>1, <1>2

(* The initial state satisfies the invariant.                              *)
LEMMA InitInvariant ==
  ASSUME Init
  PROVE  SInv
<1>0. /\ Rate \in Nat /\ Opening \in Nat /\ MaxClock \in Nat /\ MaxCrashes \in Nat
      /\ Len(Transports) \in Nat \ {0}
  BY ShimAssumption
<1> DEFINE none == [j \in {} |-> 0]
<1>1. bd = [C |-> Rate, TS |-> 0, TE |-> MaxClock + 1,
            B |-> Opening, ReservedTotal |-> 0, Consumed |-> 0, WriteOff |-> 0,
            B0 |-> Opening, BillInfraFailures |-> FALSE, K |-> 0,
            BurstEnabled |-> FALSE, BurstCeilingPct |-> 0, BurstDrawCap |-> 0,
            burstPot |-> 0, fracAcc |-> 0, rLive |-> 0, lastTouch |-> 0,
            escrows |-> none, arrays |-> none, status |-> "Active"]
  BY DEF Init, NewDurableBurst
<1>2. none \in EscrowMaps /\ DOMAIN none = {} /\ none = NoFunction
  BY EscrowMap DEF NoFunction
<1> HIDE DEF none
<1>3. /\ bd \in PlainRecord /\ bd.B = Opening /\ bd.Consumed = 0 /\ bd.WriteOff = 0
      /\ bd.escrows = none
  BY <1>0, <1>1, <1>2 DEF PlainRecord
<1>4. billed = [t \in Tokens |-> 0] /\ inbox = {} /\ routes = {} /\ lapsed = {}
  BY DEF Init
<1>5. replies = Empty /\ jobToToken = Empty /\ clock = 0 /\ up = TRUE /\ crashes = 0
  BY DEF Init
<1>6. ASSUME NEW s \in Subs
      PROVE  /\ shim[s] = [pc |-> "new", k |-> 0]
             /\ job[s] = [st |-> "new", w |-> 0, end |-> <<"none", 0>>,
                          comment |-> Submissions[s].tags]
             /\ Submissions[s].tags \in Seq(STRING) /\ Carried(s) = {}
  <2>1. /\ shim[s] = [pc |-> "new", k |-> 0]
        /\ job[s] = [st |-> "new", w |-> 0, end |-> <<"none", 0>>,
                     comment |-> Submissions[s].tags]
    BY DEF Init
  <2>2. /\ Submissions[s].tags \in Seq(STRING)
        /\ Range(Submissions[s].tags) \cap Tokens = {}
    BY ShimAssumption
  <2> QED
    BY <2>1, <2>2 DEF Carried
<1>7. Typed
  <2>1. shim \in [Subs -> ShimRecord]
    BY <1>0 DEF Init, ShimRecord
  <2>2. ASSUME NEW s \in Subs  PROVE job[s] \in JobRecord
    <3>1. PICK c : c = Submissions[s].tags
      OBVIOUS
    <3>2. c \in Seq(STRING)
      BY <1>6, <3>1
    <3>3. c \in Seq(STRING \cup Tokens)
      BY <3>2, SeqWider
    <3>4. job[s] = [st |-> "new", w |-> 0, end |-> <<"none", 0>>, comment |-> c]
      BY <1>6, <3>1
    <3>5. PICK end : end = <<"none", 0>>
      OBVIOUS
    <3>6. job[s] = [st |-> "new", w |-> 0, end |-> end, comment |-> c]
      BY <3>4, <3>5
    <3>7. end \in Ends \cup {<<"none", 0>>}
      BY <3>5
    <3> QED
      BY <3>3, <3>6, <3>7 DEF JobRecord
  <2>3. job \in [Subs -> JobRecord]
    BY <2>2 DEF Init
  <2>4. Daemon
    BY <1>0, <1>4, <1>5 DEF Daemon, Empty
  <2>5. billed \in [Tokens -> Nat]
    BY <1>4
  <2> QED
    BY <1>3, <2>1, <2>3, <2>4, <2>5 DEF Typed, Slurm
<1>8. Books
  <2>1. Spent(bd) = 0
    BY <1>3 DEF Spent
  <2>2. Total(billed) = 0
    BY <1>4, TotalNothing
  <2>3. DOMAIN HoldsOf(bd) = {}
    BY <1>2, <1>3 DEF HoldsOf
  <2>4. Total(HoldsOf(bd)) = 0
    BY <2>3, TotalEmpty
  <2> QED
    BY <1>0, <1>3, <2>1, <2>2, <2>4 DEF Books, Balanced
<1>9. ASSUME NEW u \in Tokens  PROVE TokenInv(u) /\ Paid(u)
  <2>1. u[1] \in Subs
    BY TokenIs
  <2>2. /\ u \notin inbox /\ u \notin DOMAIN replies /\ u \notin DOMAIN bd.escrows
        /\ billed[u] = 0 /\ u \notin Carried(u[1])
    BY <1>2, <1>3, <1>4, <1>5, <1>6, <2>1 DEF Empty
  <2> QED
    BY <2>2 DEF TokenInv, Unsent, Pending, Held, Allowed, Paid
<1>10. ASSUME NEW s \in Subs  PROVE Carries(s) /\ Bound(s)
  <2>1. shim[s] = [pc |-> "new", k |-> 0] /\ Carried(s) = {}
    BY <1>6
  <2>2. job[s] = [st |-> "new", w |-> 0, end |-> <<"none", 0>>,
                  comment |-> Submissions[s].tags]
    BY <1>6
  <2>3. shim[s].pc = "new" /\ shim[s].k = 0 /\ job[s].st = "new" /\ Carried(s) = {}
    BY <2>1, <2>2
  <2>4. s \notin DOMAIN jobToToken
    BY <1>5 DEF Empty
  <2> QED
    BY <2>3, <2>4 DEF Carries, Bound
<1> QED
  BY <1>7, <1>8, <1>9, <1>10 DEF SInv

(* Every step keeps the invariant.                                         *)
LEMMA NextInvariant ==
  ASSUME SInv, [Next]_vars
  PROVE  SInv'
<1>1. ASSUME NEW s \in Subs, slurm_job_submit(s)  PROVE SInv'
  BY <1>1, SubmitStep
<1>2. ASSUME NEW s \in Subs, send(s)  PROVE SInv'
  BY <1>2, SendStep
<1>3. ASSUME NEW s \in Subs, noVerdict(s)  PROVE SInv'
  BY <1>3, NoVerdictStep
<1>4. ASSUME NEW s \in Subs, receive(s)  PROVE SInv'
  BY <1>4, ReceiveStep
<1>5. ASSUME NEW s \in Subs, SlurmStart(s)  PROVE SInv'
  BY <1>5, SlurmStartStep
<1>6. ASSUME NEW s \in Subs, prolog(s)  PROVE SInv'
  BY <1>6, PrologStep
<1>7. ASSUME NEW s \in Subs, SlurmEnd(s)  PROVE SInv'
  BY <1>7, SlurmEndStep
<1>8. ASSUME NEW s \in Subs, jobcomp(s)  PROVE SInv'
  BY <1>8, JobcompStep
<1>9. ASSUME NEW t \in Tokens, handleGate(t)  PROVE SInv'
  BY <1>9, GateStep
<1>10. ASSUME NEW t \in Tokens, SweepUnbound(t)  PROVE SInv'
  BY <1>10, SweepStep
<1>11. CASE Crash
  BY <1>11, CrashStep
<1>12. CASE Restart \/ Tick \/ UNCHANGED vars
  BY <1>12, TickStep
<1> QED
  BY <1>1, <1>2, <1>3, <1>4, <1>5, <1>6, <1>7, <1>8, <1>9, <1>10, <1>11, <1>12
     DEF Next, Plugin

(* The invariant of the submission path: Spec => []SInv.                   *)
THEOREM Invariant == Spec => []SInv
<1>1. Init => SInv
  BY InitInvariant
<1>2. SInv /\ [Next]_vars => SInv'
  BY NextInvariant
<1> QED
  BY <1>1, <1>2, PTL DEF Spec

(* Every variable keeps its type: only tokens minted by this host's        *)
(* attempts are escrowed, routed, answered or bound.                       *)
THEOREM TypeCorrect == Spec => []TypeOK
<1>1. SInv => TypeOK
  <2> SUFFICES ASSUME SInv  PROVE TypeOK
    OBVIOUS
  <2>1. bd \in PlainRecord /\ Daemon /\ billed \in [Tokens -> Nat]
    BY DEF SInv, Typed
  <2>2. DOMAIN bd.escrows \subseteq Tokens
    BY <2>1, EscrowFields
  <2>3. Range(replies) \subseteq {"allow", "reject"}
    BY <2>1 DEF Daemon, Range
  <2>4. Range(jobToToken) \subseteq Tokens
    <3>1. ASSUME NEW s \in DOMAIN jobToToken  PROVE jobToToken[s] \in Tokens
      <4>1. s \in Subs
        BY <2>1 DEF Daemon
      <4>2. Bound(s)
        BY <4>1 DEF SInv
      <4> QED
        BY <4>2 DEF Bound, Carried
    <3> QED
      BY <3>1 DEF Range
  <2>5. ASSUME NEW s \in Subs
        PROVE  /\ shim[s].pc \in {"new", "try", "wait", "done"}
               /\ shim[s].k \in 0 .. Len(Transports)
               /\ job[s].st \in {"new", "refused", "queued", "running", "gone"}
    <3>1. shim[s] \in ShimRecord /\ job[s] \in JobRecord
      BY SubFields
    <3> QED
      BY <3>1 DEF ShimRecord, JobRecord
  <2> QED
    BY <2>1, <2>2, <2>3, <2>4, <2>5 DEF TypeOK, Daemon
<1> QED
  BY <1>1, Invariant, PTL

(* "An unfunded job must never slip through while the gate is down": a job *)
(* let into a partition that fails closed carries the token of an escrow   *)
(* of its whole walltime, or the sweep has reclaimed it, for any number of *)
(* submissions and transports, whatever is lost, late or cut by a crash.   *)
THEOREM FailsClosed == Spec => []ClosedFunded
<1>1. SInv => ClosedFunded
  <2> SUFFICES ASSUME SInv, NEW s \in Subs, Submissions[s].closed,
                      job[s].st \in {"queued", "running"}
               PROVE  \/ Carried(s) \cap lapsed # {}
                      \/ \E t \in Carried(s) :
                           /\ t \in DOMAIN bd.escrows
                           /\ bd.escrows[t].Reserved = Rate * job[s].w
    BY DEF ClosedFunded
  <2>1. Carries(s)
    BY DEF SInv
  <2>2. PICK t \in Carried(s) : TRUE
    BY <2>1 DEF Carries
  <2>3. t \in Tokens /\ t = Mine(s) /\ t[1] = s
    BY <2>1, <2>2, CarriedAreTokens
  <2>4. TokenInv(t)
    BY <2>3 DEF SInv
  <2>5. t \in DOMAIN replies => replies[t] = "allow"
    BY <2>1, <2>2, <2>3 DEF Carries
  <2>6. t \in DOMAIN bd.escrows \/ t \in lapsed
    BY <2>2, <2>3, <2>4, <2>5 DEF TokenInv, Allowed
  <2>7. t \in DOMAIN bd.escrows => bd.escrows[t].Reserved = Rate * job[s].w
    BY <2>3, <2>4 DEF TokenInv, Held
  <2> QED
    BY <2>2, <2>6, <2>7
<1> QED
  BY <1>1, Invariant, PTL

(* A submission may leave an escrow behind on every transport it tried,    *)
(* and pays once: only the token its job carries is billed, for what the   *)
(* job ran, and every other unit is held or back in the balance.           *)
THEOREM PaysOnce == Spec => []BilledOnce
<1>1. SInv => BilledOnce
  <2> SUFFICES ASSUME SInv  PROVE BilledOnce
    OBVIOUS
  <2>1. Spent(bd) = Total(billed) /\ bd.B = Opening - Spent(bd) - Total(HoldsOf(bd))
    BY DEF SInv, Books, Balanced
  <2>2. ASSUME NEW s \in Subs, NEW k \in 1 .. Len(Transports), billed[<<s, k>>] > 0
        PROVE  /\ <<s, k>> \in Carried(s) /\ job[s].st = "gone"
               /\ billed[<<s, k>>] = Due(job[s])
    <3>1. PICK t : t = <<s, k>>
      OBVIOUS
    <3>2. t \in Tokens /\ t[1] = s
      BY <3>1 DEF Tokens
    <3>3. Paid(t)
      BY <3>2 DEF SInv
    <3> QED
      BY <2>2, <3>1, <3>2, <3>3 DEF Paid
  <2> QED
    BY <2>1, <2>2 DEF BilledOnce, HoldsOf, Due
<1> QED
  BY <1>1, Invariant, PTL
=============================================================================
