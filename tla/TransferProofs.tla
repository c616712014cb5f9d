--------------------------- MODULE TransferProofs ---------------------------
(***************************************************************************)
(* Transfers move money without making or losing any, for every set of     *)
(* accounts and transfers, whatever is killed, shut down, cut off or       *)
(* refused by the disk.                                                    *)
(***************************************************************************)
EXTENDS Transfer, CoinsProofs

-----------------------------------------------------------------------------
(* The budgets of this model: burst off, one job of one unit at most.      *)
NoFunction == [x \in {} |-> 0]

JobEscrow ==
  [C : {1}, Reserved : {1}, W : {1}, Started : {FALSE}, BurstResv : {0},
   Submitted : {0}]

EscrowMaps == {NoFunction} \cup [{"job"} -> JobEscrow]

PlainRecord ==
  [C : {1}, TS : {0}, TE : {9}, B : Nat, ReservedTotal : Nat,
   Consumed : Nat, WriteOff : {0}, B0 : Nat, BillInfraFailures : {FALSE},
   K : {0}, BurstEnabled : {FALSE}, BurstCeilingPct : {0},
   BurstDrawCap : {0}, burstPot : {0}, fracAcc : {0}, rLive : {0},
   lastTouch : {0}, escrows : EscrowMaps, arrays : {NoFunction},
   status : {"Active"}]

Sound(b) ==
  /\ b.B0 = b.B + b.ReservedTotal + b.Consumed
  /\ "job" \in DOMAIN b.escrows => b.ReservedTotal = 1
  /\ "job" \notin DOMAIN b.escrows => b.ReservedTotal = 0

Plain == {b \in PlainRecord : Sound(b)}

Entry ==
  [kind : {"submit", "complete", "withdraw", "topup"}, xfer : Xfers \cup {""},
   after : Plain]

(* Types, by part: the budgets and logs, what is on stable storage, the    *)
(* journal, and the rest.                                                  *)
Balances == bds \in [Accounts -> Plain] /\ logs \in [Accounts -> Seq(Entry)]

Stored ==
  /\ synced \in [Accounts -> Nat]
  /\ \A a \in Accounts : synced[a] <= Len(logs[a])

Journal == journal \subseteq Record /\ IsFiniteSet(journal)

Control ==
  /\ open \in [Accounts -> BOOLEAN]
  /\ pc \in [Xfers -> {"idle", "journal", "withdraw", "deposit", "delete",
                        "done"}]
  /\ rec \in [Xfers -> Record \cup {NoRecord}]
  /\ status \in {"up", "closing", "down", "recovering", "refused"}
  /\ crashes \in Nat /\ lost \in BOOLEAN /\ faults \in Faults

Typed == Balances /\ Stored /\ Journal /\ Control

-----------------------------------------------------------------------------
(* The inductive invariant.                                                *)

(* A record says what its transfer is about.                               *)
RecordOf(x) ==
  /\ rec[x] = NoRecord <=> pc[x] = "idle"
  /\ rec[x] # NoRecord =>
       rec[x].XferID = x /\ rec[x].From # rec[x].To /\ rec[x].Amount > 0

Records ==
  /\ \A x \in Xfers : RecordOf(x)
  /\ \A t \in journal : rec[t.XferID] = t

(* A leg in a log is a leg of a decided transfer, on its own account, and  *)
(* the only one.                                                           *)
IsLeg(e, k, x) == e.kind = k /\ e.xfer = x

Early == {"idle", "journal", "withdraw"}

Tagged(e, a, recs, pcs) ==
  /\ e.xfer # "" =>
       /\ recs[e.xfer] # NoRecord /\ pcs[e.xfer] \notin Early
       /\ \/ e.kind = "withdraw" /\ a = recs[e.xfer].From
          \/ e.kind = "topup" /\ a = recs[e.xfer].To
  /\ e.xfer = "" => e.kind \in {"submit", "complete"}

Tags ==
  \A a \in Accounts : \A i \in 1 .. Len(logs[a]) :
    Tagged(logs[a][i], a, rec, pc)

OnceIn(log) ==
  \A i, j \in 1 .. Len(log) :
    (/\ log[i].xfer # "" /\ log[i].xfer = log[j].xfer
     /\ log[i].kind = log[j].kind) => i = j

Once == \A a \in Accounts : OnceIn(logs[a])

(* Has the amount left its account, has it reached the other.              *)
Out(x) == rec[x] # NoRecord /\ withdrew(rec[x])
In(x)  == rec[x] # NoRecord /\ deposited(rec[x])

(* Where a running goroutine is tells what it has done.                    *)
Place(x) ==
  /\ pc[x] = "journal" => rec[x] \notin journal
  /\ pc[x] \in {"withdraw", "deposit"} => rec[x] \in journal
  /\ pc[x] = "deposit" => Out(x) /\ ~In(x)
  /\ pc[x] = "delete" => (Out(x) <=> In(x))

Progress ==
  \A x \in Xfers : Place(x) /\ (~Running => pc[x] \in {"idle", "done"})

(* Money is under way only while the journal says so.                      *)
Backed(x) == rec[x] \notin journal => (Out(x) <=> In(x))

Journaled == ~lost => \A x \in Xfers : Backed(x)

(* The budget in memory is the one its log rebuilds.                       *)
InMemory == \A a \in Accounts : bds[a] = Opened(a)

Mirrors == status # "down" => InMemory

(* Between two legs an allocation does not change, so that a power loss    *)
(* that cuts no leg cuts no money.                                         *)
AllocAt(log, n) == IF n = 0 THEN Opening ELSE log[n].after.B0

FlatIn(log) ==
  \A n \in 0 .. Len(log) : \A m \in n .. Len(log) :
    (\A k \in (n + 1) .. m : log[k].xfer = "") =>
      AllocAt(log, n) = AllocAt(log, m)

Flat == \A a \in Accounts : FlatIn(logs[a])

Unlost == "power" \notin faults => ~lost

IInv ==
  /\ Typed /\ Records /\ Tags /\ Once /\ Progress /\ Journaled /\ Mirrors
  /\ Flat /\ Unlost

-----------------------------------------------------------------------------
(* What the methods do to a plain budget.                                  *)

(* A method is refused and changes nothing, or logs one command of its     *)
(* kind and adds d to the allocation.                                      *)
Does(b, r, k, d) ==
  \/ r.ok = FALSE /\ r.bd = b /\ r.log = <<>>
  \/ /\ r.ok = TRUE /\ r.bd \in Plain /\ r.bd.B0 = b.B0 + d
     /\ r.log # <<>> /\ r.log[1].kind = k

(* A new account's budget has its opening allocation.                      *)
LEMMA NewPlain ==
  ASSUME NEW a
  PROVE  NewAccount(a) \in Plain /\ NewAccount(a).B0 = Opening
<1> DEFINE n == NewAccount(a)
<1>1. n = [C |-> 1, TS |-> 0, TE |-> 9, B |-> Opening, ReservedTotal |-> 0,
           Consumed |-> 0, WriteOff |-> 0, B0 |-> Opening,
           BillInfraFailures |-> FALSE, K |-> 0, BurstEnabled |-> FALSE,
           BurstCeilingPct |-> 0, BurstDrawCap |-> 0, burstPot |-> 0,
           fracAcc |-> 0, rLive |-> 0, lastTouch |-> 0,
           escrows |-> NoFunction, arrays |-> NoFunction,
           status |-> "Active"]
  BY DEF NewAccount, NewDurableBurst, NoFunction
<1> HIDE DEF n
<1>2. n \in PlainRecord
  <2>1. NoFunction \in EscrowMaps
    BY DEF EscrowMaps
  <2> QED
    BY <1>1, <2>1, TransferAssumption DEF PlainRecord
<1>3. /\ n.B0 = Opening /\ n.B = Opening /\ n.ReservedTotal = 0
      /\ n.Consumed = 0 /\ n.escrows = NoFunction
  BY <1>1
<1>4. Sound(n)
  <2>1. "job" \notin DOMAIN n.escrows
    BY <1>3 DEF NoFunction
  <2>2. n.B0 = n.B + n.ReservedTotal + n.Consumed
    <3>1. Opening \in Nat
      BY TransferAssumption
    <3> QED
      BY ONLY <1>3, <3>1
  <2> QED
    BY <1>3, <2>1, <2>2 DEF Sound
<1> QED
  BY <1>2, <1>3, <1>4 DEF Plain, n

(* A logged command does what its budget afterwards says, or nothing.      *)
LEMMA LoggedDoes ==
  ASSUME NEW b, NEW b2 \in Plain, NEW cmd, NEW wal \in BOOLEAN, NEW d, NEW k,
         b2.B0 = b.B0 + d, cmd.kind = k
  PROVE  Does(b, logCmd(b, b2, cmd, wal), k, d)
<1>1. CASE wal
  BY <1>1 DEF logCmd, Does
<1>2. CASE ~wal
  BY <1>2 DEF logCmd, Does, Rejected
<1> QED
  BY <1>1, <1>2

(* A refused command does nothing.                                         *)
LEMMA RejectedDoes ==
  ASSUME NEW b, NEW k, NEW d
  PROVE  Does(b, Rejected(b), k, d)
  BY DEF Does, Rejected

(* A withdrawal takes the amount off the allocation, if it is covered.     *)
LEMMA WithdrawDoes ==
  ASSUME NEW b \in Plain, NEW amt \in Nat, amt > 0, NEW x, NEW ok \in BOOLEAN
  PROVE  LET r == WithdrawXfer(b, amt, x, 0, ok)
         IN  Does(b, r, "withdraw", 0 - amt) /\ (r.ok => amt <= b.B)
<1> DEFINE b2 == [b EXCEPT !.B = @ - amt, !.B0 = @ - amt]
           cmd == [kind |-> "withdraw", amount |-> amt, xfer |-> x, now |-> 0]
           r == WithdrawXfer(b, amt, x, 0, ok)
<1>1. b.B \in Nat /\ b.B0 \in Nat /\ b \in PlainRecord /\ Sound(b)
  BY DEF Plain, PlainRecord
<1>2. CASE amt > b.B
  <2>1. r = Rejected(b)
    BY <1>2 DEF WithdrawXfer
  <2> QED
    BY <2>1, RejectedDoes DEF Rejected
<1>3. CASE amt <= b.B
  <2>1. r = logCmd(b, b2, cmd, ok)
    <3>1. ~(amt <= 0 \/ amt > b.B)
      BY <1>1, <1>3
    <3> QED
      BY <3>1, Zenon DEF WithdrawXfer
  <2>2. b.B - amt \in Nat /\ b.B0 - amt \in Nat
    BY <1>1, <1>3 DEF Sound, PlainRecord
  <2>3. b2 \in PlainRecord
    BY <1>1, <2>2 DEF PlainRecord
  <2>4. /\ b2.B = b.B - amt /\ b2.B0 = b.B0 - amt /\ b2.escrows = b.escrows
        /\ b2.ReservedTotal = b.ReservedTotal /\ b2.Consumed = b.Consumed
    BY <1>1 DEF PlainRecord
  <2>5. Sound(b2) /\ b2.B0 = b.B0 + (0 - amt)
    BY <1>1, <2>4 DEF Sound, PlainRecord
  <2>6. b2 \in Plain /\ cmd.kind = "withdraw"
    BY <2>3, <2>5 DEF Plain
  <2> HIDE DEF b2, cmd
  <2>7. Does(b, r, "withdraw", 0 - amt)
    BY <2>1, <2>5, <2>6, LoggedDoes
  <2> QED
    BY <1>3, <2>7
<1> QED
  BY <1>1, <1>2, <1>3

(* A deposit adds the amount to the allocation.                            *)
LEMMA TopUpDoes ==
  ASSUME NEW b \in Plain, NEW amt \in Nat, amt > 0, NEW x, NEW ok \in BOOLEAN
  PROVE  Does(b, TopUpXfer(b, amt, x, 0, ok), "topup", amt)
<1> DEFINE b2 == [b EXCEPT !.B = @ + amt, !.B0 = @ + amt]
           cmd == [kind |-> "topup", amount |-> amt, xfer |-> x, now |-> 0]
           r == TopUpXfer(b, amt, x, 0, ok)
<1>1. b.B \in Nat /\ b.B0 \in Nat /\ b \in PlainRecord /\ Sound(b)
  BY DEF Plain, PlainRecord
<1>2. ~(amt <= 0)
  OBVIOUS
<1>3. r = logCmd(b, b2, cmd, ok)
  BY <1>2, Zenon DEF TopUpXfer
<1>4. b2 \in PlainRecord
  <2>1. b.B + amt \in Nat /\ b.B0 + amt \in Nat
    BY <1>1
  <2> QED
    BY <1>1, <2>1 DEF PlainRecord
<1>5. /\ b2.B = b.B + amt /\ b2.B0 = b.B0 + amt /\ b2.escrows = b.escrows
      /\ b2.ReservedTotal = b.ReservedTotal /\ b2.Consumed = b.Consumed
  BY <1>1 DEF PlainRecord
<1>6. Sound(b2)
  BY <1>1, <1>5 DEF Sound, PlainRecord
<1>7. b2 \in Plain /\ cmd.kind = "topup"
  BY <1>4, <1>6 DEF Plain
<1> HIDE DEF b2, cmd
<1> QED
  BY <1>3, <1>5, <1>7, LoggedDoes

(* A gate leaves the allocation alone.                                     *)
LEMMA SubmitDoes ==
  ASSUME NEW b \in Plain, NEW ok \in BOOLEAN
  PROVE  Does(b, SubmitAt(b, "job", 0, 1, 0, ok), "submit", 0)
<1> DEFINE e == [C |-> 1, Reserved |-> 1, W |-> 1, Started |-> FALSE,
                 BurstResv |-> 0, Submitted |-> 0]
           b2 == [b EXCEPT !.B = @ - 1, !.ReservedTotal = @ + 1,
                           !.escrows = Put(@, "job", e)]
           cmd == [kind |-> "submit", id |-> "job", c |-> 1, w |-> 1, now |-> 0]
           r == SubmitAt(b, "job", 0, 1, 0, ok)
<1>1. /\ b.B \in Nat /\ b.B0 \in Nat /\ b \in PlainRecord /\ Sound(b)
      /\ b.Consumed \in Nat /\ b.C = 1
  BY DEF Plain, PlainRecord
<1>2. RateOrFlat(b, 0) = 1 /\ RateOrFlat(b, 0) * 1 = 1
  BY <1>1 DEF RateOrFlat
<1>3. \/ r = Rejected(b)
      \/ Solvent(b, 1, 0) /\ "job" \notin DOMAIN b.escrows /\ r = logCmd(b, b2, cmd, ok)
  BY <1>2 DEF SubmitAt
<1>4. CASE Solvent(b, 1, 0) /\ "job" \notin DOMAIN b.escrows /\ r = logCmd(b, b2, cmd, ok)
  <2>1. b.B - 1 \in Nat /\ b.ReservedTotal = 0
    BY <1>1, <1>4 DEF Solvent, Sound
  <2>2. b.escrows = NoFunction
    BY <1>1, <1>4 DEF PlainRecord, EscrowMaps
  <2>3. Put(b.escrows, "job", e) \in [{"job"} -> JobEscrow]
    BY <2>2 DEF Put, NoFunction, JobEscrow
  <2> HIDE DEF e
  <2>4. b2 \in PlainRecord
    <3> DEFINE x == b.B - 1
               y == b.ReservedTotal + 1
               f == Put(b.escrows, "job", e)
    <3>1. x \in Nat /\ y \in Nat
      BY <2>1
    <3>2. f \in EscrowMaps
      BY <2>3 DEF EscrowMaps
    <3>3. b2 = [b EXCEPT !.B = x, !.ReservedTotal = y, !.escrows = f]
      BY <1>1 DEF PlainRecord
    <3> HIDE DEF x, y, f, b2
    <3> DEFINE b1 == [b EXCEPT !.B = x, !.ReservedTotal = y]
    <3>4. b1 \in PlainRecord
      BY <1>1, <3>1 DEF PlainRecord
    <3>5. b2 = [b1 EXCEPT !.escrows = f]
      BY <1>1, <3>3 DEF PlainRecord
    <3> HIDE DEF b1
    <3>6. [b1 EXCEPT !.escrows = f] \in PlainRecord
      BY <3>2, <3>4 DEF PlainRecord
    <3> QED
      BY <3>5, <3>6
  <2>5. /\ b2.B = b.B - 1 /\ b2.B0 = b.B0 /\ b2.escrows = Put(b.escrows, "job", e)
        /\ b2.ReservedTotal = 1 /\ b2.Consumed = b.Consumed
    BY <1>1, <2>1 DEF PlainRecord
  <2>6. Sound(b2) /\ b2.B0 = b.B0 + 0
    BY <1>1, <2>1, <2>3, <2>5 DEF Sound
  <2>7. b2 \in Plain /\ cmd.kind = "submit"
    BY <2>4, <2>6 DEF Plain
  <2> HIDE DEF b2, cmd
  <2> QED
    BY <1>4, <2>6, <2>7, LoggedDoes
<1> QED
  BY <1>3, <1>4, RejectedDoes

(* A completion leaves the allocation alone.                               *)
LEMMA CompleteDoes ==
  ASSUME NEW b \in Plain, NEW ok \in BOOLEAN
  PROVE  Does(b, Complete(b, "job", 1, 0, ok), "complete", 0)
<1> DEFINE b2 == settle(b, "job", 1, FALSE, 0)
           cmd == [kind |-> "complete", id |-> "job", runtime |-> 1, now |-> 0]
           r == Complete(b, "job", 1, 0, ok)
<1>1. /\ b.B \in Nat /\ b.B0 \in Nat /\ b \in PlainRecord /\ Sound(b)
      /\ b.Consumed \in Nat /\ b.BurstEnabled = FALSE /\ b.WriteOff = 0
  BY DEF Plain, PlainRecord
<1>2. \/ r = Rejected(b)
      \/ "job" \in DOMAIN b.escrows /\ r = logCmd(b, b2, cmd, ok)
  BY DEF Complete, Settled
<1>3. CASE "job" \in DOMAIN b.escrows /\ r = logCmd(b, b2, cmd, ok)
  <2> DEFINE e == b.escrows["job"]
             b1 == [b EXCEPT !.ReservedTotal = 0, !.B = b.B + 0, !.WriteOff = 0,
                             !.Consumed = b.Consumed + 1]
             b3 == [b1 EXCEPT !.escrows = NoFunction]
  <2>1. b.escrows \in [{"job"} -> JobEscrow] /\ b.ReservedTotal = 1
    BY <1>1, <1>3 DEF PlainRecord, EscrowMaps, NoFunction, Sound
  <2>2. e \in JobEscrow
    BY <2>1
  <2>3. e.C = 1 /\ e.W = 1 /\ e.Reserved = 1 /\ Clamp(1, e.W) = 1
    <3>1. e.C = 1 /\ e.W = 1 /\ e.Reserved = 1
      BY <2>2 DEF JobEscrow
    <3> QED
      BY <3>1 DEF Clamp
  <2>4. accrue(b, 0) = b
    BY <1>1 DEF accrue
  <2>5. Bill(b, 1, 1, FALSE) = b1
    BY <1>1, <2>1 DEF Bill, PlainRecord
  <2>6. b1.BurstEnabled = FALSE /\ b1.escrows = b.escrows
    BY <1>1 DEF PlainRecord
  <2> HIDE DEF b1
  <2>7. StopBurning(b1, e.C, e.W, e.Started, e.BurstResv, 1) = b1
    BY <2>6 DEF StopBurning
  <2>8. Drop(b1.escrows, "job") = NoFunction
    BY <2>1, <2>6 DEF Drop, Restrict, NoFunction
  <2>9. b2 = [b1 EXCEPT !.escrows = Drop(@, "job")]
    <3>1. e.C * Clamp(1, e.W) = 1
      BY <2>3
    <3> HIDE DEF e
    <3> QED
      BY <2>3, <2>4, <2>5, <2>7, <3>1 DEF settle, e
  <2>10. b2 = b3
    BY <2>8, <2>9
  <2>11. b1 \in PlainRecord
    <3> DEFINE u1 == [b EXCEPT !.ReservedTotal = 0]
               u2 == [u1 EXCEPT !.B = b.B + 0]
               u3 == [u2 EXCEPT !.WriteOff = 0]
    <3>1. b.B + 0 \in Nat /\ b.Consumed + 1 \in Nat /\ 0 \in Nat
      BY <1>1
    <3>2. u1 \in PlainRecord
      <4>1. b \in PlainRecord
        BY <1>1
      <4> QED
        BY <3>1, <4>1 DEF PlainRecord
    <3> HIDE DEF u1
    <3>3. u2 \in PlainRecord
      BY <3>1, <3>2 DEF PlainRecord
    <3> HIDE DEF u2
    <3>4. u3 \in PlainRecord
      BY <3>3 DEF PlainRecord
    <3> HIDE DEF u3
    <3>5. [u3 EXCEPT !.Consumed = b.Consumed + 1] \in PlainRecord
      BY <3>1, <3>4 DEF PlainRecord
    <3> QED
      BY <3>5, ZenonT(60) DEF b1, u3, u2, u1
  <2>12. b3 \in PlainRecord
    <3>1. NoFunction \in EscrowMaps
      BY DEF EscrowMaps
    <3> QED
      BY <2>11, <3>1 DEF PlainRecord
  <2>13. /\ b3.B = b.B /\ b3.B0 = b.B0 /\ b3.escrows = NoFunction
         /\ b3.ReservedTotal = 0 /\ b3.Consumed = b.Consumed + 1
    BY <1>1 DEF PlainRecord, b1
  <2>14. Sound(b3) /\ b3.B0 = b.B0 + 0
    BY <1>1, <2>1, <2>13 DEF Sound, NoFunction
  <2>15. b3 \in Plain /\ cmd.kind = "complete"
    BY <2>12, <2>14 DEF Plain
  <2> HIDE DEF b2, b3, cmd
  <2> QED
    BY <1>3, <2>10, <2>14, <2>15, LoggedDoes
<1> QED
  BY <1>2, <1>3, RejectedDoes

-----------------------------------------------------------------------------
(* Logs: an entry appended, a tail cut off.                                *)

Extends(log, l2, e) ==
  /\ Len(log) \in Nat /\ Len(l2) = Len(log) + 1 /\ l2[Len(log) + 1] = e
  /\ \A i \in 1 .. Len(log) : l2[i] = log[i]

Prefixes(l2, log) ==
  /\ Len(l2) \in Nat /\ Len(log) \in Nat /\ Len(l2) <= Len(log)
  /\ \A i \in 1 .. Len(l2) : l2[i] = log[i]

NoLegAfter(log, n) == \A i \in (n + 1) .. Len(log) : log[i].xfer = ""

Continues(log, e) == e.xfer = "" => e.after.B0 = AllocAt(log, Len(log))

(* Adding nothing.                                                         *)
LEMMA PlusZero == \A q \in Nat : q + 0 = q
  OBVIOUS

(* Subtraction as the addition of a negative.                              *)
LEMMA MinusAsPlus == \A p, q \in Nat : p + (0 - q) = p - q
  OBVIOUS

(* An index of a log one longer is an old one or the last.                 *)
LEMMA IndexSplit ==
  ASSUME NEW n \in Nat, NEW i \in 1 .. (n + 1)
  PROVE  i \in 1 .. n \/ i = n + 1
  OBVIOUS

(* An index of a prefix is an index of the whole.                          *)
LEMMA IndexWiden ==
  ASSUME NEW n \in Nat, NEW m \in Nat, n <= m, NEW i \in 1 .. n
  PROVE  i \in 1 .. m
  OBVIOUS

(* An appended log extends the log by its entry.                           *)
LEMMA AppendLog ==
  ASSUME NEW log \in Seq(Entry), NEW e \in Entry
  PROVE  Append(log, e) \in Seq(Entry) /\ Extends(log, Append(log, e), e)
  BY DEF Extends

(* A log cut at n is its prefix of length n.                               *)
LEMMA CutLog ==
  ASSUME NEW log \in Seq(Entry), NEW n \in 0 .. Len(log)
  PROVE  LET l2 == SubSeq(log, 1, n)
         IN  l2 \in Seq(Entry) /\ Prefixes(l2, log) /\ Len(l2) = n
  BY DEF Prefixes

(* The legs in an extended log: those before, and the new entry's.         *)
LEMMA ExtendsHas ==
  ASSUME NEW log, NEW l2, NEW e, Extends(log, l2, e), NEW k, NEW x
  PROVE  HasXfer(l2, k, x) <=> HasXfer(log, k, x) \/ IsLeg(e, k, x)
<1>1. ASSUME HasXfer(l2, k, x)  PROVE HasXfer(log, k, x) \/ IsLeg(e, k, x)
  <2>1. PICK i \in 1 .. Len(l2) : l2[i].kind = k /\ l2[i].xfer = x
    BY <1>1 DEF HasXfer
  <2>2. i \in 1 .. Len(log) \/ i = Len(log) + 1
    BY DEF Extends
  <2> QED
    BY <2>1, <2>2 DEF HasXfer, IsLeg, Extends
<1>2. ASSUME HasXfer(log, k, x)  PROVE HasXfer(l2, k, x)
  BY <1>2 DEF HasXfer, Extends
<1>3. ASSUME IsLeg(e, k, x)  PROVE HasXfer(l2, k, x)
  <2>1. Len(log) + 1 \in 1 .. Len(l2)
    BY DEF Extends
  <2> QED
    BY <1>3, <2>1 DEF HasXfer, IsLeg, Extends
<1> QED
  BY <1>1, <1>2, <1>3

(* Appending a leg the log does not have keeps every leg single.           *)
LEMMA ExtendsOnce ==
  ASSUME NEW log, NEW l2, NEW e, Extends(log, l2, e), OnceIn(log),
         e.xfer # "" => ~HasXfer(log, e.kind, e.xfer)
  PROVE  OnceIn(l2)
<1> DEFINE n == Len(log)
<1>1. /\ n \in Nat /\ Len(l2) = n + 1 /\ l2[n + 1] = e
      /\ \A i \in 1 .. n : l2[i] = log[i]
  BY DEF Extends
<1>2. ASSUME e.xfer # "", NEW i \in 1 .. n
      PROVE  ~(log[i].xfer = e.xfer /\ log[i].kind = e.kind)
  BY <1>2 DEF HasXfer
<1>3. \A i, j \in 1 .. n :
        (/\ log[i].xfer # "" /\ log[i].xfer = log[j].xfer
         /\ log[i].kind = log[j].kind) => i = j
  BY DEF OnceIn
<1> HIDE DEF n
<1>4. ASSUME NEW i \in 1 .. (n + 1), NEW j \in 1 .. (n + 1),
             l2[i].xfer # "", l2[i].xfer = l2[j].xfer, l2[i].kind = l2[j].kind
      PROVE  i = j
  <2>1. CASE i \in 1 .. n /\ j \in 1 .. n
    BY <1>1, <1>3, <1>4, <2>1
  <2>2. CASE i = n + 1 /\ j \in 1 .. n
    BY <1>1, <1>2, <1>4, <2>2
  <2>3. CASE i \in 1 .. n /\ j = n + 1
    BY <1>1, <1>2, <1>4, <2>3
  <2>4. CASE i = n + 1 /\ j = n + 1
    BY <2>4
  <2>5. i \in 1 .. n \/ i = n + 1
    BY <1>1, IndexSplit
  <2>6. j \in 1 .. n \/ j = n + 1
    BY <1>1, IndexSplit
  <2> QED
    BY <2>1, <2>2, <2>3, <2>4, <2>5, <2>6
<1> QED
  BY <1>1, <1>4 DEF OnceIn

(* Appending an entry that continues the allocation keeps the log flat.    *)
LEMMA ExtendsFlat ==
  ASSUME NEW log, NEW l2, NEW e, Extends(log, l2, e), FlatIn(log), Continues(log, e)
  PROVE  FlatIn(l2)
<1> DEFINE n == Len(log)
<1>1. /\ n \in Nat /\ Len(l2) = n + 1 /\ l2[n + 1] = e
      /\ \A i \in 1 .. n : l2[i] = log[i]
  BY DEF Extends
<1>2. \A i \in 0 .. n : \A m \in i .. n :
        (\A k \in (i + 1) .. m : log[k].xfer = "") => AllocAt(log, i) = AllocAt(log, m)
  BY DEF FlatIn
<1>3. e.xfer = "" => e.after.B0 = AllocAt(log, n)
  BY DEF Continues
<1> HIDE DEF n
<1>4. \A i \in 0 .. n : AllocAt(l2, i) = AllocAt(log, i)
  BY <1>1 DEF AllocAt
<1>5. AllocAt(l2, n + 1) = e.after.B0
  BY <1>1 DEF AllocAt
<1>6. ASSUME NEW i \in 0 .. (n + 1), NEW m \in i .. (n + 1),
             \A k \in (i + 1) .. m : l2[k].xfer = ""
      PROVE  AllocAt(l2, i) = AllocAt(l2, m)
  <2>1. CASE m \in i .. n
    <3>1. ASSUME NEW k \in (i + 1) .. m  PROVE log[k].xfer = ""
      <4>1. k \in 1 .. n
        BY <1>1, <2>1
      <4> QED
        BY <1>1, <1>6, <3>1, <4>1
    <3>2. i \in 0 .. n /\ m \in 0 .. n
      BY <1>1, <2>1
    <3>3. AllocAt(log, i) = AllocAt(log, m)
      BY <1>2, <2>1, <3>1, <3>2
    <3> QED
      BY <1>4, <3>2, <3>3
  <2>2. CASE m = n + 1 /\ i = n + 1
    BY <2>2
  <2>3. CASE m = n + 1 /\ i \in 0 .. n
    <3>1. ASSUME NEW k \in (i + 1) .. n  PROVE log[k].xfer = ""
      <4>1. k \in 1 .. n /\ k \in (i + 1) .. m
        BY <1>1, <2>3
      <4> QED
        BY <1>1, <1>6, <4>1
    <3>2. AllocAt(log, i) = AllocAt(log, n)
      <4>1. n \in i .. n
        BY <1>1, <2>3
      <4> QED
        BY <1>2, <2>3, <3>1, <4>1
    <3>3. e.xfer = ""
      <4>1. n + 1 \in (i + 1) .. m
        BY <1>1, <2>3
      <4> QED
        BY <1>1, <1>6, <4>1
    <3> QED
      BY <1>3, <1>4, <1>5, <2>3, <3>2, <3>3
  <2> QED
    BY <1>1, <2>1, <2>2, <2>3
<1> QED
  BY <1>1, <1>6 DEF FlatIn

(* What a log promises of its entries, its prefixes promise too.           *)
LEMMA PrefixKeeps ==
  ASSUME NEW log, NEW l2, Prefixes(l2, log)
  PROVE  /\ OnceIn(log) => OnceIn(l2)
         /\ FlatIn(log) => FlatIn(l2)
         /\ \A k, x : HasXfer(l2, k, x) => HasXfer(log, k, x)
<1>1. OnceIn(log) => OnceIn(l2)
  <2> SUFFICES ASSUME OnceIn(log), NEW i \in 1 .. Len(l2), NEW j \in 1 .. Len(l2),
                      l2[i].xfer # "", l2[i].xfer = l2[j].xfer,
                      l2[i].kind = l2[j].kind
               PROVE  i = j
    BY DEF OnceIn
  <2>1. i \in 1 .. Len(log) /\ j \in 1 .. Len(log)
    BY IndexWiden DEF Prefixes
  <2>2. l2[i] = log[i]
    BY DEF Prefixes
  <2>3. l2[j] = log[j]
    BY DEF Prefixes
  <2> QED
    BY <2>1, <2>2, <2>3 DEF OnceIn
<1>2. \A i \in 0 .. Len(l2) : AllocAt(l2, i) = AllocAt(log, i)
  BY DEF AllocAt, Prefixes
<1>3. ASSUME FlatIn(log)  PROVE FlatIn(l2)
  <2>1. ASSUME NEW i \in 0 .. Len(l2), NEW m \in i .. Len(l2),
               \A k \in (i + 1) .. m : l2[k].xfer = ""
        PROVE  AllocAt(l2, i) = AllocAt(l2, m)
    <3>1. \A k \in (i + 1) .. m : log[k].xfer = ""
      <4> SUFFICES ASSUME NEW k \in (i + 1) .. m  PROVE log[k].xfer = ""
        OBVIOUS
      <4>1. k \in 1 .. Len(l2)
        BY DEF Prefixes
      <4> QED
        BY <2>1, <4>1 DEF Prefixes
    <3>2. /\ i \in 0 .. Len(log) /\ m \in i .. Len(log)
          /\ i \in 0 .. Len(l2) /\ m \in 0 .. Len(l2)
      BY DEF Prefixes
    <3>3. AllocAt(log, i) = AllocAt(log, m)
      BY <1>3, <3>1, <3>2 DEF FlatIn
    <3> QED
      BY <1>2, <3>2, <3>3
  <2> QED
    BY <2>1 DEF FlatIn
<1>4. \A k, x : HasXfer(l2, k, x) => HasXfer(log, k, x)
  BY DEF HasXfer, Prefixes
<1> QED
  BY <1>1, <1>3, <1>4

(* A cut that drops no leg loses neither a leg nor any allocation.         *)
LEMMA PrefixExact ==
  ASSUME NEW log, NEW l2, Prefixes(l2, log), NoLegAfter(log, Len(l2))
  PROVE  /\ \A k, x : x # "" => (HasXfer(l2, k, x) <=> HasXfer(log, k, x))
         /\ FlatIn(log) => AllocAt(l2, Len(l2)) = AllocAt(log, Len(log))
<1>1. ASSUME NEW k, NEW x, x # "", HasXfer(log, k, x)  PROVE HasXfer(l2, k, x)
  <2>1. PICK i \in 1 .. Len(log) : log[i].kind = k /\ log[i].xfer = x
    BY <1>1 DEF HasXfer
  <2>2. i \in 1 .. Len(l2)
    <3>1. i \in 1 .. Len(l2) \/ i \in (Len(l2) + 1) .. Len(log)
      BY DEF Prefixes
    <3> QED
      BY <1>1, <2>1, <3>1 DEF NoLegAfter
  <2> QED
    BY <2>1, <2>2 DEF HasXfer, Prefixes
<1>2. ASSUME FlatIn(log)  PROVE AllocAt(l2, Len(l2)) = AllocAt(log, Len(log))
  <2>1. AllocAt(log, Len(l2)) = AllocAt(log, Len(log))
    <3>1. Len(l2) \in 0 .. Len(log) /\ Len(log) \in Len(l2) .. Len(log)
      BY DEF Prefixes
    <3> QED
      BY <1>2, <3>1 DEF FlatIn, NoLegAfter
  <2>2. AllocAt(l2, Len(l2)) = AllocAt(log, Len(l2))
    BY DEF AllocAt, Prefixes
  <2> QED
    BY <2>1, <2>2
<1> QED
  BY <1>1, <1>2, PrefixKeeps

-----------------------------------------------------------------------------
(* What a step does to the logs and to the money.                          *)

Alloc(a) == AllocAt(logs[a], Len(logs[a]))

(* A record is never the placeholder.                                      *)
LEMMA NoRecordApart == NoRecord \notin Record
<1>1. SUFFICES ASSUME NoRecord \in Record  PROVE FALSE
  OBVIOUS
<1>2. DOMAIN NoRecord = {"XferID", "From", "To", "Amount"}
  BY <1>1 DEF Record
<1>3. DOMAIN NoRecord = {"XferID"}
  BY DEF NoRecord
<1> QED
  BY <1>2, <1>3

(* An account opened from its log has the allocation of its last entry.    *)
LEMMA OpenedAlloc ==
  ASSUME Balances, NEW a \in Accounts
  PROVE  Opened(a) \in Plain /\ Opened(a).B0 = Alloc(a)
<1>1. logs[a] \in Seq(Entry)
  BY DEF Balances
<1>2. CASE logs[a] = <<>>
  BY <1>2, NewPlain DEF Opened, Alloc, AllocAt
<1>3. CASE logs[a] # <<>>
  <2>1. Len(logs[a]) \in Nat /\ Len(logs[a]) # 0 /\ logs[a][Len(logs[a])] \in Entry
    BY <1>1, <1>3
  <2>2. Opened(a) = logs[a][Len(logs[a])].after
    BY <1>3 DEF Opened
  <2>3. Alloc(a) = logs[a][Len(logs[a])].after.B0
    BY <2>1 DEF Alloc, AllocAt
  <2>4. logs[a][Len(logs[a])].after \in Plain
    BY <2>1 DEF Entry
  <2> QED
    BY <2>2, <2>3, <2>4
<1> QED
  BY <1>2, <1>3

(* An account's log is a sequence of entries.                              *)
LEMMA LogLen ==
  ASSUME Balances
  PROVE  \A a \in Accounts : logs[a] \in Seq(Entry) /\ Len(logs[a]) \in Nat
<1>1. ASSUME NEW a \in Accounts  PROVE logs[a] \in Seq(Entry)
  BY <1>1 DEF Balances
<1>2. \A s \in Seq(Entry) : Len(s) \in Nat
  OBVIOUS
<1> QED
  BY <1>1, <1>2

(* One entry is appended to one log, and the budget there is its result.   *)
Grows(a, k, x, d) ==
  /\ Balances'
  /\ \A b \in Accounts \ {a} : bds'[b] = bds[b] /\ logs'[b] = logs[b]
  /\ Extends(logs[a], logs'[a], [kind |-> k, xfer |-> x, after |-> bds'[a]])
  /\ bds'[a].B0 = Alloc(a) + d

Quiet == bds' = bds /\ logs' = logs

Kinds == {"submit", "complete", "withdraw", "topup"}

(* A logged call is refused and changes nothing, or grows the log.         *)
LEMMA CommitGrows ==
  ASSUME Balances, Mirrors, status # "down", NEW a \in Accounts, NEW r,
         NEW x \in Xfers \cup {""}, NEW k \in Kinds, NEW d,
         Does(bds[a], r, k, d), Commit(a, r, x)
  PROVE  \/ r.ok = FALSE /\ Quiet
         \/ r.ok = TRUE /\ Grows(a, k, x, d)
<1>1. /\ bds' = [bds EXCEPT ![a] = r.bd]
      /\ logs' = [logs EXCEPT ![a] =
                    IF r.log = <<>> THEN @
                    ELSE Append(@, [kind |-> r.log[1].kind, xfer |-> x,
                                    after |-> r.bd])]
  BY DEF Commit
<1>2. /\ bds \in [Accounts -> Plain] /\ logs \in [Accounts -> Seq(Entry)]
      /\ logs[a] \in Seq(Entry)
  BY DEF Balances
<1>3. CASE r.ok = FALSE /\ r.bd = bds[a] /\ r.log = <<>>
  <2>1. bds' = bds /\ logs' = logs
    BY <1>1, <1>2, <1>3
  <2> QED
    BY <1>3, <2>1 DEF Quiet
<1>4. CASE /\ r.ok = TRUE /\ r.bd \in Plain /\ r.bd.B0 = bds[a].B0 + d
           /\ r.log # <<>> /\ r.log[1].kind = k
  <2> DEFINE e == [kind |-> k, xfer |-> x, after |-> r.bd]
  <2>1. e \in Entry
    BY <1>4 DEF Entry, Kinds
  <2>2. logs' = [logs EXCEPT ![a] = Append(logs[a], e)]
    BY <1>1, <1>2, <1>4
  <2> HIDE DEF e
  <2>3. Append(logs[a], e) \in Seq(Entry) /\ Extends(logs[a], Append(logs[a], e), e)
    BY <1>2, <2>1, AppendLog
  <2>4. logs' \in [Accounts -> Seq(Entry)] /\ logs'[a] = Append(logs[a], e)
    BY <1>2, <2>2, <2>3
  <2>5. bds' \in [Accounts -> Plain] /\ bds'[a] = r.bd
    BY <1>1, <1>2, <1>4
  <2>6. \A b \in Accounts \ {a} : bds'[b] = bds[b] /\ logs'[b] = logs[b]
    BY <1>1, <1>2, <2>2
  <2>7. bds[a].B0 = Alloc(a)
    BY OpenedAlloc DEF Mirrors, InMemory
  <2>8. bds'[a].B0 = Alloc(a) + d
    BY <1>4, <2>5, <2>7
  <2>9. e = [kind |-> k, xfer |-> x, after |-> bds'[a]]
    BY <2>5 DEF e
  <2>10. Extends(logs[a], logs'[a], [kind |-> k, xfer |-> x, after |-> bds'[a]])
    BY <2>3, <2>4, <2>9
  <2> QED
    BY <1>4, <2>4, <2>5, <2>6, <2>8, <2>10 DEF Grows, Balances
<1> QED
  BY <1>3, <1>4 DEF Does

(* The leg a growing step adds is the only one it adds.                    *)
LEMMA GrowsHas ==
  ASSUME NEW a \in Accounts, NEW k, NEW x, NEW d, Grows(a, k, x, d),
         NEW b \in Accounts, NEW k2, NEW x2
  PROVE  HasXfer(logs'[b], k2, x2) <=>
           HasXfer(logs[b], k2, x2) \/ (b = a /\ k2 = k /\ x2 = x)
<1> DEFINE e == [kind |-> k, xfer |-> x, after |-> bds'[a]]
<1>1. CASE b # a
  BY <1>1 DEF Grows
<1>2. CASE b = a
  <2>1. Extends(logs[a], logs'[a], e)
    BY DEF Grows
  <2>2. IsLeg(e, k2, x2) <=> k2 = k /\ x2 = x
    BY DEF IsLeg
  <2> HIDE DEF e
  <2>3. HasXfer(logs'[a], k2, x2) <=> HasXfer(logs[a], k2, x2) \/ IsLeg(e, k2, x2)
    BY <2>1, ExtendsHas
  <2> QED
    BY <1>2, <2>2, <2>3
<1> QED
  BY <1>1, <1>2

(* What a growing step adds to the allocations.                            *)
LEMMA GrowsAlloc ==
  ASSUME NEW a \in Accounts, NEW k, NEW x, NEW d, Grows(a, k, x, d)
  PROVE  /\ Alloc(a)' = Alloc(a) + d
         /\ \A b \in Accounts \ {a} : Alloc(b)' = Alloc(b)
         /\ \A b \in Accounts : bds'[b] = bds[b] \/ b = a
<1> DEFINE e == [kind |-> k, xfer |-> x, after |-> bds'[a]]
<1>1. Extends(logs[a], logs'[a], e)
  BY DEF Grows
<1>2. /\ Len(logs'[a]) = Len(logs[a]) + 1 /\ Len(logs[a]) \in Nat
      /\ logs'[a][Len(logs'[a])] = e
  BY <1>1 DEF Extends
<1>3. Alloc(a)' = e.after.B0
  <2>1. Len(logs'[a]) # 0
    BY <1>2
  <2> HIDE DEF e
  <2> QED
    BY <1>2, <2>1 DEF Alloc, AllocAt
<1>4. Alloc(a)' = bds'[a].B0
  BY <1>3
<1> QED
  BY <1>4 DEF Grows, Alloc

(* The logs stay well formed.                                              *)
LogsKept ==
  /\ Balances' /\ Once' /\ Flat'
  /\ \A a \in Accounts : Len(logs[a]) <= Len(logs'[a])
  /\ InMemory'

(* An entry is a leg not made before, or moves no money.                   *)
Fresh(a, k, x, d) ==
  /\ x # "" => ~HasXfer(logs[a], k, x)
  /\ x = "" => d = 0

(* An appended entry keeps the facts about the logs.                       *)
LEMMA GrowsLogs ==
  ASSUME Balances, Once, Flat, InMemory, NEW a \in Accounts, NEW k, NEW x,
         NEW d, Grows(a, k, x, d), Fresh(a, k, x, d)
  PROVE  LogsKept
<1> DEFINE e == [kind |-> k, xfer |-> x, after |-> bds'[a]]
<1>1. Extends(logs[a], logs'[a], e)
  BY DEF Grows
<1>2. e.xfer = x /\ e.kind = k /\ e.after = bds'[a]
  OBVIOUS
<1> HIDE DEF e
<1>3. Balances' /\ \A b \in Accounts \ {a} : bds'[b] = bds[b] /\ logs'[b] = logs[b]
  BY DEF Grows
<1>4. OnceIn(logs'[a])
  <2>1. OnceIn(logs[a])
    BY DEF Once
  <2> QED
    BY <1>1, <1>2, <2>1, ExtendsOnce DEF Fresh
<1>5. FlatIn(logs'[a])
  <2>1. FlatIn(logs[a])
    BY DEF Flat
  <2>2. Alloc(a) \in Nat
    <3>1. Opened(a) \in Plain /\ Opened(a).B0 = Alloc(a)
      BY OpenedAlloc
    <3> QED
      BY <3>1 DEF Plain, PlainRecord
  <2>3. Continues(logs[a], e)
    <3>1. bds'[a].B0 = Alloc(a) + d
      BY DEF Grows
    <3>2. x = "" => bds'[a].B0 = Alloc(a)
      BY <2>2, <3>1, PlusZero DEF Fresh
    <3> QED
      BY <1>2, <3>2 DEF Continues, Alloc
  <2> QED
    BY <1>1, <2>1, <2>3, ExtendsFlat
<1>6. Once'
  <2>1. \A b \in Accounts \ {a} : OnceIn(logs[b])
    BY DEF Once
  <2> QED
    BY <1>3, <1>4, <2>1 DEF Once
<1>7. Flat'
  <2>1. \A b \in Accounts \ {a} : FlatIn(logs[b])
    BY DEF Flat
  <2> QED
    BY <1>3, <1>5, <2>1 DEF Flat
<1>8. \A b \in Accounts : Len(logs[b]) <= Len(logs'[b])
  <2>1. \A b \in Accounts : Len(logs[b]) \in Nat
    BY LogLen
  <2>2. Len(logs'[a]) = Len(logs[a]) + 1
    BY <1>1 DEF Extends
  <2>3. Len(logs[a]) <= Len(logs'[a])
    BY <2>1, <2>2
  <2>4. ASSUME NEW b \in Accounts \ {a}  PROVE Len(logs[b]) <= Len(logs'[b])
    <3>1. Len(logs[b]) \in Nat /\ Len(logs'[b]) = Len(logs[b])
      BY <1>3, <2>1
    <3> QED
      BY <3>1
  <2> QED
    BY <2>3, <2>4
<1>9. ASSUME NEW b \in Accounts  PROVE bds'[b] = Opened(b)'
  <2>1. CASE b # a
    BY <1>3, <2>1 DEF InMemory, Opened, NewAccount
  <2>2. CASE b = a
    <3>1. /\ Len(logs'[a]) = Len(logs[a]) + 1 /\ Len(logs[a]) \in Nat
          /\ logs'[a][Len(logs'[a])] = e
      BY <1>1 DEF Extends
    <3>2. logs'[a] # <<>>
      <4>1. Len(<<>>) = 0
        OBVIOUS
      <4>2. Len(logs'[a]) # 0
        BY <3>1
      <4> QED
        BY <4>1, <4>2
    <3> QED
      BY <1>2, <2>2, <3>1, <3>2 DEF Opened
  <2> QED
    BY <2>1, <2>2
<1> QED
  BY <1>3, <1>6, <1>7, <1>8, <1>9 DEF LogsKept, InMemory

(* A step that appends nothing keeps the facts about the logs.             *)
LEMMA QuietLogs ==
  ASSUME Balances, Once, Flat, InMemory, Quiet
  PROVE  LogsKept
<1>1. Balances' /\ Once' /\ Flat'
  BY DEF Balances, Once, Flat, Quiet
<1>2. InMemory'
  BY DEF Quiet, InMemory, Opened, NewAccount
<1>3. \A a \in Accounts : Len(logs[a]) <= Len(logs'[a])
  <2>1. \A b \in Accounts : Len(logs[b]) \in Nat
    BY LogLen
  <2> QED
    BY <2>1 DEF Quiet
<1> QED
  BY <1>1, <1>2, <1>3 DEF LogsKept

-----------------------------------------------------------------------------
(* The three things a step may do to the money: nothing, one amount leaves *)
(* its account, one amount reaches the other.                              *)

Unmoved(x) ==
  /\ Out(x)' <=> Out(x)
  /\ In(x)' <=> In(x)
  /\ Out(x) \/ In(x) => rec'[x] = rec[x]

OthersUnmoved(x) == \A y \in Xfers \ {x} : Unmoved(y)

(* Only the allocation of account a changes.                               *)
OnlyAt(a) == \A b \in Accounts \ {a} : Alloc(b)' = Alloc(b)

Still ==
  /\ \A a \in Accounts : Alloc(a)' = Alloc(a)
  /\ \A x \in Xfers : Unmoved(x)

Known(x) ==
  /\ rec[x] \in Record /\ rec'[x] = rec[x]
  /\ rec[x].XferID = x /\ rec[x].From # rec[x].To /\ rec[x].Amount > 0

Leaves(x) ==
  /\ Known(x) /\ OthersUnmoved(x) /\ OnlyAt(rec[x].From)
  /\ ~Out(x) /\ ~In(x) /\ Out(x)' /\ ~In(x)'
  /\ Alloc(rec[x].From)' = Alloc(rec[x].From) - rec[x].Amount
  /\ Alloc(rec[x].From)' \in Nat

Arrives(x) ==
  /\ Known(x) /\ OthersUnmoved(x) /\ OnlyAt(rec[x].To)
  /\ Out(x) /\ ~In(x) /\ Out(x)' /\ In(x)'
  /\ Alloc(rec[x].To)' = Alloc(rec[x].To) + rec[x].Amount

Moves == Still \/ \E x \in Xfers : Leaves(x) \/ Arrives(x)

(* What every step is shown to do.                                         *)
Good == IInv' /\ (~lost' => Moves)

(* An account's allocation is never negative.                              *)
LEMMA AllocNat ==
  ASSUME Balances, NEW a \in Accounts
  PROVE  Alloc(a) \in Nat
<1>1. Opened(a) \in Plain /\ Opened(a).B0 = Alloc(a)
  BY OpenedAlloc
<1> QED
  BY <1>1 DEF Plain, PlainRecord

(* A record, once there, is one of the set and about its own transfer.     *)
LEMMA RecordKnown ==
  ASSUME Control, Records, NEW x \in Xfers, rec[x] # NoRecord
  PROVE  /\ rec[x] \in Record /\ rec[x].From \in Accounts
         /\ rec[x].To \in Accounts /\ rec[x].Amount \in Nat
         /\ rec[x].XferID = x /\ rec[x].From # rec[x].To
         /\ rec[x].Amount > 0 /\ x # ""
<1>1. rec[x] \in Record
  BY DEF Control
<1>2. RecordOf(x)
  BY DEF Records
<1> QED
  BY <1>1, <1>2, TransferAssumption DEF Record, RecordOf

(* No two transfers have the same record.                                  *)
LEMMA RecordsApart ==
  ASSUME Control, Records, NEW x \in Xfers, NEW y \in Xfers, x # y,
         rec[x] # NoRecord
  PROVE  rec[x] # rec[y]
<1>1. CASE rec[y] = NoRecord
  BY <1>1
<1>2. CASE rec[y] # NoRecord
  <2>1. rec[x].XferID = x /\ rec[y].XferID = y
    BY <1>2, RecordKnown
  <2> QED
    BY <2>1
<1> QED
  BY <1>1, <1>2

(* A journaled record is the record of its transfer.                       *)
LEMMA JournalKnown ==
  ASSUME Journal, Records, NEW t \in journal
  PROVE  /\ t.XferID \in Xfers /\ rec[t.XferID] = t /\ t # NoRecord
         /\ t \in Record
<1>1. t \in Record
  BY DEF Journal
<1>2. t.XferID \in Xfers
  BY <1>1 DEF Record
<1> QED
  BY <1>1, <1>2, NoRecordApart DEF Records

(* Out and In, read in the logs.                                           *)
LEMMA OutIn ==
  ASSUME Control, Records, NEW x \in Xfers
  PROVE  /\ Out(x) <=> rec[x] # NoRecord /\ HasXfer(logs[rec[x].From], "withdraw", x)
         /\ In(x) <=> rec[x] # NoRecord /\ HasXfer(logs[rec[x].To], "topup", x)
<1>1. CASE rec[x] = NoRecord
  BY <1>1 DEF Out, In
<1>2. CASE rec[x] # NoRecord
  <2>1. rec[x].XferID = x
    BY <1>2, RecordKnown
  <2> QED
    BY <2>1 DEF Out, In, withdrew, deposited
<1> QED
  BY <1>1, <1>2

(* A transfer that has not withdrawn has no leg in any log.                *)
LEMMA Untagged ==
  ASSUME Tags, NEW x \in Xfers, pc[x] \in Early,
         NEW a \in Accounts, NEW k
  PROVE  ~HasXfer(logs[a], k, x)
<1> SUFFICES ASSUME NEW i \in 1 .. Len(logs[a]), logs[a][i].xfer = x
             PROVE  FALSE
  BY DEF HasXfer
<1>1. Tagged(logs[a][i], a, rec, pc)
  BY DEF Tags
<1>2. x # ""
  BY TransferAssumption
<1> QED
  BY <1>1, <1>2 DEF Tagged

(* Before its withdrawal a transfer has no leg in any log.                 *)
LEMMA EarlyHome ==
  ASSUME Control, Records, Tags, NEW x \in Xfers, pc[x] \in Early
  PROVE  ~Out(x) /\ ~In(x)
<1>1. CASE rec[x] = NoRecord
  BY <1>1 DEF Out, In
<1>2. CASE rec[x] # NoRecord
  <2>1. rec[x].From \in Accounts /\ rec[x].To \in Accounts
    BY <1>2, RecordKnown
  <2>2. /\ ~HasXfer(logs[rec[x].From], "withdraw", x)
        /\ ~HasXfer(logs[rec[x].To], "topup", x)
    BY <2>1, Untagged
  <2> QED
    BY <2>2, OutIn
<1> QED
  BY <1>1, <1>2

(* No transfer goes back to before its withdraw.                           *)
Later ==
  \A y \in Xfers : pc[y] \notin Early => pc'[y] \notin Early /\ rec'[y] = rec[y]

(* A leg's tag stays true as its transfer moves on.                        *)
LEMMA TagStays ==
  ASSUME NEW e \in Entry, NEW a, Tagged(e, a, rec, pc), Later
  PROVE  Tagged(e, a, rec', pc')
<1>1. CASE e.xfer = ""
  BY <1>1 DEF Tagged
<1>2. CASE e.xfer # ""
  <2>1. e.xfer \in Xfers
    BY <1>2 DEF Entry
  <2>2. pc'[e.xfer] \notin Early /\ rec'[e.xfer] = rec[e.xfer]
    BY <1>2, <2>1 DEF Later, Tagged
  <2> QED
    BY <1>2, <2>2 DEF Tagged
<1> QED
  BY <1>1, <1>2

(* Entries that were there before keep their tags.                         *)
LEMMA TagsKept ==
  ASSUME Balances, Tags, Later,
         \A a \in Accounts : \A i \in 1 .. Len(logs'[a]) :
           i \in 1 .. Len(logs[a]) /\ logs'[a][i] = logs[a][i]
  PROVE  Tags'
<1> SUFFICES ASSUME NEW a \in Accounts, NEW i \in 1 .. Len(logs'[a])
             PROVE  Tagged(logs'[a][i], a, rec', pc')
  BY DEF Tags
<1>1. i \in 1 .. Len(logs[a]) /\ logs'[a][i] = logs[a][i]
  OBVIOUS
<1>2. logs[a] \in Seq(Entry)
  BY LogLen
<1>3. \A s \in Seq(Entry) : \A j \in 1 .. Len(s) : s[j] \in Entry
  OBVIOUS
<1>4. logs[a][i] \in Entry
  BY <1>1, <1>2, <1>3
<1>5. Tagged(logs[a][i], a, rec, pc)
  BY <1>1 DEF Tags
<1> QED
  BY <1>1, <1>4, <1>5, TagStays

(* Where no log changes, every leg keeps its tag.                          *)
LEMMA QuietTags ==
  ASSUME Balances, Tags, Later, logs' = logs
  PROVE  Tags'
  BY TagsKept

(* A new leg with a true tag keeps the tags true.                          *)
LEMMA GrowsTags ==
  ASSUME Balances, Tags, Later, NEW a \in Accounts, NEW k, NEW x, NEW d,
         Grows(a, k, x, d),
         \A b : Tagged([kind |-> k, xfer |-> x, after |-> b], a, rec', pc')
  PROVE  Tags'
<1> SUFFICES ASSUME NEW c \in Accounts, NEW i \in 1 .. Len(logs'[c])
             PROVE  Tagged(logs'[c][i], c, rec', pc')
  BY DEF Tags
<1> DEFINE e == [kind |-> k, xfer |-> x, after |-> bds'[a]]
<1>1. Extends(logs[a], logs'[a], e) /\ \A b \in Accounts \ {a} : logs'[b] = logs[b]
  BY DEF Grows
<1>2. Tagged(e, a, rec', pc')
  OBVIOUS
<1> HIDE DEF e
<1>3. \A s \in Seq(Entry) : \A j \in 1 .. Len(s) : s[j] \in Entry
  OBVIOUS
<1>4. ASSUME i \in 1 .. Len(logs[c]), logs'[c][i] = logs[c][i]
      PROVE  Tagged(logs'[c][i], c, rec', pc')
  <2>1. logs[c] \in Seq(Entry)
    BY LogLen
  <2>2. logs[c][i] \in Entry
    BY <1>3, <1>4, <2>1
  <2>3. Tagged(logs[c][i], c, rec, pc)
    BY <1>4 DEF Tags
  <2> QED
    BY <1>4, <2>2, <2>3, TagStays
<1>5. CASE c # a
  BY <1>1, <1>4, <1>5
<1>6. CASE c = a
  <2>1. /\ Len(logs[a]) \in Nat /\ Len(logs'[a]) = Len(logs[a]) + 1
        /\ logs'[a][Len(logs[a]) + 1] = e
        /\ \A j \in 1 .. Len(logs[a]) : logs'[a][j] = logs[a][j]
    BY <1>1 DEF Extends
  <2>2. i \in 1 .. Len(logs[a]) \/ i = Len(logs[a]) + 1
    BY <1>6, <2>1, IndexSplit
  <2>3. CASE i \in 1 .. Len(logs[a])
    BY <1>4, <1>6, <2>1, <2>3
  <2>4. CASE i = Len(logs[a]) + 1
    BY <1>2, <1>6, <2>1, <2>4
  <2> QED
    BY <2>2, <2>3, <2>4
<1> QED
  BY <1>5, <1>6

(* Where neither logs nor records change, no money moves.                  *)
LEMMA QuietStill ==
  ASSUME logs' = logs, rec' = rec
  PROVE  Still
  BY DEF Still, Unmoved, Out, In, withdrew, deposited, Alloc

(* A step that adds no leg of a transfer leaves the transfer alone.        *)
LEMMA GrowsUnmoved ==
  ASSUME Control, Records, rec' = rec, NEW a \in Accounts, NEW k, NEW x, NEW d,
         Grows(a, k, x, d), NEW y \in Xfers, y # x
  PROVE  Unmoved(y)
<1>1. CASE rec[y] = NoRecord
  BY <1>1 DEF Unmoved, Out, In
<1>2. CASE rec[y] # NoRecord
  <2>1. /\ rec[y].From \in Accounts /\ rec[y].To \in Accounts
        /\ rec[y].XferID = y
    BY <1>2, RecordKnown
  <2>2. /\ HasXfer(logs'[rec[y].From], "withdraw", y) <=>
             HasXfer(logs[rec[y].From], "withdraw", y)
        /\ HasXfer(logs'[rec[y].To], "topup", y) <=>
             HasXfer(logs[rec[y].To], "topup", y)
    BY <2>1, GrowsHas
  <2> QED
    BY <2>1, <2>2 DEF Unmoved, Out, In, withdrew, deposited
<1> QED
  BY <1>1, <1>2

(* A transfer that did not move, and whose goroutine and record stayed, is *)
(* where it was.                                                           *)
LEMMA PlaceKept ==
  ASSUME NEW y \in Xfers, Unmoved(y), pc'[y] = pc[y], rec'[y] = rec[y],
         rec[y] \in journal' <=> rec[y] \in journal
  PROVE  /\ Place(y) => Place(y)'
         /\ Backed(y) => Backed(y)'
         /\ RecordOf(y) => RecordOf(y)'
  BY DEF Place, Backed, RecordOf, Unmoved

(* Nothing but log entries without a leg, the disk and the process change. *)
Aside == rec' = rec /\ journal' = journal /\ faults' = faults

(* A step beside the transfers keeps what is said of each.                 *)
LEMMA AsideKept ==
  ASSUME Records, Aside, pc' = pc, \A y \in Xfers : Unmoved(y)
  PROVE  /\ Records'
         /\ Progress /\ (~Running' => ~Running) => Progress'
         /\ Journaled /\ lost' = lost => Journaled'
         /\ Unlost /\ lost' = lost => Unlost'
<1>1. ASSUME NEW y \in Xfers
      PROVE  /\ Place(y) => Place(y)'
             /\ Backed(y) => Backed(y)'
             /\ RecordOf(y) => RecordOf(y)'
  BY PlaceKept DEF Aside
<1>2. Records'
  BY <1>1 DEF Records, Aside
<1>3. Progress /\ (~Running' => ~Running) => Progress'
  BY <1>1 DEF Progress
<1>4. Journaled /\ lost' = lost => Journaled'
  BY <1>1 DEF Journaled
<1>5. Unlost /\ lost' = lost => Unlost'
  BY DEF Unlost, Aside
<1> QED
  BY <1>2, <1>3, <1>4, <1>5

(* What was on stable storage still is when a log grows.                   *)
LEMMA StoredKept ==
  ASSUME Balances, Stored, LogsKept, synced' = synced
  PROVE  Stored'
<1>1. Balances'
  BY DEF LogsKept
<1>2. ASSUME NEW a \in Accounts  PROVE synced'[a] <= Len(logs'[a])
  <2>1. Len(logs[a]) \in Nat
    BY LogLen
  <2>2. Len(logs'[a]) \in Nat
    <3>1. logs'[a] \in Seq(Entry)
      BY <1>1 DEF Balances
    <3>2. \A s \in Seq(Entry) : Len(s) \in Nat
      OBVIOUS
    <3> QED
      BY <3>1, <3>2
  <2>3. synced[a] \in Nat /\ synced[a] <= Len(logs[a])
    BY DEF Stored
  <2>4. Len(logs[a]) <= Len(logs'[a])
    BY DEF LogsKept
  <2>5. \A p, q, r \in Nat : p <= q /\ q <= r => p <= r
    OBVIOUS
  <2> QED
    BY <2>1, <2>2, <2>3, <2>4, <2>5
<1> QED
  BY <1>2 DEF Stored

(* A log entry without a leg: a gate or a settle.                          *)
LEMMA UntaggedGood ==
  ASSUME IInv, status # "down", NEW a \in Accounts, NEW k \in {"submit", "complete"},
         Quiet \/ Grows(a, k, "", 0),
         UNCHANGED <<synced, open, journal, pc, rec, status, crashes, history>>
  PROVE  Good
<1>1. /\ Balances /\ Stored /\ Journal /\ Control /\ Records /\ Tags /\ Once
      /\ Progress /\ Journaled /\ Mirrors /\ Flat /\ Unlost /\ InMemory
  BY DEF IInv, Typed, Mirrors
<1>2. /\ synced' = synced /\ open' = open /\ journal' = journal /\ pc' = pc
      /\ rec' = rec /\ status' = status /\ crashes' = crashes
      /\ faults' = faults /\ lost' = lost
  BY DEF history
<1>3. LogsKept
  <2>1. CASE Quiet
    BY <1>1, <2>1, QuietLogs
  <2>2. CASE Grows(a, k, "", 0)
    <3>1. Fresh(a, k, "", 0)
      BY DEF Fresh
    <3> QED
      BY <1>1, <2>2, <3>1, GrowsLogs
  <2> QED
    BY <2>1, <2>2
<1>4. Still
  <2>1. CASE Quiet
    BY <1>2, <2>1, QuietStill DEF Quiet
  <2>2. CASE Grows(a, k, "", 0)
    <3>1. \A y \in Xfers : Unmoved(y)
      BY <1>1, <1>2, <2>2, GrowsUnmoved, TransferAssumption
    <3>2. Alloc(a) \in Nat
      BY <1>1, AllocNat
    <3>3. Alloc(a)' = Alloc(a) + 0 /\ \A b \in Accounts \ {a} : Alloc(b)' = Alloc(b)
      BY <2>2, GrowsAlloc
    <3>4. Alloc(a)' = Alloc(a)
      BY <3>2, <3>3, PlusZero
    <3> QED
      BY <3>1, <3>3, <3>4 DEF Still
  <2> QED
    BY <2>1, <2>2
<1>5. Tags'
  <2>1. Later
    BY <1>2 DEF Later
  <2>2. CASE Quiet
    BY <1>1, <2>1, <2>2, QuietTags DEF Quiet
  <2>3. CASE Grows(a, k, "", 0)
    <3>1. \A b : Tagged([kind |-> k, xfer |-> "", after |-> b], a, rec', pc')
      BY DEF Tagged
    <3> QED
      BY <1>1, <2>1, <2>3, <3>1, GrowsTags
  <2> QED
    BY <2>2, <2>3
<1>6. Records' /\ Progress' /\ Journaled' /\ Unlost'
  <2>1. ~Running' => ~Running
    BY <1>2 DEF Running
  <2>2. Aside /\ \A y \in Xfers : Unmoved(y)
    BY <1>2, <1>4 DEF Aside, Still
  <2> QED
    BY <1>1, <1>2, <2>1, <2>2, AsideKept
<1>7. Stored'
  BY <1>1, <1>2, <1>3, StoredKept
<1>8. Journal' /\ Control'
  BY <1>1, <1>2 DEF Journal, Control
<1>9. Balances' /\ Once' /\ Flat' /\ Mirrors'
  BY <1>3 DEF LogsKept, Mirrors
<1> QED
  BY <1>4, <1>5, <1>6, <1>7, <1>8, <1>9 DEF Good, Moves, IInv, Typed

(* A gate or a settle of the one job.                                      *)
LEMMA OutcomesBool ==
  ASSUME NEW a
  PROVE  Outcomes(a) \subseteq BOOLEAN
  BY DEF Outcomes

(* A gate on an account is a good step.                                    *)
LEMMA GateGood ==
  ASSUME IInv, NEW a \in Accounts, Gate(a)
  PROVE  Good
<1> DEFINE r(ok) == SubmitAt(bds[a], "job", 0, 1, 0, ok)
<1>1. PICK ok \in Outcomes(a) : Commit(a, r(ok), "")
  BY DEF Gate
<1>2. Balances /\ Mirrors /\ status # "down" /\ bds[a] \in Plain
  BY DEF Gate, Running, IInv, Typed, Balances
<1>3. Does(bds[a], r(ok), "submit", 0)
  BY <1>2, OutcomesBool, SubmitDoes
<1> HIDE DEF r
<1>4. Quiet \/ Grows(a, "submit", "", 0)
  BY <1>1, <1>2, <1>3, CommitGrows DEF Kinds
<1> QED
  BY <1>2, <1>4, UntaggedGood DEF Gate

(* A settlement on an account is a good step.                              *)
LEMMA SettleGood ==
  ASSUME IInv, NEW a \in Accounts, Settle(a)
  PROVE  Good
<1> DEFINE r(ok) == Complete(bds[a], "job", 1, 0, ok)
<1>1. PICK ok \in Outcomes(a) : Commit(a, r(ok), "")
  BY DEF Settle
<1>2. Balances /\ Mirrors /\ status # "down" /\ bds[a] \in Plain
  BY DEF Settle, Running, IInv, Typed, Balances
<1>3. Does(bds[a], r(ok), "complete", 0)
  BY <1>2, OutcomesBool, CompleteDoes
<1> HIDE DEF r
<1>4. Quiet \/ Grows(a, "complete", "", 0)
  BY <1>1, <1>2, <1>3, CommitGrows DEF Kinds
<1> QED
  BY <1>2, <1>4, UntaggedGood DEF Settle

(* Every transfer but x stays where it is.                                 *)
Around(x) ==
  \A y \in Xfers \ {x} :
    /\ pc'[y] = pc[y] /\ rec'[y] = rec[y] /\ Unmoved(y)
    /\ rec[y] \in journal' <=> rec[y] \in journal

(* Transfer x itself is in order after the step.                           *)
Arranged(x) ==
  /\ Place(x)' /\ RecordOf(x)' /\ (~lost => Backed(x)')
  /\ \A t \in journal' : rec'[t.XferID] = t
  /\ ~Running' => ~Running /\ pc'[x] \in {"idle", "done"}
  /\ faults' = faults /\ lost' = lost

(* A step of one transfer keeps what is said of the others.                *)
LEMMA AroundKept ==
  ASSUME Records, Progress, Journaled, Unlost, NEW x \in Xfers,
         Around(x), Arranged(x)
  PROVE  Records' /\ Progress' /\ Journaled' /\ Unlost'
<1>1. ASSUME NEW y \in Xfers \ {x}
      PROVE  /\ pc'[y] = pc[y]
             /\ Place(y) => Place(y)'
             /\ Backed(y) => Backed(y)'
             /\ RecordOf(y) => RecordOf(y)'
  BY PlaceKept DEF Around
<1>2. Records'
  BY <1>1 DEF Records, Arranged
<1>3. Progress'
  BY <1>1 DEF Progress, Arranged
<1>4. Journaled'
  BY <1>1 DEF Journaled, Arranged
<1>5. Unlost'
  BY DEF Unlost, Arranged
<1> QED
  BY <1>2, <1>3, <1>4, <1>5

(* A transfer is decided: it has a record, and no leg yet.                 *)
LEMMA DecideGood ==
  ASSUME IInv, NEW x \in Xfers, NEW from \in Accounts, NEW to \in Accounts,
         NEW amt \in Int, Decide(x, from, to, amt)
  PROVE  Good
<1> DEFINE t == [XferID |-> x, From |-> from, To |-> to, Amount |-> amt]
<1>1. /\ Balances /\ Stored /\ Journal /\ Control /\ Records /\ Tags /\ Once
      /\ Progress /\ Journaled /\ Mirrors /\ Flat /\ Unlost
  BY DEF IInv, Typed
<1>2. /\ synced' = synced /\ open' = open /\ journal' = journal
      /\ status' = status /\ crashes' = crashes /\ bds' = bds /\ logs' = logs
      /\ faults' = faults /\ lost' = lost
      /\ rec' = [rec EXCEPT ![x] = t] /\ pc' = [pc EXCEPT ![x] = "journal"]
      /\ pc[x] = "idle" /\ from # to /\ amt > 0 /\ status = "up"
  BY DEF Decide, history
<1>3. t \in Record /\ t # NoRecord
  <2>1. t \in Record
    BY <1>2 DEF Record
  <2> QED
    BY <2>1, NoRecordApart
<1>4. t.XferID = x /\ t.From = from /\ t.To = to /\ t.Amount = amt
  OBVIOUS
<1> HIDE DEF t
<1>5. rec[x] = NoRecord
  BY <1>1, <1>2 DEF Records, RecordOf
<1>6. /\ rec'[x] = t /\ pc'[x] = "journal"
      /\ \A y \in Xfers \ {x} : rec'[y] = rec[y] /\ pc'[y] = pc[y]
  BY <1>1, <1>2 DEF Control
<1>7. t \notin journal
  BY <1>1, <1>3, <1>4, <1>5 DEF Records
<1>8. ~Out(x) /\ ~In(x) /\ ~Out(x)' /\ ~In(x)'
  <2>1. ~Out(x) /\ ~In(x)
    BY <1>5 DEF Out, In
  <2>2. ~HasXfer(logs[from], "withdraw", x) /\ ~HasXfer(logs[to], "topup", x)
    BY <1>1, <1>2, Untagged DEF Early
  <2> QED
    BY <1>2, <1>4, <1>6, <2>1, <2>2 DEF Out, In, withdrew, deposited
<1>9. \A y \in Xfers : Unmoved(y)
  <2>1. Unmoved(x)
    BY <1>8 DEF Unmoved
  <2>2. ASSUME NEW y \in Xfers \ {x}  PROVE Unmoved(y)
    BY <1>2, <1>6, <2>2 DEF Unmoved, Out, In, withdrew, deposited
  <2> QED
    BY <2>1, <2>2
<1>10. Still
  BY <1>2, <1>9 DEF Still, Alloc
<1>11. Tags'
  <2>1. Later
    BY <1>2, <1>6 DEF Later, Early
  <2> QED
    BY <1>1, <1>2, <2>1, QuietTags
<1>12. Records' /\ Progress' /\ Journaled' /\ Unlost'
  <2>1. Around(x)
    BY <1>2, <1>6, <1>9 DEF Around
  <2>2. Place(x)' /\ RecordOf(x)' /\ Backed(x)'
    BY <1>2, <1>3, <1>4, <1>6, <1>7, <1>8 DEF Place, RecordOf, Backed
  <2>3. \A u \in journal' : rec'[u.XferID] = u
    BY <1>1, <1>2, <1>5, <1>6, JournalKnown
  <2>4. Running'
    BY <1>2 DEF Running
  <2>5. Arranged(x)
    BY <1>2, <2>2, <2>3, <2>4 DEF Arranged
  <2> QED
    BY <1>1, <2>1, <2>5, AroundKept
<1>13. Balances' /\ Stored' /\ Journal' /\ Once' /\ Flat' /\ Mirrors'
  BY <1>1, <1>2 DEF Balances, Stored, Journal, Once, Flat, Mirrors, InMemory,
     Opened, NewAccount
<1>14. Control'
  BY <1>1, <1>2, <1>3 DEF Control
<1> QED
  BY <1>10, <1>11, <1>12, <1>13, <1>14 DEF Good, Moves, IInv, Typed

(* Nothing happens to budgets, logs and process.                           *)
LEMMA FrameKept ==
  ASSUME Balances, Stored, Once, Flat, Mirrors, Quiet, synced' = synced,
         status' = status \/ status' = "down" \/ status # "down"
  PROVE  Balances' /\ Stored' /\ Once' /\ Flat' /\ Mirrors'
<1>1. Balances' /\ Stored' /\ Once' /\ Flat'
  BY DEF Balances, Stored, Once, Flat, Quiet
<1>2. InMemory => InMemory'
  BY DEF InMemory, Quiet, Opened, NewAccount
<1>3. Mirrors'
  BY <1>2 DEF Mirrors
<1> QED
  BY <1>1, <1>3

(* The journal stays a finite set of records.                              *)
LEMMA FiniteJournal ==
  ASSUME Journal, NEW t \in Record
  PROVE  /\ journal \cup {t} \subseteq Record /\ IsFiniteSet(journal \cup {t})
         /\ journal \ {t} \subseteq Record /\ IsFiniteSet(journal \ {t})
  BY FS_AddElement, FS_RemoveElement DEF Journal

(* A step of one transfer's goroutine that touches its record only.        *)
LEMMA WriteGood ==
  ASSUME IInv, NEW x \in Xfers, writeTransferRecord(x)
  PROVE  Good
<1>1. /\ Balances /\ Stored /\ Journal /\ Control /\ Records /\ Tags /\ Once
      /\ Progress /\ Journaled /\ Mirrors /\ Flat /\ Unlost
  BY DEF IInv, Typed
<1>2. /\ synced' = synced /\ open' = open /\ rec' = rec
      /\ status' = status /\ crashes' = crashes /\ bds' = bds /\ logs' = logs
      /\ faults' = faults /\ lost' = lost /\ pc[x] = "journal" /\ Running
      /\ \/ journal' = journal \cup {rec[x]} /\ pc' = [pc EXCEPT ![x] = "withdraw"]
         \/ journal' = journal /\ pc' = [pc EXCEPT ![x] = "done"]
  BY DEF writeTransferRecord, history
<1>3. /\ rec[x] # NoRecord /\ rec[x] \in Record /\ rec[x].XferID = x
  <2>1. rec[x] # NoRecord
    BY <1>1, <1>2 DEF Records, RecordOf
  <2> QED
    BY <1>1, <2>1, RecordKnown
<1>4. /\ (pc'[x] = "withdraw" /\ journal' = journal \cup {rec[x]}) \/ pc'[x] = "done"
      /\ \A y \in Xfers \ {x} : pc'[y] = pc[y]
  BY <1>1, <1>2 DEF Control
<1>5. Still
  BY <1>2, QuietStill
<1>6. ~Out(x) /\ ~In(x) /\ ~Out(x)' /\ ~In(x)'
  <2>1. ~Out(x) /\ ~In(x)
    BY <1>1, <1>2, EarlyHome DEF Early
  <2> QED
    BY <1>5, <2>1 DEF Still, Unmoved
<1>7. Tags'
  <2>1. Later
    BY <1>2, <1>4 DEF Later, Early
  <2> QED
    BY <1>1, <1>2, <2>1, QuietTags
<1>8. Records' /\ Progress' /\ Journaled' /\ Unlost'
  <2>1. Around(x)
    <3>1. \A y \in Xfers \ {x} : rec[y] \in journal' <=> rec[y] \in journal
      BY <1>1, <1>2, <1>3, RecordsApart
    <3> QED
      BY <1>2, <1>4, <1>5, <3>1 DEF Around, Still
  <2>2. Place(x)' /\ Backed(x)'
    BY <1>2, <1>4, <1>6 DEF Place, Backed
  <2>3. RecordOf(x)'
    <3>1. RecordOf(x)
      BY <1>1 DEF Records
    <3> QED
      BY <1>2, <1>3, <1>4, <3>1 DEF RecordOf
  <2>4. \A u \in journal' : rec'[u.XferID] = u
    BY <1>1, <1>2, <1>3 DEF Records
  <2>5. Running'
    BY <1>2 DEF Running
  <2>6. Arranged(x)
    BY <1>2, <2>2, <2>3, <2>4, <2>5 DEF Arranged
  <2> QED
    BY <1>1, <2>1, <2>6, AroundKept
<1>9. Balances' /\ Stored' /\ Once' /\ Flat' /\ Mirrors'
  BY <1>1, <1>2, FrameKept DEF Quiet
<1>10. Journal'
  BY <1>1, <1>2, <1>3, FiniteJournal DEF Journal
<1>11. Control'
  BY <1>1, <1>2 DEF Control
<1> QED
  BY <1>5, <1>7, <1>8, <1>9, <1>10, <1>11 DEF Good, Moves, IInv, Typed

(* Deleting a finished transfer's record is a good step.                   *)
LEMMA DeleteGood ==
  ASSUME IInv, NEW x \in Xfers, deleteTransferRecord(x)
  PROVE  Good
<1>1. /\ Balances /\ Stored /\ Journal /\ Control /\ Records /\ Tags /\ Once
      /\ Progress /\ Journaled /\ Mirrors /\ Flat /\ Unlost
  BY DEF IInv, Typed
<1>2. /\ synced' = synced /\ open' = open /\ rec' = rec
      /\ status' = status /\ crashes' = crashes /\ bds' = bds /\ logs' = logs
      /\ faults' = faults /\ lost' = lost /\ pc[x] = "delete" /\ Running
      /\ journal' = journal \ {rec[x]} \/ journal' = journal
      /\ pc' = [pc EXCEPT ![x] = "done"]
  BY DEF deleteTransferRecord, history
<1>3. /\ rec[x] # NoRecord /\ rec[x] \in Record /\ rec[x].XferID = x
  <2>1. rec[x] # NoRecord
    BY <1>1, <1>2 DEF Records, RecordOf
  <2> QED
    BY <1>1, <2>1, RecordKnown
<1>4. pc'[x] = "done" /\ \A y \in Xfers \ {x} : pc'[y] = pc[y]
  BY <1>1, <1>2 DEF Control
<1>5. Still
  BY <1>2, QuietStill
<1>6. Out(x)' <=> In(x)'
  <2>1. Out(x) <=> In(x)
    BY <1>1, <1>2 DEF Progress, Place
  <2> QED
    BY <1>5, <2>1 DEF Still, Unmoved
<1>7. Tags'
  <2>1. Later
    BY <1>2, <1>4 DEF Later, Early
  <2> QED
    BY <1>1, <1>2, <2>1, QuietTags
<1>8. Records' /\ Progress' /\ Journaled' /\ Unlost'
  <2>1. Around(x)
    <3>1. \A y \in Xfers \ {x} : rec[y] \in journal' <=> rec[y] \in journal
      BY <1>1, <1>2, <1>3, RecordsApart
    <3> QED
      BY <1>2, <1>4, <1>5, <3>1 DEF Around, Still
  <2>2. Place(x)' /\ Backed(x)'
    BY <1>2, <1>4, <1>6 DEF Place, Backed
  <2>3. RecordOf(x)'
    <3>1. RecordOf(x)
      BY <1>1 DEF Records
    <3> QED
      BY <1>2, <1>3, <1>4, <3>1 DEF RecordOf
  <2>4. \A u \in journal' : rec'[u.XferID] = u
    BY <1>1, <1>2, <1>3 DEF Records
  <2>5. Running'
    BY <1>2 DEF Running
  <2>6. Arranged(x)
    BY <1>2, <2>2, <2>3, <2>4, <2>5 DEF Arranged
  <2> QED
    BY <1>1, <2>1, <2>6, AroundKept
<1>9. Balances' /\ Stored' /\ Once' /\ Flat' /\ Mirrors'
  BY <1>1, <1>2, FrameKept DEF Quiet
<1>10. Journal'
  BY <1>1, <1>2, <1>3, FiniteJournal DEF Journal
<1>11. Control'
  BY <1>1, <1>2 DEF Control
<1> QED
  BY <1>5, <1>7, <1>8, <1>9, <1>10, <1>11 DEF Good, Moves, IInv, Typed

(* The first leg.  The goroutine's record is in the journal, and no log    *)
(* has a leg of the transfer yet.                                          *)
LEMMA WithdrawGood ==
  ASSUME IInv, NEW x \in Xfers, Withdraw(x)
  PROVE  Good
<1>0. PICK f, g, n : f = rec[x].From /\ g = rec[x].To /\ n = rec[x].Amount
  OBVIOUS
<1> DEFINE r(ok) == WithdrawXfer(bds[f], n, x, 0, ok)
<1>1. /\ Balances /\ Stored /\ Journal /\ Control /\ Records /\ Tags /\ Once
      /\ Progress /\ Journaled /\ Mirrors /\ Flat /\ Unlost
  BY DEF IInv, Typed
<1>2. /\ synced' = synced /\ open' = open /\ rec' = rec /\ journal' = journal
      /\ status' = status /\ crashes' = crashes
      /\ faults' = faults /\ lost' = lost /\ pc[x] = "withdraw" /\ Running
  BY DEF Withdraw, history
<1>3. PICK ok \in Outcomes(f) :
        /\ Commit(f, r(ok), x)
        /\ pc' = [pc EXCEPT ![x] = IF r(ok).ok THEN "deposit" ELSE "delete"]
  BY <1>0 DEF Withdraw
<1>4. /\ rec[x] # NoRecord /\ rec[x] \in Record /\ rec[x].XferID = x
      /\ f \in Accounts /\ n \in Nat /\ n > 0 /\ rec[x].From # rec[x].To
      /\ rec[x].To \in Accounts /\ x # ""
  <2>1. rec[x] # NoRecord
    BY <1>1, <1>2 DEF Records, RecordOf
  <2> QED
    BY <1>0, <1>1, <2>1, RecordKnown
<1>5. status # "down" /\ bds[f] \in Plain /\ InMemory /\ Running'
  BY <1>1, <1>2, <1>4 DEF Running, Mirrors, Balances
<1>6. Does(bds[f], r(ok), "withdraw", 0 - n)
  BY <1>4, <1>5, OutcomesBool, WithdrawDoes
<1> HIDE DEF r
<1>7. \/ r(ok).ok = FALSE /\ Quiet
      \/ r(ok).ok = TRUE /\ Grows(f, "withdraw", x, 0 - n)
  BY <1>1, <1>3, <1>4, <1>5, <1>6, CommitGrows DEF Kinds
<1>8. ~Out(x) /\ ~In(x)
  BY <1>1, <1>2, EarlyHome DEF Early
<1>9. \A y \in Xfers \ {x} : pc'[y] = pc[y]
  BY <1>1, <1>3 DEF Control
<1>10. \/ Quiet /\ pc' = [pc EXCEPT ![x] = "delete"]
       \/ Grows(f, "withdraw", x, 0 - n) /\ pc' = [pc EXCEPT ![x] = "deposit"]
  BY <1>3, <1>7
<1>11. Control' /\ Journal'
  BY <1>1, <1>2, <1>10 DEF Control, Journal
<1>12. rec[x] \in journal
  BY <1>1, <1>2 DEF Progress, Place
<1>13. \A u \in journal' : rec'[u.XferID] = u
  BY <1>1, <1>2 DEF Records
<1>14. ASSUME pc'[x] # "idle"  PROVE RecordOf(x)'
  <2>1. RecordOf(x)
    BY <1>1 DEF Records
  <2> QED
    BY <1>2, <1>4, <1>14, <2>1 DEF RecordOf
<1>15. CASE Quiet /\ pc' = [pc EXCEPT ![x] = "delete"]
  <2>1. Still
    BY <1>2, <1>15, QuietStill DEF Quiet
  <2>2. pc'[x] = "delete"
    BY <1>1, <1>15 DEF Control
  <2>3. Tags'
    <3>1. Later
      BY <1>2, <1>9, <2>2 DEF Later, Early
    <3> QED
      BY <1>1, <1>15, <3>1, QuietTags DEF Quiet
  <2>4. Records' /\ Progress' /\ Journaled' /\ Unlost'
    <3>1. Around(x)
      BY <1>2, <1>9, <2>1 DEF Around, Still
    <3>2. Place(x)' /\ Backed(x)'
      BY <1>8, <2>1, <2>2 DEF Place, Backed, Still, Unmoved
    <3>3. Arranged(x)
      BY <1>2, <1>5, <1>13, <1>14, <2>2, <3>2 DEF Arranged
    <3> QED
      BY <1>1, <3>1, <3>3, AroundKept
  <2>5. Balances' /\ Stored' /\ Once' /\ Flat' /\ Mirrors'
    BY <1>1, <1>2, <1>15, FrameKept
  <2> QED
    BY <1>11, <2>1, <2>3, <2>4, <2>5 DEF Good, Moves, IInv, Typed
<1>16. CASE Grows(f, "withdraw", x, 0 - n) /\ pc' = [pc EXCEPT ![x] = "deposit"]
  <2>1. pc'[x] = "deposit"
    BY <1>1, <1>16 DEF Control
  <2>2. LogsKept
    <3>1. ~HasXfer(logs[f], "withdraw", x)
      BY <1>1, <1>2, <1>4, Untagged DEF Early
    <3>2. Fresh(f, "withdraw", x, 0 - n)
      BY <1>4, <3>1 DEF Fresh
    <3> QED
      BY <1>1, <1>4, <1>5, <1>16, <3>2, GrowsLogs
  <2>3. Balances' /\ Once' /\ Flat' /\ Mirrors' /\ Stored'
    BY <1>1, <1>2, <2>2, StoredKept DEF LogsKept, Mirrors
  <2>4. Tags'
    <3>1. Later
      BY <1>2, <1>9, <2>1 DEF Later, Early
    <3>2. \A b : Tagged([kind |-> "withdraw", xfer |-> x, after |-> b], f, rec', pc')
      BY <1>0, <1>2, <1>4, <2>1 DEF Tagged, Early
    <3> QED
      BY <1>1, <1>4, <1>16, <3>1, <3>2, GrowsTags
  <2>5. OthersUnmoved(x)
    BY <1>1, <1>2, <1>4, <1>16, GrowsUnmoved DEF OthersUnmoved
  <2>6. Out(x)' /\ ~In(x)'
    <3>0. /\ f \in Accounts /\ g \in Accounts /\ g = rec[x].To
          /\ Grows(f, "withdraw", x, 0 - n)
      BY <1>0, <1>4, <1>16
    <3>1. HasXfer(logs'[f], "withdraw", x)
      BY ONLY <3>0, GrowsHas
    <3>2. HasXfer(logs'[g], "topup", x) <=> HasXfer(logs[g], "topup", x)
      <4>1. HasXfer(logs'[g], "topup", x) <=> HasXfer(logs[g], "topup", x) \/
              (g = f /\ "topup" = "withdraw" /\ x = x)
        BY ONLY <3>0, GrowsHas
      <4> QED
        BY <4>1
    <3>3. ~HasXfer(logs[rec[x].To], "topup", x)
      BY <1>1, <1>2, <1>4, Untagged DEF Early
    <3> QED
      BY <1>0, <1>2, <1>4, <3>1, <3>2, <3>3 DEF Out, In, withdrew, deposited
  <2>7. Records' /\ Progress' /\ Journaled' /\ Unlost'
    <3>1. Around(x)
      BY <1>2, <1>9, <2>5 DEF Around, OthersUnmoved
    <3>2. Place(x)' /\ Backed(x)'
      BY <1>2, <1>12, <2>1, <2>6 DEF Place, Backed
    <3>3. Arranged(x)
      BY <1>2, <1>5, <1>13, <1>14, <2>1, <3>2 DEF Arranged
    <3> QED
      BY <1>1, <3>1, <3>3, AroundKept
  <2>8. /\ OnlyAt(f) /\ Alloc(f)' = Alloc(f) + (0 - n)
    BY <1>4, <1>16, GrowsAlloc DEF OnlyAt
  <2>9. Alloc(f) \in Nat /\ Alloc(f)' \in Nat
    <3>1. Alloc(f) \in Nat
      BY <1>1, <1>4, AllocNat
    <3>2. Alloc(f)' = bds'[f].B0
      <4>1. Alloc(f)' = Alloc(f) + (0 - n) /\ bds'[f].B0 = Alloc(f) + (0 - n)
        BY <1>16, <2>8 DEF Grows
      <4> QED
        BY <4>1
    <3>3. bds'[f] \in Plain
      BY <1>4, <2>3 DEF Balances
    <3>4. bds'[f].B0 \in Nat
      BY <3>3 DEF Plain, PlainRecord
    <3> QED
      BY <3>1, <3>2, <3>4
  <2>10. Alloc(f)' = Alloc(f) - n
    BY <1>4, <2>8, <2>9, MinusAsPlus
  <2>11. Leaves(x)
    <3>1. /\ OnlyAt(f) <=> OnlyAt(rec[x].From)
          /\ Alloc(f)' = Alloc(rec[x].From)' /\ Alloc(f) = Alloc(rec[x].From)
      BY <1>0, <1>2 DEF OnlyAt, Alloc
    <3> QED
      BY <1>0, <1>2, <1>4, <1>8, <2>5, <2>6, <2>8, <2>9, <2>10, <3>1
         DEF Leaves, Known
  <2> QED
    BY <1>11, <2>3, <2>4, <2>7, <2>11 DEF Good, Moves, IInv, Typed
<1> QED
  BY <1>10, <1>15, <1>16

(* The second leg, made by the goroutine or by the next start.             *)
Settles == Balances' /\ Stored' /\ Once' /\ Flat' /\ Mirrors' /\ Tags'

(* A deposit of a transfer that is out brings its money in.                *)
LEMMA DepositArrives ==
  ASSUME IInv, InMemory, NEW x \in Xfers, rec[x] # NoRecord, Out(x), ~In(x),
         NEW g, g = rec[x].To, NEW n, n = rec[x].Amount,
         Grows(g, "topup", x, n), rec' = rec, Later, pc'[x] \notin Early,
         synced' = synced
  PROVE  Settles /\ Arrives(x)
<1>1. /\ Balances /\ Stored /\ Journal /\ Control /\ Records /\ Tags /\ Once
      /\ Progress /\ Journaled /\ Mirrors /\ Flat /\ Unlost
  BY DEF IInv, Typed
<1>2. PICK f : f = rec[x].From
  OBVIOUS
<1>3. /\ rec[x] \in Record /\ rec[x].XferID = x
      /\ f \in Accounts /\ n \in Nat /\ n > 0 /\ rec[x].From # rec[x].To
      /\ g \in Accounts /\ x # ""
  BY <1>1, <1>2, RecordKnown
<1>4. LogsKept
  <2>1. ~HasXfer(logs[g], "topup", x)
    BY <1>1, OutIn
  <2>2. Fresh(g, "topup", x, n)
    BY <1>3, <2>1 DEF Fresh
  <2> QED
    BY <1>1, <1>3, <2>2, GrowsLogs
<1>5. Balances' /\ Once' /\ Flat' /\ Mirrors' /\ Stored'
  BY <1>1, <1>4, StoredKept DEF LogsKept, Mirrors
<1>6. Tags'
  <2>1. \A b : Tagged([kind |-> "topup", xfer |-> x, after |-> b], g, rec', pc')
    BY <1>3 DEF Tagged
  <2> QED
    BY <1>1, <1>3, <2>1, GrowsTags
<1>7. OthersUnmoved(x)
  BY <1>1, <1>3, GrowsUnmoved DEF OthersUnmoved
<1>8. Out(x)' /\ In(x)'
  <2>0. f \in Accounts /\ g \in Accounts /\ Grows(g, "topup", x, n)
    BY <1>3
  <2>1. HasXfer(logs'[g], "topup", x)
    BY ONLY <2>0, GrowsHas
  <2>2. HasXfer(logs[f], "withdraw", x)
    BY <1>1, <1>2, OutIn
  <2>3. HasXfer(logs'[f], "withdraw", x)
    BY <1>3, <2>2, GrowsHas
  <2> QED
    BY <1>2, <1>3, <2>1, <2>3 DEF Out, In, withdrew, deposited
<1>9. OnlyAt(g) /\ Alloc(g)' = Alloc(g) + n
  <2>0. g \in Accounts /\ Grows(g, "topup", x, n)
    BY <1>3
  <2>1. Alloc(g)' = Alloc(g) + n /\ \A b \in Accounts \ {g} : Alloc(b)' = Alloc(b)
    BY ONLY <2>0, GrowsAlloc
  <2> QED
    BY <2>1 DEF OnlyAt
<1>10. Arrives(x)
  <2>1. /\ OnlyAt(g) <=> OnlyAt(rec[x].To)
        /\ Alloc(g)' = Alloc(rec[x].To)' /\ Alloc(g) = Alloc(rec[x].To)
    BY DEF OnlyAt, Alloc
  <2> QED
    BY <1>3, <1>7, <1>8, <1>9, <2>1 DEF Arrives, Known
<1> QED
  BY <1>5, <1>6, <1>10 DEF Settles

(* The deposit of a running transfer is a good step.                       *)
LEMMA DepositGood ==
  ASSUME IInv, NEW x \in Xfers, Deposit(x)
  PROVE  Good
<1>0. PICK g, n : g = rec[x].To /\ n = rec[x].Amount
  OBVIOUS
<1> DEFINE r(ok) == TopUpXfer(bds[g], n, x, 0, ok)
<1>1. /\ Balances /\ Stored /\ Journal /\ Control /\ Records /\ Tags /\ Once
      /\ Progress /\ Journaled /\ Mirrors /\ Flat /\ Unlost
  BY DEF IInv, Typed
<1>2. /\ synced' = synced /\ open' = open /\ rec' = rec /\ journal' = journal
      /\ status' = status /\ crashes' = crashes
      /\ faults' = faults /\ lost' = lost /\ pc[x] = "deposit" /\ Running
  BY DEF Deposit, history
<1>3. PICK ok \in Outcomes(g) :
        /\ Commit(g, r(ok), x)
        /\ pc' = [pc EXCEPT ![x] = IF r(ok).ok THEN "delete" ELSE "done"]
  BY <1>0 DEF Deposit
<1>4. /\ rec[x] # NoRecord /\ rec[x] \in Record /\ rec[x].XferID = x
      /\ g \in Accounts /\ n \in Nat /\ n > 0 /\ x # ""
  <2>1. rec[x] # NoRecord
    BY <1>1, <1>2 DEF Records, RecordOf
  <2> QED
    BY <1>0, <1>1, <2>1, RecordKnown
<1>5. status # "down" /\ bds[g] \in Plain /\ InMemory /\ Running'
  BY <1>1, <1>2, <1>4 DEF Running, Mirrors, Balances
<1>6. Does(bds[g], r(ok), "topup", n)
  BY <1>4, <1>5, OutcomesBool, TopUpDoes
<1> HIDE DEF r
<1>7. \/ r(ok).ok = FALSE /\ Quiet
      \/ r(ok).ok = TRUE /\ Grows(g, "topup", x, n)
  BY <1>1, <1>3, <1>4, <1>5, <1>6, CommitGrows DEF Kinds
<1>8. Out(x) /\ ~In(x) /\ rec[x] \in journal
  BY <1>1, <1>2 DEF Progress, Place
<1>9. \A y \in Xfers \ {x} : pc'[y] = pc[y]
  BY <1>1, <1>3 DEF Control
<1>10. \/ Quiet /\ pc' = [pc EXCEPT ![x] = "done"]
       \/ Grows(g, "topup", x, n) /\ pc' = [pc EXCEPT ![x] = "delete"]
  BY <1>3, <1>7
<1>11. Control' /\ Journal'
  BY <1>1, <1>2, <1>10 DEF Control, Journal
<1>12. pc'[x] \in {"done", "delete"}
  BY <1>1, <1>10 DEF Control
<1>13. \A u \in journal' : rec'[u.XferID] = u
  BY <1>1, <1>2 DEF Records
<1>14. RecordOf(x)'
  <2>1. RecordOf(x)
    BY <1>1 DEF Records
  <2> QED
    BY <1>2, <1>4, <1>12, <2>1 DEF RecordOf
<1>15. Later
  BY <1>2, <1>9, <1>12 DEF Later, Early
<1>16. CASE Quiet /\ pc' = [pc EXCEPT ![x] = "done"]
  <2>1. Still
    BY <1>2, <1>16, QuietStill DEF Quiet
  <2>2. pc'[x] = "done"
    BY <1>1, <1>16 DEF Control
  <2>3. Tags'
    BY <1>1, <1>15, <1>16, QuietTags DEF Quiet
  <2>4. Records' /\ Progress' /\ Journaled' /\ Unlost'
    <3>1. Around(x)
      BY <1>2, <1>9, <2>1 DEF Around, Still
    <3>2. Place(x)' /\ Backed(x)'
      BY <1>2, <1>8, <2>2 DEF Place, Backed
    <3>3. Arranged(x)
      BY <1>2, <1>5, <1>13, <1>14, <3>2 DEF Arranged
    <3> QED
      BY <1>1, <3>1, <3>3, AroundKept
  <2>5. Balances' /\ Stored' /\ Once' /\ Flat' /\ Mirrors'
    BY <1>1, <1>2, <1>16, FrameKept
  <2> QED
    BY <1>11, <2>1, <2>3, <2>4, <2>5 DEF Good, Moves, IInv, Typed
<1>17. CASE Grows(g, "topup", x, n) /\ pc' = [pc EXCEPT ![x] = "delete"]
  <2>1. pc'[x] = "delete"
    BY <1>1, <1>17 DEF Control
  <2>2. pc'[x] \notin Early
    BY <2>1 DEF Early
  <2>3. Settles /\ Arrives(x)
    BY <1>0, <1>2, <1>4, <1>5, <1>8, <1>15, <1>17, <2>2, DepositArrives
  <2>4. Records' /\ Progress' /\ Journaled' /\ Unlost'
    <3>1. Around(x)
      BY <1>2, <1>9, <2>3 DEF Around, Arrives, OthersUnmoved
    <3>2. Place(x)' /\ Backed(x)'
      BY <2>1, <2>3 DEF Place, Backed, Arrives
    <3>3. Arranged(x)
      BY <1>2, <1>5, <1>13, <1>14, <3>2 DEF Arranged
    <3> QED
      BY <1>1, <3>1, <3>3, AroundKept
  <2> QED
    BY <1>11, <2>3, <2>4 DEF Good, Moves, IInv, Typed, Settles
<1> QED
  BY <1>10, <1>16, <1>17

(* Recovery finishes a transfer of which only the first leg was made.      *)
LEMMA CompleteGood ==
  ASSUME IInv, NEW t \in journal, completeTransfer(t)
  PROVE  Good
<1>1. /\ Balances /\ Stored /\ Journal /\ Control /\ Records /\ Tags /\ Once
      /\ Progress /\ Journaled /\ Mirrors /\ Flat /\ Unlost
  BY DEF IInv, Typed
<1>2. /\ synced' = synced /\ open' = open /\ rec' = rec /\ journal' = journal
      /\ crashes' = crashes /\ pc' = pc
      /\ faults' = faults /\ lost' = lost /\ status = "recovering"
  BY DEF completeTransfer, history
<1>3. PICK x, g, n : x = t.XferID /\ g = t.To /\ n = t.Amount
  OBVIOUS
<1>4. x \in Xfers /\ rec[x] = t /\ t # NoRecord
  BY <1>1, <1>3, JournalKnown
<1>5. /\ g = rec[x].To /\ n = rec[x].Amount
      /\ g \in Accounts /\ n \in Nat /\ n > 0 /\ x # ""
  BY <1>1, <1>3, <1>4, RecordKnown
<1>6. status # "down" /\ bds[g] \in Plain /\ InMemory /\ ~Running
  BY <1>1, <1>2, <1>5 DEF Running, Mirrors, Balances
<1>7. pc[x] = "done"
  BY <1>1, <1>4, <1>6 DEF Progress, Records, RecordOf
<1>8. Later /\ pc'[x] \notin Early
  BY <1>2, <1>7 DEF Later, Early
<1>9. ASSUME Quiet, status' \in {"recovering", "refused"}  PROVE Good
  <2>1. Still
    BY <1>2, <1>9, QuietStill DEF Quiet
  <2>2. Tags'
    BY <1>1, <1>8, <1>9, QuietTags DEF Quiet
  <2>3. Records' /\ Progress' /\ Journaled' /\ Unlost'
    BY <1>1, <1>2, <1>6, <2>1, AsideKept DEF Aside, Still
  <2>4. Balances' /\ Stored' /\ Once' /\ Flat' /\ Mirrors'
    BY <1>1, <1>2, <1>6, <1>9, FrameKept
  <2>5. Journal' /\ Control'
    BY <1>1, <1>2, <1>9 DEF Journal, Control
  <2> QED
    BY <2>1, <2>2, <2>3, <2>4, <2>5 DEF Good, Moves, IInv, Typed
<1>10. CASE ~withdrew(t) /\ status' = "refused" /\ UNCHANGED <<bds, logs>>
  BY <1>9, <1>10 DEF Quiet
<1>11. CASE /\ withdrew(t) /\ ~deposited(t)
            /\ \E ok \in Outcomes(t.To) :
                 LET r == TopUpXfer(bds[t.To], t.Amount, t.XferID, 0, ok)
                 IN  /\ Commit(t.To, r, t.XferID)
                     /\ status' = IF r.ok THEN status ELSE "refused"
  <2> DEFINE r(ok) == TopUpXfer(bds[g], n, x, 0, ok)
  <2>1. PICK ok \in Outcomes(g) :
          Commit(g, r(ok), x) /\ status' = IF r(ok).ok THEN status ELSE "refused"
    BY <1>3, <1>11
  <2>2. Does(bds[g], r(ok), "topup", n)
    BY <1>5, <1>6, OutcomesBool, TopUpDoes
  <2> HIDE DEF r
  <2>3. \/ r(ok).ok = FALSE /\ Quiet
        \/ r(ok).ok = TRUE /\ Grows(g, "topup", x, n)
    BY <1>1, <1>4, <1>5, <1>6, <2>1, <2>2, CommitGrows DEF Kinds
  <2>4. \/ Quiet /\ status' = "refused"
        \/ Grows(g, "topup", x, n) /\ status' = "recovering"
    BY <1>2, <2>1, <2>3
  <2>5. CASE Quiet /\ status' = "refused"
    BY <1>9, <2>5
  <2>6. CASE Grows(g, "topup", x, n) /\ status' = "recovering"
    <3>1. Out(x) /\ ~In(x)
      BY <1>4, <1>11 DEF Out, In
    <3>2. Settles /\ Arrives(x)
      BY <1>2, <1>4, <1>5, <1>6, <1>8, <2>6, <3>1, DepositArrives
    <3>3. Journal' /\ Control'
      BY <1>1, <1>2, <2>6 DEF Journal, Control
    <3>4. Records' /\ Progress' /\ Journaled' /\ Unlost'
      <4>1. Around(x)
        BY <1>2, <3>2 DEF Around, Arrives, OthersUnmoved
      <4>2. Place(x)' /\ Backed(x)'
        BY <1>2, <1>7, <3>2 DEF Place, Backed, Arrives
      <4>3. RecordOf(x)'
        BY <1>1, <1>2, <1>4 DEF Records, RecordOf
      <4>4. \A u \in journal' : rec'[u.XferID] = u
        BY <1>1, <1>2 DEF Records
      <4>5. Arranged(x)
        BY <1>2, <1>6, <1>7, <4>2, <4>3, <4>4 DEF Arranged
      <4> QED
        BY <1>1, <1>4, <4>1, <4>5, AroundKept
    <3> QED
      BY <1>4, <3>2, <3>3, <3>4 DEF Good, Moves, IInv, Typed, Settles
  <2> QED
    BY <2>4, <2>5, <2>6
<1> QED
  BY <1>10, <1>11 DEF completeTransfer

(* Recovering one record of the journal is a good step.                    *)
LEMMA RecoverGood ==
  ASSUME IInv, NEW t \in journal, recoverTransfers(t)
  PROVE  Good
<1>1. /\ Balances /\ Stored /\ Journal /\ Control /\ Records /\ Tags /\ Once
      /\ Progress /\ Journaled /\ Mirrors /\ Flat /\ Unlost
  BY DEF IInv, Typed
<1>2. /\ synced' = synced /\ open' = open /\ rec' = rec /\ bds' = bds
      /\ logs' = logs /\ crashes' = crashes /\ pc' = pc
      /\ faults' = faults /\ lost' = lost /\ status = "recovering"
      /\ \/ journal' = journal \ {t} /\ status' = status
         \/ journal' = journal /\ status' = "refused"
      /\ withdrew(t) <=> deposited(t)
  BY DEF recoverTransfers, history
<1>3. PICK x : x = t.XferID
  OBVIOUS
<1>4. x \in Xfers /\ rec[x] = t /\ t # NoRecord /\ t \in Record
  BY <1>1, <1>3, JournalKnown
<1>5. ~Running /\ ~Running'
  BY <1>2 DEF Running
<1>6. pc[x] = "done"
  BY <1>1, <1>4, <1>5 DEF Progress, Records, RecordOf
<1>7. Still
  BY <1>2, QuietStill
<1>8. Tags'
  <2>1. Later
    BY <1>2 DEF Later
  <2> QED
    BY <1>1, <1>2, <2>1, QuietTags
<1>9. Records' /\ Progress' /\ Journaled' /\ Unlost'
  <2>1. Around(x)
    <3>1. \A y \in Xfers \ {x} : rec[y] \in journal' <=> rec[y] \in journal
      BY <1>1, <1>2, <1>4, RecordsApart
    <3> QED
      BY <1>2, <1>7, <3>1 DEF Around, Still
  <2>2. Place(x)'
    BY <1>2, <1>6 DEF Place
  <2>3. Backed(x)'
    <3>1. Out(x) <=> In(x)
      BY <1>2, <1>4 DEF Out, In
    <3> QED
      BY <1>4, <1>7, <3>1 DEF Backed, Still, Unmoved
  <2>4. RecordOf(x)'
    BY <1>1, <1>2, <1>4 DEF Records, RecordOf
  <2>5. \A u \in journal' : rec'[u.XferID] = u
    BY <1>1, <1>2 DEF Records
  <2>6. Arranged(x)
    BY <1>2, <1>5, <1>6, <2>2, <2>3, <2>4, <2>5 DEF Arranged
  <2> QED
    BY <1>1, <1>4, <2>1, <2>6, AroundKept
<1>10. Balances' /\ Stored' /\ Once' /\ Flat' /\ Mirrors'
  BY <1>1, <1>2, FrameKept DEF Quiet
<1>11. Journal'
  BY <1>1, <1>2, <1>4, FiniteJournal DEF Journal
<1>12. Control'
  BY <1>1, <1>2 DEF Control
<1> QED
  BY <1>7, <1>8, <1>9, <1>10, <1>11, <1>12 DEF Good, Moves, IInv, Typed

(* Steps that touch neither a log nor a record.                            *)
LEMMA AsideGood ==
  ASSUME IInv, Aside, logs' = logs, lost' = lost, Stored', Control', Mirrors',
         Balances', \A y \in Xfers : pc'[y] = pc[y] \/ (pc'[y] = "done" /\ pc[y] # "idle"),
         ~Running' => \A y \in Xfers : pc'[y] \in {"idle", "done"}
  PROVE  Good
<1>1. /\ Balances /\ Stored /\ Journal /\ Control /\ Records /\ Tags /\ Once
      /\ Progress /\ Journaled /\ Mirrors /\ Flat /\ Unlost
  BY DEF IInv, Typed
<1>2. rec' = rec /\ journal' = journal /\ faults' = faults
  BY DEF Aside
<1>3. Still
  BY <1>2, QuietStill
<1>4. Tags'
  <2>1. Later
    BY <1>2 DEF Later, Early
  <2> QED
    BY <1>1, <2>1, QuietTags
<1>5. Once' /\ Flat' /\ Journal' /\ Unlost'
  BY <1>1, <1>2 DEF Once, Flat, Journal, Unlost
<1>6. ASSUME NEW y \in Xfers
      PROVE  Place(y)' /\ RecordOf(y)' /\ (Backed(y) => Backed(y)')
  <2>1. Place(y) /\ RecordOf(y) /\ Unmoved(y)
    BY <1>1, <1>3 DEF Progress, Records, Still
  <2>2. pc'[y] = pc[y] \/ (pc'[y] = "done" /\ pc[y] # "idle")
    OBVIOUS
  <2>3. Place(y)'
    BY <1>2, <2>1, <2>2 DEF Place, Unmoved
  <2>4. RecordOf(y)'
    BY <1>2, <2>1, <2>2 DEF RecordOf
  <2>5. Backed(y) => Backed(y)'
    BY <1>2, <2>1 DEF Backed, Unmoved
  <2> QED
    BY <2>3, <2>4, <2>5
<1>7. Records' /\ Progress' /\ Journaled'
  BY <1>1, <1>2, <1>6 DEF Records, Progress, Journaled
<1> QED
  BY <1>3, <1>4, <1>5, <1>7 DEF Good, Moves, IInv, Typed

(* The daemon starting to serve is a good step.                            *)
LEMMA ServeGood ==
  ASSUME IInv, Serve
  PROVE  Good
<1>1. Balances /\ Stored /\ Control /\ Once /\ Flat /\ Mirrors /\ Progress
  BY DEF IInv, Typed
<1>2. /\ Quiet /\ synced' = synced /\ open' = open /\ pc' = pc /\ Aside
      /\ crashes' = crashes /\ lost' = lost /\ status = "recovering"
      /\ status' = "up" /\ rec' = rec /\ faults' = faults
  BY DEF Serve, history, Quiet, Aside
<1>3. Balances' /\ Stored' /\ Mirrors'
  BY <1>1, <1>2, FrameKept
<1>4. Control' /\ Running'
  BY <1>1, <1>2 DEF Control, Running
<1> QED
  BY <1>2, <1>3, <1>4, AsideGood DEF Quiet

(* Opening the registry at startup is a good step.                         *)
LEMMA RegistryGood ==
  ASSUME IInv, NewRegistry
  PROVE  Good
<1>1. Balances /\ Stored /\ Control /\ Progress
  BY DEF IInv, Typed
<1>2. /\ bds' = [a \in Accounts |-> Opened(a)]
      /\ synced' = [a \in Accounts |-> Len(logs[a])]
      /\ open' = [a \in Accounts |-> TRUE] /\ status' = "recovering"
      /\ logs' = logs /\ pc' = pc /\ Aside /\ crashes' = crashes
      /\ lost' = lost /\ rec' = rec /\ faults' = faults
      /\ status \in {"down", "refused"}
  BY DEF NewRegistry, history, Aside
<1>3. Balances'
  <2>1. \A a \in Accounts : Opened(a) \in Plain
    BY <1>1, OpenedAlloc
  <2> QED
    BY <1>1, <1>2, <2>1 DEF Balances
<1>4. Mirrors'
  <2>1. ASSUME NEW a \in Accounts  PROVE bds'[a] = Opened(a)'
    BY <1>2, <2>1 DEF Opened, NewAccount
  <2> QED
    BY <2>1 DEF Mirrors, InMemory
<1>5. Stored'
  <2>1. \A a \in Accounts : Len(logs[a]) \in Nat
    BY <1>1, LogLen
  <2> QED
    BY <1>2, <2>1 DEF Stored
<1>6. Control'
  BY <1>1, <1>2 DEF Control
<1>7. ~Running
  BY <1>2 DEF Running
<1>8. \A y \in Xfers : pc'[y] \in {"idle", "done"}
  BY <1>1, <1>2, <1>7 DEF Progress
<1> QED
  BY <1>2, <1>3, <1>4, <1>5, <1>6, <1>8, AsideGood

(* A sync of one log is a good step.                                       *)
LEMMA SyncGood ==
  ASSUME IInv, NEW a \in Accounts, Sync(a)
  PROVE  Good
<1>1. Balances /\ Stored /\ Control /\ Once /\ Flat /\ Mirrors /\ Progress
  BY DEF IInv, Typed
<1>2. /\ bds' = bds /\ synced' = [synced EXCEPT ![a] = Len(logs[a])]
      /\ open' = open /\ status' = status
      /\ logs' = logs /\ pc' = pc /\ Aside /\ crashes' = crashes
      /\ lost' = lost /\ rec' = rec /\ faults' = faults
  BY DEF Sync, history, Aside
<1>3. Balances' /\ Control'
  BY <1>1, <1>2 DEF Balances, Control
<1>4. Mirrors'
  BY <1>1, <1>2 DEF Mirrors, InMemory, Opened, NewAccount
<1>5. Stored'
  <2>1. Len(logs[a]) \in Nat
    BY <1>1, LogLen
  <2> QED
    BY <1>1, <1>2, <2>1 DEF Stored
<1>6. ~Running' => \A y \in Xfers : pc'[y] \in {"idle", "done"}
  BY <1>1, <1>2 DEF Running, Progress
<1> QED
  BY <1>2, <1>3, <1>4, <1>5, <1>6, AsideGood

(* Closing one log is a good step.                                         *)
LEMMA CloseGood ==
  ASSUME IInv, NEW a \in Accounts, CloseLog(a)
  PROVE  Good
<1>1. Balances /\ Stored /\ Control /\ Once /\ Flat /\ Mirrors /\ Progress
  BY DEF IInv, Typed
<1>2. /\ bds' = bds /\ synced' = [synced EXCEPT ![a] = Len(logs[a])]
      /\ open' = [open EXCEPT ![a] = FALSE] /\ status' = "closing"
      /\ logs' = logs /\ pc' = pc /\ Aside /\ crashes' = crashes
      /\ lost' = lost /\ rec' = rec /\ faults' = faults /\ status # "down"
  BY DEF CloseLog, history, Aside, Running
<1>3. Balances' /\ Control'
  BY <1>1, <1>2 DEF Balances, Control
<1>4. Mirrors'
  BY <1>1, <1>2 DEF Mirrors, InMemory, Opened, NewAccount
<1>5. Stored'
  <2>1. Len(logs[a]) \in Nat
    BY <1>1, LogLen
  <2> QED
    BY <1>1, <1>2, <2>1 DEF Stored
<1>6. Running'
  BY <1>2 DEF Running
<1> QED
  BY <1>2, <1>3, <1>4, <1>5, <1>6, AsideGood

(* The process exiting is a good step.                                     *)
LEMMA ExitGood ==
  ASSUME IInv, Exit, UNCHANGED <<bds, logs, synced, journal, rec, history>>
  PROVE  Good
<1>1. Balances /\ Stored /\ Control /\ Once /\ Flat /\ Mirrors /\ Progress
  BY DEF IInv, Typed
<1>2. /\ Quiet /\ synced' = synced /\ Aside /\ lost' = lost
      /\ open' = [a \in Accounts |-> FALSE] /\ status' = "down"
      /\ crashes' = crashes + 1 /\ rec' = rec /\ faults' = faults
      /\ pc' = [x \in Xfers |-> IF pc[x] = "idle" THEN "idle" ELSE "done"]
  BY DEF Exit, history, Aside, Quiet
<1>3. Balances' /\ Stored' /\ Mirrors'
  BY <1>1, <1>2, FrameKept
<1>4. Control'
  BY <1>1, <1>2 DEF Control
<1>5. \A y \in Xfers : pc'[y] = pc[y] \/ (pc'[y] = "done" /\ pc[y] # "idle")
  BY <1>2
<1>6. \A y \in Xfers : pc'[y] \in {"idle", "done"}
  BY <1>2
<1> QED
  BY <1>2, <1>3, <1>4, <1>5, <1>6, AsideGood DEF Quiet

(* A stuttering step is a good step.                                       *)
LEMMA StutterGood ==
  ASSUME IInv, UNCHANGED vars
  PROVE  Good
<1>1. Balances /\ Stored /\ Control /\ Once /\ Flat /\ Mirrors /\ Progress
  BY DEF IInv, Typed
<1>2. /\ Quiet /\ synced' = synced /\ open' = open /\ pc' = pc /\ Aside
      /\ crashes' = crashes /\ lost' = lost
      /\ status' = status /\ rec' = rec /\ faults' = faults
  BY DEF vars, history, Quiet, Aside
<1>3. Balances' /\ Stored' /\ Mirrors'
  BY <1>1, <1>2, FrameKept
<1>4. Control'
  BY <1>1, <1>2 DEF Control
<1>5. ~Running' => \A y \in Xfers : pc'[y] \in {"idle", "done"}
  BY <1>1, <1>2 DEF Running, Progress
<1> QED
  BY <1>2, <1>3, <1>4, <1>5, AsideGood DEF Quiet

(* A power loss cuts a tail off each log.  When it cuts no leg, it moves   *)
(* no money: no entry between two legs changes an allocation.              *)
LEMMA PowerLossGood ==
  ASSUME IInv, PowerLoss
  PROVE  Good
<1>1. /\ Balances /\ Stored /\ Journal /\ Control /\ Records /\ Tags /\ Once
      /\ Progress /\ Journaled /\ Flat
  BY DEF IInv, Typed
<1>2. /\ bds' = bds /\ journal' = journal /\ rec' = rec /\ faults' = faults
      /\ open' = [a \in Accounts |-> FALSE] /\ status' = "down"
      /\ crashes' = crashes + 1 /\ "power" \in faults
      /\ pc' = [x \in Xfers |-> IF pc[x] = "idle" THEN "idle" ELSE "done"]
  BY DEF PowerLoss, Exit
<1>3. PICK keep \in [Accounts -> UNION {synced[a] .. Len(logs[a]) : a \in Accounts}] :
        /\ \A a \in Accounts : keep[a] \in synced[a] .. Len(logs[a])
        /\ logs' = [a \in Accounts |-> SubSeq(logs[a], 1, keep[a])]
        /\ synced' = keep
        /\ lost' = (lost \/ \E a \in Accounts :
                              \E i \in (keep[a] + 1) .. Len(logs[a]) :
                                logs[a][i].xfer # "")
  BY DEF PowerLoss
<1>4. ASSUME NEW a \in Accounts
      PROVE  /\ keep[a] \in Nat /\ keep[a] \in 0 .. Len(logs[a])
             /\ logs'[a] \in Seq(Entry) /\ Prefixes(logs'[a], logs[a])
             /\ Len(logs'[a]) = keep[a]
  <2>1. logs[a] \in Seq(Entry) /\ Len(logs[a]) \in Nat
    BY <1>1, LogLen
  <2>2. synced[a] \in Nat
    BY <1>1 DEF Stored
  <2>3. keep[a] \in synced[a] .. Len(logs[a])
    BY <1>3
  <2>4. keep[a] \in Nat /\ keep[a] \in 0 .. Len(logs[a])
    BY <2>1, <2>2, <2>3
  <2>5. logs'[a] = SubSeq(logs[a], 1, keep[a])
    BY <1>3
  <2> QED
    BY <2>1, <2>4, <2>5, CutLog
<1>5. lost' \in BOOLEAN
  BY <1>3
<1>6. Balances' /\ Stored' /\ Control' /\ Journal'
  <2>1. Balances'
    BY <1>1, <1>2, <1>3, <1>4 DEF Balances
  <2>2. Stored'
    <3>1. keep \in [Accounts -> Nat]
      BY <1>3, <1>4
    <3>2. \A n \in Nat : n <= n
      OBVIOUS
    <3>3. \A a \in Accounts : keep[a] <= Len(logs'[a])
      BY <1>4, <3>2
    <3> QED
      BY <1>3, <3>1, <3>3 DEF Stored
  <2>3. Control' /\ Journal'
    BY <1>1, <1>2, <1>5 DEF Control, Journal
  <2> QED
    BY <2>1, <2>2, <2>3
<1>7. Once' /\ Flat'
  <2>1. \A a \in Accounts : OnceIn(logs[a]) /\ FlatIn(logs[a])
    BY <1>1 DEF Once, Flat
  <2>2. \A a \in Accounts : OnceIn(logs'[a]) /\ FlatIn(logs'[a])
    BY <1>4, <2>1, PrefixKeeps
  <2> QED
    BY <2>2 DEF Once, Flat
<1>8. Tags'
  <2>1. Later
    BY <1>2 DEF Later, Early
  <2>2. ASSUME NEW a \in Accounts, NEW i \in 1 .. Len(logs'[a])
        PROVE  i \in 1 .. Len(logs[a]) /\ logs'[a][i] = logs[a][i]
    <3>1. Prefixes(logs'[a], logs[a])
      BY <1>4
    <3>2. i \in 1 .. Len(logs[a])
      BY <3>1, IndexWiden DEF Prefixes
    <3> QED
      BY <3>1, <3>2 DEF Prefixes
  <2> QED
    BY <1>1, <2>1, <2>2, TagsKept
<1>9. Records'
  <2>1. \A y \in Xfers : RecordOf(y)'
    BY <1>1, <1>2 DEF Records, RecordOf
  <2> QED
    BY <1>1, <1>2, <2>1 DEF Records
<1>10. Progress'
  BY <1>2 DEF Progress, Place
<1>11. ASSUME ~lost'  PROVE ~lost /\ Still
  <2>1. ~lost /\ \A a \in Accounts : NoLegAfter(logs[a], keep[a])
    BY <1>3, <1>11 DEF NoLegAfter
  <2>2. ASSUME NEW a \in Accounts
        PROVE  /\ \A k, x : x # "" => (HasXfer(logs'[a], k, x) <=> HasXfer(logs[a], k, x))
               /\ Alloc(a)' = Alloc(a)
    <3>1. /\ Prefixes(logs'[a], logs[a]) /\ NoLegAfter(logs[a], Len(logs'[a]))
          /\ FlatIn(logs[a])
      BY <1>1, <1>4, <2>1 DEF Flat
    <3>2. /\ \A k, x : x # "" => (HasXfer(logs'[a], k, x) <=> HasXfer(logs[a], k, x))
          /\ AllocAt(logs'[a], Len(logs'[a])) = AllocAt(logs[a], Len(logs[a]))
      BY <3>1, PrefixExact
    <3> QED
      BY <3>2 DEF Alloc
  <2>3. ASSUME NEW y \in Xfers  PROVE Unmoved(y)
    <3>1. CASE rec[y] = NoRecord
      BY <1>2, <3>1 DEF Unmoved, Out, In
    <3>2. CASE rec[y] # NoRecord
      <4>1. /\ rec[y].From \in Accounts /\ rec[y].To \in Accounts
            /\ rec[y].XferID = y /\ y # ""
        BY <1>1, <3>2, RecordKnown
      <4>2. /\ HasXfer(logs'[rec[y].From], "withdraw", y) <=>
                 HasXfer(logs[rec[y].From], "withdraw", y)
            /\ HasXfer(logs'[rec[y].To], "topup", y) <=>
                 HasXfer(logs[rec[y].To], "topup", y)
        BY <2>2, <4>1
      <4> QED
        BY <1>2, <4>1, <4>2 DEF Unmoved, Out, In, withdrew, deposited
    <3> QED
      BY <3>1, <3>2
  <2> QED
    BY <2>1, <2>2, <2>3 DEF Still
<1>12. Journaled'
  <2> SUFFICES ASSUME ~lost', NEW y \in Xfers  PROVE Backed(y)'
    BY DEF Journaled
  <2>1. ~lost /\ Unmoved(y)
    BY <1>11 DEF Still
  <2>2. Backed(y)
    BY <1>1, <2>1 DEF Journaled
  <2> QED
    BY <1>2, <2>1, <2>2 DEF Backed, Unmoved
<1>13. Mirrors' /\ Unlost'
  BY <1>2 DEF Mirrors, Unlost
<1> QED
  BY <1>6, <1>7, <1>8, <1>9, <1>10, <1>11, <1>12, <1>13 DEF Good, Moves, IInv, Typed

-----------------------------------------------------------------------------
(* The inductive invariant.                                                *)

(* The initial state satisfies the invariant.                              *)
LEMMA InitIInv == Init => IInv
<1> SUFFICES ASSUME Init  PROVE IInv
  OBVIOUS
<1>1. /\ bds = [a \in Accounts |-> NewAccount(a)]
      /\ logs = [a \in Accounts |-> <<>>]
      /\ synced = [a \in Accounts |-> 0] /\ open = [a \in Accounts |-> TRUE]
      /\ journal = {} /\ status = "up" /\ crashes = 0
      /\ lost = FALSE /\ faults \in Faults
      /\ pc = [x \in Xfers |-> "idle"] /\ rec = [x \in Xfers |-> NoRecord]
  BY DEF Init
<1>2. <<>> \in Seq(Entry) /\ Len(<<>>) = 0
  OBVIOUS
<1>3. \A a \in Accounts : logs[a] = <<>> /\ Len(logs[a]) = 0
  BY <1>1, <1>2
<1>4. Balances
  BY <1>1, <1>2, NewPlain DEF Balances
<1>5. Stored
  BY <1>1, <1>3 DEF Stored
<1>6. Journal /\ Control
  BY <1>1, FS_EmptySet DEF Journal, Control
<1>7. \A a \in Accounts : 1 .. Len(logs[a]) = {}
  BY <1>3
<1>8. Tags /\ Once
  BY <1>7 DEF Tags, Once, OnceIn
<1>9. Flat
  <2> SUFFICES ASSUME NEW a \in Accounts, NEW n \in 0 .. Len(logs[a]),
                      NEW m \in n .. Len(logs[a])
               PROVE  n = m
    BY DEF Flat, FlatIn
  <2>1. Len(logs[a]) = 0
    BY <1>3
  <2> QED
    BY <2>1
<1>10. Records
  BY <1>1 DEF Records, RecordOf
<1>11. Progress
  BY <1>1 DEF Progress, Place, Running
<1>12. Journaled
  BY <1>1 DEF Journaled, Backed, Out, In
<1>13. Mirrors /\ Unlost
  BY <1>1, <1>3 DEF Mirrors, InMemory, Opened, Unlost
<1> QED
  BY <1>4, <1>5, <1>6, <1>8, <1>9, <1>10, <1>11, <1>12, <1>13 DEF IInv, Typed

(* A budget's balance is a number.                                         *)
LEMMA PlainB ==
  ASSUME NEW b \in Plain
  PROVE  b.B \in Int
  BY DEF Plain, PlainRecord

(* Every step is a good step.                                              *)
LEMMA NextGood ==
  ASSUME IInv, [Next]_vars
  PROVE  Good
<1>1. ASSUME NEW x \in Xfers, NEW from \in Accounts, NEW to \in Accounts,
             NEW amt \in Amounts, Decide(x, from, to, amt)
      PROVE  Good
  <2>1. amt \in Int
    BY TransferAssumption
  <2> QED
    BY <1>1, <2>1, DecideGood
<1>2. ASSUME NEW x \in Xfers, NEW from \in Accounts, NEW to \in Accounts,
             Decide(x, from, to, bds[from].B)
      PROVE  Good
  <2>1. bds[from].B \in Int
    <3>1. bds[from] \in Plain
      BY DEF IInv, Typed, Balances
    <3> QED
      BY <3>1, PlainB
  <2>2. PICK amt \in Int : amt = bds[from].B
    BY <2>1
  <2> QED
    BY <1>2, <2>2, DecideGood
<1>3. ASSUME NEW x \in Xfers, TransferStep(x)  PROVE Good
  BY <1>3, WriteGood, WithdrawGood, DepositGood, DeleteGood DEF TransferStep
<1>4. ASSUME NEW a \in Accounts, Gate(a) \/ Settle(a) \/ Sync(a) \/ CloseLog(a)
      PROVE  Good
  BY <1>4, GateGood, SettleGood, SyncGood, CloseGood
<1>5. ASSUME Kill \/ Stop  PROVE Good
  BY <1>5, ExitGood DEF Kill, Stop
<1>6. ASSUME PowerLoss  PROVE Good
  BY <1>6, PowerLossGood
<1>7. ASSUME Recovery  PROVE Good
  BY <1>7, RegistryGood, ServeGood, CompleteGood, RecoverGood DEF Recovery
<1>8. ASSUME UNCHANGED vars  PROVE Good
  BY <1>8, StutterGood
<1> QED
  BY <1>1, <1>2, <1>3, <1>4, <1>5, <1>6, <1>7, <1>8 DEF Next

(* The transfers stay in order: the invariant holds in every behaviour.    *)
THEOREM Invariant == Spec => []IInv
<1>1. Init => IInv
  BY InitIInv
<1>2. IInv /\ [Next]_vars => IInv'
  BY NextGood DEF Good
<1> QED
  BY <1>1, <1>2, PTL DEF Spec

(* Types.                                                                  *)
THEOREM TypeCorrect == Spec => []TypeOK
<1>1. IInv => TypeOK
  <2> SUFFICES ASSUME IInv  PROVE TypeOK
    OBVIOUS
  <2>1. Balances /\ Stored /\ Journal /\ Control
    BY DEF IInv, Typed
  <2>2. DOMAIN bds = Accounts
    BY <2>1 DEF Balances
  <2>3. ASSUME NEW a \in Accounts  PROVE synced[a] \in 0 .. Len(logs[a])
    <3>1. Len(logs[a]) \in Nat
      BY <2>1, LogLen
    <3>2. synced[a] \in Nat /\ synced[a] <= Len(logs[a])
      BY <2>1 DEF Stored
    <3> QED
      BY <3>1, <3>2
  <2> QED
    BY <2>1, <2>2, <2>3 DEF TypeOK, Journal, Control
<1> QED
  BY <1>1, Invariant, PTL

(* A set without two different members has at most one.                    *)
LEMMA AtMostOne ==
  ASSUME NEW S, \A i, j \in S : i = j
  PROVE  Cardinality(S) <= 1
<1>1. CASE S = {}
  <2>1. Cardinality(S) = 0
    BY <1>1, FS_EmptySet
  <2> QED
    BY <2>1
<1>2. CASE S # {}
  <2>1. PICK i : S = {i}
    BY <1>2
  <2>2. Cardinality(S) = 1
    BY <2>1, FS_Singleton
  <2> QED
    BY <2>2
<1> QED
  BY <1>1, <1>2

(* Each leg is made at most once, whatever crashes, power losses and       *)
(* recoveries there are, for any number of accounts and transfers.         *)
THEOREM OnceOnly == Spec => []LegsOnce
<1>1. IInv => LegsOnce
  <2> SUFFICES ASSUME IInv  PROVE LegsOnce
    OBVIOUS
  <2>1. Control /\ Records /\ Once
    BY DEF IInv, Typed
  <2>2. ASSUME NEW x \in Xfers, NEW a \in Accounts, NEW k
        PROVE  Cardinality(Legs(a, k, x)) <= 1
    <3>1. OnceIn(logs[a]) /\ x # ""
      BY <2>1, TransferAssumption DEF Once
    <3>2. \A i, j \in Legs(a, k, x) : i = j
      BY <3>1 DEF OnceIn, Legs
    <3> QED
      BY <3>2, AtMostOne
  <2>3. \A x \in Xfers : rec[x] # NoRecord =>
          rec[x].From \in Accounts /\ rec[x].To \in Accounts
    BY <2>1, RecordKnown
  <2> QED
    BY <2>2, <2>3 DEF LegsOnce
<1> QED
  BY <1>1, Invariant, PTL

-----------------------------------------------------------------------------
(* Money.                                                                  *)

(* What the records say is under way, read off the records themselves.     *)
UnderWay == {x \in Xfers : Out(x) /\ ~In(x)}
Flying == {rec[x] : x \in UnderWay}

Allocs  == [a \in Accounts |-> Alloc(a)]
Carried == [t \in Flying |-> t.Amount]

(* The money in flight is that of the transfers out and not in.            *)
LEMMA FlyingIs ==
  IInv /\ ~lost => /\ InFlight = Flying
                   /\ IsFiniteSet(Flying)
                   /\ \A t \in Flying : t.Amount \in Nat
<1> SUFFICES ASSUME IInv, ~lost
             PROVE  /\ InFlight = Flying
                    /\ IsFiniteSet(Flying)
                    /\ \A t \in Flying : t.Amount \in Nat
  OBVIOUS
<1>1. Journal /\ Control /\ Records /\ Journaled
  BY DEF IInv, Typed
<1>2. ASSUME NEW t \in InFlight  PROVE t \in Flying
  <2>1. t \in journal /\ withdrew(t) /\ ~deposited(t)
    BY DEF InFlight
  <2>2. PICK x : x = t.XferID
    OBVIOUS
  <2>3. x \in Xfers /\ rec[x] = t /\ t # NoRecord
    BY <1>1, <2>1, <2>2, JournalKnown
  <2>4. x \in UnderWay
    BY <2>1, <2>3 DEF UnderWay, Out, In
  <2> QED
    BY <2>3, <2>4 DEF Flying
<1>3. ASSUME NEW t \in Flying  PROVE t \in InFlight /\ t.Amount \in Nat
  <2>1. PICK x \in UnderWay : t = rec[x]
    BY DEF Flying
  <2>2. x \in Xfers /\ Out(x) /\ ~In(x)
    BY DEF UnderWay
  <2>3. rec[x] # NoRecord /\ withdrew(t) /\ ~deposited(t)
    BY <2>1, <2>2 DEF Out, In
  <2>4. t \in journal
    BY <1>1, <2>1, <2>2 DEF Journaled, Backed
  <2>5. t.Amount \in Nat
    BY <1>1, <2>1, <2>2, <2>3, RecordKnown
  <2> QED
    BY <2>3, <2>4, <2>5 DEF InFlight
<1>4. InFlight = Flying
  BY <1>2, <1>3
<1>5. IsFiniteSet(InFlight)
  BY <1>1, FS_Subset DEF InFlight, Journal
<1> QED
  BY <1>3, <1>4, <1>5

(* The allocations the logs give are those the budgets hold.               *)
LEMMA AllocsAre ==
  IInv => /\ [a \in Accounts |-> Opened(a).B0] = Allocs
          /\ \A a \in Accounts : Alloc(a) \in Nat
<1> SUFFICES ASSUME IInv
             PROVE  /\ [a \in Accounts |-> Opened(a).B0] = Allocs
                    /\ \A a \in Accounts : Alloc(a) \in Nat
  OBVIOUS
<1>1. Balances
  BY DEF IInv, Typed
<1>2. \A a \in Accounts : Opened(a).B0 = Alloc(a) /\ Alloc(a) \in Nat
  BY <1>1, OpenedAlloc, AllocNat
<1> QED
  BY <1>2 DEF Allocs

(* The money, as two families of natural amounts.                          *)
Counted ==
  /\ Family(Allocs) /\ Family(Carried)
  /\ MoneyConserved <=> Total(Allocs) + Total(Carried) = Cardinality(Accounts) * Opening

(* The two counts of the money agree, now.                                 *)
LEMMA CountedNow == IInv /\ ~lost => Counted
<1> SUFFICES ASSUME IInv, ~lost  PROVE Counted
  OBVIOUS
<1>1. /\ InFlight = Flying /\ IsFiniteSet(Flying)
      /\ \A t \in Flying : t.Amount \in Nat
  BY FlyingIs
<1>2. /\ [a \in Accounts |-> Opened(a).B0] = Allocs
      /\ \A a \in Accounts : Alloc(a) \in Nat
  BY AllocsAre
<1>3. Family(Allocs)
  BY <1>2, TransferAssumption DEF Family, Allocs
<1>4. Family(Carried)
  BY <1>1 DEF Family, Carried
<1>5. [t \in InFlight |-> t.Amount] = Carried
  BY <1>1 DEF Carried
<1> QED
  BY <1>2, <1>3, <1>4, <1>5 DEF Counted, MoneyConserved

(* The two counts of the money agree, after a step.                        *)
LEMMA CountedNext == (IInv /\ ~lost => Counted)'
  BY CountedNow, PTL

(* No action brings a cut leg back.                                        *)
LEMMA LostStays ==
  ASSUME [Next]_vars, ~lost'
  PROVE  ~lost
<1>1. ASSUME NEW x, NEW from, NEW to, NEW amt, Decide(x, from, to, amt)
      PROVE  ~lost
  BY <1>1 DEF Decide, history
<1>2. ASSUME NEW x, TransferStep(x)  PROVE ~lost
  BY <1>2 DEF TransferStep, writeTransferRecord, Withdraw, Deposit,
     deleteTransferRecord, history
<1>3. ASSUME NEW a, Gate(a) \/ Settle(a) \/ Sync(a) \/ CloseLog(a)
      PROVE  ~lost
  BY <1>3 DEF Gate, Settle, Sync, CloseLog, history
<1>4. ASSUME Kill \/ Stop \/ PowerLoss  PROVE ~lost
  BY <1>4 DEF Kill, Stop, PowerLoss, history
<1>5. ASSUME Recovery  PROVE ~lost
  BY <1>5 DEF Recovery, NewRegistry, Serve, completeTransfer,
     recoverTransfers, history
<1>6. ASSUME UNCHANGED vars  PROVE ~lost
  BY <1>6 DEF vars, history
<1> QED
  BY <1>1, <1>2, <1>3, <1>4, <1>5, <1>6 DEF Next

(* A step that moves an amount moves it between two places that are both   *)
(* counted.                                                                *)
LEMMA MoneyStep ==
  ASSUME Control, Records, Moves, Family(Allocs), Family(Carried), Family(Allocs)',
         Family(Carried)'
  PROVE  Total(Allocs)' + Total(Carried)' = Total(Allocs) + Total(Carried)
<1>0. Total(Allocs) \in Nat /\ Total(Carried) \in Nat
  BY CoinsFinite
<1>1. CASE Still
  <2>1. Allocs' = Allocs
    BY <1>1 DEF Still, Allocs
  <2>2. \A x \in Xfers : x \in UnderWay' <=> x \in UnderWay
    BY <1>1 DEF UnderWay, Still, Unmoved
  <2>3. \A x \in UnderWay : rec'[x] = rec[x]
    BY <1>1 DEF UnderWay, Still, Unmoved
  <2>4. UnderWay' = UnderWay
    BY <2>2 DEF UnderWay
  <2>5. Flying' = Flying
    BY <2>3, <2>4 DEF Flying
  <2>6. Carried' = Carried
    BY <2>5 DEF Carried
  <2> QED
    BY <2>1, <2>6
<1>2. ASSUME NEW x \in Xfers, Leaves(x)
      PROVE  Total(Allocs)' + Total(Carried)' = Total(Allocs) + Total(Carried)
  <2>1. PICK t, f, n : t = rec[x] /\ f = rec[x].From /\ n = rec[x].Amount
    OBVIOUS
  <2>2. /\ f \in Accounts /\ n \in Nat /\ rec'[x] = t /\ t.Amount = n /\ t.XferID = x
        /\ t # NoRecord
    BY <1>2, <2>1, NoRecordApart DEF Leaves, Known, Record
  <2>3. /\ \A b \in Accounts \ {f} : Alloc(b)' = Alloc(b)
        /\ Alloc(f)' = Alloc(f) - n /\ Alloc(f)' \in Nat
    BY <1>2, <2>1 DEF Leaves, Known, OnlyAt, Alloc
  <2>4. /\ Total(Allocs)' = Total(Allocs) - Alloc(f) + Alloc(f)'
        /\ Alloc(f) \in Nat
    <3>1. /\ DOMAIN Allocs = Accounts /\ DOMAIN Allocs' = Accounts
          /\ \A b \in Accounts : Allocs[b] = Alloc(b) /\ Allocs'[b] = Alloc(b)'
      BY DEF Allocs
    <3>2. Total(Allocs') = Total(Allocs) - Allocs[f] + Allocs'[f]
      BY <2>2, <2>3, <3>1, TotalUpdate
    <3> QED
      BY <2>2, <3>1, <3>2 DEF Family
  <2>5. UnderWay' = UnderWay \cup {x} /\ x \notin UnderWay
    <3>1. \A y \in Xfers \ {x} : y \in UnderWay' <=> y \in UnderWay
      BY <1>2 DEF UnderWay, Leaves, OthersUnmoved, Unmoved
    <3>2. x \in UnderWay' /\ x \notin UnderWay
      BY <1>2 DEF UnderWay, Leaves
    <3>3. UnderWay \subseteq Xfers /\ UnderWay' \subseteq Xfers
      BY DEF UnderWay
    <3> QED
      BY <3>1, <3>2, <3>3
  <2>6. \A y \in UnderWay : rec'[y] = rec[y]
    BY <1>2, <2>5 DEF UnderWay, Leaves, OthersUnmoved, Unmoved
  <2>7. Flying' = Flying \cup {t}
    BY <2>2, <2>5, <2>6 DEF Flying
  <2>8. t \notin Flying
    <3>1. \A y \in UnderWay : rec[y] # t
      BY <2>1, <2>2, <2>5, RecordsApart DEF UnderWay
    <3> QED
      BY <3>1 DEF Flying
  <2>9. Total(Carried)' = Total(Carried) + n
    <3>1. /\ DOMAIN Carried = Flying /\ DOMAIN Carried' = Flying'
          /\ \A u \in Flying : Carried[u] = u.Amount
          /\ \A u \in Flying' : Carried'[u] = u.Amount
      BY DEF Carried
    <3>2. /\ t \in DOMAIN Carried' /\ DOMAIN Carried = DOMAIN Carried' \ {t}
          /\ \A u \in DOMAIN Carried : Carried[u] = Carried'[u] /\ Carried'[t] = n
      BY <2>2, <2>7, <2>8, <3>1
    <3>3. Total(Carried') = Total(Carried) + Carried'[t]
      BY <3>2, TotalSplit
    <3> QED
      BY <2>2, <2>7, <3>1, <3>3
  <2> QED
    BY <1>0, <2>2, <2>3, <2>4, <2>9
<1>3. ASSUME NEW x \in Xfers, Arrives(x)
      PROVE  Total(Allocs)' + Total(Carried)' = Total(Allocs) + Total(Carried)
  <2>1. PICK t, f, n : t = rec[x] /\ f = rec[x].To /\ n = rec[x].Amount
    OBVIOUS
  <2>2. /\ f \in Accounts /\ n \in Nat /\ rec'[x] = t /\ t.Amount = n /\ t.XferID = x
        /\ t # NoRecord
    BY <1>3, <2>1, NoRecordApart DEF Arrives, Known, Record
  <2>3. /\ \A b \in Accounts \ {f} : Alloc(b)' = Alloc(b)
        /\ Alloc(f)' = Alloc(f) + n
    BY <1>3, <2>1 DEF Arrives, Known, OnlyAt, Alloc
  <2>4. /\ Total(Allocs)' = Total(Allocs) - Alloc(f) + Alloc(f)'
        /\ Alloc(f) \in Nat
    <3>1. /\ DOMAIN Allocs = Accounts /\ DOMAIN Allocs' = Accounts
          /\ \A b \in Accounts : Allocs[b] = Alloc(b) /\ Allocs'[b] = Alloc(b)'
      BY DEF Allocs
    <3>2. Allocs'[f] \in Nat /\ Allocs[f] \in Nat
      BY <2>2, <3>1 DEF Family
    <3>3. Total(Allocs') = Total(Allocs) - Allocs[f] + Allocs'[f]
      BY <2>2, <2>3, <3>1, <3>2, TotalUpdate
    <3> QED
      BY <2>2, <3>1, <3>2, <3>3
  <2>5. UnderWay' = UnderWay \ {x} /\ x \in UnderWay
    <3>1. \A y \in Xfers \ {x} : y \in UnderWay' <=> y \in UnderWay
      BY <1>3 DEF UnderWay, Arrives, OthersUnmoved, Unmoved
    <3>2. x \notin UnderWay' /\ x \in UnderWay
      BY <1>3 DEF UnderWay, Arrives
    <3>3. UnderWay \subseteq Xfers /\ UnderWay' \subseteq Xfers
      BY DEF UnderWay
    <3> QED
      BY <3>1, <3>2, <3>3
  <2>6. \A y \in UnderWay : rec'[y] = rec[y]
    BY <1>3, <2>1, <2>2, <2>5 DEF UnderWay, Arrives, OthersUnmoved, Unmoved
  <2>7. Flying' = Flying \ {t} /\ t \in Flying
    <3>1. \A y \in UnderWay \ {x} : rec[y] # t
      BY <2>1, <2>2, RecordsApart DEF UnderWay
    <3> QED
      BY <2>1, <2>2, <2>5, <2>6, <3>1 DEF Flying
  <2>8. Total(Carried) = Total(Carried)' + n /\ Total(Carried)' \in Nat
    <3>1. /\ DOMAIN Carried = Flying /\ DOMAIN Carried' = Flying'
          /\ \A u \in Flying : Carried[u] = u.Amount
          /\ \A u \in Flying' : Carried'[u] = u.Amount
      BY DEF Carried
    <3>2. /\ t \in DOMAIN Carried /\ DOMAIN Carried' = DOMAIN Carried \ {t}
          /\ \A u \in DOMAIN Carried' : Carried'[u] = Carried[u]
      BY <2>7, <3>1
    <3>3. Total(Carried) = Total(Carried') + Carried[t] /\ Total(Carried') \in Nat
      BY <3>2, TotalSplit
    <3> QED
      BY <2>2, <2>7, <3>1, <3>3
  <2> QED
    BY <1>0, <2>2, <2>3, <2>4, <2>8
<1> QED
  BY <1>1, <1>2, <1>3 DEF Moves

(* Every account opens with the same allocation.                           *)
LEMMA TotalConstant ==
  ASSUME NEW S, IsFiniteSet(S), NEW n \in Nat
  PROVE  Total([a \in S |-> n]) = Cardinality(S) * n
<1>1. CoinsOf([a \in S |-> n]) = S \X (1 .. n)
  BY DEF CoinsOf
<1>2. IsFiniteSet(1 .. n) /\ Cardinality(1 .. n) = n
  BY FS_Interval
<1>3. Cardinality(S \X (1 .. n)) = Cardinality(S) * Cardinality(1 .. n)
  BY <1>2, FS_Product
<1> QED
  BY <1>1, <1>2, <1>3 DEF Total

(* All money is in the accounts at first.                                  *)
LEMMA InitMoney ==
  ASSUME Init
  PROVE  MoneyConserved
<1>1. logs = [a \in Accounts |-> <<>>] /\ journal = {}
  BY DEF Init
<1>2. \A a \in Accounts : Opened(a).B0 = Opening
  BY <1>1, NewPlain DEF Opened
<1>3. [a \in Accounts |-> Opened(a).B0] = [a \in Accounts |-> Opening]
  BY <1>2
<1>4. Total([a \in Accounts |-> Opening]) = Cardinality(Accounts) * Opening
  BY TotalConstant, TransferAssumption
<1>5. Cardinality(Accounts) * Opening \in Nat
  <2>1. Cardinality(Accounts) \in Nat /\ Opening \in Nat
    BY FS_CardinalityType, TransferAssumption
  <2>2. \A p, q \in Nat : p * q \in Nat
    OBVIOUS
  <2> QED
    BY <2>1, <2>2
<1>6. InFlight = {}
  BY <1>1 DEF InFlight
<1>7. Total([t \in InFlight |-> t.Amount]) = 0
  BY <1>6, TotalEmpty
<1> QED
  BY <1>3, <1>4, <1>5, <1>7 DEF MoneyConserved

(* Money is never created or destroyed: at every moment the allocations    *)
(* the logs rebuild and the amounts under way add up to what the accounts  *)
(* were opened with, unless a power loss has cut a leg off a log.          *)
THEOREM NoMoneyLost == Spec => []MoneyConserved
<1>1. Init => MoneyConserved
  BY InitMoney
<1>2. ASSUME IInv, MoneyConserved, [Next]_vars  PROVE MoneyConserved'
  <2>1. CASE lost'
    BY <2>1 DEF MoneyConserved
  <2>2. CASE ~lost'
    <3>1. ~lost /\ IInv' /\ Moves
      BY <1>2, <2>2, LostStays, NextGood DEF Good
    <3>2. Counted
      BY <1>2, <3>1, CountedNow
    <3>3. Counted'
      BY <2>2, <3>1, CountedNext
    <3>4. /\ Family(Allocs) /\ Family(Carried)
          /\ Total(Allocs) + Total(Carried) = Cardinality(Accounts) * Opening
      BY <1>2, <3>2 DEF Counted
    <3>5. /\ Family(Allocs)' /\ Family(Carried)'
          /\ Total(Allocs)' + Total(Carried)' = Cardinality(Accounts) * Opening
               => MoneyConserved'
      BY <3>3 DEF Counted
    <3>6. Total(Allocs)' + Total(Carried)' = Total(Allocs) + Total(Carried)
      BY <1>2, <3>1, <3>4, <3>5, MoneyStep DEF IInv, Typed
    <3> QED
      BY <3>4, <3>5, <3>6
  <2> QED
    BY <2>1, <2>2
<1> QED
  BY <1>1, <1>2, Invariant, PTL DEF Spec

-----------------------------------------------------------------------------
(* A transfer implements an atomic move in two steps.                      *)

(* Which faults may happen is fixed at the start.                          *)
LEMMA FaultsStay ==
  ASSUME [Next]_vars
  PROVE  faults' = faults
<1>1. ASSUME NEW x, NEW from, NEW to, NEW amt, Decide(x, from, to, amt)
      PROVE  faults' = faults
  BY <1>1 DEF Decide, history
<1>2. ASSUME NEW x, TransferStep(x)  PROVE faults' = faults
  BY <1>2 DEF TransferStep, writeTransferRecord, Withdraw, Deposit,
     deleteTransferRecord, history
<1>3. ASSUME NEW a, Gate(a) \/ Settle(a) \/ Sync(a) \/ CloseLog(a)
      PROVE  faults' = faults
  BY <1>3 DEF Gate, Settle, Sync, CloseLog, history
<1>4. ASSUME Kill \/ Stop \/ PowerLoss  PROVE faults' = faults
  BY <1>4 DEF Kill, Stop, PowerLoss, history
<1>5. ASSUME Recovery  PROVE faults' = faults
  BY <1>5 DEF Recovery, NewRegistry, Serve, completeTransfer,
     recoverTransfers, history
<1>6. ASSUME UNCHANGED vars  PROVE faults' = faults
  BY <1>6 DEF vars, history
<1> QED
  BY <1>1, <1>2, <1>3, <1>4, <1>5, <1>6 DEF Next

(* The refinement mapping.                                                 *)
AllocM == [a \in Accounts |-> IF Kept THEN Opened(a).B0 ELSE Opening]
UnderM == [x \in Xfers |-> Leg(x)]
MovedM == {x \in Xfers : Kept /\ rec[x] # NoRecord /\ deposited(rec[x])}

HomeLeg == [to |-> "home", amount |-> 0]

(* It, read off what has left and what has arrived.                        *)
Mapped ==
  /\ DOMAIN AllocM = Accounts /\ DOMAIN UnderM = Xfers
  /\ \A a \in Accounts : AllocM[a] = Alloc(a) /\ Alloc(a) \in Nat
  /\ \A x \in Xfers :
       /\ UnderM[x] = IF Out(x) /\ ~In(x)
                      THEN [to |-> rec[x].To, amount |-> rec[x].Amount]
                      ELSE HomeLeg
       /\ x \in MovedM <=> In(x)

(* The abstract state a state maps to, now.                                *)
LEMMA MappedNow == IInv /\ Kept => Mapped
<1> SUFFICES ASSUME IInv, Kept  PROVE Mapped
  OBVIOUS
<1>1. Balances /\ Control /\ Records
  BY DEF IInv, Typed
<1>2. ASSUME NEW a \in Accounts  PROVE AllocM[a] = Alloc(a) /\ Alloc(a) \in Nat
  BY <1>1, OpenedAlloc, AllocNat DEF AllocM
<1>3. ASSUME NEW x \in Xfers
      PROVE  /\ UnderM[x] = IF Out(x) /\ ~In(x)
                            THEN [to |-> rec[x].To, amount |-> rec[x].Amount]
                            ELSE HomeLeg
             /\ x \in MovedM <=> In(x)
  BY DEF UnderM, Leg, Out, In, HomeLeg, MovedM
<1> QED
  BY <1>2, <1>3 DEF Mapped, AllocM, UnderM

(* The abstract state a state maps to, after a step.                       *)
LEMMA MappedNext == (IInv /\ Kept => Mapped)'
  BY MappedNow, PTL

(* A step that moves no money maps to a stutter.                           *)
LEMMA StillStutters ==
  ASSUME Mapped, Mapped', Still
  PROVE  AllocM' = AllocM /\ UnderM' = UnderM /\ MovedM' = MovedM
<1>1. AllocM' = AllocM
  <2>1. \A a \in Accounts : AllocM'[a] = AllocM[a]
    BY DEF Mapped, Still
  <2> QED
    BY <2>1 DEF AllocM
<1>2. UnderM' = UnderM
  <2>1. ASSUME NEW x \in Xfers  PROVE UnderM'[x] = UnderM[x]
    <3>1. Unmoved(x)
      BY DEF Still
    <3> QED
      BY <3>1 DEF Mapped, Unmoved
  <2> QED
    BY <2>1 DEF UnderM
<1>3. MovedM' = MovedM
  <2>1. ASSUME NEW x \in Xfers  PROVE x \in MovedM' <=> x \in MovedM
    <3>1. Unmoved(x)
      BY DEF Still
    <3> QED
      BY <3>1 DEF Mapped, Unmoved
  <2> QED
    BY <2>1 DEF MovedM
<1> QED
  BY <1>1, <1>2, <1>3

(* A withdrawal maps to the abstract Leave.                                *)
LEMMA LeavesLeave ==
  ASSUME Mapped, Mapped', NEW x \in Xfers, Leaves(x)
  PROVE  Abstract!Leave(x)
<1>1. PICK f, g, n : f = rec[x].From /\ g = rec[x].To /\ n = rec[x].Amount
  OBVIOUS
<1>2. /\ f \in Accounts /\ g \in Accounts /\ f # g /\ n \in Nat /\ n > 0
      /\ rec'[x] = rec[x]
  BY <1>1 DEF Leaves, Known, Record
<1>3. /\ \A b \in Accounts \ {f} : Alloc(b)' = Alloc(b)
      /\ Alloc(f)' = Alloc(f) - n /\ Alloc(f)' \in Nat
  BY <1>1 DEF Leaves, Known, OnlyAt, Alloc
<1>4. ~Out(x) /\ ~In(x) /\ Out(x)' /\ ~In(x)'
  BY DEF Leaves
<1>5. UnderM[x] = HomeLeg /\ x \notin MovedM
  BY <1>4 DEF Mapped
<1>6. n \in 1 .. AllocM[f]
  <2>1. AllocM[f] = Alloc(f) /\ Alloc(f) \in Nat
    BY <1>2 DEF Mapped
  <2> QED
    BY <1>2, <1>3, <2>1
<1>7. AllocM' = [AllocM EXCEPT ![f] = @ - n]
  <2>1. \A b \in Accounts : AllocM'[b] = [AllocM EXCEPT ![f] = @ - n][b]
    BY <1>2, <1>3 DEF Mapped
  <2> QED
    BY <2>1 DEF AllocM
<1>8. UnderM' = [UnderM EXCEPT ![x] = [to |-> g, amount |-> n]]
  <2>1. UnderM'[x] = [to |-> g, amount |-> n]
    BY <1>1, <1>2, <1>4 DEF Mapped
  <2>2. ASSUME NEW y \in Xfers \ {x}  PROVE UnderM'[y] = UnderM[y]
    <3>1. Unmoved(y)
      BY DEF Leaves, OthersUnmoved
    <3> QED
      BY <3>1 DEF Mapped, Unmoved
  <2>3. \A y \in Xfers : UnderM'[y] = [UnderM EXCEPT ![x] = [to |-> g, amount |-> n]][y]
    BY <2>1, <2>2 DEF UnderM
  <2> QED
    BY <2>3 DEF UnderM
<1>9. MovedM' = MovedM
  <2>1. ASSUME NEW y \in Xfers \ {x}  PROVE y \in MovedM' <=> y \in MovedM
    <3>1. Unmoved(y)
      BY DEF Leaves, OthersUnmoved
    <3> QED
      BY <3>1 DEF Mapped, Unmoved
  <2>2. x \notin MovedM' /\ x \notin MovedM
    BY <1>4 DEF Mapped
  <2> QED
    BY <2>1, <2>2 DEF MovedM
<1> QED
  BY <1>2, <1>5, <1>6, <1>7, <1>8, <1>9
     DEF Abstract!Leave, Abstract!Home, AllocM, UnderM, MovedM, HomeLeg

(* A deposit maps to the abstract Arrive.                                  *)
LEMMA ArrivesArrive ==
  ASSUME Mapped, Mapped', NEW x \in Xfers, Arrives(x)
  PROVE  Abstract!Arrive(x)
<1>1. PICK g, n : g = rec[x].To /\ n = rec[x].Amount
  OBVIOUS
<1>2. g \in Accounts /\ n \in Nat /\ n > 0 /\ rec'[x] = rec[x]
  BY <1>1 DEF Arrives, Known, Record
<1>3. /\ \A b \in Accounts \ {g} : Alloc(b)' = Alloc(b)
      /\ Alloc(g)' = Alloc(g) + n
  BY <1>1 DEF Arrives, Known, OnlyAt, Alloc
<1>4. Out(x) /\ ~In(x) /\ Out(x)' /\ In(x)'
  BY DEF Arrives
<1>5. UnderM[x] = [to |-> g, amount |-> n]
  BY <1>1, <1>4 DEF Mapped
<1>6. UnderM[x] # HomeLeg /\ UnderM[x].to = g /\ UnderM[x].amount = n
  <2>1. UnderM[x].to = g /\ UnderM[x].amount = n
    BY <1>5
  <2> QED
    BY <1>2, <2>1 DEF HomeLeg
<1>7. AllocM' = [AllocM EXCEPT ![g] = @ + n]
  <2>1. \A b \in Accounts : AllocM'[b] = [AllocM EXCEPT ![g] = @ + n][b]
    BY <1>2, <1>3 DEF Mapped
  <2> QED
    BY <2>1 DEF AllocM
<1>8. UnderM' = [UnderM EXCEPT ![x] = HomeLeg]
  <2>1. UnderM'[x] = HomeLeg
    BY <1>4 DEF Mapped
  <2>2. ASSUME NEW y \in Xfers \ {x}  PROVE UnderM'[y] = UnderM[y]
    <3>1. Unmoved(y)
      BY DEF Arrives, OthersUnmoved
    <3> QED
      BY <3>1 DEF Mapped, Unmoved
  <2>3. \A y \in Xfers : UnderM'[y] = [UnderM EXCEPT ![x] = HomeLeg][y]
    BY <2>1, <2>2 DEF UnderM
  <2> QED
    BY <2>3 DEF UnderM
<1>9. MovedM' = MovedM \cup {x}
  <2>1. ASSUME NEW y \in Xfers \ {x}  PROVE y \in MovedM' <=> y \in MovedM
    <3>1. Unmoved(y)
      BY DEF Arrives, OthersUnmoved
    <3> QED
      BY <3>1 DEF Mapped, Unmoved
  <2>2. x \in MovedM'
    BY <1>4 DEF Mapped
  <2> QED
    BY <2>1, <2>2 DEF MovedM
<1>10. AllocM' = [AllocM EXCEPT ![UnderM[x].to] = @ + UnderM[x].amount]
  BY <1>6, <1>7
<1> QED
  BY <1>6, <1>8, <1>9, <1>10
     DEF Abstract!Arrive, Abstract!Home, AllocM, UnderM, MovedM, HomeLeg

(* Every step maps to an abstract step or a stutter.                       *)
LEMMA MoveStep ==
  ASSUME IInv, [Next]_vars
  PROVE  [Abstract!Next]_<<AllocM, UnderM, MovedM>>
<1>1. faults' = faults
  BY FaultsStay
<1>2. CASE ~Kept
  <2>1. ~Kept'
    BY <1>1, <1>2 DEF Kept
  <2>2. AllocM' = AllocM /\ UnderM' = UnderM /\ MovedM' = MovedM
    BY <1>2, <2>1 DEF AllocM, UnderM, MovedM, Leg
  <2> QED
    BY <2>2
<1>3. CASE Kept
  <2>1. Kept' /\ IInv'
    BY <1>1, <1>3, NextGood DEF Kept, Good
  <2>2. Mapped
    BY <1>3, MappedNow
  <2>3. Mapped'
    BY <2>1, MappedNext
  <2>4. Moves
    <3>1. ~lost'
      BY <2>1 DEF IInv, Unlost, Kept
    <3> QED
      BY <3>1, NextGood DEF Good
  <2>5. ASSUME NEW x \in Xfers, Leaves(x) \/ Arrives(x)  PROVE Abstract!Next
    BY <2>2, <2>3, <2>5, LeavesLeave, ArrivesArrive DEF Abstract!Next
  <2> QED
    BY <2>2, <2>3, <2>4, <2>5, StillStutters DEF Moves
<1> QED
  BY <1>2, <1>3

(* An initial state maps to an abstract initial state.                     *)
LEMMA MoveInit ==
  ASSUME Init
  PROVE  Abstract!Init
<1>1. logs = [a \in Accounts |-> <<>>] /\ rec = [x \in Xfers |-> NoRecord]
  BY DEF Init
<1>2. \A a \in Accounts : Opened(a).B0 = Opening
  BY <1>1, NewPlain DEF Opened
<1>3. AllocM = [a \in Accounts |-> Opening]
  BY <1>2 DEF AllocM
<1>4. UnderM = [x \in Xfers |-> HomeLeg]
  BY <1>1 DEF UnderM, Leg, HomeLeg
<1>5. MovedM = {}
  BY <1>1 DEF MovedM
<1> QED
  BY <1>3, <1>4, <1>5
     DEF Abstract!Init, Abstract!Home, AllocM, UnderM, MovedM, HomeLeg

(* A transfer implements an atomic move in two steps: in what the logs     *)
(* rebuild the amount leaves one account once, then reaches the other      *)
(* once, whatever is killed, shut down, restarted or refused by the disk   *)
(* (transfer.go; Move).                                                    *)
THEOREM MoveImplemented == Spec => MovesAtomically
<1>1. Init => Abstract!Init
  BY MoveInit
<1>2. IInv /\ [Next]_vars => [Abstract!Next]_<<AllocM, UnderM, MovedM>>
  BY MoveStep
<1> QED
  BY <1>1, <1>2, Invariant, PTL
     DEF Spec, MovesAtomically, Abstract!Spec, AllocM, UnderM, MovedM
=============================================================================
