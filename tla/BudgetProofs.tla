---------------------------- MODULE BudgetProofs ----------------------------
(***************************************************************************)
(* The books of a budget balance, for every set of jobs and arrays, every  *)
(* rate, walltime and amount, every interleaving, failed appends included. *)
(***************************************************************************)
EXTENDS Budget, CoinsProofs

(* The inductive invariant: the properties of the money ledger together,   *)
(* with finitely many live escrows.  None is inductive alone: that a       *)
(* settle leaves ReservedTotal non-negative needs HoldsAddUp, that it      *)
(* keeps the balance non-negative needs Funded and SlicesOK.               *)
Books(b) ==
  /\ Typed(b)
  /\ Conserved(b)
  /\ HoldsAddUp(b)
  /\ NoneNegative(b)
  /\ \A j \in DOMAIN b.escrows : Funded(b.escrows[j])
  /\ \A a \in DOMAIN b.arrays : SlicesOK(b.arrays[a])
  /\ IsFiniteSet(DOMAIN b.escrows) /\ IsFiniteSet(DOMAIN b.arrays)

IInv == Books(bd) /\ clock \in Int

-----------------------------------------------------------------------------
(* Arithmetic.                                                             *)

(* A runtime clamped to the walltime costs between nothing and the whole   *)
(* reservation.                                                            *)
LEMMA ClampCost ==
  ASSUME NEW c \in Nat, NEW w \in Nat, NEW rt \in Int
  PROVE  /\ Clamp(rt, w) \in 0 .. w
         /\ c * Clamp(rt, w) \in 0 .. c * w
<1>1. Clamp(rt, w) \in 0 .. w
  BY DEF Clamp
<1>2. ASSUME NEW x \in 0 .. w  PROVE c * x \in 0 .. c * w
  <2>1. c * w = c * x + c * (w - x) /\ w - x \in Nat
    OBVIOUS
  <2>2. c * (w - x) >= 0 /\ c * x >= 0 /\ c * x \in Int /\ c * w \in Int
    BY <2>1
  <2> QED
    BY <2>1, <2>2
<1> QED
  BY <1>1, <1>2

(* Repricing frees the difference of the two reservations.                 *)
LEMMA RepriceDelta ==
  ASSUME NEW c \in Nat, NEW r \in Nat, NEW w \in Nat, r <= c
  PROVE  /\ (c - r) * w \in Nat
         /\ c * w - (c - r) * w = r * w
  OBVIOUS

-----------------------------------------------------------------------------
(* What the burst operators leave alone.                                   *)

(* Same money, same escrows up to the flags dispatch sets.                 *)
SameMoney(b, b2) ==
  /\ b2.B = b.B /\ b2.ReservedTotal = b.ReservedTotal
  /\ b2.Consumed = b.Consumed /\ b2.WriteOff = b.WriteOff /\ b2.B0 = b.B0

SameRecords(b, b2) ==
  /\ SameMoney(b, b2)
  /\ b2.escrows = b.escrows /\ b2.arrays = b.arrays

(* What a step may do to the money, as its records show it (Moved), and    *)
(* that it does not fill the pot past the ceiling (Capped).                *)
SameSpent(b, b2) == b2.Consumed = b.Consumed /\ b2.WriteOff = b.WriteOff

(* A reservation of `held' units released, `used' of them spent.           *)
Released(b, b2, held, used) ==
  /\ b2.ReservedTotal = b.ReservedTotal - held
  /\ b2.B = b.B + (held - used)
  /\ \/ b2.Consumed = b.Consumed + used /\ b2.WriteOff = b.WriteOff
     \/ b2.Consumed = b.Consumed /\ b2.WriteOff = b.WriteOff + used
  /\ b2.B0 = b.B0

Resized(b, b2) ==
  b2.escrows = b.escrows /\ b2.arrays = b.arrays /\ SameSpent(b, b2)

Gated(b, b2, j, e) ==
  /\ j \notin DOMAIN b.escrows /\ b2.escrows = Put(b.escrows, j, e)
  /\ b2.arrays = b.arrays /\ SameSpent(b, b2)
  /\ ~e.Started /\ e.Reserved \in Nat /\ e.Reserved <= b.B
  /\ b2.B = b.B - e.Reserved

(* A waiting job is dispatched, or its hold lowered by d.                  *)
Rewritten(b, b2, j, e, d) ==
  /\ j \in DOMAIN b.escrows /\ ~b.escrows[j].Started
  /\ b2.escrows = [b.escrows EXCEPT ![j] = e]
  /\ b2.arrays = b.arrays /\ SameSpent(b, b2)
  /\ d \in Nat /\ e.Reserved = b.escrows[j].Reserved - d /\ b2.B = b.B + d
  /\ e.Reserved \in Nat /\ e.Started \in BOOLEAN
  /\ e.Started => d = 0

Closed(b, b2, j, used) ==
  /\ j \in DOMAIN b.escrows /\ b2.escrows = Drop(b.escrows, j)
  /\ b2.arrays = b.arrays
  /\ used \in Nat /\ used <= b.escrows[j].Reserved
  /\ Released(b, b2, b.escrows[j].Reserved, used)

ArrayGated(b, b2, k, ae) ==
  /\ k \notin DOMAIN b.arrays /\ b2.arrays = Put(b.arrays, k, ae)
  /\ b2.escrows = b.escrows /\ SameSpent(b, b2)
  /\ ae.Reserved \in Nat /\ ae.Reserved <= b.B /\ b2.B = b.B - ae.Reserved

ArrayPaid(b, b2, k, ae, held, used) ==
  /\ k \in DOMAIN b.arrays /\ b2.arrays = [b.arrays EXCEPT ![k] = ae]
  /\ b2.escrows = b.escrows
  /\ used \in Nat /\ held \in Nat /\ used <= held
  /\ ae.Reserved \in Nat /\ ae.Reserved = b.arrays[k].Reserved - held
  /\ Released(b, b2, held, used)

ArrayClosed(b, b2, k, used) ==
  /\ k \in DOMAIN b.arrays /\ b2.arrays = Drop(b.arrays, k)
  /\ b2.escrows = b.escrows
  /\ used \in Nat /\ used <= b.arrays[k].Reserved
  /\ Released(b, b2, b.arrays[k].Reserved, used)

Moved(b, b2) ==
  \/ Resized(b, b2)
  \/ \E j, e : Gated(b, b2, j, e)
  \/ \E j, e, d : Rewritten(b, b2, j, e, d)
  \/ \E j, used : Closed(b, b2, j, used)
  \/ \E k, ae : ArrayGated(b, b2, k, ae)
  \/ \E k, ae, held, used : ArrayPaid(b, b2, k, ae, held, used)
  \/ \E k, used : ArrayClosed(b, b2, k, used)

SameCeiling(b, b2) == b2.B0 = b.B0 /\ b2.BurstCeilingPct = b.BurstCeilingPct

Capped(b, b2) == b2.burstPot <= b.burstPot \/ b2.burstPot <= burstCeiling(b2)

Step(b, b2) == Moved(b, b2) /\ Capped(b, b2)

(* A method keeps the books, by a step its ledger allows.                  *)
Kept(b, b2) == Books(b2) /\ Step(b, b2)

(* A legal window is not empty, so the pace and the ceiling are integers.  *)
LEMMA WindowType ==
  ASSUME NEW b, Typed(b)
  PROVE  /\ window(b) \in Nat \ {0} /\ r0Floor(b) \in Int
         /\ burstCeiling(b) \in Int
  BY PctDenAssumption DEF Typed, window, r0Floor, burstCeiling

(* Writing fields of the bucket changes no money and no escrow.            *)
LEMMA SetTouch ==
  ASSUME NEW b, Typed(b), NEW l \in Int
  PROVE  LET b2 == [b EXCEPT !.lastTouch = l]
         IN  Typed(b2) /\ SameRecords(b, b2)
<1> DEFINE b2 == [b EXCEPT !.lastTouch = l]
<1>1. Typed(b2)
  BY DEF Typed
<1>2. SameRecords(b, b2)
  BY DEF Typed, SameRecords, SameMoney
<1> QED
  BY <1>1, <1>2

(* So does writing the pot and its remainder with the time of accrual.     *)
LEMMA SetBucket ==
  ASSUME NEW b, Typed(b), NEW l \in Int, NEW p \in Int, NEW f \in Int
  PROVE  LET b2 == [b EXCEPT !.lastTouch = l, !.burstPot = p, !.fracAcc = f]
         IN  Typed(b2) /\ SameRecords(b, b2)
<1> DEFINE b2 == [b EXCEPT !.lastTouch = l, !.burstPot = p, !.fracAcc = f]
<1>1. Typed(b2)
  BY DEF Typed
<1>2. SameRecords(b, b2)
  BY DEF Typed, SameRecords, SameMoney
<1> QED
  BY <1>1, <1>2

(* So does writing the aggregate burn rate.                                *)
LEMMA SetBurn ==
  ASSUME NEW b, Typed(b), NEW r \in Int
  PROVE  LET b2 == [b EXCEPT !.rLive = r]
         IN  Typed(b2) /\ SameRecords(b, b2)
<1> DEFINE b2 == [b EXCEPT !.rLive = r]
<1>1. Typed(b2)
  BY DEF Typed
<1>2. SameRecords(b, b2)
  BY DEF Typed, SameRecords, SameMoney
<1> QED
  BY <1>1, <1>2

(* So does writing the burn rate and the pot, as a start and a settle do.  *)
LEMMA SetBurnPot ==
  ASSUME NEW b, Typed(b), NEW r \in Int, NEW p \in Int
  PROVE  LET b2 == [b EXCEPT !.rLive = r, !.burstPot = p]
         IN  Typed(b2) /\ SameRecords(b, b2)
<1> DEFINE b2 == [b EXCEPT !.rLive = r, !.burstPot = p]
<1>1. Typed(b2)
  BY DEF Typed
<1>2. SameRecords(b, b2)
  BY DEF Typed, SameRecords, SameMoney
<1> QED
  BY <1>1, <1>2

(* So does trimming the pot and its remainder to a lowered ceiling.        *)
LEMMA SetPot ==
  ASSUME NEW b, Typed(b), NEW p \in Int, NEW f \in Int
  PROVE  LET b2 == [b EXCEPT !.burstPot = p, !.fracAcc = f]
         IN  Typed(b2) /\ SameRecords(b, b2)
<1> DEFINE b2 == [b EXCEPT !.burstPot = p, !.fracAcc = f]
<1>1. Typed(b2)
  BY DEF Typed
<1>2. SameRecords(b, b2)
  BY DEF Typed, SameRecords, SameMoney
<1> QED
  BY <1>1, <1>2

(* A budget has its own money and escrows.                                 *)
LEMMA SameSelf ==
  ASSUME NEW b
  PROVE  SameRecords(b, b)
  BY DEF SameRecords, SameMoney

(* Accrual, run by every dispatch, settle and report, touches the bucket   *)
(* only.                                                                   *)
LEMMA AccrueFrame ==
  ASSUME NEW b, Typed(b), NEW now \in Int
  PROVE  Typed(accrue(b, now)) /\ SameRecords(b, accrue(b, now))
<1> DEFINE T == window(b)
           u == b.B0 - b.rLive * T
           acc == b.fracAcc + u * (now - b.lastTouch)
           full == b.burstPot + acc \div T >= burstCeiling(b)
           p == IF full THEN burstCeiling(b) ELSE b.burstPot + acc \div T
           f == IF full THEN 0 ELSE acc % T
<1>1. T \in Nat \ {0} /\ burstCeiling(b) \in Int /\ b.burstPot \in Int
  BY WindowType DEF Typed
<1>2. acc \in Int
  BY <1>1 DEF Typed
<1>3. acc \div T \in Int /\ acc % T \in Int
  BY <1>1, <1>2
<1>4. p \in Int /\ f \in Int
  BY <1>1, <1>3
<1>5. \/ accrue(b, now) = b
      \/ accrue(b, now) = [b EXCEPT !.lastTouch = now]
      \/ accrue(b, now) = [b EXCEPT !.lastTouch = now, !.burstPot = p,
                                    !.fracAcc = f]
  BY Zenon DEF accrue
<1> HIDE DEF p, f
<1>6. CASE accrue(b, now) = b
  BY <1>6, SameSelf
<1>7. CASE accrue(b, now) = [b EXCEPT !.lastTouch = now]
  BY <1>7, SetTouch
<1>8. CASE accrue(b, now) = [b EXCEPT !.lastTouch = now, !.burstPot = p,
                                      !.fracAcc = f]
  <2> DEFINE b2 == [b EXCEPT !.lastTouch = now, !.burstPot = p, !.fracAcc = f]
  <2>1. Typed(b2) /\ SameRecords(b, b2)
    BY <1>4, SetBucket, Zenon
  <2> QED
    BY <1>8, <2>1, Zenon
<1> QED
  BY <1>5, <1>6, <1>7, <1>8

(* Starting to burn, with or without drawing tokens.                       *)
LEMMA BurningFrame ==
  ASSUME NEW b, Typed(b), NEW c \in Int
  PROVE  Typed(Burning(b, c)) /\ SameRecords(b, Burning(b, c))
<1>1. b.rLive + c \in Int
  BY DEF Typed
<1>2. Burning(b, c) = b \/ Burning(b, c) = [b EXCEPT !.rLive = b.rLive + c]
  BY DEF Burning
<1>3. CASE Burning(b, c) = b
  BY <1>3, SameSelf
<1>4. CASE Burning(b, c) = [b EXCEPT !.rLive = b.rLive + c]
  BY <1>1, <1>4, SetBurn
<1> QED
  BY <1>2, <1>3, <1>4

(* Ceasing to burn and returning the unused tokens.                        *)
LEMMA StopBurningFrame ==
  ASSUME NEW b, Typed(b), NEW c \in Int, NEW w \in Nat,
         NEW started \in BOOLEAN, NEW resv \in Int, NEW rt \in Int
  PROVE  LET b2 == StopBurning(b, c, w, started, resv, rt)
         IN  Typed(b2) /\ SameRecords(b, b2)
<1> DEFINE b2 == StopBurning(b, c, w, started, resv, rt)
           pot == b.burstPot + (resv * (w - rt)) \div w
           r == IF b.rLive < c THEN 0 ELSE b.rLive - c
           p == IF ~(resv > 0 /\ w > 0) THEN b.burstPot
                ELSE IF pot > burstCeiling(b) THEN burstCeiling(b) ELSE pot
<1>1. r \in Int /\ b.burstPot \in Int
  BY DEF Typed
<1>2. p \in Int
  <2>1. CASE w > 0
    <3>1. resv * (w - rt) \in Int
      OBVIOUS
    <3>2. (resv * (w - rt)) \div w \in Int
      BY <2>1, <3>1
    <3> QED
      BY <1>1, <3>2, WindowType
  <2>2. CASE ~(w > 0)
    BY <1>1, <2>2
  <2> QED
    BY <2>1, <2>2
<1>3. b2 = b \/ b2 = [b EXCEPT !.rLive = r, !.burstPot = p]
  BY Zenon DEF StopBurning
<1> HIDE DEF r, p, b2
<1>4. CASE b2 = b
  BY <1>4, SameSelf DEF b2
<1>5. CASE b2 = [b EXCEPT !.rLive = r, !.burstPot = p]
  <2> DEFINE b3 == [b EXCEPT !.rLive = r, !.burstPot = p]
  <2>1. Typed(b3) /\ SameRecords(b, b3)
    BY <1>1, <1>2, SetBurnPot, Zenon
  <2> QED
    BY <1>5, <2>1, Zenon DEF b2
<1> QED
  BY <1>3, <1>4, <1>5

-----------------------------------------------------------------------------
(* The pot and its ceiling.                                                *)

(* Staying under the ceiling composes.                                     *)
LEMMA CappedTrans ==
  ASSUME NEW b, NEW b1, NEW b2, Typed(b), Typed(b1), Typed(b2),
         Capped(b, b1), Capped(b1, b2), SameCeiling(b1, b2)
  PROVE  Capped(b, b2)
<1>1. burstCeiling(b2) = burstCeiling(b1)
  BY DEF SameCeiling, burstCeiling
<1>2. /\ b.burstPot \in Int /\ b1.burstPot \in Int /\ b2.burstPot \in Int
      /\ burstCeiling(b1) \in Int
  BY WindowType DEF Typed
<1> QED
  BY <1>1, <1>2 DEF Capped

(* A pot that does not move stays under its ceiling.                       *)
LEMMA SamePot ==
  ASSUME NEW b, NEW b2, Typed(b), b2.burstPot = b.burstPot
  PROVE  Capped(b, b2)
  BY DEF Capped, Typed

(* Accrual fills the pot no further than the ceiling.                      *)
LEMMA AccrueCaps ==
  ASSUME NEW b, Typed(b), NEW now \in Int
  PROVE  SameCeiling(b, accrue(b, now)) /\ Capped(b, accrue(b, now))
<1> DEFINE T == window(b)
           acc == b.fracAcc + (b.B0 - b.rLive * T) * (now - b.lastTouch)
           full == b.burstPot + acc \div T >= burstCeiling(b)
           p == IF full THEN burstCeiling(b) ELSE b.burstPot + acc \div T
           f == IF full THEN 0 ELSE acc % T
           a == accrue(b, now)
<1>1. T \in Nat \ {0} /\ burstCeiling(b) \in Int /\ b.burstPot \in Int
  BY WindowType DEF Typed
<1>2. acc \in Int
  BY <1>1 DEF Typed
<1>3. acc \div T \in Int
  BY <1>1, <1>2
<1>4. p <= burstCeiling(b)
  BY <1>1, <1>3
<1>5. \/ a = b
      \/ a = [b EXCEPT !.lastTouch = now]
      \/ a = [b EXCEPT !.lastTouch = now, !.burstPot = p, !.fracAcc = f]
  BY Zenon DEF accrue
<1> HIDE DEF p, f, a
<1>6. /\ a.B0 = b.B0 /\ a.BurstCeilingPct = b.BurstCeilingPct
      /\ a.burstPot = b.burstPot \/ a.burstPot = p
  BY <1>5 DEF Typed
<1>7. burstCeiling(a) = burstCeiling(b)
  BY <1>6 DEF burstCeiling
<1>8. Capped(b, a)
  BY <1>1, <1>4, <1>6, <1>7 DEF Capped
<1> QED
  BY <1>6, <1>8 DEF SameCeiling, a

(* A dispatch raises the live burn and leaves the pot alone.               *)
LEMMA BurningCaps ==
  ASSUME NEW b, Typed(b), NEW c \in Int
  PROVE  SameCeiling(b, Burning(b, c)) /\ Burning(b, c).burstPot = b.burstPot
<1>1. Burning(b, c) = b \/ Burning(b, c) = [b EXCEPT !.rLive = b.rLive + c]
  BY DEF Burning
<1> QED
  BY <1>1 DEF Typed, SameCeiling

(* The returned tail fills the pot no further than the ceiling.            *)
LEMMA StopBurningCaps ==
  ASSUME NEW b, Typed(b), NEW c, NEW w \in Nat, NEW started \in BOOLEAN,
         NEW resv \in Int, NEW rt \in Int
  PROVE  LET b2 == StopBurning(b, c, w, started, resv, rt)
         IN  SameCeiling(b, b2) /\ Capped(b, b2)
<1> DEFINE b2 == StopBurning(b, c, w, started, resv, rt)
           pot == b.burstPot + (resv * (w - rt)) \div w
           r == IF b.rLive < c THEN 0 ELSE b.rLive - c
           p == IF ~(resv > 0 /\ w > 0) THEN b.burstPot
                ELSE IF pot > burstCeiling(b) THEN burstCeiling(b) ELSE pot
<1>1. b.burstPot \in Int /\ burstCeiling(b) \in Int
  BY WindowType DEF Typed
<1>2. p <= b.burstPot \/ p <= burstCeiling(b)
  <2>1. CASE w > 0
    <3>1. resv * (w - rt) \in Int
      OBVIOUS
    <3>2. (resv * (w - rt)) \div w \in Int
      BY <2>1, <3>1
    <3> QED
      BY <1>1, <3>2
  <2>2. CASE ~(w > 0)
    BY <1>1, <2>2
  <2> QED
    BY <2>1, <2>2
<1>3. b2 = b \/ b2 = [b EXCEPT !.rLive = r, !.burstPot = p]
  BY Zenon DEF StopBurning
<1> HIDE DEF r, p, b2
<1>4. /\ b2.B0 = b.B0 /\ b2.BurstCeilingPct = b.BurstCeilingPct
      /\ b2.burstPot = b.burstPot \/ b2.burstPot = p
  BY <1>3 DEF Typed
<1>5. burstCeiling(b2) = burstCeiling(b)
  BY <1>4 DEF burstCeiling
<1>6. Capped(b, b2)
  BY <1>1, <1>2, <1>4, <1>5 DEF Capped
<1> QED
  BY <1>4, <1>6 DEF SameCeiling, b2

(* A refused method, or one that only touches the bucket, moves nothing.   *)
LEMMA SelfStep ==
  ASSUME NEW b, Typed(b)
  PROVE  Step(b, b)
<1>1. Moved(b, b)
  BY DEF Moved, Resized, SameSpent
<1> QED
  BY <1>1, SamePot DEF Step

(* A step that leaves the records alone moves no money.                    *)
LEMMA QuietMoved ==
  ASSUME NEW b, NEW b2, SameRecords(b, b2)
  PROVE  Moved(b, b2)
  BY DEF SameRecords, SameMoney, Moved, Resized, SameSpent

(* Leaving the records alone composes.                                     *)
LEMMA SameTrans ==
  ASSUME NEW b, NEW b1, NEW b2, SameRecords(b, b1), SameRecords(b1, b2)
  PROVE  SameRecords(b, b2)
  BY DEF SameRecords, SameMoney

(* Dispatch never reserves a negative number of tokens.                    *)
LEMMA ReserveNat ==
  ASSUME NEW b, Typed(b), NEW c \in Nat, NEW w \in Nat
  PROVE  BurstResvFor(b, c, w) \in Nat
<1>1. r0Floor(b) \in Int /\ b.rLive \in Int
  BY WindowType DEF Typed
<1> DEFINE base == IF b.rLive < r0Floor(b) THEN r0Floor(b) ELSE b.rLive
           excess == (b.rLive + c) - base
           x == IF excess < 0 THEN 0 ELSE excess
<1>2. x \in Nat
  BY <1>1
<1> HIDE DEF x
<1>3. x * w \in Nat
  BY <1>2
<1>4. burstReserveForRate(b, c, w) = x * w
  BY DEF burstReserveForRate, x
<1> QED
  BY <1>3, <1>4 DEF BurstResvFor

(* Accrual leaves the records alone.                                       *)
LEMMA AccrueStep ==
  ASSUME NEW b, Typed(b), NEW now \in Int
  PROVE  Step(b, accrue(b, now))
<1>1. SameRecords(b, accrue(b, now))
  BY AccrueFrame
<1> QED
  BY <1>1, QuietMoved, AccrueCaps DEF Step

-----------------------------------------------------------------------------
(* Well-typed writes of the books and of the two escrow maps.              *)
LEMMA TypedEscrows ==
  ASSUME NEW b, Typed(b), NEW D \in SUBSET JobIDs, NEW esc \in [D -> Escrow],
         NEW x \in Int, NEW y \in Int
  PROVE  /\ Typed([b EXCEPT !.B = x, !.ReservedTotal = y, !.escrows = esc])
         /\ Typed([b EXCEPT !.burstPot = x, !.escrows = esc])
         /\ Typed([b EXCEPT !.escrows = esc])
<1>1. Typed([b EXCEPT !.B = x, !.ReservedTotal = y, !.escrows = esc])
  BY DEF Typed
<1>2. Typed([b EXCEPT !.burstPot = x, !.escrows = esc])
  BY DEF Typed
<1>3. Typed([b EXCEPT !.escrows = esc])
  BY DEF Typed
<1> QED
  BY <1>1, <1>2, <1>3

(* Replacing the arrays, with money or permission moved, keeps the types.  *)
LEMMA TypedArrays ==
  ASSUME NEW b, Typed(b), NEW D \in SUBSET ArrayIDs, NEW arr,
         DOMAIN arr = D, arr = [k \in D |-> arr[k]],
         \A k \in D : IsArrayEscrow(arr[k]),
         NEW x \in Int, NEW y \in Int
  PROVE  /\ Typed([b EXCEPT !.B = x, !.ReservedTotal = y, !.arrays = arr])
         /\ Typed([b EXCEPT !.burstPot = x, !.arrays = arr])
         /\ Typed([b EXCEPT !.arrays = arr])
<1>1. Typed([b EXCEPT !.B = x, !.ReservedTotal = y, !.arrays = arr])
  BY DEF Typed
<1>2. Typed([b EXCEPT !.burstPot = x, !.arrays = arr])
  BY DEF Typed
<1>3. Typed([b EXCEPT !.arrays = arr])
  BY DEF Typed
<1> QED
  BY <1>1, <1>2, <1>3

-----------------------------------------------------------------------------
(* The moves money makes, each stated on the budget before and after.      *)

(* The holds of a budget whose books balance are finite families.          *)
LEMMA HoldFamilies ==
  ASSUME NEW b, Books(b)
  PROVE  Family(EscrowHolds(b)) /\ Family(ArrayHolds(b))
<1>1. ASSUME NEW j \in DOMAIN b.escrows
      PROVE  b.escrows[j].Reserved \in Nat
  <2>1. b.escrows[j] \in Escrow
    BY DEF Books, Typed
  <2>2. b.escrows[j].Reserved = b.escrows[j].C * b.escrows[j].W
    BY DEF Books, Funded
  <2> QED
    BY <2>1, <2>2 DEF Escrow
<1>2. ASSUME NEW a \in DOMAIN b.arrays
      PROVE  b.arrays[a].Reserved \in Nat
  <2> DEFINE ae == b.arrays[a]
  <2>1. IsArrayEscrow(ae)
    BY DEF Books, Typed
  <2>2. /\ ae.Reserved = ae.Remaining * slice(ae)
        /\ ae.Remaining > 0
    BY DEF Books, SlicesOK
  <2>3. slice(ae) \in Nat
    BY <2>1 DEF IsArrayEscrow, slice
  <2>4. ae.Remaining \in Nat
    BY <2>1, <2>2 DEF IsArrayEscrow
  <2> HIDE DEF ae
  <2>5. ae.Reserved \in Nat
    BY <2>2, <2>3, <2>4
  <2> QED
    BY <2>5 DEF ae
<1> QED
  BY <1>1, <1>2 DEF Family, EscrowHolds, ArrayHolds, Books

(* Money and escrows unchanged: the books still balance.                   *)
LEMMA SameBooks ==
  ASSUME NEW b, NEW b2, Books(b), Typed(b2), SameRecords(b, b2)
  PROVE  Books(b2)
<1>1. EscrowHolds(b2) = EscrowHolds(b) /\ ArrayHolds(b2) = ArrayHolds(b)
  BY DEF SameRecords, EscrowHolds, ArrayHolds
<1>2. Conserved(b2) /\ HoldsAddUp(b2) /\ NoneNegative(b2)
  BY <1>1 DEF Books, SameRecords, SameMoney, Conserved, HoldsAddUp,
              NoneNegative
<1> QED
  BY <1>2 DEF Books, SameRecords

(* A method that was refused, or that changed neither money nor escrows.   *)
LEMMA KeptSelf ==
  ASSUME NEW b, Books(b)
  PROVE  Kept(b, b)
  BY SelfStep DEF Kept, Books

(* Books whose records are untouched stay in order.                        *)
LEMMA KeptQuiet ==
  ASSUME NEW b, NEW b2, Books(b), Typed(b2), SameRecords(b, b2), Capped(b, b2)
  PROVE  Kept(b, b2)
  BY SameBooks, QuietMoved DEF Kept, Step

(* A gate moves the cost of a new escrow from the balance into it.         *)
LEMMA AddEscrow ==
  ASSUME NEW b, NEW b2, NEW j, NEW e \in Escrow, Books(b), Typed(b2),
         j \notin DOMAIN b.escrows, b2.escrows = Put(b.escrows, j, e),
         Funded(e), e.Reserved <= b.B, b2.arrays = b.arrays,
         b2.B = b.B - e.Reserved,
         b2.ReservedTotal = b.ReservedTotal + e.Reserved,
         b2.Consumed = b.Consumed, b2.WriteOff = b.WriteOff, b2.B0 = b.B0
  PROVE  Books(b2)
<1>1. e.Reserved \in Nat
  BY DEF Funded, Escrow
<1>2. /\ DOMAIN b2.escrows = DOMAIN b.escrows \cup {j}
      /\ b2.escrows[j] = e
      /\ \A x \in DOMAIN b.escrows : b2.escrows[x] = b.escrows[x]
  BY DEF Put
<1>3. IsFiniteSet(DOMAIN b2.escrows)
  BY <1>2, FS_AddElement DEF Books
<1>4. Family(EscrowHolds(b)) /\ Family(ArrayHolds(b))
  BY HoldFamilies
<1>5. Family(EscrowHolds(b2))
  BY <1>1, <1>2, <1>3, <1>4 DEF Family, EscrowHolds
<1>6. Total(EscrowHolds(b2)) = Total(EscrowHolds(b)) + e.Reserved
  <2> DEFINE f == EscrowHolds(b2)
             g == EscrowHolds(b)
  <2>1. /\ j \in DOMAIN f /\ DOMAIN g = DOMAIN f \ {j} /\ f[j] = e.Reserved
        /\ \A x \in DOMAIN g : g[x] = f[x]
    BY <1>2 DEF EscrowHolds
  <2>2. Family(f)
    BY <1>5
  <2> HIDE DEF f, g
  <2>3. Total(f) = Total(g) + f[j]
    BY <2>1, <2>2, TotalSplit
  <2> QED
    BY <2>1, <2>3 DEF f, g
<1>7. ArrayHolds(b2) = ArrayHolds(b)
  BY DEF ArrayHolds
<1>8. /\ Total(EscrowHolds(b)) \in Nat /\ Total(ArrayHolds(b)) \in Nat
      /\ b.B \in Int /\ b.ReservedTotal \in Int /\ b.Consumed \in Int
      /\ b.WriteOff \in Int
  BY <1>4, CoinsFinite DEF Books, Typed
<1>9. Conserved(b2) /\ HoldsAddUp(b2) /\ NoneNegative(b2)
  BY <1>1, <1>6, <1>7, <1>8
     DEF Books, Conserved, HoldsAddUp, NoneNegative
<1>10. \A x \in DOMAIN b2.escrows : Funded(b2.escrows[x])
  BY <1>2 DEF Books
<1> QED
  BY <1>3, <1>9, <1>10 DEF Books

(* Releasing d units of one escrow back to the balance (d = 0: dispatch).  *)
LEMMA ReplaceEscrow ==
  ASSUME NEW b, NEW b2, NEW j, NEW e \in Escrow, NEW d \in Nat,
         Books(b), Typed(b2),
         j \in DOMAIN b.escrows, b2.escrows = [b.escrows EXCEPT ![j] = e],
         Funded(e), e.Reserved = b.escrows[j].Reserved - d,
         b2.arrays = b.arrays, b2.B = b.B + d,
         b2.ReservedTotal = b.ReservedTotal - d,
         b2.Consumed = b.Consumed, b2.WriteOff = b.WriteOff, b2.B0 = b.B0
  PROVE  Books(b2)
<1>1. e.Reserved \in Nat
  BY DEF Funded, Escrow
<1>2. /\ DOMAIN b2.escrows = DOMAIN b.escrows
      /\ b2.escrows[j] = e
      /\ \A x \in DOMAIN b.escrows \ {j} : b2.escrows[x] = b.escrows[x]
  OBVIOUS
<1>3. Family(EscrowHolds(b)) /\ Family(ArrayHolds(b))
  BY HoldFamilies
<1>4. /\ Total(EscrowHolds(b2)) = Total(EscrowHolds(b)) - d
      /\ Total(EscrowHolds(b2)) \in Nat
  <2> DEFINE f == EscrowHolds(b)
             g == EscrowHolds(b2)
  <2>1. /\ j \in DOMAIN f /\ DOMAIN g = DOMAIN f
        /\ g[j] = e.Reserved /\ f[j] = b.escrows[j].Reserved
        /\ \A x \in DOMAIN f \ {j} : g[x] = f[x]
    BY <1>2 DEF EscrowHolds
  <2>2. Family(f)
    BY <1>3
  <2>3. f[j] \in Nat
    BY <2>1, <2>2 DEF Family
  <2> HIDE DEF f, g
  <2>4. Family(g) /\ Total(g) = Total(f) - f[j] + g[j]
    BY <1>1, <2>1, <2>2, TotalUpdate
  <2>5. Total(f) \in Nat /\ Total(g) \in Nat
    BY <2>2, <2>4, CoinsFinite
  <2> QED
    BY <1>1, <2>1, <2>3, <2>4, <2>5 DEF f, g
<1>5. ArrayHolds(b2) = ArrayHolds(b)
  BY DEF ArrayHolds
<1>6. /\ Total(EscrowHolds(b)) \in Nat /\ Total(ArrayHolds(b)) \in Nat
      /\ b.B \in Int /\ b.ReservedTotal \in Int /\ b.Consumed \in Int
      /\ b.WriteOff \in Int
  BY <1>3, CoinsFinite DEF Books, Typed
<1>7. Conserved(b2) /\ HoldsAddUp(b2) /\ NoneNegative(b2)
  <2>1. Conserved(b2)
    BY <1>6 DEF Books, Conserved
  <2>2. HoldsAddUp(b2)
    BY <1>4, <1>5, <1>6 DEF Books, HoldsAddUp
  <2>3. NoneNegative(b2)
    BY <1>4, <1>5, <1>6, <2>2 DEF Books, HoldsAddUp, NoneNegative
  <2> QED
    BY <2>1, <2>2, <2>3
<1>8. \A x \in DOMAIN b2.escrows : Funded(b2.escrows[x])
  BY <1>2 DEF Books
<1> QED
  BY <1>2, <1>7, <1>8 DEF Books

(* A settle empties one escrow: `used' is spent, the rest refunded.        *)
LEMMA DropEscrow ==
  ASSUME NEW b, NEW b2, NEW j, NEW used \in Nat, Books(b), Typed(b2),
         j \in DOMAIN b.escrows, b2.escrows = Drop(b.escrows, j),
         used <= b.escrows[j].Reserved, b2.arrays = b.arrays,
         b2.B = b.B + (b.escrows[j].Reserved - used),
         b2.ReservedTotal = b.ReservedTotal - b.escrows[j].Reserved,
         \/ b2.Consumed = b.Consumed + used /\ b2.WriteOff = b.WriteOff
         \/ b2.Consumed = b.Consumed /\ b2.WriteOff = b.WriteOff + used,
         b2.B0 = b.B0
  PROVE  Books(b2)
<1>2. /\ DOMAIN b2.escrows = DOMAIN b.escrows \ {j}
      /\ \A x \in DOMAIN b2.escrows : b2.escrows[x] = b.escrows[x]
  BY DEF Drop, Restrict
<1>3. Family(EscrowHolds(b)) /\ Family(ArrayHolds(b))
  BY HoldFamilies
<1>4. /\ Total(EscrowHolds(b)) =
           Total(EscrowHolds(b2)) + b.escrows[j].Reserved
      /\ Total(EscrowHolds(b2)) \in Nat
      /\ b.escrows[j].Reserved \in Nat
  <2> DEFINE f == EscrowHolds(b)
             g == EscrowHolds(b2)
  <2>1. /\ j \in DOMAIN f /\ DOMAIN g = DOMAIN f \ {j}
        /\ f[j] = b.escrows[j].Reserved
        /\ \A x \in DOMAIN g : g[x] = f[x]
    BY <1>2 DEF EscrowHolds
  <2>2. Family(f)
    BY <1>3
  <2>3. f[j] \in Nat
    BY <2>1, <2>2 DEF Family
  <2> HIDE DEF f, g
  <2>4. Total(g) \in Nat /\ Total(f) = Total(g) + f[j]
    BY <2>1, <2>2, TotalSplit
  <2> QED
    BY <2>1, <2>3, <2>4 DEF f, g
<1>5. ArrayHolds(b2) = ArrayHolds(b)
  BY DEF ArrayHolds
<1>6. /\ Total(ArrayHolds(b)) \in Nat
      /\ b.B \in Int /\ b.ReservedTotal \in Int /\ b.Consumed \in Int
      /\ b.WriteOff \in Int
  BY <1>3, CoinsFinite DEF Books, Typed
<1>7. Conserved(b2) /\ HoldsAddUp(b2) /\ NoneNegative(b2)
  BY <1>4, <1>5, <1>6 DEF Books, Conserved, HoldsAddUp, NoneNegative
<1>8. \A x \in DOMAIN b2.escrows : Funded(b2.escrows[x])
  BY <1>2 DEF Books
<1>9. IsFiniteSet(DOMAIN b2.escrows)
  BY <1>2, FS_RemoveElement DEF Books
<1> QED
  BY <1>7, <1>8, <1>9 DEF Books

(* The same three moves for an array, whose hold is its unsettled slices.  *)
LEMMA AddArray ==
  ASSUME NEW b, NEW b2, NEW k, NEW ae, Books(b), Typed(b2),
         k \notin DOMAIN b.arrays, b2.arrays = Put(b.arrays, k, ae),
         SlicesOK(ae), ae.Reserved \in Nat, ae.Reserved <= b.B,
         b2.escrows = b.escrows,
         b2.B = b.B - ae.Reserved,
         b2.ReservedTotal = b.ReservedTotal + ae.Reserved,
         b2.Consumed = b.Consumed, b2.WriteOff = b.WriteOff, b2.B0 = b.B0
  PROVE  Books(b2)
<1>2. /\ DOMAIN b2.arrays = DOMAIN b.arrays \cup {k}
      /\ b2.arrays[k] = ae
      /\ \A x \in DOMAIN b.arrays : b2.arrays[x] = b.arrays[x]
  BY DEF Put
<1>3. IsFiniteSet(DOMAIN b2.arrays)
  BY <1>2, FS_AddElement DEF Books
<1>4. Family(EscrowHolds(b)) /\ Family(ArrayHolds(b))
  BY HoldFamilies
<1>5. Family(ArrayHolds(b2))
  BY <1>2, <1>3, <1>4 DEF Family, ArrayHolds
<1>6. Total(ArrayHolds(b2)) = Total(ArrayHolds(b)) + ae.Reserved
  <2> DEFINE f == ArrayHolds(b2)
             g == ArrayHolds(b)
  <2>1. /\ k \in DOMAIN f /\ DOMAIN g = DOMAIN f \ {k} /\ f[k] = ae.Reserved
        /\ \A x \in DOMAIN g : g[x] = f[x]
    BY <1>2 DEF ArrayHolds
  <2>2. Family(f)
    BY <1>5
  <2> HIDE DEF f, g
  <2>3. Total(f) = Total(g) + f[k]
    BY <2>1, <2>2, TotalSplit
  <2> QED
    BY <2>1, <2>3 DEF f, g
<1>7. EscrowHolds(b2) = EscrowHolds(b)
  BY DEF EscrowHolds
<1>8. /\ Total(EscrowHolds(b)) \in Nat /\ Total(ArrayHolds(b)) \in Nat
      /\ b.B \in Int /\ b.ReservedTotal \in Int /\ b.Consumed \in Int
      /\ b.WriteOff \in Int
  BY <1>4, CoinsFinite DEF Books, Typed
<1>9. Conserved(b2) /\ HoldsAddUp(b2) /\ NoneNegative(b2)
  BY <1>6, <1>7, <1>8 DEF Books, Conserved, HoldsAddUp, NoneNegative
<1>10. \A x \in DOMAIN b2.arrays : SlicesOK(b2.arrays[x])
  BY <1>2 DEF Books
<1> QED
  BY <1>3, <1>9, <1>10 DEF Books

(* A task that settles moves its slice out of its array and keeps the      *)
(* books.                                                                  *)
LEMMA ReplaceArray ==
  ASSUME NEW b, NEW b2, NEW k, NEW ae, NEW held \in Nat, NEW used \in Nat,
         Books(b), Typed(b2), k \in DOMAIN b.arrays,
         b2.arrays = [b.arrays EXCEPT ![k] = ae],
         SlicesOK(ae), ae.Reserved \in Nat,
         ae.Reserved = b.arrays[k].Reserved - held, used <= held,
         b2.escrows = b.escrows, b2.B = b.B + (held - used),
         b2.ReservedTotal = b.ReservedTotal - held,
         \/ b2.Consumed = b.Consumed + used /\ b2.WriteOff = b.WriteOff
         \/ b2.Consumed = b.Consumed /\ b2.WriteOff = b.WriteOff + used,
         b2.B0 = b.B0
  PROVE  Books(b2)
<1>2. /\ DOMAIN b2.arrays = DOMAIN b.arrays
      /\ b2.arrays[k] = ae
      /\ \A x \in DOMAIN b.arrays \ {k} : b2.arrays[x] = b.arrays[x]
  OBVIOUS
<1>3. Family(EscrowHolds(b)) /\ Family(ArrayHolds(b))
  BY HoldFamilies
<1>4. /\ Total(ArrayHolds(b2)) = Total(ArrayHolds(b)) - held
      /\ Total(ArrayHolds(b2)) \in Nat
  <2> DEFINE f == ArrayHolds(b)
             g == ArrayHolds(b2)
  <2>1. /\ k \in DOMAIN f /\ DOMAIN g = DOMAIN f
        /\ g[k] = ae.Reserved /\ f[k] = b.arrays[k].Reserved
        /\ \A x \in DOMAIN f \ {k} : g[x] = f[x]
    BY <1>2 DEF ArrayHolds
  <2>2. Family(f)
    BY <1>3
  <2>3. f[k] \in Nat
    BY <2>1, <2>2 DEF Family
  <2> HIDE DEF f, g
  <2>4. Family(g) /\ Total(g) = Total(f) - f[k] + g[k]
    BY <2>1, <2>2, TotalUpdate
  <2>5. Total(f) \in Nat /\ Total(g) \in Nat
    BY <2>2, <2>4, CoinsFinite
  <2> QED
    BY <2>1, <2>3, <2>4, <2>5 DEF f, g
<1>5. EscrowHolds(b2) = EscrowHolds(b)
  BY DEF EscrowHolds
<1>6. /\ Total(EscrowHolds(b)) \in Nat /\ Total(ArrayHolds(b)) \in Nat
      /\ b.B \in Int /\ b.ReservedTotal \in Int /\ b.Consumed \in Int
      /\ b.WriteOff \in Int
  BY <1>3, CoinsFinite DEF Books, Typed
<1>7. Conserved(b2) /\ HoldsAddUp(b2) /\ NoneNegative(b2)
  <2>1. Conserved(b2)
    BY <1>6 DEF Books, Conserved
  <2>2. HoldsAddUp(b2)
    BY <1>4, <1>5, <1>6 DEF Books, HoldsAddUp
  <2>3. NoneNegative(b2)
    BY <1>4, <1>5, <1>6, <2>2 DEF Books, HoldsAddUp, NoneNegative
  <2> QED
    BY <2>1, <2>2, <2>3
<1>8. \A x \in DOMAIN b2.arrays : SlicesOK(b2.arrays[x])
  BY <1>2 DEF Books
<1> QED
  BY <1>2, <1>7, <1>8 DEF Books

(* The last task closes its array and keeps the books.                     *)
LEMMA DropArray ==
  ASSUME NEW b, NEW b2, NEW k, NEW used \in Nat, Books(b), Typed(b2),
         k \in DOMAIN b.arrays, b2.arrays = Drop(b.arrays, k),
         used <= b.arrays[k].Reserved, b2.escrows = b.escrows,
         b2.B = b.B + (b.arrays[k].Reserved - used),
         b2.ReservedTotal = b.ReservedTotal - b.arrays[k].Reserved,
         \/ b2.Consumed = b.Consumed + used /\ b2.WriteOff = b.WriteOff
         \/ b2.Consumed = b.Consumed /\ b2.WriteOff = b.WriteOff + used,
         b2.B0 = b.B0
  PROVE  Books(b2)
<1>2. /\ DOMAIN b2.arrays = DOMAIN b.arrays \ {k}
      /\ \A x \in DOMAIN b2.arrays : b2.arrays[x] = b.arrays[x]
  BY DEF Drop, Restrict
<1>3. Family(EscrowHolds(b)) /\ Family(ArrayHolds(b))
  BY HoldFamilies
<1>4. /\ Total(ArrayHolds(b)) =
           Total(ArrayHolds(b2)) + b.arrays[k].Reserved
      /\ Total(ArrayHolds(b2)) \in Nat
      /\ b.arrays[k].Reserved \in Nat
  <2> DEFINE f == ArrayHolds(b)
             g == ArrayHolds(b2)
  <2>1. /\ k \in DOMAIN f /\ DOMAIN g = DOMAIN f \ {k}
        /\ f[k] = b.arrays[k].Reserved
        /\ \A x \in DOMAIN g : g[x] = f[x]
    BY <1>2 DEF ArrayHolds
  <2>2. Family(f)
    BY <1>3
  <2>3. f[k] \in Nat
    BY <2>1, <2>2 DEF Family
  <2> HIDE DEF f, g
  <2>4. Total(g) \in Nat /\ Total(f) = Total(g) + f[k]
    BY <2>1, <2>2, TotalSplit
  <2> QED
    BY <2>1, <2>3, <2>4 DEF f, g
<1>5. EscrowHolds(b2) = EscrowHolds(b)
  BY DEF EscrowHolds
<1>6. /\ Total(EscrowHolds(b)) \in Nat
      /\ b.B \in Int /\ b.ReservedTotal \in Int /\ b.Consumed \in Int
      /\ b.WriteOff \in Int
  BY <1>3, CoinsFinite DEF Books, Typed
<1>7. Conserved(b2) /\ HoldsAddUp(b2) /\ NoneNegative(b2)
  BY <1>4, <1>5, <1>6 DEF Books, Conserved, HoldsAddUp, NoneNegative
<1>8. \A x \in DOMAIN b2.arrays : SlicesOK(b2.arrays[x])
  BY <1>2 DEF Books
<1>9. IsFiniteSet(DOMAIN b2.arrays)
  BY <1>2, FS_RemoveElement DEF Books
<1> QED
  BY <1>7, <1>8, <1>9 DEF Books

-----------------------------------------------------------------------------
(* Every kernel transition keeps the books and is a Step.                  *)

(* The gate for one job.                                                   *)
LEMMA SubmitBooks ==
  ASSUME NEW b, Books(b), NEW j \in JobIDs, NEW c \in Int, NEW w \in Nat,
         NEW now \in Int, NEW wal \in BOOLEAN
  PROVE  Kept(b, SubmitAt(b, j, c, w, now, wal).bd)
<1> DEFINE rate == RateOrFlat(b, c)
           cost == rate * w
           e == [C |-> rate, Reserved |-> cost, W |-> w, Started |-> FALSE,
                 BurstResv |-> 0, Submitted |-> now]
           b2 == [b EXCEPT !.B = @ - cost, !.ReservedTotal = @ + cost,
                           !.escrows = Put(@, j, e)]
           r == SubmitAt(b, j, c, w, now, wal)
<1>1. rate \in Nat \ {0}
  BY DEF RateOrFlat, Books, Typed
<1>2. cost \in Nat
  BY <1>1
<1> HIDE DEF rate
<1>3. e \in Escrow /\ Funded(e) /\ e.Reserved = cost /\ e.Started = FALSE
  BY <1>1, <1>2 DEF Escrow, Funded
<1>4. r.bd = b \/ (r.bd = b2 /\ j \notin DOMAIN b.escrows /\ cost <= b.B)
  BY DEF SubmitAt, logCmd, Rejected, Solvent, rate
<1> HIDE DEF cost, e, r
<1>5. Typed(b)
  BY DEF Books
<1>6. /\ b2.B = b.B - cost /\ b2.ReservedTotal = b.ReservedTotal + cost
      /\ b2.escrows = Put(b.escrows, j, e) /\ b2.arrays = b.arrays
      /\ b2.Consumed = b.Consumed /\ b2.WriteOff = b.WriteOff
      /\ b2.B0 = b.B0 /\ b2.burstPot = b.burstPot
  BY <1>5 DEF Typed
<1>7. Put(b.escrows, j, e) \in [DOMAIN b.escrows \cup {j} -> Escrow]
  BY <1>3, <1>5 DEF Put, Typed
<1>8. Typed(b2)
  <2> DEFINE esc == Put(b.escrows, j, e)
             D == DOMAIN b.escrows \cup {j}
  <2>1. /\ D \in SUBSET JobIDs /\ esc \in [D -> Escrow]
        /\ b.B - cost \in Int /\ b.ReservedTotal + cost \in Int
    BY <1>2, <1>5, <1>7 DEF Typed
  <2> HIDE DEF esc, D
  <2>2. Typed([b EXCEPT !.B = b.B - cost,
                        !.ReservedTotal = b.ReservedTotal + cost,
                        !.escrows = esc])
    BY <1>5, <2>1, TypedEscrows, Zenon
  <2> QED
    BY <2>2, Zenon DEF esc
<1>9. CASE j \notin DOMAIN b.escrows /\ cost <= b.B
  <2> HIDE DEF b2
  <2>1. Books(b2)
    BY <1>3, <1>6, <1>8, <1>9, AddEscrow
  <2>2. Moved(b, b2)
    <3>1. Gated(b, b2, j, e)
      BY <1>2, <1>3, <1>6, <1>9 DEF Gated, SameSpent
    <3> QED
      BY <3>1 DEF Moved
  <2>3. Step(b, b2)
    BY <1>5, <1>6, <2>2, SamePot DEF Step
  <2> QED
    BY <1>4, <1>5, <2>1, <2>3, SelfStep DEF r, Kept
<1> QED
  BY <1>4, <1>5, <1>9, SelfStep DEF r, Kept

(* Dispatch of one job: a rejected one keeps only its accrual.             *)
LEMMA StartBooks ==
  ASSUME NEW b, Books(b), NEW j, NEW now \in Int, NEW wal \in BOOLEAN
  PROVE  Kept(b, Start(b, j, now, wal).bd)
<1> DEFINE e == b.escrows[j]
           b1 == accrue(b, now)
           resv == BurstResvFor(b1, e.C, e.W)
           burning == Burning(b1, e.C)
           b2 == [burning EXCEPT !.burstPot = @ - resv,
                                 !.escrows[j].Started = TRUE,
                                 !.escrows[j].BurstResv = resv]
           r == Start(b, j, now, wal)
<1>1. Typed(b1) /\ SameRecords(b, b1)
  BY AccrueFrame DEF Books
<1>2. Books(b1)
  BY <1>1, SameBooks
<1>2a. Typed(b) /\ Step(b, b) /\ Step(b, b1)
  BY SelfStep, AccrueStep DEF Books
<1>3. CASE j \notin DOMAIN b.escrows
  BY <1>2a, <1>3 DEF Start, Rejected, Kept
<1>4. CASE j \in DOMAIN b.escrows
  <2>1. e \in Escrow /\ Funded(e)
    BY <1>4 DEF Books, Typed
  <2>2. /\ e.C \in Nat /\ e.W \in Nat /\ e.C \in Int /\ e.W \in Int
        /\ e.Reserved \in Nat
    BY <2>1 DEF Escrow, Funded
  <2> HIDE DEF b1
  <2>3. Typed(burning) /\ SameRecords(b1, burning)
    BY <1>1, <2>2, BurningFrame
  <2>4. Books(burning)
    BY <1>2, <2>3, SameBooks
  <2>5. resv \in Nat /\ resv \in Int
    <3>1. resv \in Nat
      BY <1>1, <2>2, ReserveNat
    <3> QED
      BY <3>1
  <2> HIDE DEF resv
  <2>6. r.bd = b \/ r.bd = b1 \/ r.bd = burning \/ (r.bd = b2 /\ ~e.Started)
    BY <1>4 DEF Start, logCmd, Rejected, b1, resv
  <2> DEFINE e2 == [e EXCEPT !.Started = TRUE, !.BurstResv = resv]
  <2>7. burning.escrows = b.escrows
    BY <1>1, <2>3 DEF SameRecords
  <2>8. /\ e2 \in Escrow /\ Funded(e2)
        /\ e2.Reserved = burning.escrows[j].Reserved - 0
        /\ e2.Reserved = e.Reserved - 0 /\ e2.Started = TRUE
    <3> HIDE DEF e
    <3>1. /\ e2 \in Escrow /\ e2.Reserved = e.Reserved /\ Funded(e2)
          /\ e2.Started = TRUE
      BY <2>1, <2>5 DEF Escrow, Funded
    <3>2. e.Reserved = e.Reserved - 0
      BY <2>1 DEF Escrow
    <3> QED
      BY <2>7, <3>1, <3>2 DEF e
  <2>9. b2 = [burning EXCEPT !.burstPot = burning.burstPot - resv,
                             !.escrows = [burning.escrows EXCEPT ![j] = e2]]
    <3> HIDE DEF burning
    <3>1. burning.escrows \in [DOMAIN b.escrows -> Escrow] /\ Typed(burning)
      BY <2>3, <2>7 DEF Typed
    <3>2. [burning.escrows EXCEPT ![j].Started = TRUE, ![j].BurstResv = resv]
            = [burning.escrows EXCEPT ![j] = e2]
      BY <1>4, <2>7, <3>1
    <3> QED
      BY <1>4, <2>7, <3>1, <3>2 DEF Typed
  <2> HIDE DEF burning, e2
  <2>10. Typed(b2)
    <3>1. [burning.escrows EXCEPT ![j] = e2] \in [DOMAIN b.escrows -> Escrow]
      BY <2>3, <2>7, <2>8 DEF Typed
    <3>2. burning.burstPot - resv \in Int /\ DOMAIN b.escrows \in SUBSET JobIDs
      BY <2>3, <2>5, <2>7 DEF Typed
    <3> QED
      BY <2>3, <2>9, <3>1, <3>2, TypedEscrows, Zenon
  <2>11. /\ b2.escrows = [burning.escrows EXCEPT ![j] = e2]
         /\ b2.arrays = burning.arrays /\ b2.B = burning.B
         /\ b2.ReservedTotal = burning.ReservedTotal
         /\ b2.Consumed = burning.Consumed /\ b2.WriteOff = burning.WriteOff
         /\ b2.B0 = burning.B0 /\ b2.burstPot = burning.burstPot - resv
         /\ b2.BurstCeilingPct = burning.BurstCeilingPct
    BY <2>3, <2>9 DEF Typed
  <2> HIDE DEF b2
  <2>12. /\ b2.B = burning.B + 0
         /\ b2.ReservedTotal = burning.ReservedTotal - 0
    BY <2>3, <2>11 DEF Typed
  <2>13. Books(b2)
    BY <1>4, <2>4, <2>7, <2>8, <2>10, <2>11, <2>12, ReplaceEscrow
  <2>14. /\ SameRecords(b, burning) /\ SameCeiling(b1, burning)
         /\ burning.burstPot = b1.burstPot
    BY <1>1, <2>2, <2>3, SameTrans, BurningCaps DEF burning
  <2>15. Capped(b, burning)
    BY <1>1, <1>2a, <2>3, <2>14, SamePot, CappedTrans DEF Step
  <2>16. Step(b, burning)
    BY <2>14, <2>15, QuietMoved DEF Step
  <2>17. Capped(b, b2)
    <3>1. Capped(burning, b2)
      BY <2>3, <2>5, <2>11 DEF Capped, Typed
    <3>2. SameCeiling(burning, b2)
      BY <2>11 DEF SameCeiling
    <3> QED
      BY <1>2a, <2>3, <2>10, <2>15, <3>1, <3>2, CappedTrans
  <2>18. ~e.Started => Moved(b, b2)
    <3>1. ASSUME ~e.Started  PROVE Rewritten(b, b2, j, e2, 0)
      <4>1. /\ b2.B = b.B /\ b.B \in Int /\ SameSpent(b, b2)
            /\ b2.escrows = [b.escrows EXCEPT ![j] = e2] /\ b2.arrays = b.arrays
        BY <1>2a, <2>11, <2>14 DEF SameRecords, SameMoney, SameSpent, Typed
      <4>2. e2.Reserved \in Nat /\ 0 \in Nat
        <5>1. e2.Reserved = e2.C * e2.W /\ e2.C \in Nat /\ e2.W \in Nat
          BY <2>8 DEF Funded, Escrow
        <5> QED
          BY <5>1
      <4>3. e2.Reserved = e.Reserved - 0 /\ b2.B = b.B + 0
        BY <2>1, <2>8, <4>1 DEF Escrow
      <4> QED
        BY <1>4, <2>8, <3>1, <4>1, <4>2, <4>3, Zenon DEF Rewritten
    <3> QED
      BY <3>1 DEF Moved
  <2> QED
    BY <1>2, <1>2a, <2>4, <2>6, <2>13, <2>16, <2>17, <2>18 DEF Step, Kept
<1> QED
  BY <1>3, <1>4

(* Billing part of a reservation.                                          *)
LEMMA BillEffect ==
  ASSUME NEW b, Typed(b), NEW held \in Int, NEW used \in Int,
         NEW writeOff \in BOOLEAN, NEW b2, b2 = Bill(b, held, used, writeOff)
  PROVE  /\ Typed(b2)
         /\ Released(b, b2, held, used)
         /\ b2.escrows = b.escrows /\ b2.arrays = b.arrays
         /\ SameCeiling(b, b2) /\ b2.burstPot = b.burstPot
<1>1. PICK x \in Int, y \in Int, u \in Int, v \in Int :
        /\ x = b.ReservedTotal - held
        /\ y = b.B + (held - used)
        /\ u = IF writeOff THEN b.WriteOff + used ELSE b.WriteOff
        /\ v = IF writeOff THEN b.Consumed ELSE b.Consumed + used
  <2>1. /\ b.ReservedTotal - held \in Int /\ b.B + (held - used) \in Int
        /\ b.WriteOff + used \in Int /\ b.WriteOff \in Int
        /\ b.Consumed + used \in Int /\ b.Consumed \in Int
    BY DEF Typed
  <2> QED
    BY <2>1, Zenon
<1>2. b2 = [b EXCEPT !.ReservedTotal = x, !.B = y, !.WriteOff = u,
                     !.Consumed = v]
  BY <1>1, Zenon DEF Bill
<1>3. /\ Typed(b2) /\ b2.ReservedTotal = x /\ b2.B = y /\ b2.WriteOff = u
      /\ b2.Consumed = v /\ b2.B0 = b.B0
      /\ b2.escrows = b.escrows /\ b2.arrays = b.arrays
      /\ b2.burstPot = b.burstPot /\ b2.BurstCeilingPct = b.BurstCeilingPct
  BY ONLY Typed(b), x \in Int, y \in Int, u \in Int, v \in Int, <1>2
     DEF Typed
<1>4. Released(b, b2, held, used)
  <2>1. CASE writeOff
    BY <1>1, <1>3, <2>1, Zenon DEF Released
  <2>2. CASE ~writeOff
    BY <1>1, <1>3, <2>2, Zenon DEF Released
  <2> QED
    BY <2>1, <2>2
<1> QED
  BY <1>3, <1>4 DEF SameCeiling

(* The settle core accrues, bills and stops burning.                       *)
LEMMA PayEffect ==
  ASSUME NEW b, NEW b1, NEW paid, NEW done, NEW held, NEW used,
         SameRecords(b, b1), Released(b1, paid, held, used),
         paid.escrows = b1.escrows, paid.arrays = b1.arrays,
         SameRecords(paid, done)
  PROVE  /\ Released(b, done, held, used)
         /\ done.escrows = b.escrows /\ done.arrays = b.arrays
  BY Zenon DEF Released, SameRecords, SameMoney

(* Settling one job: bill the clamped runtime, refund the tail.            *)
LEMMA SettleBooks ==
  ASSUME NEW b, Books(b), NEW j \in DOMAIN b.escrows, NEW runtime \in Int,
         NEW writeOff \in BOOLEAN, NEW now \in Int
  PROVE  Kept(b, settle(b, j, runtime, writeOff, now))
<1> DEFINE e == b.escrows[j]
           rt == Clamp(runtime, e.W)
           used == e.C * rt
           done == StopBurning(Bill(accrue(b, now), e.Reserved, used, writeOff),
                               e.C, e.W, e.Started, e.BurstResv, rt)
           b2 == [done EXCEPT !.escrows = Drop(@, j)]
<1>1. e \in Escrow /\ Funded(e) /\ Typed(b)
  BY DEF Books, Typed
<1>2. /\ e.C \in Nat /\ e.W \in Nat /\ e.Reserved = e.C * e.W
      /\ e.Reserved \in Int /\ e.Started \in BOOLEAN /\ e.BurstResv \in Int
  BY <1>1 DEF Escrow, Funded
<1> HIDE DEF e
<1>3. rt \in 0 .. e.W /\ used \in 0 .. e.C * e.W
  BY <1>2, ClampCost
<1>4. rt \in Int /\ used \in Nat /\ used \in Int /\ used <= e.Reserved
  BY <1>2, <1>3
<1> HIDE DEF rt, used
<1>5. /\ Typed(done) /\ Released(b, done, e.Reserved, used)
      /\ done.escrows = b.escrows /\ done.arrays = b.arrays
      /\ Capped(b, done)
  <2> DEFINE b1 == accrue(b, now)
             paid == Bill(b1, e.Reserved, used, writeOff)
  <2>1. Typed(b1) /\ SameRecords(b, b1)
    BY <1>1, AccrueFrame
  <2> HIDE DEF b1
  <2>2. /\ Typed(paid) /\ Released(b1, paid, e.Reserved, used)
        /\ paid.escrows = b1.escrows /\ paid.arrays = b1.arrays
        /\ SameCeiling(b1, paid) /\ paid.burstPot = b1.burstPot
    BY <1>2, <1>4, <2>1, BillEffect
  <2> HIDE DEF paid
  <2>3. e.C \in Int
    BY <1>2
  <2>4. Typed(done) /\ SameRecords(paid, done)
    BY <1>2, <1>4, <2>2, <2>3, StopBurningFrame, Zenon DEF paid, b1
  <2>5. SameCeiling(paid, done) /\ Capped(paid, done)
    BY <1>2, <1>4, <2>2, <2>3, StopBurningCaps, Zenon DEF paid, b1
  <2>6. Capped(b, b1)
    BY <1>1, AccrueCaps DEF b1
  <2> HIDE DEF done
  <2>7. Capped(b, paid)
    BY <1>1, <2>1, <2>2, <2>6, SamePot, CappedTrans
  <2>8. Capped(b, done)
    BY <1>1, <2>2, <2>4, <2>5, <2>7, CappedTrans
  <2> QED
    BY <2>1, <2>2, <2>4, <2>8, PayEffect
<1> HIDE DEF done
<1>9. Typed(b2)
  <2> DEFINE D == DOMAIN b.escrows \ {j}
             esc == Drop(b.escrows, j)
  <2>1. D \in SUBSET JobIDs /\ esc \in [D -> Escrow]
    BY DEF Books, Typed, Drop, Restrict
  <2> HIDE DEF D, esc
  <2>2. Typed([done EXCEPT !.escrows = esc])
    BY <1>5, <2>1, TypedEscrows
  <2> QED
    BY <1>5, <2>2, Zenon DEF esc
<1>10. /\ b2.escrows = Drop(b.escrows, j) /\ b2.arrays = done.arrays
       /\ b2.B = done.B /\ b2.ReservedTotal = done.ReservedTotal
       /\ b2.Consumed = done.Consumed /\ b2.WriteOff = done.WriteOff
       /\ b2.B0 = done.B0 /\ b2.burstPot = done.burstPot
       /\ b2.BurstCeilingPct = done.BurstCeilingPct
  BY <1>5 DEF Typed
<1> HIDE DEF b2
<1>11. Released(b, b2, e.Reserved, used) /\ b2.arrays = b.arrays
  BY <1>5, <1>10, Zenon DEF Released
<1>12. Books(b2)
  BY <1>4, <1>9, <1>10, <1>11, DropEscrow, Zenon DEF e, Released
<1>12a. Step(b, b2)
  <2>1. Closed(b, b2, j, used)
    BY <1>4, <1>10, <1>11 DEF Closed, e
  <2>2. SameCeiling(done, b2) /\ Capped(done, b2)
    BY <1>5, <1>10, SamePot DEF SameCeiling
  <2>3. Capped(b, b2)
    BY <1>1, <1>5, <1>9, <2>2, CappedTrans
  <2> QED
    BY <2>1, <2>3 DEF Step, Moved
<1>13. settle(b, j, runtime, writeOff, now) = b2
  BY Zenon DEF settle, b2, done, used, rt, e
<1> QED
  BY <1>12, <1>12a, <1>13 DEF Kept

(* Every settle of a job, refused or not, logged or not, keeps the books.  *)
LEMMA SettledBooks ==
  ASSUME NEW b, Books(b), NEW j, NEW runtime,
         j \in DOMAIN b.escrows => runtime \in Int,
         NEW writeOff \in BOOLEAN, NEW now \in Int, NEW cmd,
         NEW wal \in BOOLEAN
  PROVE  Kept(b, Settled(b, j, runtime, writeOff, now, cmd, wal).bd)
<1>0. Kept(b, b)
  BY KeptSelf
<1>1. CASE j \notin DOMAIN b.escrows
  BY <1>0, <1>1 DEF Settled, Rejected
<1>2. CASE j \in DOMAIN b.escrows
  <2>1. Kept(b, settle(b, j, runtime, writeOff, now))
    BY <1>2, SettleBooks
  <2> QED
    BY <1>0, <1>2, <2>1 DEF Settled, logCmd, Rejected
<1> QED
  BY <1>1, <1>2

(* The four exits of a job.                                                *)
LEMMA ExitBooks ==
  ASSUME NEW b, Books(b), NEW j, NEW rt \in Int, NEW now \in Int,
         NEW wal \in BOOLEAN
  PROVE  /\ Kept(b, Complete(b, j, rt, now, wal).bd)
         /\ Kept(b, Timeout(b, j, now, wal).bd)
         /\ Kept(b, Cancel(b, j, rt, now, wal).bd)
         /\ Kept(b, InfraFail(b, j, rt, now, wal).bd)
<1>1. ASSUME j \in DOMAIN b.escrows  PROVE b.escrows[j].W \in Int
  BY <1>1 DEF Books, Typed, Escrow
<1>2. b.BillInfraFailures \in BOOLEAN
  BY DEF Books, Typed
<1>3. 0 \in Int
  OBVIOUS
<1>4. Kept(b, Complete(b, j, rt, now, wal).bd)
  BY SettledBooks, Zenon DEF Complete
<1>5. Kept(b, Timeout(b, j, now, wal).bd)
  BY <1>1, SettledBooks, Zenon DEF Timeout
<1>6. Kept(b, Cancel(b, j, rt, now, wal).bd)
  <2>1. (IF b.escrows[j].Started THEN rt ELSE 0) \in Int
    BY <1>3, Zenon
  <2> QED
    BY <2>1, SettledBooks, Zenon DEF Cancel
<1>7. Kept(b, InfraFail(b, j, rt, now, wal).bd)
  BY <1>2, SettledBooks, Zenon DEF InfraFail
<1> QED
  BY <1>4, <1>5, <1>6, <1>7

(* Pricing one job down before it is dispatched.                           *)
LEMMA RepriceBooks ==
  ASSUME NEW b, Books(b), NEW j, NEW c \in Int, NEW now \in Int,
         NEW wal \in BOOLEAN
  PROVE  Kept(b, Reprice(b, j, c, now, wal).bd)
<1> DEFINE e == b.escrows[j]
           d == (e.C - c) * e.W
           e2 == [e EXCEPT !.C = c, !.Reserved = e.Reserved - d]
           b2 == [b EXCEPT !.escrows[j].C = c,
                           !.escrows[j].Reserved = @ - d,
                           !.ReservedTotal = @ - d, !.B = @ + d]
           r == Reprice(b, j, c, now, wal)
<1>1. \/ r.bd = b
      \/ /\ r.bd = b2 /\ j \in DOMAIN b.escrows
         /\ ~(c <= 0) /\ ~(c > e.C) /\ ~e.Started
  BY Zenon DEF Reprice, logCmd, Rejected
<1>2. CASE /\ r.bd = b2 /\ j \in DOMAIN b.escrows
           /\ ~(c <= 0) /\ ~(c > e.C) /\ ~e.Started
  <2>1. e \in Escrow /\ Funded(e) /\ Typed(b)
    BY <1>2 DEF Books, Typed
  <2>2. /\ e.C \in Nat /\ e.W \in Nat /\ e.Reserved = e.C * e.W
        /\ c \in Nat \ {0} /\ c \in Nat
    BY <1>2, <2>1 DEF Escrow, Funded
  <2> HIDE DEF e
  <2>3. d \in Nat /\ e.Reserved - d = c * e.W /\ e.Reserved - d \in Int
    <3>1. d \in Nat /\ e.C * e.W - d = c * e.W
      BY <1>2, <2>2, RepriceDelta
    <3> QED
      BY <2>2, <3>1
  <2> HIDE DEF d
  <2>4. /\ e2 \in Escrow /\ Funded(e2) /\ e2.Reserved = e.Reserved - d
        /\ e2.Started = e.Started
    BY <2>1, <2>2, <2>3 DEF Escrow, Funded
  <2> HIDE DEF e2
  <2>5. PICK x \in Int, y \in Int, esc \in [DOMAIN b.escrows -> Escrow] :
          /\ x = b.B + d /\ y = b.ReservedTotal - d
          /\ esc = [b.escrows EXCEPT ![j] = e2]
    <3>1. b.B + d \in Int /\ b.ReservedTotal - d \in Int
      BY <2>1, <2>3 DEF Typed
    <3>2. [b.escrows EXCEPT ![j] = e2] \in [DOMAIN b.escrows -> Escrow]
      BY <2>1, <2>4 DEF Typed
    <3> QED
      BY <3>1, <3>2, Zenon
  <2>6. b2 = [b EXCEPT !.B = x, !.ReservedTotal = y, !.escrows = esc]
    <3>1. [b.escrows EXCEPT ![j].C = c, ![j].Reserved = @ - d] = esc
      BY <1>2, <2>1, <2>5 DEF Typed, e2, e
    <3> QED
      BY <1>2, <2>1, <2>5, <3>1 DEF Typed
  <2> HIDE DEF b2
  <2>7. Typed(b2)
    BY ONLY <2>1, <2>6, x \in Int, y \in Int,
            esc \in [DOMAIN b.escrows -> Escrow] DEF Typed
  <2>8. /\ b2.escrows = [b.escrows EXCEPT ![j] = e2] /\ b2.arrays = b.arrays
        /\ b2.B = b.B + d /\ b2.ReservedTotal = b.ReservedTotal - d
        /\ b2.Consumed = b.Consumed /\ b2.WriteOff = b.WriteOff
        /\ b2.B0 = b.B0 /\ b2.burstPot = b.burstPot
    BY <2>1, <2>5, <2>6 DEF Typed
  <2>9. Books(b2)
    BY <1>2, <2>3, <2>4, <2>7, <2>8, ReplaceEscrow DEF e
  <2>10. Rewritten(b, b2, j, e2, d)
    <3>1. e.Reserved - d \in Nat
      BY <2>2, <2>3
    <3>2. e2.Reserved = b.escrows[j].Reserved - d /\ ~e2.Started
      BY <1>2, <2>4 DEF e
    <3>3. /\ b2.escrows = [b.escrows EXCEPT ![j] = e2] /\ b2.arrays = b.arrays
          /\ SameSpent(b, b2) /\ ~b.escrows[j].Started
      BY <1>2, <2>8 DEF SameSpent, e
    <3>4. e2.Started \in BOOLEAN /\ e2.Reserved \in Nat
      BY <2>4, <3>1 DEF Escrow
    <3> QED
      BY <1>2, <2>3, <2>8, <3>2, <3>3, <3>4, Zenon DEF Rewritten
  <2>11. Step(b, b2)
    BY <2>1, <2>8, <2>10, SamePot DEF Step, Moved
  <2> QED
    BY <1>2, <2>9, <2>11 DEF Kept
<1> QED
  BY <1>1, <1>2, KeptSelf

(* An admin resizes the allocation and the balance together.               *)
LEMMA ResizeBooks ==
  ASSUME NEW b, Books(b), NEW d \in Int, b.B + d >= 0
  PROVE  Kept(b, [b EXCEPT !.B = b.B + d, !.B0 = b.B0 + d])
<1>1. Typed(b)
  BY DEF Books
<1>2. PICK x \in Int, y \in Int : x = b.B + d /\ y = b.B0 + d
  BY <1>1 DEF Typed
<1> DEFINE b2 == [b EXCEPT !.B = x, !.B0 = y]
<1>3. Typed(b2)
  BY <1>1 DEF Typed
<1>4. /\ b2.escrows = b.escrows /\ b2.arrays = b.arrays
      /\ b2.B = x /\ b2.B0 = y /\ b2.ReservedTotal = b.ReservedTotal
      /\ b2.Consumed = b.Consumed /\ b2.WriteOff = b.WriteOff
      /\ b2.burstPot = b.burstPot
  BY <1>1 DEF Typed
<1> HIDE DEF b2
<1>5. EscrowHolds(b2) = EscrowHolds(b) /\ ArrayHolds(b2) = ArrayHolds(b)
  BY <1>4 DEF EscrowHolds, ArrayHolds
<1>6. Conserved(b2) /\ NoneNegative(b2)
  BY <1>1, <1>2, <1>4 DEF Books, Typed, Conserved, NoneNegative
<1>7. HoldsAddUp(b2)
  BY <1>4, <1>5 DEF Books, HoldsAddUp
<1>8. Books(b2)
  BY <1>3, <1>4, <1>6, <1>7 DEF Books
<1>9. Step(b, b2)
  BY <1>1, <1>4, SamePot DEF Step, Moved, Resized, SameSpent
<1> QED
  BY <1>2, <1>8, <1>9 DEF b2, Kept

(* A top-up and a withdrawal keep the books: balance and allocation move   *)
(* together.                                                               *)
LEMMA AmountBooks ==
  ASSUME NEW b, Books(b), NEW amt \in Int, NEW xfer, NEW now \in Int,
         NEW wal \in BOOLEAN
  PROVE  /\ Kept(b, TopUpXfer(b, amt, xfer, now, wal).bd)
         /\ Kept(b, WithdrawXfer(b, amt, xfer, now, wal).bd)
<1>1. b.B \in Int /\ b.B0 \in Int /\ b.B >= 0 /\ Kept(b, b)
  BY KeptSelf DEF Books, Typed, NoneNegative
<1>2. CASE amt > 0
  <2> DEFINE up == [b EXCEPT !.B = b.B + amt, !.B0 = b.B0 + amt]
  <2>1. Kept(b, up)
    <3>1. b.B + amt >= 0
      BY <1>1, <1>2
    <3> QED
      BY <3>1, ResizeBooks, Zenon
  <2> HIDE DEF up
  <2>2. TopUpXfer(b, amt, xfer, now, wal).bd \in {b, up}
    BY <1>2 DEF TopUpXfer, logCmd, Rejected, up
  <2>3. CASE amt <= b.B
    <3> DEFINE dn == [b EXCEPT !.B = b.B + (-amt), !.B0 = b.B0 + (-amt)]
    <3>1. Kept(b, dn)
      <4>1. b.B + (-amt) >= 0 /\ -amt \in Int
        BY <1>1, <2>3
      <4> QED
        BY <4>1, ResizeBooks, Zenon
    <3>2. dn = [b EXCEPT !.B = b.B - amt, !.B0 = b.B0 - amt]
      BY <1>1
    <3> HIDE DEF dn
    <3>3. WithdrawXfer(b, amt, xfer, now, wal).bd \in {b, dn}
      BY <1>2, <2>3, <3>2 DEF WithdrawXfer, logCmd, Rejected
    <3> QED
      BY <1>1, <2>1, <2>2, <3>1, <3>3
  <2>4. CASE ~(amt <= b.B)
    <3>1. WithdrawXfer(b, amt, xfer, now, wal).bd = b
      BY <1>1, <2>4 DEF WithdrawXfer, Rejected
    <3> QED
      BY <1>1, <2>1, <2>2, <3>1
  <2> QED
    BY <2>3, <2>4
<1>3. CASE ~(amt > 0)
  BY <1>1, <1>3 DEF TopUpXfer, WithdrawXfer, Rejected
<1> QED
  BY <1>2, <1>3

(* The admin methods that touch no money.                                  *)
LEMMA RateWindowBooks ==
  ASSUME NEW b, Books(b), NEW c \in Int, NEW ts \in Int, NEW te \in Int,
         NEW now \in Int, NEW wal \in BOOLEAN
  PROVE  /\ Kept(b, SetRate(b, c, now, wal).bd)
         /\ Kept(b, SetWindow(b, ts, te, now, wal).bd)
         /\ Kept(b, Lapse(b, wal).bd)
<1>1. Typed(b) /\ Kept(b, b)
  BY KeptSelf DEF Books
<1>4. Kept(b, SetRate(b, c, now, wal).bd)
  <2>1. SetRate(b, c, now, wal).bd = b \/ c > 0
    BY DEF SetRate, Rejected
  <2>2. ASSUME c > 0  PROVE Kept(b, SetRate(b, c, now, wal).bd)
    <3> DEFINE b2 == [b EXCEPT !.C = c]
    <3>1. Typed(b2)
      BY <1>1, <2>2 DEF Typed
    <3>2. SameRecords(b, b2) /\ b2.burstPot = b.burstPot
      BY <1>1 DEF Typed, SameRecords, SameMoney
    <3> HIDE DEF b2
    <3>3. Kept(b, b2)
      BY <1>1, <3>1, <3>2, SamePot, KeptQuiet
    <3> QED
      BY <1>1, <3>3 DEF SetRate, logCmd, Rejected, b2
  <2> QED
    BY <1>1, <2>1, <2>2
<1>5. Kept(b, SetWindow(b, ts, te, now, wal).bd)
  <2>1. SetWindow(b, ts, te, now, wal).bd = b \/ ts < te
    BY DEF SetWindow, Rejected
  <2>2. ASSUME ts < te  PROVE Kept(b, SetWindow(b, ts, te, now, wal).bd)
    <3> DEFINE b2 == [b EXCEPT !.TS = ts, !.TE = te]
    <3>1. Typed(b2)
      BY <1>1, <2>2 DEF Typed
    <3>2. SameRecords(b, b2) /\ b2.burstPot = b.burstPot
      BY <1>1 DEF Typed, SameRecords, SameMoney
    <3> HIDE DEF b2
    <3>3. Kept(b, b2)
      BY <1>1, <3>1, <3>2, SamePot, KeptQuiet
    <3> QED
      BY <1>1, <3>3 DEF SetWindow, logCmd, Rejected, b2
  <2> QED
    BY <1>1, <2>1, <2>2
<1>6. Kept(b, Lapse(b, wal).bd)
  <2> DEFINE b2 == [b EXCEPT !.status = "Lapsed"]
  <2>1. Typed(b2)
    BY <1>1 DEF Typed
  <2>2. SameRecords(b, b2) /\ b2.burstPot = b.burstPot
    BY <1>1 DEF Typed, SameRecords, SameMoney
  <2> HIDE DEF b2
  <2>3. Kept(b, b2)
    BY <1>1, <2>1, <2>2, SamePot, KeptQuiet
  <2> QED
    BY <2>3 DEF Lapse, b2
<1> QED
  BY <1>4, <1>5, <1>6

(* Switching or retuning burst.                                            *)
LEMMA SetBurstBooks ==
  ASSUME NEW b, Books(b), NEW enabled \in BOOLEAN, NEW pct \in Int,
         NEW cap \in Int, NEW now \in Int, NEW wal \in BOOLEAN
  PROVE  Kept(b, SetBurst(b, enabled, pct, cap, now, wal).bd)
<1> DEFINE off == [b EXCEPT !.BurstEnabled = FALSE, !.BurstCeilingPct = 0,
                            !.BurstDrawCap = 0, !.burstPot = 0, !.rLive = 0,
                            !.fracAcc = 0]
           from == IF b.BurstEnabled THEN accrue(b, now)
                   ELSE [b EXCEPT !.BurstEnabled = TRUE, !.lastTouch = now]
           on == [from EXCEPT !.BurstCeilingPct = pct, !.BurstDrawCap = cap]
           full == [on EXCEPT !.burstPot = burstCeiling(on), !.fracAcc = 0]
           r == SetBurst(b, enabled, pct, cap, now, wal)
<1>1. Typed(b) /\ Kept(b, b)
  BY KeptSelf DEF Books
<1>2. Kept(b, off)
  <2>1. Typed(off)
    <3>1. 0 \in 0 .. PctDen /\ 0 \in Nat /\ 0 \in Int
      BY PctDenAssumption
    <3> QED
      BY ONLY <1>1, <3>1 DEF Typed
  <2>2. SameRecords(b, off)
    BY <1>1 DEF Typed, SameRecords, SameMoney
  <2>3. Capped(b, off)
    <3>1. off.burstPot = 0 /\ off.BurstCeilingPct = 0 /\ off.B0 \in Int
      BY <1>1 DEF Typed
    <3>2. burstCeiling(off) = 0
      <4>1. 0 * off.B0 = 0
        BY <3>1
      <4>2. 0 \div PctDen = 0
        BY PctDenAssumption
      <4> QED
        BY <3>1, <4>1, <4>2 DEF burstCeiling
    <3> QED
      BY <3>1, <3>2 DEF Capped
  <2> QED
    BY <2>1, <2>2, <2>3, KeptQuiet
<1> HIDE DEF off
<1>3. Typed(from) /\ SameRecords(b, from)
  <2>1. CASE b.BurstEnabled
    BY <1>1, <2>1, AccrueFrame
  <2>2. CASE ~b.BurstEnabled
    <3> DEFINE f == [b EXCEPT !.BurstEnabled = TRUE, !.lastTouch = now]
    <3>1. Typed(f)
      BY <1>1 DEF Typed
    <3>2. SameRecords(b, f)
      BY <1>1 DEF Typed, SameRecords, SameMoney
    <3>3. from = f
      BY <2>2, Zenon
    <3> QED
      BY <3>1, <3>2, <3>3, Zenon
  <2> QED
    BY <2>1, <2>2
<1>4. Books(from)
  BY <1>3, SameBooks
<1> HIDE DEF from
<1>5. CASE 0 < pct /\ pct <= PctDen /\ cap >= 0
  <2>1. Typed(on)
    <3>1. pct \in 0 .. PctDen /\ cap \in Nat
      BY <1>5, PctDenAssumption
    <3> QED
      BY ONLY <1>3, <3>1 DEF Typed
  <2>2. SameRecords(from, on) /\ on.burstPot \in Int
    BY <1>3 DEF Typed, SameRecords, SameMoney
  <2> HIDE DEF on
  <2>3. Books(on) /\ SameRecords(b, on) /\ Books(b)
    BY <1>3, <1>4, <2>1, <2>2, SameBooks, SameTrans
  <2>3a. ~(on.burstPot > burstCeiling(on)) => Kept(b, on)
    <3>1. burstCeiling(on) \in Int
      BY <2>1, WindowType
    <3>2. ~(on.burstPot > burstCeiling(on)) => Capped(b, on)
      BY <2>2, <3>1 DEF Capped
    <3> QED
      BY <2>1, <2>3, <3>2, KeptQuiet
  <2>4. Kept(b, full)
    <3>1. burstCeiling(on) \in Int /\ 0 \in Int
      BY <2>1, WindowType
    <3>2. Typed(full) /\ SameRecords(on, full)
      BY <2>1, <3>1, SetPot, Zenon
    <3>3. full.burstPot = burstCeiling(on) /\ SameCeiling(on, full)
      BY <2>1 DEF Typed, SameCeiling
    <3> HIDE DEF full
    <3>4. burstCeiling(full) = burstCeiling(on)
      BY <3>3 DEF SameCeiling, burstCeiling
    <3>5. Capped(b, full)
      BY <3>1, <3>3, <3>4 DEF Capped
    <3> QED
      BY <2>3, <3>2, <3>5, SameTrans, KeptQuiet
  <2> HIDE DEF full
  <2>5. \/ r.bd = b \/ r.bd = off \/ r.bd = full
        \/ r.bd = on /\ ~(on.burstPot > burstCeiling(on))
    BY Zenon DEF SetBurst, logCmd, Rejected, off, on, full, from
  <2> HIDE DEF r
  <2> QED
    BY <1>1, <1>2, <2>3a, <2>4, <2>5, Zenon DEF r
<1>6. CASE ~(0 < pct /\ pct <= PctDen /\ cap >= 0)
  <2>1. r.bd = b \/ r.bd = off
    BY <1>6, Zenon DEF SetBurst, BurstConfigOK, logCmd, Rejected, off
  <2> HIDE DEF r
  <2> QED
    BY <1>1, <1>2, <2>1, Zenon DEF r
<1> QED
  BY <1>5, <1>6

-----------------------------------------------------------------------------
(* Job arrays.                                                             *)

(* A new array escrow holds one slice per task, all open.                  *)
LEMMA NewArray ==
  ASSUME NEW c \in Nat \ {0}, NEW n \in Nat \ {0}, NEW w \in Nat \ {0},
         NEW now \in Int, NEW ae,
         ae = [C |-> c, W |-> w, N |-> n, Remaining |-> n,
               Reserved |-> c * w * n, Submitted |-> now,
               tasks |-> [i \in 0 .. (n - 1) |-> NoTask]]
  PROVE  /\ IsArrayEscrow(ae) /\ SlicesOK(ae)
         /\ ae.Reserved = c * w * n /\ ae.Reserved \in Nat
<1>1. /\ ae.C = c /\ ae.W = w /\ ae.N = n /\ ae.Remaining = n
      /\ ae.Reserved = c * w * n
      /\ ae.tasks = [i \in 0 .. (n - 1) |-> NoTask]
  OBVIOUS
<1>2. c * w \in Nat
  OBVIOUS
<1>3. c * w * n = n * (c * w) /\ c * w * n \in Nat
  BY <1>2
<1>4. NoTask \in Task /\ ~NoTask.settled
  BY DEF NoTask, Task
<1>5. IsArrayEscrow(ae)
  <2>1. [i \in 0 .. (n - 1) |-> NoTask] \in [0 .. (n - 1) -> Task]
    BY <1>4
  <2>2. c * w * n \in Int
    BY <1>3
  <2> QED
    BY <1>1, <2>1, <2>2 DEF IsArrayEscrow
<1>6. Open(ae) = 0 .. (n - 1)
  BY <1>1, <1>4 DEF Open
<1>7. Cardinality(0 .. (n - 1)) = n
  <2>1. 0 \in Int /\ n - 1 \in Int /\ ~(0 > n - 1) /\ (n - 1) - 0 + 1 = n
    OBVIOUS
  <2> QED
    BY <2>1, FS_Interval
<1>8. SlicesOK(ae)
  BY <1>1, <1>3, <1>6, <1>7 DEF SlicesOK, slice
<1> QED
  BY <1>1, <1>3, <1>5, <1>8

(* The gate for an array.                                                  *)
LEMMA SubmitArrayBooks ==
  ASSUME NEW b, Books(b), NEW k \in ArrayIDs, NEW c \in Int, NEW n \in Int,
         NEW w \in Nat, NEW now \in Int, NEW wal \in BOOLEAN
  PROVE  Kept(b, SubmitArrayAt(b, k, c, n, w, now, wal).bd)
<1> DEFINE rate == RateOrFlat(b, c)
           cost == rate * w * n
           ae == [C |-> rate, W |-> w, N |-> n, Remaining |-> n,
                  Reserved |-> cost, Submitted |-> now,
                  tasks |-> [i \in 0 .. (n - 1) |-> NoTask]]
           b2 == [b EXCEPT !.B = @ - cost, !.ReservedTotal = @ + cost,
                           !.arrays = Put(@, k, ae)]
           r == SubmitArrayAt(b, k, c, n, w, now, wal)
<1>1. rate \in Nat \ {0} /\ Typed(b)
  BY DEF RateOrFlat, Books, Typed
<1>2. \/ r.bd = b
      \/ /\ r.bd = b2 /\ n > 0 /\ w > 0
         /\ k \notin DOMAIN b.arrays /\ cost <= b.B
  BY Zenon DEF SubmitArrayAt, logCmd, Rejected, Solvent
<1> HIDE DEF rate
<1>3. CASE /\ r.bd = b2 /\ n > 0 /\ w > 0
           /\ k \notin DOMAIN b.arrays /\ cost <= b.B
  <2>1. n \in Nat \ {0} /\ w \in Nat \ {0}
    BY <1>3
  <2>2. /\ IsArrayEscrow(ae) /\ SlicesOK(ae)
        /\ ae.Reserved = cost /\ ae.Reserved \in Nat
    BY <1>1, <2>1, NewArray, Zenon
  <2> HIDE DEF cost, ae
  <2>3. PICK x \in Int, y \in Int : x = b.B - cost /\ y = b.ReservedTotal + cost
    BY <1>1, <2>2 DEF Typed
  <2> DEFINE arr == Put(b.arrays, k, ae)
             D == DOMAIN b.arrays \cup {k}
  <2>4. /\ D \in SUBSET ArrayIDs /\ DOMAIN arr = D
        /\ arr = [z \in D |-> arr[z]]
        /\ \A z \in D : IsArrayEscrow(arr[z])
    BY <1>1, <2>2 DEF Typed, Put
  <2>5. b2 = [b EXCEPT !.B = x, !.ReservedTotal = y, !.arrays = arr]
    BY <2>3
  <2> HIDE DEF arr, D
  <2>6. Typed([b EXCEPT !.B = x, !.ReservedTotal = y, !.arrays = arr])
    BY <1>1, <2>4, TypedArrays, Zenon
  <2>7. /\ b2.arrays = arr /\ b2.escrows = b.escrows
        /\ b2.B = x /\ b2.ReservedTotal = y
        /\ b2.Consumed = b.Consumed /\ b2.WriteOff = b.WriteOff
        /\ b2.B0 = b.B0 /\ b2.burstPot = b.burstPot
    BY <1>1, <2>5 DEF Typed
  <2>8. Typed(b2)
    BY <2>5, <2>6, Zenon
  <2> HIDE DEF b2
  <2>9. Books(b2)
    BY <1>3, <2>2, <2>3, <2>7, <2>8, AddArray DEF arr
  <2>10. ArrayGated(b, b2, k, ae)
    BY <1>3, <2>2, <2>3, <2>7 DEF ArrayGated, SameSpent, arr
  <2>11. Step(b, b2)
    BY <1>1, <2>7, <2>10, SamePot DEF Step, Moved
  <2> QED
    BY <1>3, <2>9, <2>11 DEF Kept
<1> QED
  BY <1>2, <1>3, KeptSelf

(* Writing the tasks of an array without settling one.                     *)
LEMMA StartedTask ==
  ASSUME NEW ae, IsArrayEscrow(ae), SlicesOK(ae),
         NEW t2 \in [0 .. (ae.N - 1) -> Task],
         \A x \in 0 .. (ae.N - 1) : t2[x].settled = ae.tasks[x].settled
  PROVE  /\ IsArrayEscrow([ae EXCEPT !.tasks = t2])
         /\ SlicesOK([ae EXCEPT !.tasks = t2])
         /\ [ae EXCEPT !.tasks = t2].Reserved = ae.Reserved
<1> DEFINE ae2 == [ae EXCEPT !.tasks = t2]
<1>1. ae.tasks \in [0 .. (ae.N - 1) -> Task]
  BY DEF IsArrayEscrow
<1>4. /\ ae2.C = ae.C /\ ae2.W = ae.W /\ ae2.N = ae.N /\ ae2.tasks = t2
      /\ ae2.Remaining = ae.Remaining /\ ae2.Reserved = ae.Reserved
  BY DEF IsArrayEscrow
<1>5. IsArrayEscrow(ae2)
  BY DEF IsArrayEscrow
<1> HIDE DEF ae2
<1>6. Open(ae2) = Open(ae)
  BY <1>1, <1>4 DEF Open
<1>7. SlicesOK(ae2)
  BY <1>4, <1>6 DEF SlicesOK, slice
<1> QED
  BY <1>4, <1>5, <1>7 DEF ae2

(* Settling an open task takes its slice out of the escrow.                *)
LEMMA SettledTaskSlice ==
  ASSUME NEW ae, IsArrayEscrow(ae), SlicesOK(ae), NEW i \in DOMAIN ae.tasks,
         ~ae.tasks[i].settled, NEW ae2,
         ae2 = [ae EXCEPT !.Reserved = @ - slice(ae), !.Remaining = @ - 1,
                          !.tasks[i].settled = TRUE]
  PROVE  /\ IsArrayEscrow(ae2)
         /\ ae2.Remaining = ae.Remaining - 1 /\ ae2.Remaining \in Nat
         /\ ae2.Reserved = ae.Reserved - slice(ae) /\ ae2.Reserved \in Nat
         /\ ae2.Remaining # 0 => SlicesOK(ae2)
         /\ ae2.Remaining = 0 => ae.Reserved = slice(ae)
<1> DEFINE t2 == [ae.tasks EXCEPT ![i].settled = TRUE]
           D == 0 .. (ae.N - 1)
<1>1. ae.tasks \in [D -> Task] /\ i \in D
  BY DEF IsArrayEscrow
<1>2. /\ t2 \in [D -> Task] /\ t2[i].settled
      /\ \A x \in D \ {i} : t2[x] = ae.tasks[x]
  BY <1>1 DEF Task
<1>3. slice(ae) \in Nat /\ ae.Remaining \in Int /\ ae.Reserved \in Int
  BY DEF IsArrayEscrow, slice
<1>4. PICK x \in Int, y \in Int :
        x = ae.Reserved - slice(ae) /\ y = ae.Remaining - 1
  BY <1>3
<1>5. ae2 = [ae EXCEPT !.Reserved = x, !.Remaining = y, !.tasks = t2]
  BY <1>4 DEF IsArrayEscrow
<1> HIDE DEF t2
<1>6. /\ ae2.C = ae.C /\ ae2.W = ae.W /\ ae2.N = ae.N /\ ae2.tasks = t2
      /\ ae2.Remaining = y /\ ae2.Reserved = x
  BY <1>5 DEF IsArrayEscrow
<1>7. IsArrayEscrow(ae2)
  BY <1>2, <1>5 DEF IsArrayEscrow
<1>8. Open(ae2) = Open(ae) \ {i} /\ i \in Open(ae)
  BY <1>1, <1>2, <1>6 DEF Open
<1>9. IsFiniteSet(Open(ae))
  <2>1. IsFiniteSet(D)
    <3>1. 0 \in Int /\ ae.N - 1 \in Int
      BY DEF IsArrayEscrow
    <3> QED
      BY <3>1, FS_Interval
  <2>2. Open(ae) \in SUBSET D
    BY <1>1 DEF Open
  <2> HIDE DEF D
  <2> QED
    BY <2>1, <2>2, FS_Subset
<1>10. Cardinality(Open(ae2)) = Cardinality(Open(ae)) - 1
  BY <1>8, <1>9, FS_RemoveElement
<1>11. /\ ae.Remaining > 0 /\ ae.Remaining = Cardinality(Open(ae))
       /\ ae.Reserved = ae.Remaining * slice(ae)
  BY DEF SlicesOK
<1>12. slice(ae2) = slice(ae)
  BY <1>6 DEF slice
<1>13. y = Cardinality(Open(ae2)) /\ y \in Nat
  BY <1>3, <1>4, <1>10, <1>11
<1>14. x = y * slice(ae) /\ x \in Nat
  <2>1. ASSUME NEW m \in Nat, NEW q \in Nat
        PROVE  (m + 1) * q - q = m * q /\ m * q \in Nat
    OBVIOUS
  <2>2. ae.Remaining = y + 1
    BY <1>3, <1>4
  <2> QED
    BY <1>3, <1>4, <1>11, <1>13, <2>1, <2>2
<1>15. y # 0 => SlicesOK(ae2)
  BY <1>6, <1>12, <1>13, <1>14 DEF SlicesOK
<1>16. y = 0 => ae.Reserved = slice(ae)
  BY <1>3, <1>4, <1>11
<1> QED
  BY <1>4, <1>6, <1>7, <1>13, <1>14, <1>15, <1>16

(* A well-typed write of one array escrow.                                 *)
LEMMA TypedArrayUpdate ==
  ASSUME NEW b, Typed(b), NEW k \in DOMAIN b.arrays, NEW ae,
         IsArrayEscrow(ae), NEW arr, arr = [b.arrays EXCEPT ![k] = ae]
  PROVE  /\ DOMAIN arr = DOMAIN b.arrays
         /\ DOMAIN b.arrays \in SUBSET ArrayIDs
         /\ arr = [z \in DOMAIN b.arrays |-> arr[z]]
         /\ \A z \in DOMAIN b.arrays : IsArrayEscrow(arr[z])
<1>1. /\ DOMAIN b.arrays \subseteq ArrayIDs
      /\ \A z \in DOMAIN b.arrays : IsArrayEscrow(b.arrays[z])
      /\ b.arrays = [z \in DOMAIN b.arrays |-> b.arrays[z]]
  BY DEF Typed
<1> QED
  BY <1>1

(* Dispatch of one task.                                                   *)
LEMMA StartTaskBooks ==
  ASSUME NEW b, Books(b), NEW k, NEW i, NEW now \in Int, NEW wal \in BOOLEAN
  PROVE  Kept(b, StartTask(b, k, i, now, wal).bd)
<1> DEFINE ae == b.arrays[k]
           b1 == accrue(b, now)
           resv == BurstResvFor(b1, ae.C, ae.W)
           burning == Burning(b1, ae.C)
           b2 == [burning EXCEPT !.burstPot = @ - resv,
                                 !.arrays[k].tasks[i].started = TRUE,
                                 !.arrays[k].tasks[i].burstResv = resv]
           r == StartTask(b, k, i, now, wal)
<1>1. Typed(b1) /\ SameRecords(b, b1)
  BY AccrueFrame DEF Books
<1>2. Books(b1)
  BY <1>1, SameBooks
<1>2a. Typed(b) /\ Kept(b, b) /\ Step(b, b1)
  BY KeptSelf, AccrueStep DEF Books
<1>3. CASE ~Unsettled(b, k, i)
  BY <1>2a, <1>3 DEF StartTask, Rejected
<1>4. CASE Unsettled(b, k, i)
  <2>1. /\ k \in DOMAIN b.arrays /\ i \in DOMAIN ae.tasks
        /\ IsArrayEscrow(ae) /\ SlicesOK(ae)
    BY <1>4 DEF Unsettled, HasTask, Books, Typed
  <2>2. ae.C \in Nat /\ ae.W \in Nat /\ ae.C \in Int /\ ae.W \in Int
    BY <2>1 DEF IsArrayEscrow
  <2> HIDE DEF b1
  <2>3. Typed(burning) /\ SameRecords(b1, burning)
    BY <1>1, <2>2, BurningFrame
  <2>4. Books(burning)
    BY <1>2, <2>3, SameBooks
  <2>5. resv \in Nat /\ resv \in Int
    <3>1. resv \in Nat
      BY <1>1, <2>2, ReserveNat
    <3> QED
      BY <3>1
  <2>6. r.bd = b \/ r.bd = b1 \/ r.bd = burning \/ r.bd = b2
    BY <1>4, Zenon DEF StartTask, logCmd, Rejected, b1
  <2> HIDE DEF resv
  <2> DEFINE ae2 == [ae EXCEPT !.tasks[i].started = TRUE,
                               !.tasks[i].burstResv = resv]
  <2>7. burning.arrays = b.arrays
    BY <1>1, <2>3 DEF SameRecords
  <2>8. /\ IsArrayEscrow(ae2) /\ SlicesOK(ae2)
        /\ ae2.Reserved = ae.Reserved
    <3> DEFINE t2 == [ae.tasks EXCEPT ![i].started = TRUE,
                                      ![i].burstResv = resv]
    <3> HIDE DEF ae
    <3>1. ae.tasks \in [0 .. (ae.N - 1) -> Task] /\ i \in 0 .. (ae.N - 1)
      BY <2>1 DEF IsArrayEscrow
    <3>2. /\ t2 \in [0 .. (ae.N - 1) -> Task]
          /\ \A x \in 0 .. (ae.N - 1) : t2[x].settled = ae.tasks[x].settled
      BY <2>5, <3>1 DEF Task
    <3>3. ae2 = [ae EXCEPT !.tasks = t2]
      BY <2>1 DEF IsArrayEscrow
    <3> HIDE DEF t2, ae2
    <3> QED
      BY <2>1, <3>2, <3>3, StartedTask, Zenon
  <2>8a. /\ SameRecords(b, burning) /\ SameCeiling(b1, burning)
         /\ burning.burstPot = b1.burstPot
    BY <1>1, <2>2, <2>3, SameTrans, BurningCaps
  <2> HIDE DEF burning
  <2>8b. Capped(b, burning)
    BY <1>1, <1>2a, <2>3, <2>8a, SamePot, CappedTrans DEF Step
  <2>8c. Kept(b, burning)
    BY <2>3, <2>8a, <2>8b, KeptQuiet
  <2> DEFINE arr == [burning.arrays EXCEPT ![k] = ae2]
  <2>9. PICK p \in Int : p = burning.burstPot - resv
    BY <2>3, <2>5 DEF Typed
  <2>10. b2 = [burning EXCEPT !.burstPot = p, !.arrays = arr]
    <3>1. [burning.arrays EXCEPT ![k].tasks[i].started = TRUE,
                                 ![k].tasks[i].burstResv = resv] = arr
      BY <2>1, <2>7, <2>9
    <3> QED
      BY <2>3, <2>9, <3>1 DEF Typed
  <2> HIDE DEF ae2, arr
  <2>11. Typed(b2)
    <3> DEFINE D == DOMAIN burning.arrays
    <3>1. k \in DOMAIN burning.arrays
      BY <2>1, <2>7
    <3>2. /\ D \in SUBSET ArrayIDs /\ DOMAIN arr = D
          /\ arr = [z \in D |-> arr[z]]
          /\ \A z \in D : IsArrayEscrow(arr[z])
      BY <2>3, <2>8, <3>1, TypedArrayUpdate DEF arr
    <3>3. 0 \in Int
      OBVIOUS
    <3> HIDE DEF D
    <3>4. Typed([burning EXCEPT !.burstPot = p, !.arrays = arr])
      BY <2>3, <3>2, <3>3, TypedArrays, Zenon
    <3> QED
      BY <2>10, <3>4, Zenon
  <2>12. /\ b2.arrays = [burning.arrays EXCEPT ![k] = ae2]
         /\ b2.escrows = burning.escrows /\ b2.B = burning.B
         /\ b2.ReservedTotal = burning.ReservedTotal
         /\ b2.Consumed = burning.Consumed /\ b2.WriteOff = burning.WriteOff
         /\ b2.B0 = burning.B0 /\ b2.burstPot = p
         /\ b2.BurstCeilingPct = burning.BurstCeilingPct
    BY <2>3, <2>10 DEF Typed, arr
  <2> HIDE DEF b2
  <2>13. /\ b2.B = burning.B + (0 - 0)
         /\ b2.ReservedTotal = burning.ReservedTotal - 0
         /\ b2.Consumed = burning.Consumed + 0
    BY <2>3, <2>12 DEF Typed
  <2>14. /\ ae2.Reserved \in Nat
         /\ ae2.Reserved = burning.arrays[k].Reserved - 0
    <3>1. Family(ArrayHolds(b))
      BY HoldFamilies
    <3>2. ae.Reserved \in Nat
      BY <2>1, <3>1 DEF Family, ArrayHolds
    <3> QED
      BY <2>7, <2>8, <3>2
  <2>15. Books(b2)
    <3>1. 0 \in Nat /\ 0 <= 0 /\ k \in DOMAIN burning.arrays
      BY <2>1, <2>7
    <3> QED
      BY <2>4, <2>8, <2>11, <2>12, <2>13, <2>14, <3>1, ReplaceArray, Zenon
  <2>16. Capped(b, b2)
    <3>1. Capped(burning, b2)
      BY <2>3, <2>5, <2>9, <2>12 DEF Capped, Typed
    <3>2. SameCeiling(burning, b2)
      BY <2>12 DEF SameCeiling
    <3> QED
      BY <1>2a, <2>3, <2>8b, <2>11, <3>1, <3>2, CappedTrans
  <2>17. ArrayPaid(b, b2, k, ae2, 0, 0)
    <3>1. /\ b2.arrays = [b.arrays EXCEPT ![k] = ae2] /\ b2.escrows = b.escrows
          /\ b2.B = b.B + (0 - 0) /\ b2.ReservedTotal = b.ReservedTotal - 0
          /\ b2.Consumed = b.Consumed + 0 /\ b2.WriteOff = b.WriteOff
          /\ b2.B0 = b.B0
      BY <2>7, <2>8a, <2>12, <2>13 DEF SameRecords, SameMoney
    <3>2. Released(b, b2, 0, 0)
      BY <3>1 DEF Released
    <3> QED
      BY <2>1, <2>7, <2>14, <3>1, <3>2 DEF ArrayPaid
  <2>18. Kept(b, b2)
    BY <2>15, <2>16, <2>17 DEF Kept, Step, Moved
  <2>19. Kept(b, b1)
    BY <1>2, <1>2a DEF Kept
  <2> QED
    BY <1>2a, <2>6, <2>8c, <2>18, <2>19, Zenon
<1> QED
  BY <1>3, <1>4

(* Settling one open task; the last one removes the array.                 *)
LEMMA SettleTaskBooks ==
  ASSUME NEW b, Books(b), NEW k, NEW i, Unsettled(b, k, i),
         NEW runtime \in Int, NEW writeOff \in BOOLEAN, NEW now \in Int
  PROVE  Kept(b, settleTask(b, k, i, runtime, writeOff, now))
<1> DEFINE ae == b.arrays[k]
           ts == ae.tasks[i]
           rt == Clamp(runtime, ae.W)
           held == slice(ae)
           used == ae.C * rt
           done == StopBurning(Bill(accrue(b, now), held, used, writeOff),
                               ae.C, ae.W, ts.started, ts.burstResv, rt)
           left == [ae EXCEPT !.Reserved = @ - held, !.Remaining = @ - 1,
                              !.tasks[i].settled = TRUE]
           arr == IF left.Remaining = 0 THEN Drop(b.arrays, k)
                  ELSE [b.arrays EXCEPT ![k] = left]
           b2 == [done EXCEPT !.arrays = arr]
<1>1. /\ k \in DOMAIN b.arrays /\ i \in DOMAIN ae.tasks /\ ~ts.settled
      /\ IsArrayEscrow(ae) /\ SlicesOK(ae) /\ Typed(b)
  BY DEF Unsettled, HasTask, Books, Typed
<1>2. /\ ae.C \in Nat /\ ae.W \in Nat /\ held = ae.C * ae.W
      /\ held \in Nat /\ ae.C \in Int /\ held \in Int
  BY <1>1 DEF IsArrayEscrow, slice
<1>3. ts.started \in BOOLEAN /\ ts.burstResv \in Int
  BY <1>1 DEF IsArrayEscrow, Task
<1>4. /\ IsArrayEscrow(left)
      /\ left.Remaining = ae.Remaining - 1 /\ left.Remaining \in Nat
      /\ left.Reserved = ae.Reserved - held /\ left.Reserved \in Nat
      /\ left.Remaining # 0 => SlicesOK(left)
      /\ left.Remaining = 0 => ae.Reserved = held
  BY <1>1, SettledTaskSlice, Zenon
<1> HIDE DEF ae, ts, left
<1>5. rt \in 0 .. ae.W /\ used \in 0 .. ae.C * ae.W
  BY <1>2, ClampCost
<1>6. rt \in Int /\ used \in Nat /\ used \in Int /\ used <= held
  BY <1>2, <1>5
<1> HIDE DEF rt, used, held
<1>7. /\ Typed(done) /\ Released(b, done, held, used)
      /\ done.escrows = b.escrows /\ done.arrays = b.arrays
      /\ Capped(b, done)
  <2> DEFINE b1 == accrue(b, now)
             paid == Bill(b1, held, used, writeOff)
  <2>1. Typed(b1) /\ SameRecords(b, b1)
    BY <1>1, AccrueFrame
  <2> HIDE DEF b1
  <2>2. /\ Typed(paid) /\ Released(b1, paid, held, used)
        /\ paid.escrows = b1.escrows /\ paid.arrays = b1.arrays
        /\ SameCeiling(b1, paid) /\ paid.burstPot = b1.burstPot
    BY <1>2, <1>6, <2>1, BillEffect
  <2> HIDE DEF paid
  <2>3. Typed(done) /\ SameRecords(paid, done)
    BY <1>2, <1>3, <1>6, <2>2, StopBurningFrame, Zenon DEF paid, b1
  <2>4. SameCeiling(paid, done) /\ Capped(paid, done)
    BY <1>2, <1>3, <1>6, <2>2, StopBurningCaps, Zenon DEF paid, b1
  <2>5. Capped(b, b1)
    BY <1>1, AccrueCaps DEF b1
  <2> HIDE DEF done
  <2>6. Capped(b, paid)
    BY <1>1, <2>1, <2>2, <2>5, SamePot, CappedTrans
  <2>7. Capped(b, done)
    BY <1>1, <2>2, <2>3, <2>4, <2>6, CappedTrans
  <2> QED
    BY <2>1, <2>2, <2>3, <2>7, PayEffect
<1> HIDE DEF done
<1>8. settleTask(b, k, i, runtime, writeOff, now) = b2
  <2>1. settleTask(b, k, i, runtime, writeOff, now) =
          [done EXCEPT !.arrays = IF left.Remaining = 0 THEN Drop(@, k)
                                  ELSE [@ EXCEPT ![k] = left]]
    BY Zenon DEF settleTask, done, left, used, held, rt, ts, ae
  <2> QED
    BY <1>7, <2>1, Zenon
<1>9. CASE left.Remaining = 0
  <2> DEFINE d2 == Drop(b.arrays, k)
             D == DOMAIN b.arrays \ {k}
  <2>1. /\ D \in SUBSET ArrayIDs /\ DOMAIN d2 = D
        /\ d2 = [z \in D |-> d2[z]]
        /\ \A z \in D : IsArrayEscrow(d2[z])
    BY <1>1 DEF Typed, Drop, Restrict
  <2>2. b2 = [done EXCEPT !.arrays = d2]
    BY <1>9, Zenon
  <2> HIDE DEF d2, D, b2
  <2>3. Typed(b2)
    <3>1. 0 \in Int
      OBVIOUS
    <3> QED
      BY <1>7, <2>1, <2>2, <3>1, TypedArrays, Zenon
  <2>4. /\ b2.arrays = Drop(b.arrays, k) /\ b2.escrows = done.escrows
        /\ b2.B = done.B /\ b2.ReservedTotal = done.ReservedTotal
        /\ b2.Consumed = done.Consumed /\ b2.WriteOff = done.WriteOff
        /\ b2.B0 = done.B0 /\ b2.burstPot = done.burstPot
        /\ b2.BurstCeilingPct = done.BurstCeilingPct
    BY <1>7, <2>2 DEF Typed, d2
  <2>5. Released(b, b2, b.arrays[k].Reserved, used) /\ b2.escrows = b.escrows
    BY <1>4, <1>7, <1>9, <2>4, Zenon DEF Released, ae
  <2>6. used <= b.arrays[k].Reserved
    BY <1>4, <1>6, <1>9 DEF ae
  <2>7. Books(b2)
    BY <1>1, <1>6, <2>3, <2>4, <2>5, <2>6, DropArray, Zenon DEF Released
  <2>8. ArrayClosed(b, b2, k, used)
    BY <1>1, <1>6, <2>4, <2>5, <2>6 DEF ArrayClosed
  <2>9. Capped(b, b2)
    <3>1. SameCeiling(done, b2) /\ Capped(done, b2)
      BY <1>7, <2>4, SamePot DEF SameCeiling
    <3> QED
      BY <1>1, <1>7, <2>3, <3>1, CappedTrans
  <2>10. Kept(b, b2)
    BY <2>7, <2>8, <2>9 DEF Kept, Step, Moved
  <2> QED
    BY <1>8, <2>10
<1>10. CASE left.Remaining # 0
  <2> DEFINE u2 == [b.arrays EXCEPT ![k] = left]
             D == DOMAIN b.arrays
  <2>1. /\ D \in SUBSET ArrayIDs /\ DOMAIN u2 = D
        /\ u2 = [z \in D |-> u2[z]]
        /\ \A z \in D : IsArrayEscrow(u2[z])
    BY <1>1, <1>4, TypedArrayUpdate
  <2>2. b2 = [done EXCEPT !.arrays = u2]
    BY <1>10, Zenon
  <2> HIDE DEF u2, D, b2
  <2>3. Typed(b2)
    <3>1. 0 \in Int
      OBVIOUS
    <3> QED
      BY <1>7, <2>1, <2>2, <3>1, TypedArrays, Zenon
  <2>4. /\ b2.arrays = [b.arrays EXCEPT ![k] = left]
        /\ b2.escrows = done.escrows
        /\ b2.B = done.B /\ b2.ReservedTotal = done.ReservedTotal
        /\ b2.Consumed = done.Consumed /\ b2.WriteOff = done.WriteOff
        /\ b2.B0 = done.B0 /\ b2.burstPot = done.burstPot
        /\ b2.BurstCeilingPct = done.BurstCeilingPct
    BY <1>7, <2>2 DEF Typed, u2
  <2>5. Released(b, b2, held, used) /\ b2.escrows = b.escrows
    BY <1>7, <2>4, Zenon DEF Released
  <2>6. left.Reserved = b.arrays[k].Reserved - held
    BY <1>4 DEF ae
  <2>7. Books(b2)
    BY <1>1, <1>2, <1>4, <1>6, <1>10, <2>3, <2>4, <2>5, <2>6, ReplaceArray,
       ZenonT(60) DEF Released
  <2>8. ArrayPaid(b, b2, k, left, held, used)
    BY <1>1, <1>2, <1>4, <1>6, <2>4, <2>5, <2>6 DEF ArrayPaid
  <2>9. Capped(b, b2)
    <3>1. SameCeiling(done, b2) /\ Capped(done, b2)
      BY <1>7, <2>4, SamePot DEF SameCeiling
    <3> QED
      BY <1>1, <1>7, <2>3, <3>1, CappedTrans
  <2>10. Kept(b, b2)
    BY <2>7, <2>8, <2>9 DEF Kept, Step, Moved
  <2> QED
    BY <1>8, <2>10
<1> QED
  BY <1>9, <1>10

(* Every settle of a task, refused or not, logged or not, keeps the books. *)
LEMMA SettledTaskBooks ==
  ASSUME NEW b, Books(b), NEW k, NEW i, NEW runtime,
         Unsettled(b, k, i) => runtime \in Int,
         NEW writeOff \in BOOLEAN, NEW now \in Int, NEW cmd,
         NEW wal \in BOOLEAN
  PROVE  Kept(b, SettledTask(b, k, i, runtime, writeOff, now, cmd, wal).bd)
<1>0. Kept(b, b)
  BY KeptSelf
<1>1. CASE ~Unsettled(b, k, i)
  BY <1>0, <1>1 DEF SettledTask, Rejected
<1>2. CASE Unsettled(b, k, i)
  <2>1. Kept(b, settleTask(b, k, i, runtime, writeOff, now))
    BY <1>2, SettleTaskBooks
  <2> QED
    BY <1>0, <1>2, <2>1 DEF SettledTask, Rejected
<1> QED
  BY <1>1, <1>2

(* The four exits of a task, logged before they are validated.             *)
LEMMA TaskExitBooks ==
  ASSUME NEW b, Books(b), NEW k, NEW i, NEW rt \in Int, NEW now \in Int,
         NEW wal \in BOOLEAN
  PROVE  /\ Kept(b, CompleteTask(b, k, i, rt, now, wal).bd)
         /\ Kept(b, TimeoutTask(b, k, i, now, wal).bd)
         /\ Kept(b, CancelTask(b, k, i, rt, now, wal).bd)
         /\ Kept(b, InfraFailTask(b, k, i, rt, now, wal).bd)
<1>1. ASSUME k \in DOMAIN b.arrays  PROVE b.arrays[k].W \in Int
  BY <1>1 DEF Books, Typed, IsArrayEscrow
<1>2. b.BillInfraFailures \in BOOLEAN
  BY DEF Books, Typed
<1>3. Rejected(b).bd = b /\ Kept(b, b)
  BY KeptSelf DEF Rejected
<1>4. Kept(b, CompleteTask(b, k, i, rt, now, wal).bd)
  BY SettledTaskBooks, Zenon DEF CompleteTask
<1>5. Kept(b, TimeoutTask(b, k, i, now, wal).bd)
  <2>1. CASE k \in DOMAIN b.arrays
    BY <1>1, <2>1, SettledTaskBooks, Zenon DEF TimeoutTask
  <2>2. CASE k \notin DOMAIN b.arrays
    BY <1>3, <2>2, Zenon DEF TimeoutTask
  <2> QED
    BY <2>1, <2>2
<1>6. Kept(b, CancelTask(b, k, i, rt, now, wal).bd)
  <2>1. CASE HasTask(b, k, i)
    <3>1. 0 \in Int
      OBVIOUS
    <3>2. (IF b.arrays[k].tasks[i].started THEN rt ELSE 0) \in Int
      BY <3>1, Zenon
    <3> QED
      BY <2>1, <3>2, SettledTaskBooks, Zenon DEF CancelTask
  <2>2. CASE ~HasTask(b, k, i)
    BY <1>3, <2>2, Zenon DEF CancelTask
  <2> QED
    BY <2>1, <2>2
<1>7. Kept(b, InfraFailTask(b, k, i, rt, now, wal).bd)
  <2>1. CASE k \in DOMAIN b.arrays
    BY <1>2, <2>1, SettledTaskBooks, Zenon DEF InfraFailTask
  <2>2. CASE k \notin DOMAIN b.arrays
    BY <1>3, <2>2, Zenon DEF InfraFailTask
  <2> QED
    BY <2>1, <2>2
<1> QED
  BY <1>4, <1>5, <1>6, <1>7

-----------------------------------------------------------------------------
(* The specification.                                                      *)

(* A budget as created holds its whole allocation as balance.              *)
LEMMA InitBooks ==
  ASSUME NEW cfg \in NewConfigs
  PROVE  Books(NewDurableBurst(cfg))
<1> DEFINE b == NewDurableBurst(cfg)
<1>1. cfg \in NewConfig /\ cfg.TS < cfg.TE
  BY InputAssumption
<1>2. PICK pct \in 0 .. PctDen, cap \in Nat :
        /\ pct = IF cfg.BurstEnabled THEN cfg.BurstCeilingPct ELSE 0
        /\ cap = IF cfg.BurstEnabled THEN cfg.BurstDrawCap ELSE 0
  <2>1. /\ cfg.BurstCeilingPct \in 0 .. PctDen /\ 0 \in 0 .. PctDen
        /\ cfg.BurstDrawCap \in Nat /\ 0 \in Nat
    BY <1>1, PctDenAssumption DEF NewConfig
  <2> QED
    BY <2>1, Zenon
<1>3. b = [C |-> cfg.C, TS |-> cfg.TS, TE |-> cfg.TE,
           B |-> cfg.B0, ReservedTotal |-> 0, Consumed |-> 0, WriteOff |-> 0,
           B0 |-> cfg.B0, BillInfraFailures |-> cfg.BillInfraFailures,
           K |-> cfg.K, BurstEnabled |-> cfg.BurstEnabled,
           BurstCeilingPct |-> pct, BurstDrawCap |-> cap,
           burstPot |-> 0, fracAcc |-> 0, rLive |-> 0, lastTouch |-> cfg.TS,
           escrows |-> [j \in {} |-> 0], arrays |-> [a \in {} |-> 0],
           status |-> "Active"]
  BY <1>2, Zenon DEF NewDurableBurst
<1> HIDE DEF b
<1>4. /\ DOMAIN b.escrows = {} /\ DOMAIN b.arrays = {}
      /\ b.B0 = cfg.B0 /\ b.B = cfg.B0 /\ b.ReservedTotal = 0
      /\ b.Consumed = 0 /\ b.WriteOff = 0 /\ cfg.B0 \in Nat
  BY <1>1, <1>3 DEF NewConfig
<1>5. Typed(b)
  <2>1. [j \in {} |-> 0] \in [{} -> Escrow]
    OBVIOUS
  <2> QED
    BY <1>1, <1>3, <2>1 DEF NewConfig, Typed
<1>6. Conserved(b) /\ NoneNegative(b)
  BY <1>4 DEF Conserved, NoneNegative
<1>7. HoldsAddUp(b)
  <2>1. DOMAIN EscrowHolds(b) = {} /\ DOMAIN ArrayHolds(b) = {}
    BY <1>4 DEF EscrowHolds, ArrayHolds
  <2>2. Total(EscrowHolds(b)) = 0 /\ Total(ArrayHolds(b)) = 0
    BY <2>1, TotalEmpty
  <2> QED
    BY <1>4, <2>2 DEF HoldsAddUp
<1>8. Books(b)
  BY <1>4, <1>5, <1>6, <1>7, FS_EmptySet DEF Books
<1> QED
  BY <1>8 DEF b

(* A new budget satisfies the inductive invariant.                         *)
LEMMA InitIInv == Init => IInv
<1> SUFFICES ASSUME Init  PROVE IInv
  OBVIOUS
<1>1. PICK cfg \in NewConfigs : bd = NewDurableBurst(cfg) /\ clock = cfg.TS + Skew
  BY DEF Init
<1>2. cfg.TS \in Int /\ Skew \in Int
  BY InputAssumption DEF NewConfig
<1> QED
  BY <1>1, <1>2, InitBooks DEF IInv

(* Every action keeps the books, by a step the ledger allows; the clock    *)
(* only ticks.                                                             *)
LEMMA NextKept ==
  ASSUME IInv, [Next]_vars
  PROVE  Kept(bd, bd') /\ clock' \in Int
<1>1. Books(bd) /\ clock \in Int
  BY DEF IInv
<1>2. \A now \in Nows : now \in Int
  BY <1>1, InputAssumption DEF Nows
<1>3. \A wal \in WalOutcomes : wal \in BOOLEAN
  BY InputAssumption
<1> DEFINE Goal == Kept(bd, bd') /\ clock' \in Int
<1>4. ASSUME NEW r, Publish(r) \/ PublishIfOK(r), Kept(bd, r.bd)  PROVE Goal
  BY <1>1, <1>4 DEF Publish, PublishIfOK
<1> HIDE DEF Goal
<1>5. ASSUME NEW j \in JobIDs, JobStep(j)  PROVE Goal
  <2>1. ASSUME NEW c \in Rates, NEW w \in Walltimes, DoSubmit(j, c, w)
        PROVE  Goal
    <3>1. c \in Int /\ w \in Nat
      BY InputAssumption
    <3> QED
      BY <1>1, <1>2, <1>3, <1>4, <2>1, <3>1, SubmitBooks, Zenon DEF DoSubmit
  <2>2. CASE DoStart(j)
    BY <1>1, <1>2, <1>3, <1>4, <2>2, StartBooks, Zenon DEF DoStart
  <2>3. 0 \in Int
    OBVIOUS
  <2>4. CASE DoTimeout(j)
    BY <1>1, <1>2, <1>3, <1>4, <2>3, <2>4, ExitBooks, Zenon DEF DoTimeout
  <2>5. ASSUME NEW rt \in Runtimes, DoComplete(j, rt)  PROVE Goal
    <3>1. rt \in Int
      BY InputAssumption
    <3> QED
      BY <1>1, <1>2, <1>3, <1>4, <2>5, <3>1, ExitBooks, Zenon DEF DoComplete
  <2>6. ASSUME NEW rt \in Runtimes, DoCancel(j, rt)  PROVE Goal
    <3>1. rt \in Int
      BY InputAssumption
    <3> QED
      BY <1>1, <1>2, <1>3, <1>4, <2>6, <3>1, ExitBooks, Zenon DEF DoCancel
  <2>7. ASSUME NEW rt \in Runtimes, DoInfraFail(j, rt)  PROVE Goal
    <3>1. rt \in Int
      BY InputAssumption
    <3> QED
      BY <1>1, <1>2, <1>3, <1>4, <2>7, <3>1, ExitBooks, Zenon DEF DoInfraFail
  <2>8. ASSUME NEW c \in NewRates, DoReprice(j, c)  PROVE Goal
    <3>1. c \in Int
      BY InputAssumption
    <3> QED
      BY <1>1, <1>2, <1>3, <1>4, <2>8, <3>1, RepriceBooks, Zenon DEF DoReprice
  <2> QED
    BY <1>5, <2>1, <2>2, <2>4, <2>5, <2>6, <2>7, <2>8 DEF JobStep
<1>6. ASSUME NEW k \in ArrayIDs, ArrayStep(k)  PROVE Goal
  <2>1. ASSUME NEW c \in Rates, NEW n \in TaskCounts, NEW w \in Walltimes,
               DoSubmitArray(k, c, n, w)
        PROVE  Goal
    <3>1. c \in Int /\ n \in Int /\ w \in Nat
      BY InputAssumption
    <3> QED
      BY <1>1, <1>2, <1>3, <1>4, <2>1, <3>1, SubmitArrayBooks, Zenon
         DEF DoSubmitArray
  <2>2. ASSUME NEW i \in TaskIdxs, DoStartTask(k, i)  PROVE Goal
    BY <1>1, <1>2, <1>3, <1>4, <2>2, StartTaskBooks, Zenon DEF DoStartTask
  <2>3. 0 \in Int
    OBVIOUS
  <2>4. ASSUME NEW i \in TaskIdxs, DoTimeoutTask(k, i)  PROVE Goal
    BY <1>1, <1>2, <1>3, <1>4, <2>3, <2>4, TaskExitBooks, Zenon
       DEF DoTimeoutTask
  <2>5. ASSUME NEW i \in TaskIdxs, NEW rt \in Runtimes,
               DoCompleteTask(k, i, rt)
        PROVE  Goal
    <3>1. rt \in Int
      BY InputAssumption
    <3> QED
      BY <1>1, <1>2, <1>3, <1>4, <2>5, <3>1, TaskExitBooks, Zenon
         DEF DoCompleteTask
  <2>6. ASSUME NEW i \in TaskIdxs, NEW rt \in Runtimes, DoCancelTask(k, i, rt)
        PROVE  Goal
    <3>1. rt \in Int
      BY InputAssumption
    <3> QED
      BY <1>1, <1>2, <1>3, <1>4, <2>6, <3>1, TaskExitBooks, Zenon
         DEF DoCancelTask
  <2>7. ASSUME NEW i \in TaskIdxs, NEW rt \in Runtimes,
               DoInfraFailTask(k, i, rt)
        PROVE  Goal
    <3>1. rt \in Int
      BY InputAssumption
    <3> QED
      BY <1>1, <1>2, <1>3, <1>4, <2>7, <3>1, TaskExitBooks, Zenon
         DEF DoInfraFailTask
  <2> QED
    BY <1>6, <2>1, <2>2, <2>4, <2>5, <2>6, <2>7 DEF ArrayStep
<1>7. CASE AdminStep
  <2>1. ASSUME NEW amt \in Amounts, DoTopUp(amt) \/ DoWithdraw(amt)  PROVE Goal
    <3>1. amt \in Int
      BY InputAssumption
    <3> QED
      BY <1>1, <1>2, <1>3, <1>4, <2>1, <3>1, AmountBooks, Zenon
         DEF DoTopUp, DoWithdraw
  <2>2. 0 \in Int
    OBVIOUS
  <2>3. ASSUME NEW c \in NewRates, DoSetRate(c)  PROVE Goal
    <3>1. c \in Int
      BY InputAssumption
    <3> QED
      BY <1>1, <1>2, <1>3, <1>4, <2>2, <2>3, <3>1, RateWindowBooks, Zenon
         DEF DoSetRate
  <2>4. ASSUME NEW win \in Windows, DoSetWindow(win)  PROVE Goal
    <3>1. win[1] \in Int /\ win[2] \in Int
      BY InputAssumption
    <3> QED
      BY <1>1, <1>2, <1>3, <1>4, <2>2, <2>4, <3>1, RateWindowBooks, Zenon
         DEF DoSetWindow
  <2>5. ASSUME NEW t \in BurstConfigs, DoSetBurst(t)  PROVE Goal
    <3>1. t[1] \in BOOLEAN /\ t[2] \in Int /\ t[3] \in Int
      BY InputAssumption
    <3> QED
      BY <1>1, <1>2, <1>3, <1>4, <2>5, <3>1, SetBurstBooks, Zenon
         DEF DoSetBurst
  <2>6. CASE DoLapse
    <3>1. PICK wal \in WalOutcomes : bd' = Lapse(bd, wal).bd
      BY <2>6 DEF DoLapse
    <3>2. Kept(bd, bd')
      BY <1>1, <1>3, <2>2, <3>1, RateWindowBooks, Zenon
    <3> QED
      BY <1>1, <2>6, <3>2 DEF DoLapse, Goal
  <2> QED
    BY <1>7, <2>1, <2>3, <2>4, <2>5, <2>6 DEF AdminStep, Goal
<1>8. CASE Report
  <2>1. PICK now \in Nows : bd' = accrue(bd, now)
    BY <1>8 DEF Report
  <2>2. Typed(bd') /\ SameRecords(bd, bd') /\ Capped(bd, bd')
    BY <1>1, <1>2, <2>1, AccrueFrame, AccrueCaps DEF Books
  <2> QED
    BY <1>1, <1>8, <2>2, KeptQuiet DEF Report, Goal
<1>9. CASE Tick
  BY <1>1, <1>9, KeptSelf DEF Tick, Goal
<1>10. CASE UNCHANGED vars
  BY <1>1, <1>10, KeptSelf DEF vars, Goal
<1> QED
  BY <1>5, <1>6, <1>7, <1>8, <1>9, <1>10 DEF Next, Goal

(* So the invariant is inductive.                                          *)
LEMMA NextIInv == IInv /\ [Next]_vars => IInv'
  BY NextKept DEF Kept, IInv

(* The inductive invariant holds throughout (budget.go and array.go, every *)
(* method that moves money).                                               *)
THEOREM BooksBalance == Spec => []IInv
  BY InitIInv, NextIInv, PTL DEF Spec

(* Every reachable budget is well typed.                                   *)
THEOREM TypeCorrect == Spec => []TypeOK
<1>1. IInv => TypeOK
  BY DEF IInv, Books, TypeOK
<1> QED
  BY <1>1, BooksBalance, PTL

(* Conservation, the equality ConservationOK computes: no method creates   *)
(* or loses a unit, whether it succeeds, is refused or cannot be logged.   *)
THEOREM Conservation == Spec => []ConservationOK
<1>1. IInv => ConservationOK
  BY DEF IInv, Books, ConservationOK
<1> QED
  BY <1>1, BooksBalance, PTL

(* The running ReservedTotal the rate check reads is the sum of what the   *)
(* live escrows and arrays hold.                                           *)
THEOREM ReservedExact == Spec => []ReservedIsHeld
<1>1. IInv => ReservedIsHeld
  BY DEF IInv, Books, ReservedIsHeld
<1> QED
  BY <1>1, BooksBalance, PTL

(* No interleaving of gates, settles, reprices and withdrawals overdraws   *)
(* the balance or drives any column of the books negative.                 *)
THEOREM NeverOverdrawn == Spec => []NoOverdraft
<1>1. IInv => NoOverdraft
  BY DEF IInv, Books, NoOverdraft
<1> QED
  BY <1>1, BooksBalance, PTL

(* Every escrow holds its frozen rate times its walltime, every array one  *)
(* slice for each task still open: the tail a settle refunds exists.       *)
THEOREM FundedToTheEnd == Spec => []EscrowsFunded
<1>1. IInv => EscrowsFunded
  BY DEF IInv, Books, EscrowsFunded
<1> QED
  BY <1>1, BooksBalance, PTL

(* No step fills the burst pot past its ceiling (burst.go, accrue and      *)
(* setBurstLocked; budget.go and array.go, the tail a settle returns):     *)
(* where the pot is above it, the ceiling was lowered under it.            *)
THEOREM PotCapped == Spec => CeilingCaps
<1>1. IInv /\ [Next]_vars =>
        [bd'.burstPot > bd.burstPot => bd'.burstPot <= burstCeiling(bd')]_bd
  <2> SUFFICES ASSUME IInv, [Next]_vars, bd'.burstPot > bd.burstPot
               PROVE  bd'.burstPot <= burstCeiling(bd')
    OBVIOUS
  <2>1. Kept(bd, bd') /\ Books(bd)
    BY NextKept DEF IInv
  <2>2. bd.burstPot \in Int /\ bd'.burstPot \in Int
    BY <2>1 DEF Kept, Books, Typed
  <2> QED
    BY <2>1, <2>2 DEF Kept, Step, Capped
<1> QED
  BY <1>1, BooksBalance, PTL DEF Spec, CeilingCaps

-----------------------------------------------------------------------------
(* The lock-free answers.                                                  *)

(* The pure copies of accrue and of the reservation (dispatch.go) compute  *)
(* what the locked ones do.                                                *)
LEMMA ProjectionExact ==
  ASSUME NEW b, Typed(b), b.BurstEnabled, NEW now \in Int
  PROVE  projectBurstPot(b, now) = accrue(b, now).burstPot
<1> DEFINE T == window(b)
           dt == now - b.lastTouch
           u == b.B0 - b.rLive * T
           acc == b.fracAcc + u * dt
           pot == b.burstPot + acc \div T
           ceil == burstCeiling(b)
           full == pot >= ceil
           a == [b EXCEPT !.lastTouch = now,
                          !.burstPot = IF full THEN ceil ELSE pot,
                          !.fracAcc = IF full THEN 0 ELSE acc % T]
<1>1. T \in Nat \ {0} /\ ceil \in Int /\ b.burstPot \in Int
  BY WindowType DEF Typed
<1>2. pot \in Int
  <2>1. acc \in Int
    BY <1>1 DEF Typed
  <2> QED
    BY <1>1, <2>1
<1>3. a.burstPot = IF full THEN ceil ELSE pot
  BY DEF Typed
<1>4. [b EXCEPT !.lastTouch = now].burstPot = b.burstPot
  BY DEF Typed
<1>5. accrue(b, now) = IF dt <= 0 \/ u <= 0 THEN [b EXCEPT !.lastTouch = now] ELSE a
  BY Zenon DEF accrue
<1>6. projectBurstPot(b, now) =
        IF T <= 0 \/ dt <= 0 \/ u <= 0 THEN b.burstPot
        ELSE IF pot > ceil THEN ceil ELSE pot
  BY Zenon DEF projectBurstPot
<1> HIDE DEF a, pot, ceil, T
<1>7. CASE dt <= 0 \/ u <= 0
  BY <1>4, <1>5, <1>6, <1>7
<1>8. CASE ~(dt <= 0 \/ u <= 0)
  <2>1. accrue(b, now).burstPot = IF full THEN ceil ELSE pot
    BY <1>3, <1>5, <1>8
  <2>2. projectBurstPot(b, now) = IF pot > ceil THEN ceil ELSE pot
    BY <1>1, <1>6, <1>8
  <2> QED
    BY <1>1, <1>2, <2>1, <2>2
<1> QED
  BY <1>7, <1>8

(* Accrual leaves alone all the reservation is computed from.              *)
LEMMA AccruePace ==
  ASSUME NEW b, Typed(b), NEW now \in Int
  PROVE  LET a == accrue(b, now)
         IN  /\ a.B0 = b.B0 /\ a.rLive = b.rLive /\ a.TS = b.TS /\ a.TE = b.TE
             /\ a.BurstEnabled = b.BurstEnabled /\ a.BurstDrawCap = b.BurstDrawCap
  BY DEF accrue, Typed

(* The pure copy of the burst gate decides as the gate itself does.        *)
LEMMA VerdictExact ==
  ASSUME NEW b, Typed(b), NEW c \in Int, NEW w \in Int, NEW now \in Int
  PROVE  LET a == accrue(b, now)
         IN  burstDispatchVerdict(b, c, w, now) <=> BurstGate(a, BurstResvFor(a, c, w))
<1> DEFINE a == accrue(b, now)
           resv == burstReserve(b, c, w)
<1>1. /\ a.B0 = b.B0 /\ a.rLive = b.rLive /\ a.TS = b.TS /\ a.TE = b.TE
      /\ a.BurstEnabled = b.BurstEnabled /\ a.BurstDrawCap = b.BurstDrawCap
  BY AccruePace
<1>2. window(b) \in Nat \ {0} /\ r0Floor(b) \in Int /\ b.rLive \in Int
  BY WindowType DEF Typed
<1>3. burstReserveForRate(a, c, w) = resv
  <2>1. r0Floor(a) = b.B0 \div window(b) /\ a.rLive = b.rLive
    BY <1>1 DEF r0Floor, window
  <2>2. ~(window(b) <= 0)
    BY <1>2
  <2> HIDE DEF a
  <2> QED
    BY <2>1, <2>2, Zenon DEF burstReserve, burstReserveForRate
<1>4. resv \in Int
  <2> DEFINE r0f == b.B0 \div window(b)
             base == IF b.rLive < r0f THEN r0f ELSE b.rLive
             excess == (b.rLive + c) - base
  <2>1. excess \in Int
    BY <1>2 DEF r0Floor
  <2> HIDE DEF excess
  <2>2. (IF excess < 0 THEN 0 ELSE excess) * w \in Int
    BY <2>1
  <2>3. resv = IF window(b) <= 0 THEN 0 ELSE (IF excess < 0 THEN 0 ELSE excess) * w
    BY Zenon DEF burstReserve, excess
  <2> QED
    BY <1>2, <2>2, <2>3
<1>5. CASE ~b.BurstEnabled
  BY <1>1, <1>5 DEF burstDispatchVerdict, BurstGate, BurstResvFor
<1>6. CASE b.BurstEnabled
  <2>1. projectBurstPot(b, now) = a.burstPot
    BY <1>6, ProjectionExact
  <2>2. BurstResvFor(a, c, w) = resv
    BY <1>1, <1>3, <1>6 DEF BurstResvFor
  <2> HIDE DEF a, resv
  <2> QED
    BY <1>1, <1>4, <1>6, <2>1, <2>2 DEF burstDispatchVerdict, BurstGate, a, resv
<1> QED
  BY <1>5, <1>6 DEF Typed

(* A gated job waits, and everything the verdict reads is as it was.       *)
LEMMA SubmitVerdict ==
  ASSUME NEW b, Books(b), NEW j \in JobIDs \ DOMAIN b.escrows, NEW c \in Int,
         NEW w \in Nat, NEW now \in Int
  PROVE  LET rate == RateOrFlat(b, c)
             s == SubmitAt(b, j, c, w, now, TRUE)
         IN  /\ s.ok <=> Solvent(b, rate * w, now)
             /\ s.ok => (Start(s.bd, j, now, TRUE).ok <=>
                           burstDispatchVerdict(b, rate, w, now))
<1> DEFINE rate == RateOrFlat(b, c)
           cost == rate * w
           e == [C |-> rate, Reserved |-> cost, W |-> w, Started |-> FALSE,
                 BurstResv |-> 0, Submitted |-> now]
           b2 == [b EXCEPT !.B = @ - cost, !.ReservedTotal = @ + cost,
                           !.escrows = Put(@, j, e)]
           s == SubmitAt(b, j, c, w, now, TRUE)
           cmd == [kind |-> "submit", id |-> j, c |-> rate, w |-> w, now |-> now]
<1>1. rate \in Nat \ {0} /\ Typed(b)
  BY DEF RateOrFlat, Books, Typed
<1>2. s = IF Solvent(b, cost, now) THEN [ok |-> TRUE, bd |-> b2, log |-> <<cmd>>]
          ELSE [ok |-> FALSE, bd |-> b, log |-> <<>>]
  BY Zenon DEF SubmitAt, logCmd, Rejected
<1> HIDE DEF b2, cmd, cost, s
<1>3. s.ok <=> Solvent(b, cost, now)
  BY <1>2 DEF Solvent
<1>4. ASSUME s.ok
      PROVE  Start(s.bd, j, now, TRUE).ok <=> burstDispatchVerdict(b, rate, w, now)
  <2>1. s.bd = b2
    BY <1>2, <1>3, <1>4
  <2>2. Typed(b2)
    <3>1. Kept(b, s.bd)
      BY SubmitBooks DEF s
    <3> QED
      BY <2>1, <3>1 DEF Kept, Books
  <2>3. /\ b2.escrows = Put(b.escrows, j, e) /\ b2.BurstEnabled = b.BurstEnabled
        /\ b2.B0 = b.B0 /\ b2.TS = b.TS /\ b2.TE = b.TE /\ b2.rLive = b.rLive
        /\ b2.burstPot = b.burstPot /\ b2.fracAcc = b.fracAcc
        /\ b2.lastTouch = b.lastTouch /\ b2.BurstDrawCap = b.BurstDrawCap
        /\ b2.BurstCeilingPct = b.BurstCeilingPct
    BY <1>1 DEF Typed, b2
  <2>4. j \in DOMAIN b2.escrows /\ b2.escrows[j] = e
    BY <2>3 DEF Put
  <2>5. e.C = rate /\ e.W = w /\ ~e.Started
    OBVIOUS
  <2> DEFINE a == accrue(b2, now)
             resv == BurstResvFor(a, rate, w)
  <2>6. burstDispatchVerdict(b2, rate, w, now) <=> BurstGate(a, resv)
    BY <1>1, <2>2, VerdictExact
  <2>7. burstDispatchVerdict(b2, rate, w, now) = burstDispatchVerdict(b, rate, w, now)
    <3>1. window(b2) = window(b) /\ burstCeiling(b2) = burstCeiling(b)
      BY <2>3 DEF window, burstCeiling
    <3>2. projectBurstPot(b2, now) = projectBurstPot(b, now)
      BY <2>3, <3>1 DEF projectBurstPot
    <3>3. burstReserve(b2, rate, w) = burstReserve(b, rate, w)
      BY <2>3, <3>1 DEF burstReserve
    <3> HIDE DEF rate
    <3> QED
      BY <2>3, <3>2, <3>3 DEF burstDispatchVerdict
  <2> HIDE DEF e, a, rate, resv
  <2>8. Start(b2, j, now, TRUE).ok <=> BurstGate(a, resv)
    <3>1. BurstResvFor(accrue(b2, now), b2.escrows[j].C, b2.escrows[j].W) = resv
      BY <2>4, <2>5 DEF a, resv
    <3>2. CASE BurstGate(a, resv)
      BY <2>4, <2>5, <3>1, <3>2 DEF Start, logCmd, a
    <3>3. CASE ~BurstGate(a, resv)
      <4>1. Start(b2, j, now, TRUE) = [ok |-> FALSE, bd |-> a, log |-> <<>>]
        BY <2>4, <2>5, <3>1, <3>3, Zenon DEF Start, Rejected, a
      <4> DEFINE refused == [ok |-> FALSE, bd |-> a, log |-> <<>>]
      <4>2. refused.ok = FALSE
        OBVIOUS
      <4> HIDE DEF refused
      <4>3. Start(b2, j, now, TRUE).ok = FALSE
        BY <4>1, <4>2, Zenon DEF refused
      <4> QED
        BY <3>3, <4>3, Zenon
    <3> QED
      BY <3>2, <3>3
  <2>9. BurstGate(a, resv) \in BOOLEAN /\ burstDispatchVerdict(b2, rate, w, now) \in BOOLEAN
    BY DEF BurstGate, burstDispatchVerdict
  <2> QED
    BY <2>1, <2>6, <2>7, <2>8, <2>9
<1> QED
  BY <1>3, <1>4 DEF s, cost

(* The dry run is honest for every budget that can be reached: Simulate    *)
(* admits exactly when a submit and then a dispatch at the same moment     *)
(* would both be accepted (simulate.go; budget.go, SubmitAt and Start).    *)
THEOREM SimulateHonest == Spec => []SimulateAgrees
<1>1. IInv => SimulateAgrees
  <2> SUFFICES ASSUME IInv, NEW j \in JobIDs \ DOMAIN bd.escrows,
                      NEW c \in Rates, NEW w \in Walltimes
               PROVE  LET s == SubmitAt(bd, j, c, w, clock, TRUE)
                      IN  Simulate(bd, c, w, clock) <=>
                            s.ok /\ Start(s.bd, j, clock, TRUE).ok
    BY DEF SimulateAgrees
  <2>1. Books(bd) /\ clock \in Int /\ c \in Int /\ w \in Nat
    BY InputAssumption DEF IInv
  <2> DEFINE rate == RateOrFlat(bd, c)
             s == SubmitAt(bd, j, c, w, clock, TRUE)
             dispatched == Start(s.bd, j, clock, TRUE).ok
             verdict == burstDispatchVerdict(bd, rate, w, clock)
  <2>2. /\ s.ok <=> Solvent(bd, rate * w, clock)
        /\ s.ok => (dispatched <=> verdict)
    BY <2>1, SubmitVerdict
  <2>3. Simulate(bd, c, w, clock) <=> Solvent(bd, rate * w, clock) /\ verdict
    BY DEF Simulate
  <2> HIDE DEF s, rate, dispatched, verdict
  <2>4. Simulate(bd, c, w, clock) <=> s.ok /\ dispatched
    BY <2>2, <2>3, Zenon
  <2> QED
    BY <2>4 DEF s, dispatched
<1> QED
  BY <1>1, BooksBalance, PTL

(* Division by a positive window: quotient and remainder are determined,   *)
(* so accruing twice banks what accruing once does.                        *)
LEMMA DivMod ==
  ASSUME NEW x \in Int, NEW T \in Nat \ {0}
  PROVE  /\ x = T * (x \div T) + (x % T)
         /\ x % T \in 0 .. (T - 1) /\ x \div T \in Int
  OBVIOUS

(* Floor division by T of T * q + r, r a remainder.                        *)
LEMMA DivUnique ==
  ASSUME NEW T \in Nat \ {0}, NEW q \in Int, NEW r \in 0 .. (T - 1)
  PROVE  (T * q + r) \div T = q
<1> DEFINE x == T * q + r
           p == x \div T
           s == x % T
<1>1. x = T * p + s /\ s \in 0 .. (T - 1) /\ p \in Int
  BY DivMod
<1> HIDE DEF p, s
<1>2. T * (p - q) = r - s
  BY <1>1
<1>3. CASE p - q >= 1
  <2>1. T * (p - q) = T + T * (p - q - 1) /\ T * (p - q - 1) >= 0
    BY <1>1, <1>3
  <2> QED
    BY <1>1, <1>2, <2>1
<1>4. CASE p - q <= -1
  <2>1. T * (p - q) = 0 - T - T * (q - p - 1) /\ T * (q - p - 1) >= 0
    BY <1>1, <1>4
  <2> QED
    BY <1>1, <1>2, <2>1
<1> QED
  BY <1>1, <1>3, <1>4 DEF p

(* Dividing in two instalments, the remainder carried, loses nothing.      *)
LEMMA DivSplit ==
  ASSUME NEW T \in Nat \ {0}, NEW x \in Int, NEW y \in Int
  PROVE  (x + y) \div T = (x \div T) + ((x % T) + y) \div T
<1> DEFINE p == x \div T
           s == x % T
           q == (s + y) \div T
           r == (s + y) % T
<1>1. x = T * p + s /\ s \in 0 .. (T - 1) /\ p \in Int
  BY DivMod
<1>2. s + y = T * q + r /\ r \in 0 .. (T - 1) /\ q \in Int
  <2>1. s + y \in Int
    BY <1>1
  <2> QED
    BY <2>1, DivMod
<1> HIDE DEF p, s, q, r
<1>3. x + y = T * (p + q) + r
  <2>1. T * (p + q) = T * p + T * q
    BY <1>1, <1>2
  <2> QED
    BY <1>1, <1>2, <2>1
<1>4. (T * (p + q) + r) \div T = p + q
  BY <1>1, <1>2, DivUnique
<1> QED
  BY <1>3, <1>4 DEF p, q, s

(* Floor division of a natural is a natural.                               *)
LEMMA DivNat ==
  ASSUME NEW T \in Nat \ {0}, NEW x \in Nat
  PROVE  x \div T \in Nat
  BY DivMod

(* Accruing on the way changes no later projection.                        *)
LEMMA AccrueTwice ==
  ASSUME NEW b, Typed(b), NEW n \in Int, b.lastTouch <= n, NEW t \in Int, n <= t
  PROVE  projectBurstPot(accrue(b, n), t) = projectBurstPot(b, t)
<1> DEFINE T == window(b)
           u == b.B0 - b.rLive * T
           acc == b.fracAcc + u * (n - b.lastTouch)
           pot == b.burstPot + acc \div T
           ceil == burstCeiling(b)
           full == pot >= ceil
           a == accrue(b, n)
           late == b.burstPot + (b.fracAcc + u * (t - b.lastTouch)) \div T
<1>1. /\ T \in Nat \ {0} /\ ceil \in Int /\ b.burstPot \in Int
      /\ b.fracAcc \in Int /\ u \in Int /\ b.lastTouch \in Int
  BY WindowType DEF Typed
<1>2. /\ a.B0 = b.B0 /\ a.rLive = b.rLive /\ a.TS = b.TS /\ a.TE = b.TE
      /\ SameCeiling(b, a)
  BY AccruePace, AccrueCaps
<1>3. window(a) = T /\ burstCeiling(a) = ceil
  BY <1>2 DEF window, burstCeiling, SameCeiling
<1>4. \/ a.lastTouch = b.lastTouch /\ a.burstPot = b.burstPot /\ a.fracAcc = b.fracAcc
      \/ u <= 0 /\ a.burstPot = b.burstPot
      \/ /\ u > 0 /\ n > b.lastTouch /\ a.lastTouch = n
         /\ a.burstPot = IF full THEN ceil ELSE pot
         /\ a.fracAcc = IF full THEN 0 ELSE acc % T
  <2>1. CASE ~b.BurstEnabled
    BY <2>1 DEF accrue
  <2>2. CASE b.BurstEnabled /\ (n - b.lastTouch <= 0 \/ u <= 0)
    <3>1. a = [b EXCEPT !.lastTouch = n]
      BY <2>2, Zenon DEF accrue
    <3>2. a.lastTouch = n /\ a.burstPot = b.burstPot /\ a.fracAcc = b.fracAcc
      BY <3>1 DEF Typed
    <3> QED
      BY <1>1, <2>2, <3>2
  <2>3. CASE b.BurstEnabled /\ ~(n - b.lastTouch <= 0 \/ u <= 0)
    <3>1. a = [b EXCEPT !.lastTouch = n,
                        !.burstPot = IF full THEN ceil ELSE pot,
                        !.fracAcc = IF full THEN 0 ELSE acc % T]
      BY <2>3, Zenon DEF accrue
    <3>2. /\ a.lastTouch = n
          /\ a.burstPot = IF full THEN ceil ELSE pot
          /\ a.fracAcc = IF full THEN 0 ELSE acc % T
      BY <3>1 DEF Typed
    <3>3. u > 0 /\ n > b.lastTouch
      BY <1>1, <2>3
    <3> QED
      BY <3>2, <3>3
  <2> QED
    BY <2>1, <2>2, <2>3
<1>5. \A p : projectBurstPot(p, t) =
        IF \/ window(p) <= 0 \/ t - p.lastTouch <= 0
           \/ p.B0 - p.rLive * window(p) <= 0 THEN p.burstPot
        ELSE IF p.burstPot + (p.fracAcc + (p.B0 - p.rLive * window(p))
                                * (t - p.lastTouch)) \div window(p) > burstCeiling(p)
        THEN burstCeiling(p)
        ELSE p.burstPot + (p.fracAcc + (p.B0 - p.rLive * window(p))
                                * (t - p.lastTouch)) \div window(p)
  BY Zenon DEF projectBurstPot
<1>6. projectBurstPot(b, t) =
        IF t - b.lastTouch <= 0 \/ u <= 0 THEN b.burstPot
        ELSE IF late > ceil THEN ceil ELSE late
  BY <1>1, <1>5
<1>7. projectBurstPot(a, t) =
        IF t - a.lastTouch <= 0 \/ u <= 0 THEN a.burstPot
        ELSE IF a.burstPot + (a.fracAcc + u * (t - a.lastTouch)) \div T > ceil
        THEN ceil
        ELSE a.burstPot + (a.fracAcc + u * (t - a.lastTouch)) \div T
  BY <1>1, <1>2, <1>3, <1>5
<1> HIDE DEF a, ceil, T, u
<1>8. CASE a.lastTouch = b.lastTouch /\ a.burstPot = b.burstPot /\ a.fracAcc = b.fracAcc
  BY <1>6, <1>7, <1>8 DEF a, late
<1>9. CASE u <= 0 /\ a.burstPot = b.burstPot
  BY <1>6, <1>7, <1>9 DEF a
<1>10. CASE /\ u > 0 /\ n > b.lastTouch /\ a.lastTouch = n
            /\ a.burstPot = IF full THEN ceil ELSE pot
            /\ a.fracAcc = IF full THEN 0 ELSE acc % T
  <2> DEFINE y == u * (t - n)
  <2>1. acc \in Int /\ y \in Nat /\ y \in Int
    BY <1>1, <1>10
  <2>2. b.fracAcc + u * (t - b.lastTouch) = acc + y
    <3>1. u * (t - b.lastTouch) = u * (n - b.lastTouch) + u * (t - n)
      BY <1>1
    <3> QED
      BY <1>1, <3>1
  <2> HIDE DEF acc, y
  <2>3. late = pot + ((acc % T) + y) \div T /\ acc \div T \in Int
    <3>1. (acc + y) \div T = (acc \div T) + ((acc % T) + y) \div T
      BY <1>1, <2>1, DivSplit, Zenon
    <3>2. acc \div T \in Int /\ ((acc % T) + y) \div T \in Nat
      <4>1. acc \div T \in Int /\ acc % T \in 0 .. (T - 1)
        BY <1>1, <2>1, DivMod
      <4>2. (acc % T) + y \in Nat
        BY <1>1, <2>1, <4>1
      <4> QED
        BY <1>1, <4>1, <4>2, DivNat
    <3> QED
      BY <1>1, <2>2, <3>1, <3>2
  <2>4. ((acc % T) + y) \div T \in Nat /\ y \div T \in Nat
    <3>1. acc % T \in 0 .. (T - 1)
      BY <1>1, <2>1, DivMod
    <3>2. (acc % T) + y \in Nat
      BY <1>1, <2>1, <3>1
    <3> QED
      BY <1>1, <2>1, <3>2, DivNat
  <2>5. pot \in Int
    BY <1>1, <2>3
  <2> HIDE DEF late, pot
  <2>6. CASE t = n
    <3>1. projectBurstPot(a, t) = a.burstPot
      BY <1>7, <1>10, <2>6
    <3>2. y = 0 /\ ((acc % T) + y) \div T = 0
      <4>1. y = 0
        BY <1>1, <2>6 DEF y
      <4>2. acc % T \in 0 .. (T - 1)
        BY <1>1, <2>1, DivMod
      <4>3. (T * 0 + (acc % T)) \div T = 0
        BY <1>1, <4>2, DivUnique
      <4> QED
        BY <1>1, <4>1, <4>2, <4>3
    <3>3. late = pot
      BY <2>3, <2>5, <3>2
    <3> QED
      BY <1>1, <1>6, <1>10, <2>5, <2>6, <3>1, <3>3 DEF a
  <2>7. CASE t > n /\ full
    <3>1. a.fracAcc + u * (t - a.lastTouch) = y
      BY <1>10, <2>1, <2>7 DEF y
    <3>2. projectBurstPot(a, t) =
            IF ceil + y \div T > ceil THEN ceil ELSE ceil + y \div T
      BY <1>1, <1>7, <1>10, <2>7, <3>1
    <3>3. projectBurstPot(b, t) = IF late > ceil THEN ceil ELSE late
      BY <1>1, <1>6, <1>10, <2>7
    <3>4. late >= ceil
      BY <1>1, <2>3, <2>4, <2>5, <2>7
    <3> QED
      BY <1>1, <2>3, <2>4, <2>5, <3>2, <3>3, <3>4 DEF a
  <2>8. CASE t > n /\ ~full
    <3>1. a.burstPot + (a.fracAcc + u * (t - a.lastTouch)) \div T = late
      BY <1>10, <2>3, <2>8 DEF y
    <3> QED
      BY <1>1, <1>6, <1>7, <1>10, <2>8, <3>1 DEF a
  <2> QED
    BY <2>6, <2>7, <2>8
<1> QED
  BY <1>4, <1>8, <1>9, <1>10 DEF a

(* A method leaves the time of accrual, or sets it to its own clock.       *)
Touches(b, b2, now) ==
  /\ "lastTouch" \in DOMAIN b2
  /\ b2.lastTouch = b.lastTouch \/ b2.lastTouch = now

(* The bucket's operators leave lastTouch, or move it to now.              *)
LEMMA BucketTouches ==
  ASSUME NEW b, "lastTouch" \in DOMAIN b, NEW now
  PROVE  /\ Touches(b, accrue(b, now), now)
         /\ \A c : /\ "lastTouch" \in DOMAIN Burning(b, c)
                   /\ Burning(b, c).lastTouch = b.lastTouch
         /\ \A held, used, off : /\ "lastTouch" \in DOMAIN Bill(b, held, used, off)
                                 /\ Bill(b, held, used, off).lastTouch = b.lastTouch
         /\ \A c, w, st, resv, rt :
              LET b2 == StopBurning(b, c, w, st, resv, rt)
              IN  "lastTouch" \in DOMAIN b2 /\ b2.lastTouch = b.lastTouch
<1>1. Touches(b, accrue(b, now), now)
  BY DEF accrue, Touches
<1>2. \A c : /\ "lastTouch" \in DOMAIN Burning(b, c)
             /\ Burning(b, c).lastTouch = b.lastTouch
  BY DEF Burning
<1>3. \A held, used, off : /\ "lastTouch" \in DOMAIN Bill(b, held, used, off)
                           /\ Bill(b, held, used, off).lastTouch = b.lastTouch
  BY DEF Bill
<1>4. \A c, w, st, resv, rt :
        LET b2 == StopBurning(b, c, w, st, resv, rt)
        IN  "lastTouch" \in DOMAIN b2 /\ b2.lastTouch = b.lastTouch
  BY DEF StopBurning
<1> QED
  BY <1>1, <1>2, <1>3, <1>4

(* A gate or a repricing leaves lastTouch, or moves it to now.             *)
LEMMA GateTouches ==
  ASSUME NEW b, "lastTouch" \in DOMAIN b, NEW now, NEW wal, NEW j, NEW c, NEW w, NEW n
  PROVE  /\ Touches(b, SubmitAt(b, j, c, w, now, wal).bd, now)
         /\ Touches(b, SubmitArrayAt(b, j, c, n, w, now, wal).bd, now)
         /\ Touches(b, Reprice(b, j, c, now, wal).bd, now)
<1>1. Touches(b, SubmitAt(b, j, c, w, now, wal).bd, now)
  BY DEF SubmitAt, logCmd, Rejected, Touches
<1>2. Touches(b, SubmitArrayAt(b, j, c, n, w, now, wal).bd, now)
  BY DEF SubmitArrayAt, logCmd, Rejected, Touches
<1>3. Touches(b, Reprice(b, j, c, now, wal).bd, now)
  BY DEF Reprice, logCmd, Rejected, Touches
<1> QED
  BY <1>1, <1>2, <1>3

(* An administrative verb leaves lastTouch, or moves it to now.            *)
LEMMA AdminTouches ==
  ASSUME NEW b, "lastTouch" \in DOMAIN b, NEW now, NEW wal, NEW x, NEW y, NEW z
  PROVE  /\ Touches(b, TopUpXfer(b, x, y, now, wal).bd, now)
         /\ Touches(b, WithdrawXfer(b, x, y, now, wal).bd, now)
         /\ Touches(b, SetRate(b, x, now, wal).bd, now)
         /\ Touches(b, SetWindow(b, x, y, now, wal).bd, now)
         /\ Touches(b, SetBurst(b, x, y, z, now, wal).bd, now)
<1>1. /\ Touches(b, TopUpXfer(b, x, y, now, wal).bd, now)
      /\ Touches(b, WithdrawXfer(b, x, y, now, wal).bd, now)
  BY DEF TopUpXfer, WithdrawXfer, logCmd, Rejected, Touches
<1>2. /\ Touches(b, SetRate(b, x, now, wal).bd, now)
      /\ Touches(b, SetWindow(b, x, y, now, wal).bd, now)
  BY DEF SetRate, SetWindow, logCmd, Rejected, Touches
<1>3. Touches(b, SetBurst(b, x, y, z, now, wal).bd, now)
  <2> DEFINE from == IF b.BurstEnabled THEN accrue(b, now)
                     ELSE [b EXCEPT !.BurstEnabled = TRUE, !.lastTouch = now]
             on == [from EXCEPT !.BurstCeilingPct = y, !.BurstDrawCap = z]
             off == [b EXCEPT !.BurstEnabled = FALSE, !.BurstCeilingPct = 0,
                              !.BurstDrawCap = 0, !.burstPot = 0, !.rLive = 0,
                              !.fracAcc = 0]
             trim == [on EXCEPT !.burstPot = burstCeiling(on), !.fracAcc = 0]
  <2>1. Touches(b, from, now)
    BY BucketTouches DEF Touches
  <2>2. SetBurst(b, x, y, z, now, wal).bd \in {b, off, on, trim}
    BY DEF SetBurst, logCmd, Rejected
  <2>3. Touches(b, b, now) /\ Touches(b, off, now)
    BY DEF Touches
  <2> HIDE DEF from, off
  <2>4. Touches(b, on, now) /\ Touches(b, trim, now)
    BY <2>1 DEF Touches
  <2> HIDE DEF on, trim
  <2> QED
    BY <2>2, <2>3, <2>4
<1> QED
  BY <1>1, <1>2, <1>3

(* A dispatch leaves lastTouch, or moves it to now.                        *)
LEMMA StartTouches ==
  ASSUME NEW b, "lastTouch" \in DOMAIN b, NEW now, NEW wal, NEW j, NEW i
  PROVE  /\ Touches(b, Start(b, j, now, wal).bd, now)
         /\ Touches(b, StartTask(b, j, i, now, wal).bd, now)
<1> DEFINE a == accrue(b, now)
<1>1. Touches(b, a, now) /\ Touches(b, b, now)
  BY BucketTouches DEF Touches
<1>2. "lastTouch" \in DOMAIN a
  BY <1>1 DEF Touches
<1> HIDE DEF a
<1>3. \A c : Touches(b, Burning(a, c), now)
  BY <1>1, <1>2, BucketTouches DEF Touches
<1>4. ASSUME NEW b1, Touches(b, b1, now), NEW p, NEW q
      PROVE  /\ Touches(b, [b1 EXCEPT !.burstPot = p, !.escrows = q], now)
             /\ Touches(b, [b1 EXCEPT !.burstPot = p, !.arrays = q], now)
  BY <1>4 DEF Touches
<1>5. Touches(b, Start(b, j, now, wal).bd, now)
  BY <1>1, <1>3, SMTT(30) DEF Start, logCmd, Rejected, a, Touches
<1>6. Touches(b, StartTask(b, j, i, now, wal).bd, now)
  BY <1>1, <1>3 DEF StartTask, logCmd, Rejected, a, Touches
<1> QED
  BY <1>5, <1>6

(* A settlement leaves lastTouch, or moves it to now.                      *)
LEMMA SettleTouches ==
  ASSUME NEW b, "lastTouch" \in DOMAIN b, NEW now, NEW wal, NEW j, NEW i,
         NEW rt, NEW off, NEW cmd
  PROVE  /\ Touches(b, Settled(b, j, rt, off, now, cmd, wal).bd, now)
         /\ Touches(b, SettledTask(b, j, i, rt, off, now, cmd, wal).bd, now)
<1> DEFINE a == accrue(b, now)
<1>1. Touches(b, a, now) /\ Touches(b, b, now)
  BY BucketTouches DEF Touches
<1>2. "lastTouch" \in DOMAIN a
  BY <1>1 DEF Touches
<1> HIDE DEF a
<1>3. \A held, used : Touches(b, Bill(a, held, used, off), now)
  BY <1>1, <1>2, BucketTouches DEF Touches
<1>4. \A held, used, c, w, st, resv, r :
        Touches(b, StopBurning(Bill(a, held, used, off), c, w, st, resv, r), now)
  BY <1>3, BucketTouches DEF Touches
<1>5. Touches(b, settle(b, j, rt, off, now), now)
  BY <1>4 DEF settle, Touches, a
<1>6. Touches(b, settleTask(b, j, i, rt, off, now), now)
  BY <1>4 DEF settleTask, Touches, a
<1> QED
  BY <1>1, <1>5, <1>6 DEF Settled, SettledTask, logCmd, Rejected

(* What the verdict reads besides the pot.                                 *)
SamePace(p, b) ==
  /\ p.rLive = b.rLive /\ p.B0 = b.B0 /\ p.TS = b.TS /\ p.TE = b.TE
  /\ p.BurstEnabled = b.BurstEnabled /\ p.BurstCeilingPct = b.BurstCeilingPct
  /\ p.BurstDrawCap = b.BurstDrawCap

(* The published view may be older than the budget, which a report has     *)
(* accrued since, but every projection from now on is the same.            *)
Fresh ==
  /\ bd.lastTouch <= clock
  /\ SamePace(view, bd)
  /\ \A t \in Int : t >= clock => projectBurstPot(view, t) = projectBurstPot(bd, t)

(* A view just published projects as the budget does.                      *)
LEMMA PublishFresh ==
  ASSUME NEW b, Typed(b)
  PROVE  /\ SamePace(publishLocked(b), b)
         /\ \A t : projectBurstPot(publishLocked(b), t) = projectBurstPot(b, t)
<1> DEFINE p == publishLocked(b)
<1>1. /\ SamePace(p, b) /\ p.burstPot = b.burstPot /\ p.fracAcc = b.fracAcc
      /\ p.lastTouch = b.lastTouch
  BY DEF publishLocked, SamePace
<1> HIDE DEF p
<1>2. window(p) = window(b) /\ burstCeiling(p) = burstCeiling(b)
  BY <1>1 DEF SamePace, window, burstCeiling
<1>3. \A t : projectBurstPot(p, t) = projectBurstPot(b, t)
  BY <1>1, <1>2 DEF projectBurstPot, SamePace
<1> QED
  BY <1>1, <1>3 DEF p

(* Equal pace and equal projections give equal verdicts.                   *)
LEMMA SameVerdict ==
  ASSUME NEW p, NEW b, SamePace(p, b), NEW now, NEW c, NEW w,
         projectBurstPot(p, now) = projectBurstPot(b, now)
  PROVE  burstDispatchVerdict(p, c, w, now) <=> burstDispatchVerdict(b, c, w, now)
<1>1. window(p) = window(b)
  BY DEF SamePace, window
<1>2. burstReserve(p, c, w) = burstReserve(b, c, w)
  BY <1>1 DEF burstReserve, SamePace
<1> QED
  BY <1>2 DEF burstDispatchVerdict, SamePace

(* What a step does to the view and to the time of accrual.                *)
LEMMA NextTouches ==
  ASSUME Skew = 0, IInv, Next
  PROVE  \/ view' = publishLocked(bd') /\ clock' = clock /\ Touches(bd, bd', clock)
         \/ bd' = bd /\ view' = view /\ clock' = clock
         \/ DoLapse \/ Report \/ Tick
<1> DEFINE Goal == \/ /\ view' = publishLocked(bd') /\ clock' = clock
                      /\ Touches(bd, bd', clock)
                   \/ bd' = bd /\ view' = view /\ clock' = clock
                   \/ DoLapse \/ Report \/ Tick
<1>1. Typed(bd) /\ clock \in Int
  BY DEF IInv, Books
<1>2. \A now \in Nows : now = clock
  BY <1>1 DEF Nows
<1>3. "lastTouch" \in DOMAIN bd
  BY <1>1 DEF Typed
<1>4. ASSUME NEW r, Publish(r), Touches(bd, r.bd, clock)
      PROVE  Goal
  BY <1>4 DEF Publish
<1>5. ASSUME NEW r, PublishIfOK(r), Touches(bd, r.bd, clock), r.ok \/ r.bd = bd
      PROVE  Goal
  BY <1>5 DEF PublishIfOK
<1>6. ASSUME NEW j, NEW rt, NEW off, NEW cmd, NEW wal
      PROVE  LET r == Settled(bd, j, rt, off, clock, cmd, wal)
             IN  Touches(bd, r.bd, clock) /\ (r.ok \/ r.bd = bd)
  <2>1. Touches(bd, Settled(bd, j, rt, off, clock, cmd, wal).bd, clock)
    BY <1>3, SettleTouches
  <2> QED
    BY <2>1 DEF Settled, logCmd, Rejected
<1>7. ASSUME NEW k, NEW i, NEW rt, NEW off, NEW cmd, NEW wal
      PROVE  LET r == SettledTask(bd, k, i, rt, off, clock, cmd, wal)
             IN  Touches(bd, r.bd, clock) /\ (r.ok \/ r.bd = bd)
  <2>1. Touches(bd, SettledTask(bd, k, i, rt, off, clock, cmd, wal).bd, clock)
    BY <1>3, SettleTouches
  <2> QED
    BY <2>1 DEF SettledTask, Rejected
<1>8. Touches(bd, Rejected(bd).bd, clock) /\ Rejected(bd).bd = bd
  BY <1>3 DEF Rejected, Touches
<1> HIDE DEF Goal
<1>9. ASSUME NEW j \in JobIDs, JobStep(j)  PROVE Goal
  <2>1. CASE \E c \in Rates, w \in Walltimes : DoSubmit(j, c, w)
    BY <1>2, <1>3, <1>4, <2>1, GateTouches DEF DoSubmit
  <2>2. CASE DoStart(j)
    BY <1>2, <1>3, <1>4, <2>2, StartTouches DEF DoStart
  <2>3. CASE DoTimeout(j)
    <3>1. PICK wal \in WalOutcomes : PublishIfOK(Timeout(bd, j, clock, wal))
      BY <1>2, <2>3 DEF DoTimeout
    <3> DEFINE rt == bd.escrows[j].W
               cmd == [kind |-> "timeout", id |-> j, now |-> clock]
               r == Settled(bd, j, rt, FALSE, clock, cmd, wal)
    <3>2. PublishIfOK(r)
      BY <3>1 DEF Timeout
    <3> HIDE DEF rt, cmd
    <3>3. Touches(bd, r.bd, clock) /\ (r.ok \/ r.bd = bd)
      BY <1>6
    <3> QED
      BY <1>5, <3>2, <3>3
  <2>4. CASE \E rt \in Runtimes : DoComplete(j, rt)
    BY <1>2, <1>5, <1>6, <2>4 DEF DoComplete, Complete
  <2>5. CASE \E rt \in Runtimes : DoCancel(j, rt)
    BY <1>2, <1>5, <1>6, <2>5 DEF DoCancel, Cancel
  <2>6. CASE \E rt \in Runtimes : DoInfraFail(j, rt)
    BY <1>2, <1>5, <1>6, <2>6 DEF DoInfraFail, InfraFail
  <2>7. CASE \E c \in NewRates : DoReprice(j, c)
    BY <1>2, <1>3, <1>4, <2>7, GateTouches DEF DoReprice
  <2> QED
    BY <1>9, <2>1, <2>2, <2>3, <2>4, <2>5, <2>6, <2>7 DEF JobStep
<1>10. ASSUME NEW k \in ArrayIDs, ArrayStep(k)  PROVE Goal
  <2>1. CASE \E c \in Rates, n \in TaskCounts, w \in Walltimes :
               DoSubmitArray(k, c, n, w)
    BY <1>2, <1>3, <1>4, <2>1, GateTouches DEF DoSubmitArray
  <2>2. CASE \E i \in TaskIdxs : DoStartTask(k, i)
    BY <1>2, <1>3, <1>4, <2>2, StartTouches DEF DoStartTask
  <2>3. CASE \E i \in TaskIdxs : DoTimeoutTask(k, i)
    BY <1>2, <1>5, <1>7, <1>8, <2>3 DEF DoTimeoutTask, TimeoutTask
  <2>4. CASE \E i \in TaskIdxs, rt \in Runtimes : DoCompleteTask(k, i, rt)
    BY <1>2, <1>5, <1>7, <2>4 DEF DoCompleteTask, CompleteTask
  <2>5. CASE \E i \in TaskIdxs, rt \in Runtimes : DoCancelTask(k, i, rt)
    BY <1>2, <1>5, <1>7, <1>8, <2>5 DEF DoCancelTask, CancelTask
  <2>6. CASE \E i \in TaskIdxs, rt \in Runtimes : DoInfraFailTask(k, i, rt)
    BY <1>2, <1>5, <1>7, <1>8, <2>6 DEF DoInfraFailTask, InfraFailTask
  <2> QED
    BY <1>10, <2>1, <2>2, <2>3, <2>4, <2>5, <2>6 DEF ArrayStep
<1>11. ASSUME AdminStep  PROVE Goal
  <2>1. CASE \E amt \in Amounts : DoTopUp(amt) \/ DoWithdraw(amt)
    BY <1>2, <1>3, <1>4, <2>1, AdminTouches DEF DoTopUp, DoWithdraw
  <2>2. CASE \E c \in NewRates : DoSetRate(c)
    BY <1>2, <1>3, <1>4, <2>2, AdminTouches DEF DoSetRate
  <2>3. CASE \E win \in Windows : DoSetWindow(win)
    BY <1>2, <1>3, <1>4, <2>3, AdminTouches DEF DoSetWindow
  <2>4. CASE \E b \in BurstConfigs : DoSetBurst(b)
    BY <1>2, <1>3, <1>4, <2>4, AdminTouches DEF DoSetBurst
  <2>5. CASE DoLapse
    BY <2>5 DEF Goal
  <2> QED
    BY <1>11, <2>1, <2>2, <2>3, <2>4, <2>5 DEF AdminStep
<1>12. ASSUME Report \/ Tick  PROVE Goal
  BY <1>12 DEF Goal
<1>13. Goal
  BY <1>9, <1>10, <1>11, <1>12 DEF Next
<1> QED
  BY <1>13 DEF Goal

(* An old view stays fresh until the next publication.                     *)
LEMMA NextFresh ==
  ASSUME Skew = 0, IInv, Fresh, [Next]_vars
  PROVE  Fresh'
<1>1. Typed(bd) /\ clock \in Int /\ Typed(bd') /\ clock' \in Int
  BY NextKept DEF IInv, Books, Kept
<1>2. bd.lastTouch \in Int
  BY <1>1 DEF Typed
<1>3. CASE view' = publishLocked(bd') /\ clock' = clock /\ Touches(bd, bd', clock)
  <2>1. /\ SamePace(view', bd')
        /\ \A t : projectBurstPot(view', t) = projectBurstPot(bd', t)
    BY <1>1, <1>3, PublishFresh
  <2>2. bd'.lastTouch <= clock'
    BY <1>1, <1>2, <1>3 DEF Touches, Fresh
  <2> QED
    BY <2>1, <2>2 DEF Fresh
<1>4. CASE bd' = bd /\ view' = view /\ clock' = clock
  BY <1>4 DEF Fresh
<1>5. CASE DoLapse
  <2>1. bd' = [bd EXCEPT !.status = "Lapsed"] /\ view' = view /\ clock' = clock
    BY <1>5 DEF DoLapse, Lapse
  <2>2. /\ SamePace(view, bd') /\ bd'.lastTouch = bd.lastTouch
        /\ bd'.burstPot = bd.burstPot /\ bd'.fracAcc = bd.fracAcc
        /\ SamePace(bd', bd)
    BY <1>1, <2>1 DEF Typed, SamePace, Fresh
  <2>3. window(bd') = window(bd) /\ burstCeiling(bd') = burstCeiling(bd)
    BY <2>2 DEF SamePace, window, burstCeiling
  <2>4. \A t : projectBurstPot(bd', t) = projectBurstPot(bd, t)
    BY <2>2, <2>3 DEF projectBurstPot, SamePace
  <2> QED
    BY <2>1, <2>2, <2>4 DEF Fresh
<1>6. CASE Report
  <2>1. bd' = accrue(bd, clock) /\ view' = view /\ clock' = clock
    BY <1>1, <1>6 DEF Report, Nows
  <2>2. "lastTouch" \in DOMAIN bd
    BY <1>1 DEF Typed
  <2>3. Touches(bd, bd', clock)
    BY <2>1, <2>2, BucketTouches
  <2>4. bd'.lastTouch <= clock'
    BY <1>1, <1>2, <2>1, <2>3 DEF Touches, Fresh
  <2>5. SamePace(view', bd')
    <3>1. SameCeiling(bd, bd')
      BY <1>1, <2>1, AccrueCaps
    <3>2. /\ bd'.B0 = bd.B0 /\ bd'.rLive = bd.rLive /\ bd'.TS = bd.TS /\ bd'.TE = bd.TE
          /\ bd'.BurstEnabled = bd.BurstEnabled /\ bd'.BurstDrawCap = bd.BurstDrawCap
      BY <1>1, <2>1, AccruePace
    <3> QED
      BY <2>1, <3>1, <3>2 DEF Fresh, SamePace, SameCeiling
  <2>6. ASSUME NEW t \in Int, t >= clock'
        PROVE  projectBurstPot(view', t) = projectBurstPot(bd', t)
    <3>1. projectBurstPot(accrue(bd, clock), t) = projectBurstPot(bd, t)
      BY <1>1, <2>1, <2>6, AccrueTwice DEF Fresh
    <3> QED
      BY <2>1, <2>6, <3>1 DEF Fresh
  <2> QED
    BY <2>4, <2>5, <2>6 DEF Fresh
<1>7. CASE Tick
  <2>1. bd' = bd /\ view' = view /\ clock' = clock + 1
    BY <1>7 DEF Tick
  <2> QED
    BY <1>1, <1>2, <2>1 DEF Fresh
<1>8. CASE UNCHANGED vars
  BY <1>8 DEF vars, Fresh
<1> QED
  BY <1>3, <1>4, <1>5, <1>6, <1>7, <1>8, NextTouches

(* The first view published is fresh.                                      *)
LEMMA InitFresh ==
  ASSUME Skew = 0, Init
  PROVE  Fresh
<1>1. PICK cfg \in NewConfigs : bd = NewDurableBurst(cfg) /\ clock = cfg.TS + Skew
  BY DEF Init
<1>2. cfg.TS \in Int
  BY InputAssumption DEF NewConfig
<1>3. bd.lastTouch = cfg.TS
  BY <1>1 DEF NewDurableBurst
<1>4. Typed(bd)
  BY InitIInv DEF IInv, Books
<1>5. view = publishLocked(bd)
  BY DEF Init
<1> QED
  BY <1>1, <1>2, <1>3, <1>4, <1>5, PublishFresh DEF Fresh

(* When the clocks of the callers agree, the lock-free dispatch answer,    *)
(* computed from a view that reports may have overtaken, is the answer of  *)
(* the authoritative gate (dispatch.go, readview.go).  With stale clocks   *)
(* it is not: an accrual that moves lastTouch back banks the time twice.   *)
THEOREM DispatchExact ==
  ASSUME Skew = 0
  PROVE  Spec => []DispatchAgrees
<1>1. Init => Fresh
  BY InitFresh
<1>2. IInv /\ Fresh /\ [Next]_vars => Fresh'
  BY NextFresh
<1>3. IInv /\ Fresh => DispatchAgrees
  <2> SUFFICES ASSUME IInv, Fresh, NEW c \in NewRates, NEW w \in Walltimes
               PROVE  MayDispatch(view, c, w, clock) <=> GateWouldStart(bd, c, w)
    BY DEF DispatchAgrees
  <2>1. Typed(bd) /\ clock \in Int /\ c \in Int /\ w \in Int
    BY InputAssumption DEF IInv, Books
  <2>2. SamePace(view, bd) /\ projectBurstPot(view, clock) = projectBurstPot(bd, clock)
    BY <2>1 DEF Fresh
  <2>3. burstDispatchVerdict(view, c, w, clock) <=> burstDispatchVerdict(bd, c, w, clock)
    BY <2>2, SameVerdict
  <2>4. burstDispatchVerdict(bd, c, w, clock) <=>
          BurstGate(accrue(bd, clock), BurstResvFor(accrue(bd, clock), c, w))
    BY <2>1, VerdictExact
  <2> QED
    BY <2>3, <2>4, Zenon DEF MayDispatch, GateWouldStart
<1> QED
  BY <1>1, <1>2, <1>3, BooksBalance, PTL DEF Spec

-----------------------------------------------------------------------------
(* A budget implements the ledger its owner is promised.  Every method is  *)
(* one of the moves listed in Moved; here each move is shown to be a step  *)
(* of Ledger, or none, under the refinement mapping of Budget (HoldsOf).   *)

JobHold(e) ==
  [amount |-> e.Reserved, state |-> IF e.Started THEN "running" ELSE "waiting"]

ArrayHold(ae) == [amount |-> ae.Reserved, state |-> "parts"]

(* One entry of a map written, or dropped.                                 *)
OneSet(f, g, k) ==
  /\ DOMAIN g = DOMAIN f \cup {k}
  /\ \A x \in DOMAIN f : x # k => g[x] = f[x]

HoldSet(f, g, k, hold) ==
  g = [x \in DOMAIN f \cup {k} |-> IF x = k THEN hold ELSE f[x]]

HoldDropped(f, g, k) == g = [x \in DOMAIN f \ {k} |-> f[x]]

(* The abstract holds, read one key at a time.                             *)
LEMMA HoldsDomain ==
  ASSUME NEW b
  PROVE  /\ \A j : <<"job", j>> \in DOMAIN HoldsOf(b) <=> j \in DOMAIN b.escrows
         /\ \A k : <<"array", k>> \in DOMAIN HoldsOf(b) <=> k \in DOMAIN b.arrays
         /\ \A x \in DOMAIN HoldsOf(b) :
              \/ \E j \in DOMAIN b.escrows : x = <<"job", j>>
              \/ \E k \in DOMAIN b.arrays : x = <<"array", k>>
         /\ HoldsOf(b) = [x \in DOMAIN HoldsOf(b) |-> HoldsOf(b)[x]]
  BY DEF HoldsOf

(* What the ledger holds under a job's and under an array's key.           *)
LEMMA HoldsValue ==
  ASSUME NEW b
  PROVE  /\ \A j \in DOMAIN b.escrows : HoldsOf(b)[<<"job", j>>] = JobHold(b.escrows[j])
         /\ \A k \in DOMAIN b.arrays : HoldsOf(b)[<<"array", k>>] = ArrayHold(b.arrays[k])
  BY DEF HoldsOf, JobHold, ArrayHold

(* Writing one escrow or array writes one hold.                            *)
LEMMA JobHoldSet ==
  ASSUME NEW b, NEW b2, NEW j, b2.arrays = b.arrays, OneSet(b.escrows, b2.escrows, j)
  PROVE  HoldSet(HoldsOf(b), HoldsOf(b2), <<"job", j>>, JobHold(b2.escrows[j]))
<1> DEFINE f == [x \in DOMAIN HoldsOf(b) \cup {<<"job", j>>} |->
                   IF x = <<"job", j>> THEN JobHold(b2.escrows[j])
                   ELSE HoldsOf(b)[x]]
<1>1. DOMAIN HoldsOf(b2) = DOMAIN HoldsOf(b) \cup {<<"job", j>>}
  BY DEF HoldsOf, OneSet
<1>2. ASSUME NEW x \in DOMAIN HoldsOf(b2)
      PROVE  HoldsOf(b2)[x] = f[x]
  <2>1. CASE \E i \in DOMAIN b2.escrows : x = <<"job", i>>
    <3>1. PICK i \in DOMAIN b2.escrows : x = <<"job", i>>
      BY <2>1
    <3>2. HoldsOf(b2)[x] = JobHold(b2.escrows[i])
      BY <3>1, HoldsValue
    <3>3. CASE i = j
      BY <1>1, <3>1, <3>2, <3>3
    <3>4. CASE i # j
      <4>1. i \in DOMAIN b.escrows /\ x # <<"job", j>>
        BY <3>1, <3>4 DEF OneSet
      <4> QED
        BY <1>1, <3>1, <3>2, <3>4, <4>1, HoldsValue DEF OneSet
    <3> QED
      BY <3>3, <3>4
  <2>2. CASE \E k \in DOMAIN b2.arrays : x = <<"array", k>>
    <3>1. PICK k \in DOMAIN b2.arrays : x = <<"array", k>>
      BY <2>2
    <3>2. HoldsOf(b2)[x] = ArrayHold(b2.arrays[k])
      BY <3>1, HoldsValue
    <3>3. HoldsOf(b)[x] = ArrayHold(b.arrays[k]) /\ x # <<"job", j>>
      BY <3>1, HoldsValue
    <3> QED
      BY <1>1, <3>2, <3>3
  <2> QED
    BY <2>1, <2>2, HoldsDomain
<1>3. HoldsOf(b2) = [x \in DOMAIN HoldsOf(b2) |-> HoldsOf(b2)[x]]
  BY HoldsDomain
<1> QED
  BY <1>1, <1>2, <1>3 DEF HoldSet

(* Setting one array's entry sets one hold of the ledger.                  *)
LEMMA ArrayHoldSet ==
  ASSUME NEW b, NEW b2, NEW k, b2.escrows = b.escrows, OneSet(b.arrays, b2.arrays, k)
  PROVE  HoldSet(HoldsOf(b), HoldsOf(b2), <<"array", k>>, ArrayHold(b2.arrays[k]))
<1> DEFINE f == [x \in DOMAIN HoldsOf(b) \cup {<<"array", k>>} |->
                   IF x = <<"array", k>> THEN ArrayHold(b2.arrays[k])
                   ELSE HoldsOf(b)[x]]
<1>1. DOMAIN HoldsOf(b2) = DOMAIN HoldsOf(b) \cup {<<"array", k>>}
  BY DEF HoldsOf, OneSet
<1>2. ASSUME NEW x \in DOMAIN HoldsOf(b2)
      PROVE  HoldsOf(b2)[x] = f[x]
  <2>1. CASE \E i \in DOMAIN b2.arrays : x = <<"array", i>>
    <3>1. PICK i \in DOMAIN b2.arrays : x = <<"array", i>>
      BY <2>1
    <3>2. HoldsOf(b2)[x] = ArrayHold(b2.arrays[i])
      BY <3>1, HoldsValue
    <3>3. CASE i = k
      BY <1>1, <3>1, <3>2, <3>3
    <3>4. CASE i # k
      <4>1. i \in DOMAIN b.arrays /\ x # <<"array", k>>
        BY <3>1, <3>4 DEF OneSet
      <4> QED
        BY <1>1, <3>1, <3>2, <3>4, <4>1, HoldsValue DEF OneSet
    <3> QED
      BY <3>3, <3>4
  <2>2. CASE \E j \in DOMAIN b2.escrows : x = <<"job", j>>
    <3>1. PICK j \in DOMAIN b2.escrows : x = <<"job", j>>
      BY <2>2
    <3>2. HoldsOf(b2)[x] = JobHold(b2.escrows[j])
      BY <3>1, HoldsValue
    <3>3. HoldsOf(b)[x] = JobHold(b.escrows[j]) /\ x # <<"array", k>>
      BY <3>1, HoldsValue
    <3> QED
      BY <1>1, <3>2, <3>3
  <2> QED
    BY <2>1, <2>2, HoldsDomain
<1>3. HoldsOf(b2) = [x \in DOMAIN HoldsOf(b2) |-> HoldsOf(b2)[x]]
  BY HoldsDomain
<1> QED
  BY <1>1, <1>2, <1>3 DEF HoldSet

(* Dropping one drops its hold.                                            *)
LEMMA JobHoldDrop ==
  ASSUME NEW b, NEW b2, NEW j \in DOMAIN b.escrows, b2.arrays = b.arrays,
         b2.escrows = Drop(b.escrows, j)
  PROVE  HoldDropped(HoldsOf(b), HoldsOf(b2), <<"job", j>>)
<1>1. /\ DOMAIN b2.escrows = DOMAIN b.escrows \ {j}
      /\ \A x \in DOMAIN b2.escrows : b2.escrows[x] = b.escrows[x]
  BY DEF Drop, Restrict
<1>2. DOMAIN HoldsOf(b2) = DOMAIN HoldsOf(b) \ {<<"job", j>>}
  BY <1>1 DEF HoldsOf
<1>3. ASSUME NEW x \in DOMAIN HoldsOf(b2)
      PROVE  HoldsOf(b2)[x] = HoldsOf(b)[x]
  <2>1. CASE \E i \in DOMAIN b2.escrows : x = <<"job", i>>
    <3>1. PICK i \in DOMAIN b2.escrows : x = <<"job", i>>
      BY <2>1
    <3>2. HoldsOf(b2)[x] = JobHold(b2.escrows[i])
      BY <3>1, HoldsValue
    <3>3. i \in DOMAIN b.escrows /\ b2.escrows[i] = b.escrows[i]
      BY <1>1, <3>1
    <3>4. HoldsOf(b)[x] = JobHold(b.escrows[i])
      BY <3>1, <3>3, HoldsValue
    <3> QED
      BY <3>2, <3>3, <3>4
  <2>2. CASE \E i \in DOMAIN b2.arrays : x = <<"array", i>>
    <3>1. PICK i \in DOMAIN b2.arrays : x = <<"array", i>>
      BY <2>2
    <3>2. HoldsOf(b2)[x] = ArrayHold(b2.arrays[i])
      BY <3>1, HoldsValue
    <3>3. i \in DOMAIN b.arrays /\ b2.arrays[i] = b.arrays[i]
      BY <1>1, <3>1
    <3>4. HoldsOf(b)[x] = ArrayHold(b.arrays[i])
      BY <3>1, <3>3, HoldsValue
    <3> QED
      BY <3>2, <3>3, <3>4
  <2> QED
    BY <2>1, <2>2, HoldsDomain
<1>4. HoldsOf(b2) = [x \in DOMAIN HoldsOf(b2) |-> HoldsOf(b2)[x]]
  BY HoldsDomain
<1> QED
  BY <1>2, <1>3, <1>4 DEF HoldDropped

(* Dropping an array's entry drops one hold of the ledger.                 *)
LEMMA ArrayHoldDrop ==
  ASSUME NEW b, NEW b2, NEW k \in DOMAIN b.arrays, b2.escrows = b.escrows,
         b2.arrays = Drop(b.arrays, k)
  PROVE  HoldDropped(HoldsOf(b), HoldsOf(b2), <<"array", k>>)
<1>1. /\ DOMAIN b2.arrays = DOMAIN b.arrays \ {k}
      /\ \A x \in DOMAIN b2.arrays : b2.arrays[x] = b.arrays[x]
  BY DEF Drop, Restrict
<1>2. DOMAIN HoldsOf(b2) = DOMAIN HoldsOf(b) \ {<<"array", k>>}
  BY <1>1 DEF HoldsOf
<1>3. ASSUME NEW x \in DOMAIN HoldsOf(b2)
      PROVE  HoldsOf(b2)[x] = HoldsOf(b)[x]
  <2>1. CASE \E i \in DOMAIN b2.escrows : x = <<"job", i>>
    <3>1. PICK i \in DOMAIN b2.escrows : x = <<"job", i>>
      BY <2>1
    <3>2. HoldsOf(b2)[x] = JobHold(b2.escrows[i])
      BY <3>1, HoldsValue
    <3>3. i \in DOMAIN b.escrows /\ b2.escrows[i] = b.escrows[i]
      BY <1>1, <3>1
    <3>4. HoldsOf(b)[x] = JobHold(b.escrows[i])
      BY <3>1, <3>3, HoldsValue
    <3> QED
      BY <3>2, <3>3, <3>4
  <2>2. CASE \E i \in DOMAIN b2.arrays : x = <<"array", i>>
    <3>1. PICK i \in DOMAIN b2.arrays : x = <<"array", i>>
      BY <2>2
    <3>2. HoldsOf(b2)[x] = ArrayHold(b2.arrays[i])
      BY <3>1, HoldsValue
    <3>3. i \in DOMAIN b.arrays /\ b2.arrays[i] = b.arrays[i]
      BY <1>1, <3>1
    <3>4. HoldsOf(b)[x] = ArrayHold(b.arrays[i])
      BY <3>1, <3>3, HoldsValue
    <3> QED
      BY <3>2, <3>3, <3>4
  <2> QED
    BY <2>1, <2>2, HoldsDomain
<1>4. HoldsOf(b2) = [x \in DOMAIN HoldsOf(b2) |-> HoldsOf(b2)[x]]
  BY HoldsDomain
<1> QED
  BY <1>2, <1>3, <1>4 DEF HoldDropped

-----------------------------------------------------------------------------
(* Each move is a step of the ledger.                                      *)

(* The columns the ledger reads, and what an escrow holds.                 *)
LEMMA Columns ==
  ASSUME NEW b, Books(b)
  PROVE  /\ b.B \in Nat /\ b.Consumed \in Nat /\ b.WriteOff \in Nat
         /\ b.escrows = [j \in DOMAIN b.escrows |-> b.escrows[j]]
         /\ \A j \in DOMAIN b.escrows : /\ b.escrows[j].Reserved \in Int
                                        /\ b.escrows[j].Started \in BOOLEAN
         /\ \A k \in DOMAIN b.arrays : b.arrays[k].Reserved \in Int
<1>1. \A k \in DOMAIN b.arrays : b.arrays[k].Reserved \in Int
  BY DEF Books, Typed, IsArrayEscrow
<1>2. /\ b.escrows = [j \in DOMAIN b.escrows |-> b.escrows[j]]
      /\ \A j \in DOMAIN b.escrows : b.escrows[j] \in Escrow
  BY DEF Books, Typed
<1>3. \A j \in DOMAIN b.escrows : /\ b.escrows[j].Reserved \in Int
                                  /\ b.escrows[j].Started \in BOOLEAN
  BY <1>2 DEF Escrow
<1>4. b.B \in Nat /\ b.Consumed \in Nat /\ b.WriteOff \in Nat
  BY DEF Books, Typed, NoneNegative
<1> QED
  BY <1>1, <1>2, <1>3, <1>4

(* Top-ups, withdrawals and whatever leaves every escrow alone.            *)
LEMMA ResizedFunds ==
  ASSUME Books(bd), Books(bd'), Resized(bd, bd')
  PROVE  Promise!Fund
<1>1. HoldsOf(bd') = HoldsOf(bd)
  BY DEF Resized, HoldsOf
<1>2. bd'.B \in Nat
  BY Columns
<1> QED
  BY <1>1, <1>2 DEF Promise!Fund, Resized, SameSpent

(* A job's gate holds its whole cost out of the balance.                   *)
LEMMA GatedHolds ==
  ASSUME Books(bd), Books(bd'), NEW j, NEW e, Gated(bd, bd', j, e)
  PROVE  Promise!Hold(<<"job", j>>) /\ <<"job", j>> \in DOMAIN HoldsOf(bd')
<1> DEFINE key == <<"job", j>>
           hold == [amount |-> bd.B - bd'.B, state |-> "waiting"]
<1>1. /\ bd.B \in Nat /\ bd'.B \in Nat /\ e.Reserved \in Nat
      /\ bd'.B = bd.B - e.Reserved
  BY Columns DEF Gated
<1>2. /\ OneSet(bd.escrows, bd'.escrows, j) /\ bd'.escrows[j] = e
      /\ bd'.arrays = bd.arrays
  BY DEF Gated, Put, OneSet
<1>3. HoldSet(HoldsOf(bd), HoldsOf(bd'), key, JobHold(bd'.escrows[j]))
  BY <1>2, JobHoldSet
<1>4. JobHold(bd'.escrows[j]) = hold
  BY <1>1, <1>2 DEF JobHold, Gated
<1>5. HoldSet(HoldsOf(bd), HoldsOf(bd'), key, hold)
  BY <1>3, <1>4
<1>6. key \notin DOMAIN HoldsOf(bd) /\ key \in DOMAIN HoldsOf(bd')
  BY <1>2, HoldsDomain DEF Gated, OneSet
<1>7. bd'.B \in 0 .. bd.B
  BY <1>1
<1>8. (bd.Consumed + bd.WriteOff)' = bd.Consumed + bd.WriteOff
  BY DEF Gated, SameSpent
<1> HIDE DEF key
<1> QED
  BY <1>5, <1>6, <1>7, <1>8 DEF Promise!Hold, Promise!With, HoldSet, key

(* Admitting an array is the ledger's Hold.                                *)
LEMMA ArrayGatedHolds ==
  ASSUME Books(bd), Books(bd'), NEW k, NEW ae, ArrayGated(bd, bd', k, ae)
  PROVE  Promise!Hold(<<"array", k>>) /\ <<"array", k>> \in DOMAIN HoldsOf(bd')
<1> DEFINE key == <<"array", k>>
           hold == [amount |-> bd.B - bd'.B, state |-> "parts"]
<1>1. /\ bd.B \in Nat /\ bd'.B \in Nat /\ ae.Reserved \in Nat
      /\ bd'.B = bd.B - ae.Reserved
  BY Columns DEF ArrayGated
<1>2. /\ OneSet(bd.arrays, bd'.arrays, k) /\ bd'.arrays[k] = ae
      /\ bd'.escrows = bd.escrows
  BY DEF ArrayGated, Put, OneSet
<1>3. HoldSet(HoldsOf(bd), HoldsOf(bd'), key, ArrayHold(bd'.arrays[k]))
  BY <1>2, ArrayHoldSet
<1>4. ArrayHold(bd'.arrays[k]) = hold
  BY <1>1, <1>2 DEF ArrayHold, ArrayGated
<1>5. HoldSet(HoldsOf(bd), HoldsOf(bd'), key, hold)
  BY <1>3, <1>4
<1>6. key \notin DOMAIN HoldsOf(bd) /\ key \in DOMAIN HoldsOf(bd')
  BY <1>2, HoldsDomain DEF ArrayGated, OneSet
<1>7. bd'.B \in 0 .. bd.B
  BY <1>1
<1>8. (bd.Consumed + bd.WriteOff)' = bd.Consumed + bd.WriteOff
  BY DEF ArrayGated, SameSpent
<1> HIDE DEF key
<1> QED
  BY <1>5, <1>6, <1>7, <1>8 DEF Promise!Hold, Promise!With, HoldSet, key

(* A bind lowers a waiting hold; a start makes it a running one.           *)
LEMMA RewrittenLowersOrRuns ==
  ASSUME Books(bd), Books(bd'), NEW j, NEW e, NEW d, Rewritten(bd, bd', j, e, d)
  PROVE  /\ <<"job", j>> \in DOMAIN HoldsOf(bd)
         /\ Promise!Lower(<<"job", j>>) \/ Promise!Run(<<"job", j>>)
<1> DEFINE key == <<"job", j>>
           old == JobHold(bd.escrows[j])
           new == JobHold(e)
<1>1. /\ bd.B \in Nat /\ bd'.B = bd.B + d /\ d \in Nat
      /\ bd.escrows[j].Reserved \in Int /\ e.Reserved \in Nat
      /\ e.Reserved = bd.escrows[j].Reserved - d
  <2>1. bd.B \in Nat
    BY Columns
  <2>2. j \in DOMAIN bd.escrows => bd.escrows[j].Reserved \in Int
    BY Columns
  <2> QED
    BY <2>1, <2>2 DEF Rewritten
<1>2. /\ OneSet(bd.escrows, bd'.escrows, j) /\ bd'.escrows[j] = e
      /\ bd'.arrays = bd.arrays
  BY DEF Rewritten, OneSet
<1>3. HoldSet(HoldsOf(bd), HoldsOf(bd'), key, new)
  BY <1>2, JobHoldSet
<1>4. key \in DOMAIN HoldsOf(bd) /\ HoldsOf(bd)[key] = old
  BY HoldsDomain, HoldsValue DEF Rewritten
<1>5. old = [amount |-> bd.escrows[j].Reserved, state |-> "waiting"]
  BY DEF JobHold, Rewritten
<1>6. (bd.Consumed + bd.WriteOff)' = bd.Consumed + bd.WriteOff
  BY DEF Rewritten, SameSpent
<1>7. CASE e.Started
  <2>1. d = 0 /\ bd'.B = bd.B
    BY <1>1, <1>7 DEF Rewritten
  <2>2. new = [amount |-> bd.escrows[j].Reserved, state |-> "running"]
    BY <1>1, <1>7, <2>1 DEF JobHold
  <2>3. new = [old EXCEPT !.state = "running"]
    BY <1>5, <2>2
  <2> HIDE DEF key, old, new
  <2>4. Promise!Run(key)
    BY <1>3, <1>4, <1>5, <1>6, <2>1, <2>3 DEF Promise!Run, Promise!With, HoldSet
  <2> QED
    BY <1>4, <2>4 DEF key
<1>8. CASE ~e.Started
  <2>1. new = [amount |-> e.Reserved, state |-> "waiting"]
    BY <1>8 DEF JobHold
  <2>2. new = [old EXCEPT !.amount = @ - (bd'.B - bd.B)]
    BY <1>1, <1>5, <2>1
  <2>3. bd'.B \in bd.B .. bd.B + old.amount
    BY <1>1, <1>5
  <2> HIDE DEF key, old, new
  <2>4. Promise!Lower(key)
    BY <1>3, <1>4, <1>5, <1>6, <2>2, <2>3 DEF Promise!Lower, Promise!With, HoldSet
  <2> QED
    BY <1>4, <2>4 DEF key
<1> QED
  BY <1>7, <1>8 DEF Rewritten

(* What a release does to the ledger's columns.                            *)
LEMMA ReleasedColumns ==
  ASSUME NEW b, NEW b2, Books(b), Books(b2), NEW held \in Nat, NEW used \in Nat,
         used <= held, Released(b, b2, held, used)
  PROVE  LET spent == b.Consumed + b.WriteOff
             spent2 == b2.Consumed + b2.WriteOff
         IN  /\ spent2 = spent + used /\ spent \in Nat
             /\ b2.B = b.B + (held - used) /\ b.B \in Nat
<1>1. b.B \in Nat /\ b.Consumed \in Nat /\ b.WriteOff \in Nat
  BY Columns
<1> QED
  BY <1>1 DEF Released

(* Any settlement bills its own hold and returns the rest.                 *)
LEMMA ClosedSettles ==
  ASSUME Books(bd), Books(bd'), NEW j, NEW used, Closed(bd, bd', j, used)
  PROVE  <<"job", j>> \in DOMAIN HoldsOf(bd) /\ Promise!Settle(<<"job", j>>)
<1> DEFINE key == <<"job", j>>
           held == bd.escrows[j].Reserved
<1>1. held \in Nat /\ used \in Nat /\ used <= held
  <2>1. j \in DOMAIN bd.escrows => bd.escrows[j].Reserved \in Int
    BY Columns
  <2> QED
    BY <2>1 DEF Closed
<1>2. /\ bd'.Consumed + bd'.WriteOff = bd.Consumed + bd.WriteOff + used
      /\ bd.Consumed + bd.WriteOff \in Nat
      /\ bd'.B = bd.B + (held - used) /\ bd.B \in Nat
  BY <1>1, ReleasedColumns DEF Closed
<1>3. HoldDropped(HoldsOf(bd), HoldsOf(bd'), key)
  <2>1. /\ j \in DOMAIN bd.escrows /\ bd'.arrays = bd.arrays
        /\ bd'.escrows = Drop(bd.escrows, j)
    BY DEF Closed
  <2> QED
    BY <2>1, JobHoldDrop
<1>4. key \in DOMAIN HoldsOf(bd) /\ HoldsOf(bd)[key].amount = held
  <2>1. j \in DOMAIN bd.escrows
    BY DEF Closed
  <2>2. key \in DOMAIN HoldsOf(bd) /\ HoldsOf(bd)[key] = JobHold(bd.escrows[j])
    BY <2>1, HoldsDomain, HoldsValue, Zenon
  <2> QED
    BY <2>2 DEF JobHold
<1> HIDE DEF key, held
<1> QED
  BY <1>1, <1>2, <1>3, <1>4 DEF Promise!Settle, Promise!Others, HoldDropped, key

(* Settling an array's last task is the ledger's Settle.                   *)
LEMMA ArrayClosedSettles ==
  ASSUME Books(bd), Books(bd'), NEW k, NEW used, ArrayClosed(bd, bd', k, used)
  PROVE  <<"array", k>> \in DOMAIN HoldsOf(bd) /\ Promise!Settle(<<"array", k>>)
<1> DEFINE key == <<"array", k>>
           held == bd.arrays[k].Reserved
<1>1. held \in Nat /\ used \in Nat /\ used <= held
  <2>1. k \in DOMAIN bd.arrays => bd.arrays[k].Reserved \in Int
    BY Columns
  <2> QED
    BY <2>1 DEF ArrayClosed
<1>2. /\ bd'.Consumed + bd'.WriteOff = bd.Consumed + bd.WriteOff + used
      /\ bd.Consumed + bd.WriteOff \in Nat
      /\ bd'.B = bd.B + (held - used) /\ bd.B \in Nat
  BY <1>1, ReleasedColumns DEF ArrayClosed
<1>3. HoldDropped(HoldsOf(bd), HoldsOf(bd'), key)
  <2>1. /\ k \in DOMAIN bd.arrays /\ bd'.escrows = bd.escrows
        /\ bd'.arrays = Drop(bd.arrays, k)
    BY DEF ArrayClosed
  <2> QED
    BY <2>1, ArrayHoldDrop
<1>4. key \in DOMAIN HoldsOf(bd) /\ HoldsOf(bd)[key].amount = held
  <2>1. k \in DOMAIN bd.arrays
    BY DEF ArrayClosed
  <2>2. key \in DOMAIN HoldsOf(bd) /\ HoldsOf(bd)[key] = ArrayHold(bd.arrays[k])
    BY <2>1, HoldsDomain, HoldsValue, Zenon
  <2> QED
    BY <2>2 DEF ArrayHold
<1> HIDE DEF key, held
<1> QED
  BY <1>1, <1>2, <1>3, <1>4 DEF Promise!Settle, Promise!Others, HoldDropped, key

(* A task's settlement takes its slice out of the array's hold.            *)
LEMMA ArrayPaidSettles ==
  ASSUME Books(bd), Books(bd'), NEW k, NEW ae, NEW held, NEW used,
         ArrayPaid(bd, bd', k, ae, held, used)
  PROVE  <<"array", k>> \in DOMAIN HoldsOf(bd) /\ Promise!Settle(<<"array", k>>)
<1> DEFINE key == <<"array", k>>
           old == ArrayHold(bd.arrays[k])
           new == ArrayHold(ae)
           paid == (bd'.Consumed + bd'.WriteOff) - (bd.Consumed + bd.WriteOff)
<1>1. /\ held \in Nat /\ used \in Nat /\ used <= held
      /\ bd.arrays[k].Reserved \in Int /\ ae.Reserved \in Nat
      /\ ae.Reserved = bd.arrays[k].Reserved - held
  BY Columns DEF ArrayPaid
<1>2. /\ bd'.Consumed + bd'.WriteOff = bd.Consumed + bd.WriteOff + used
      /\ bd.Consumed + bd.WriteOff \in Nat
      /\ bd'.B = bd.B + (held - used) /\ bd.B \in Nat
  BY <1>1, ReleasedColumns DEF ArrayPaid
<1>3. /\ OneSet(bd.arrays, bd'.arrays, k) /\ bd'.arrays[k] = ae
      /\ bd'.escrows = bd.escrows
  BY DEF ArrayPaid, OneSet
<1>4. HoldSet(HoldsOf(bd), HoldsOf(bd'), key, new)
  BY <1>3, ArrayHoldSet
<1>5. key \in DOMAIN HoldsOf(bd) /\ HoldsOf(bd)[key] = old
  BY HoldsDomain, HoldsValue DEF ArrayPaid
<1>6. /\ old.state = "parts" /\ old.amount = bd.arrays[k].Reserved
      /\ old.amount \in Int /\ old.amount >= held
  BY <1>1 DEF ArrayHold
<1>7. paid = used
  <2>1. /\ bd.Consumed \in Nat /\ bd.WriteOff \in Nat
        /\ bd'.Consumed \in Nat /\ bd'.WriteOff \in Nat
    BY Columns
  <2> QED
    BY <1>1, <1>2, <2>1
<1>8. new = [old EXCEPT !.amount = @ - paid - (bd'.B - bd.B)]
  BY <1>1, <1>2, <1>7 DEF ArrayHold
<1>9. /\ bd'.Consumed + bd'.WriteOff \in
           (bd.Consumed + bd.WriteOff) .. (bd.Consumed + bd.WriteOff + old.amount)
      /\ bd'.B \in bd.B .. (bd.B + old.amount - paid)
  BY <1>1, <1>2, <1>6, <1>7
<1> HIDE DEF key, old, new
<1> QED
  BY <1>4, <1>5, <1>6, <1>8, <1>9 DEF Promise!Settle, Promise!With, HoldSet, key

(* So every step of a budget is a step of the ledger, or none of it.       *)
LEMMA LedgerStep ==
  ASSUME IInv, [Next]_vars
  PROVE  [Promise!Next]_<<bd.B, HoldsOf(bd), bd.Consumed + bd.WriteOff>>
<1>1. Books(bd) /\ Books(bd') /\ Moved(bd, bd')
  BY NextKept DEF IInv, Kept, Step
<1>2. ASSUME NEW k \in DOMAIN HoldsOf(bd) \cup DOMAIN HoldsOf(bd'),
             Promise!Hold(k) \/ Promise!Lower(k) \/ Promise!Run(k) \/ Promise!Settle(k)
      PROVE  Promise!Next
  BY <1>2 DEF Promise!Next
<1>3. CASE Resized(bd, bd')
  BY <1>1, <1>3, ResizedFunds DEF Promise!Next
<1>4. CASE \E j, e : Gated(bd, bd', j, e)
  BY <1>1, <1>2, <1>4, GatedHolds
<1>5. CASE \E j, e, d : Rewritten(bd, bd', j, e, d)
  BY <1>1, <1>2, <1>5, RewrittenLowersOrRuns
<1>6. CASE \E j, used : Closed(bd, bd', j, used)
  BY <1>1, <1>2, <1>6, ClosedSettles
<1>7. CASE \E k, ae : ArrayGated(bd, bd', k, ae)
  BY <1>1, <1>2, <1>7, ArrayGatedHolds
<1>8. CASE \E k, ae, held, used : ArrayPaid(bd, bd', k, ae, held, used)
  BY <1>1, <1>2, <1>8, ArrayPaidSettles
<1>9. CASE \E k, used : ArrayClosed(bd, bd', k, used)
  BY <1>1, <1>2, <1>9, ArrayClosedSettles
<1> QED
  BY <1>1, <1>3, <1>4, <1>5, <1>6, <1>7, <1>8, <1>9 DEF Moved

(* A budget is born with its allocation free and nothing held or spent.    *)
LEMMA LedgerInit ==
  ASSUME Init
  PROVE  Promise!Init
<1>1. PICK cfg \in NewConfigs : bd = NewDurableBurst(cfg)
  BY DEF Init
<1>2. cfg \in NewConfig
  BY InputAssumption
<1>3. /\ bd.B \in Nat /\ bd.Consumed = 0 /\ bd.WriteOff = 0
      /\ DOMAIN bd.escrows = {} /\ DOMAIN bd.arrays = {}
  BY <1>1, <1>2 DEF NewConfig, NewDurableBurst
<1>4. DOMAIN HoldsOf(bd) = {}
  BY <1>3 DEF HoldsOf
<1>5. HoldsOf(bd) = [k \in {} |-> 0]
  BY <1>4, HoldsDomain
<1> QED
  BY <1>3, <1>5 DEF Promise!Init

(* A budget implements the ledger its owner is promised: a bill comes only *)
(* out of the hold of its own job or array, a hold never grows, and        *)
(* nothing but its settlement touches the hold of a started job            *)
(* (budget.go, array.go; Ledger).                                          *)
THEOREM LedgerImplemented == Spec => LedgerKept
<1>1. Init => Promise!Init
  BY LedgerInit
<1>2. IInv /\ [Next]_vars =>
        [Promise!Next]_<<bd.B, HoldsOf(bd), bd.Consumed + bd.WriteOff>>
  BY LedgerStep
<1> QED
  BY <1>1, <1>2, BooksBalance, PTL DEF Spec, LedgerKept, Promise!Spec
-----------------------------------------------------------------------------
(* The aggregate burn rate.                                                *)

JobBurn(e) == IF e.Started THEN e.C ELSE 0
ArrayBurn(ae) == ae.C * Cardinality(Running(ae))

JobBurns(b) == [j \in DOMAIN b.escrows |-> JobBurn(b.escrows[j])]
ArrayBurns(b) == [k \in DOMAIN b.arrays |-> ArrayBurn(b.arrays[k])]

(* The tasks of an array that run are finitely many.                       *)
LEMMA RunningFinite ==
  ASSUME NEW ae, IsArrayEscrow(ae)
  PROVE  /\ IsFiniteSet(Running(ae)) /\ Cardinality(Running(ae)) \in Nat
         /\ ae.C \in Nat /\ ArrayBurn(ae) \in Nat
<1>1. ae.tasks \in [0 .. (ae.N - 1) -> Task] /\ ae.N \in Nat /\ ae.C \in Nat
  BY DEF IsArrayEscrow
<1>2. 0 \in Int /\ ae.N - 1 \in Int
  BY <1>1
<1>3. IsFiniteSet(0 .. (ae.N - 1))
  BY <1>2, FS_Interval
<1>4. Running(ae) \subseteq 0 .. (ae.N - 1)
  BY <1>1 DEF Running
<1>5. IsFiniteSet(Running(ae))
  BY <1>3, <1>4, FS_Subset
<1>6. Cardinality(Running(ae)) \in Nat
  BY <1>5, FS_CardinalityType
<1>7. ArrayBurn(ae) \in Nat
  BY <1>1, <1>6 DEF ArrayBurn
<1> QED
  BY <1>1, <1>5, <1>6, <1>7

(* The live burn is the total of two finite families.                      *)
LEMMA BurnFamilies ==
  ASSUME NEW b, Books(b)
  PROVE  /\ Family(JobBurns(b)) /\ Family(ArrayBurns(b))
         /\ Total(JobBurns(b)) \in Nat /\ Total(ArrayBurns(b)) \in Nat
         /\ LiveBurn(b) = Total(JobBurns(b)) + Total(ArrayBurns(b))
<1>1. ASSUME NEW j \in DOMAIN b.escrows  PROVE JobBurn(b.escrows[j]) \in Nat
  <2>1. b.escrows[j] \in Escrow
    BY DEF Books, Typed
  <2> QED
    BY <2>1 DEF Escrow, JobBurn
<1>2. ASSUME NEW k \in DOMAIN b.arrays  PROVE ArrayBurn(b.arrays[k]) \in Nat
  <2>1. IsArrayEscrow(b.arrays[k])
    BY DEF Books, Typed
  <2> QED
    BY <2>1, RunningFinite
<1>3. Family(JobBurns(b)) /\ Family(ArrayBurns(b))
  BY <1>1, <1>2 DEF Family, JobBurns, ArrayBurns, Books
<1>4. LiveBurn(b) = Total(JobBurns(b)) + Total(ArrayBurns(b))
  BY DEF LiveBurn, JobBurns, ArrayBurns, JobBurn, ArrayBurn
<1> QED
  BY <1>3, <1>4, CoinsFinite

(* A budget with the same escrows burns the same.                          *)
LEMMA SameBurns ==
  ASSUME NEW b, NEW b2, b2.escrows = b.escrows, b2.arrays = b.arrays
  PROVE  LiveBurn(b2) = LiveBurn(b)
  BY DEF LiveBurn

(* One job's escrow is written, added or removed: the live burn changes by *)
(* what that job burns.                                                    *)
LEMMA JobBurnMoves ==
  ASSUME NEW b, NEW b2, Books(b), Books(b2), b2.arrays = b.arrays, NEW j
  PROVE  /\ \A e : j \in DOMAIN b.escrows /\ b2.escrows = [b.escrows EXCEPT ![j] = e] =>
                  LiveBurn(b2) = LiveBurn(b) - JobBurn(b.escrows[j]) + JobBurn(e)
         /\ \A e : j \notin DOMAIN b.escrows /\ b2.escrows = Put(b.escrows, j, e) =>
                  LiveBurn(b2) = LiveBurn(b) + JobBurn(e)
         /\ j \in DOMAIN b.escrows /\ b2.escrows = Drop(b.escrows, j) =>
              LiveBurn(b2) = LiveBurn(b) - JobBurn(b.escrows[j])
<1> DEFINE f == JobBurns(b)
           g == JobBurns(b2)
<1>1. /\ Family(f) /\ Family(g) /\ Total(f) \in Nat /\ Total(g) \in Nat
      /\ LiveBurn(b) = Total(f) + Total(ArrayBurns(b))
      /\ LiveBurn(b2) = Total(g) + Total(ArrayBurns(b))
      /\ Total(ArrayBurns(b)) \in Nat
  <2>1. ArrayBurns(b2) = ArrayBurns(b)
    BY DEF ArrayBurns
  <2> QED
    BY <2>1, BurnFamilies
<1>2. /\ DOMAIN f = DOMAIN b.escrows /\ DOMAIN g = DOMAIN b2.escrows
      /\ \A x \in DOMAIN b.escrows : f[x] = JobBurn(b.escrows[x])
      /\ \A x \in DOMAIN b2.escrows : g[x] = JobBurn(b2.escrows[x])
  BY DEF JobBurns
<1>3. /\ \A x \in DOMAIN f : f[x] \in Nat
      /\ \A x \in DOMAIN g : g[x] \in Nat
  BY <1>1 DEF Family
<1>4. b.escrows = [x \in DOMAIN b.escrows |-> b.escrows[x]]
  BY DEF Books, Typed
<1> HIDE DEF f, g
<1>5. ASSUME j \in DOMAIN b.escrows, NEW e,
             b2.escrows = [b.escrows EXCEPT ![j] = e]
      PROVE  LiveBurn(b2) = LiveBurn(b) - JobBurn(b.escrows[j]) + JobBurn(e)
  <2>1. /\ j \in DOMAIN f /\ DOMAIN g = DOMAIN f
        /\ f[j] = JobBurn(b.escrows[j]) /\ g[j] = JobBurn(e)
        /\ \A x \in DOMAIN f \ {j} : g[x] = f[x]
    BY <1>2, <1>4, <1>5
  <2>2. f[j] \in Nat /\ g[j] \in Nat
    BY <1>3, <2>1
  <2>3. Total(g) = Total(f) - f[j] + g[j]
    BY <1>1, <2>1, <2>2, TotalUpdate
  <2> QED
    BY <1>1, <2>1, <2>2, <2>3
<1>6. ASSUME j \notin DOMAIN b.escrows, NEW e,
             b2.escrows = Put(b.escrows, j, e)
      PROVE  LiveBurn(b2) = LiveBurn(b) + JobBurn(e)
  <2>1. /\ j \in DOMAIN g /\ DOMAIN f = DOMAIN g \ {j}
        /\ g[j] = JobBurn(e)
        /\ \A x \in DOMAIN f : f[x] = g[x]
    BY <1>2, <1>6 DEF Put
  <2>2. g[j] \in Nat
    BY <1>3, <2>1
  <2>3. Total(g) = Total(f) + g[j]
    BY <1>1, <2>1, TotalSplit
  <2> QED
    BY <1>1, <2>1, <2>2, <2>3
<1>7. ASSUME j \in DOMAIN b.escrows, b2.escrows = Drop(b.escrows, j)
      PROVE  LiveBurn(b2) = LiveBurn(b) - JobBurn(b.escrows[j])
  <2>1. /\ j \in DOMAIN f /\ DOMAIN g = DOMAIN f \ {j}
        /\ f[j] = JobBurn(b.escrows[j])
        /\ \A x \in DOMAIN g : g[x] = f[x]
    BY <1>2, <1>7 DEF Drop, Restrict
  <2>2. f[j] \in Nat
    BY <1>3, <2>1
  <2>3. Total(f) = Total(g) + f[j]
    BY <1>1, <2>1, TotalSplit
  <2> QED
    BY <1>1, <2>1, <2>2, <2>3
<1> QED
  BY <1>5, <1>6, <1>7

(* So with an array's.                                                     *)
LEMMA ArrayBurnMoves ==
  ASSUME NEW b, NEW b2, Books(b), Books(b2), b2.escrows = b.escrows, NEW k
  PROVE  /\ \A ae : k \in DOMAIN b.arrays /\ b2.arrays = [b.arrays EXCEPT ![k] = ae] =>
                  LiveBurn(b2) = LiveBurn(b) - ArrayBurn(b.arrays[k]) + ArrayBurn(ae)
         /\ \A ae : k \notin DOMAIN b.arrays /\ b2.arrays = Put(b.arrays, k, ae) =>
                  LiveBurn(b2) = LiveBurn(b) + ArrayBurn(ae)
         /\ k \in DOMAIN b.arrays /\ b2.arrays = Drop(b.arrays, k) =>
              LiveBurn(b2) = LiveBurn(b) - ArrayBurn(b.arrays[k])
<1> DEFINE f == ArrayBurns(b)
           g == ArrayBurns(b2)
<1>1. /\ Family(f) /\ Family(g) /\ Total(f) \in Nat /\ Total(g) \in Nat
      /\ LiveBurn(b) = Total(JobBurns(b)) + Total(f)
      /\ LiveBurn(b2) = Total(JobBurns(b)) + Total(g)
      /\ Total(JobBurns(b)) \in Nat
  <2>1. JobBurns(b2) = JobBurns(b)
    BY DEF JobBurns
  <2> QED
    BY <2>1, BurnFamilies
<1>2. /\ DOMAIN f = DOMAIN b.arrays /\ DOMAIN g = DOMAIN b2.arrays
      /\ \A x \in DOMAIN b.arrays : f[x] = ArrayBurn(b.arrays[x])
      /\ \A x \in DOMAIN b2.arrays : g[x] = ArrayBurn(b2.arrays[x])
  BY DEF ArrayBurns
<1>3. /\ \A x \in DOMAIN f : f[x] \in Nat
      /\ \A x \in DOMAIN g : g[x] \in Nat
  BY <1>1 DEF Family
<1>4. b.arrays = [x \in DOMAIN b.arrays |-> b.arrays[x]]
  BY DEF Books, Typed
<1> HIDE DEF f, g
<1>5. ASSUME k \in DOMAIN b.arrays, NEW ae,
             b2.arrays = [b.arrays EXCEPT ![k] = ae]
      PROVE  LiveBurn(b2) = LiveBurn(b) - ArrayBurn(b.arrays[k]) + ArrayBurn(ae)
  <2>1. /\ k \in DOMAIN f /\ DOMAIN g = DOMAIN f
        /\ f[k] = ArrayBurn(b.arrays[k]) /\ g[k] = ArrayBurn(ae)
        /\ \A x \in DOMAIN f \ {k} : g[x] = f[x]
    BY <1>2, <1>4, <1>5
  <2>2. f[k] \in Nat /\ g[k] \in Nat
    BY <1>3, <2>1
  <2>3. Total(g) = Total(f) - f[k] + g[k]
    BY <1>1, <2>1, <2>2, TotalUpdate
  <2> QED
    BY <1>1, <2>1, <2>2, <2>3
<1>6. ASSUME k \notin DOMAIN b.arrays, NEW ae,
             b2.arrays = Put(b.arrays, k, ae)
      PROVE  LiveBurn(b2) = LiveBurn(b) + ArrayBurn(ae)
  <2>1. /\ k \in DOMAIN g /\ DOMAIN f = DOMAIN g \ {k}
        /\ g[k] = ArrayBurn(ae)
        /\ \A x \in DOMAIN f : f[x] = g[x]
    BY <1>2, <1>6 DEF Put
  <2>2. g[k] \in Nat
    BY <1>3, <2>1
  <2>3. Total(g) = Total(f) + g[k]
    BY <1>1, <2>1, TotalSplit
  <2> QED
    BY <1>1, <2>1, <2>2, <2>3
<1>7. ASSUME k \in DOMAIN b.arrays, b2.arrays = Drop(b.arrays, k)
      PROVE  LiveBurn(b2) = LiveBurn(b) - ArrayBurn(b.arrays[k])
  <2>1. /\ k \in DOMAIN f /\ DOMAIN g = DOMAIN f \ {k}
        /\ f[k] = ArrayBurn(b.arrays[k])
        /\ \A x \in DOMAIN g : g[x] = f[x]
    BY <1>2, <1>7 DEF Drop, Restrict
  <2>2. f[k] \in Nat
    BY <1>3, <2>1
  <2>3. Total(f) = Total(g) + f[k]
    BY <1>1, <2>1, TotalSplit
  <2> QED
    BY <1>1, <2>1, <2>2, <2>3
<1> QED
  BY <1>5, <1>6, <1>7

(* While burst is on, the aggregate is the live burn.                      *)
Burnt(b) == b.BurstEnabled => b.rLive = LiveBurn(b)

SameBurn(b, b2) == b2.rLive = b.rLive /\ b2.BurstEnabled = b.BurstEnabled

(* An operation that leaves escrows and aggregate alone.                   *)
LEMMA QuietBurn ==
  ASSUME NEW b, NEW b2, Burnt(b), SameBurn(b, b2),
         b2.escrows = b.escrows, b2.arrays = b.arrays
  PROVE  Burnt(b2)
  BY SameBurns DEF Burnt, SameBurn

(* What a dispatch and a settlement do to the aggregate.                   *)
LEMMA BurnFields ==
  ASSUME NEW b, Typed(b)
  PROVE  /\ \A now \in Int : SameBurn(b, accrue(b, now))
         /\ \A held, used, off : SameBurn(b, Bill(b, held, used, off))
         /\ \A c : /\ Burning(b, c).BurstEnabled = b.BurstEnabled
                   /\ Burning(b, c).rLive = IF b.BurstEnabled THEN b.rLive + c
                                            ELSE b.rLive
         /\ \A c, w, st, resv, rt :
              LET b2 == StopBurning(b, c, w, st, resv, rt)
              IN  /\ b2.BurstEnabled = b.BurstEnabled
                  /\ b2.rLive = IF b.BurstEnabled /\ st
                                THEN IF b.rLive < c THEN 0 ELSE b.rLive - c
                                ELSE b.rLive
<1>1. \A now \in Int : SameBurn(b, accrue(b, now))
  BY AccruePace DEF SameBurn
<1>2. \A held, used, off : SameBurn(b, Bill(b, held, used, off))
  BY DEF Bill, SameBurn, Typed
<1>3. \A c : /\ Burning(b, c).BurstEnabled = b.BurstEnabled
             /\ Burning(b, c).rLive = IF b.BurstEnabled THEN b.rLive + c
                                      ELSE b.rLive
  BY DEF Burning, Typed
<1>4. \A c, w, st, resv, rt :
        LET b2 == StopBurning(b, c, w, st, resv, rt)
        IN  /\ b2.BurstEnabled = b.BurstEnabled
            /\ b2.rLive = IF b.BurstEnabled /\ st
                          THEN IF b.rLive < c THEN 0 ELSE b.rLive - c
                          ELSE b.rLive
  BY DEF StopBurning, Typed
<1> QED
  BY <1>1, <1>2, <1>3, <1>4

(* A gate adds a job that does not run, and so burns nothing.              *)
LEMMA SubmitBurns ==
  ASSUME NEW b, Books(b), Burnt(b), NEW j \in JobIDs, NEW c \in Int, NEW w \in Nat,
         NEW now \in Int, NEW wal \in BOOLEAN
  PROVE  Burnt(SubmitAt(b, j, c, w, now, wal).bd)
<1> DEFINE b2 == SubmitAt(b, j, c, w, now, wal).bd
<1>1. Books(b2)
  BY SubmitBooks DEF Kept
<1>2. \/ b2 = b
      \/ \E e : /\ j \notin DOMAIN b.escrows /\ ~e.Started
                /\ b2.escrows = Put(b.escrows, j, e) /\ b2.arrays = b.arrays
                /\ SameBurn(b, b2)
  <2> DEFINE e == [C |-> RateOrFlat(b, c), Reserved |-> RateOrFlat(b, c) * w,
                   W |-> w, Started |-> FALSE, BurstResv |-> 0, Submitted |-> now]
             on == [b EXCEPT !.B = @ - RateOrFlat(b, c) * w,
                             !.ReservedTotal = @ + RateOrFlat(b, c) * w,
                             !.escrows = Put(@, j, e)]
  <2>1. b2 = b \/ (b2 = on /\ j \notin DOMAIN b.escrows)
    BY DEF SubmitAt, logCmd, Rejected
  <2>2. ~e.Started
    OBVIOUS
  <2> HIDE DEF e, b2
  <2>3. Typed(b)
    BY DEF Books
  <2>4. /\ on.escrows = Put(b.escrows, j, e) /\ on.arrays = b.arrays
        /\ SameBurn(b, on)
    BY <2>3 DEF Typed, SameBurn
  <2> QED
    BY <2>1, <2>2, <2>4
<1> HIDE DEF b2
<1>3. ASSUME NEW e, j \notin DOMAIN b.escrows, ~e.Started,
             b2.escrows = Put(b.escrows, j, e), b2.arrays = b.arrays, SameBurn(b, b2)
      PROVE  Burnt(b2)
  <2>1. LiveBurn(b2) = LiveBurn(b) + JobBurn(e) /\ JobBurn(e) = 0
    BY <1>1, <1>3, JobBurnMoves DEF JobBurn
  <2>2. LiveBurn(b) \in Nat
    BY BurnFamilies
  <2> QED
    BY <1>3, <2>1, <2>2 DEF Burnt, SameBurn
<1> QED
  BY <1>2, <1>3 DEF b2

(* A repricing is refused once the job runs.                               *)
LEMMA RepriceBurns ==
  ASSUME NEW b, Books(b), Burnt(b), NEW j, NEW c \in Int,
         NEW now \in Int, NEW wal \in BOOLEAN
  PROVE  Burnt(Reprice(b, j, c, now, wal).bd)
<1> DEFINE b2 == Reprice(b, j, c, now, wal).bd
           e == b.escrows[j]
           delta == (e.C - c) * e.W
           e2 == [e EXCEPT !.C = c, !.Reserved = @ - delta]
           on == [b EXCEPT !.escrows[j].C = c, !.escrows[j].Reserved = @ - delta,
                           !.ReservedTotal = @ - delta, !.B = @ + delta]
<1>1. Books(b2) /\ Typed(b)
  BY RepriceBooks DEF Kept, Books
<1>2. \/ b2 = b
      \/ b2 = on /\ j \in DOMAIN b.escrows /\ ~e.Started
  BY DEF Reprice, logCmd, Rejected
<1> HIDE DEF b2
<1>3. ASSUME b2 = on, j \in DOMAIN b.escrows, ~e.Started
      PROVE  Burnt(b2)
  <2>1. e \in Escrow /\ b.escrows \in [DOMAIN b.escrows -> Escrow]
    BY <1>1, <1>3 DEF Typed
  <2>2. ~e2.Started
    BY <1>3, <2>1 DEF Escrow
  <2>3. b2.escrows = [b.escrows EXCEPT ![j] = e2]
    <3>1. b2.escrows = [b.escrows EXCEPT ![j].C = c, ![j].Reserved = @ - delta]
      BY <1>1, <1>3 DEF Typed
    <3> QED
      BY <1>3, <2>1, <3>1
  <2>4. b2.arrays = b.arrays /\ SameBurn(b, b2)
    BY <1>1, <1>3 DEF Typed, SameBurn
  <2> HIDE DEF e2
  <2>5. LiveBurn(b2) = LiveBurn(b) - JobBurn(e) + JobBurn(e2)
    <3>1. Books(b2) /\ j \in DOMAIN b.escrows /\ b2.arrays = b.arrays
      BY <1>1, <1>3, <2>4
    <3>2. \A x : j \in DOMAIN b.escrows /\ b2.escrows = [b.escrows EXCEPT ![j] = x] =>
                 LiveBurn(b2) = LiveBurn(b) - JobBurn(b.escrows[j]) + JobBurn(x)
      BY <3>1, JobBurnMoves
    <3> QED
      BY <2>3, <3>1, <3>2
  <2>6. JobBurn(e) = 0 /\ JobBurn(e2) = 0
    BY <1>3, <2>2 DEF JobBurn
  <2>7. LiveBurn(b) \in Nat
    BY BurnFamilies
  <2> QED
    BY <2>4, <2>5, <2>6, <2>7 DEF Burnt, SameBurn
<1> QED
  BY <1>2, <1>3 DEF b2

(* A dispatch raises the aggregate by the rate of the job it starts.       *)
LEMMA StartBurns ==
  ASSUME NEW b, Books(b), Burnt(b), NEW j, NEW now \in Int
  PROVE  Burnt(Start(b, j, now, TRUE).bd)
<1> DEFINE e == b.escrows[j]
           b1 == accrue(b, now)
           resv == BurstResvFor(b1, e.C, e.W)
           burning == Burning(b1, e.C)
           e2 == [e EXCEPT !.Started = TRUE, !.BurstResv = resv]
           on == [burning EXCEPT !.burstPot = @ - resv,
                                 !.escrows[j].Started = TRUE,
                                 !.escrows[j].BurstResv = resv]
           b2 == Start(b, j, now, TRUE).bd
<1>1. Books(b2) /\ Typed(b)
  BY StartBooks DEF Kept, Books
<1>2. Typed(b1) /\ SameRecords(b, b1) /\ SameBurn(b, b1)
  BY <1>1, AccrueFrame, BurnFields
<1>3. \/ b2 = b \/ b2 = b1
      \/ b2 = on /\ j \in DOMAIN b.escrows /\ ~e.Started
  BY DEF Start, logCmd, Rejected
<1> HIDE DEF b2, b1, resv
<1>4. CASE b2 = b1
  <2>1. b1.escrows = b.escrows /\ b1.arrays = b.arrays /\ SameBurn(b, b1)
    BY <1>2 DEF SameRecords
  <2>2. Burnt(b1)
    BY <2>1, QuietBurn, Zenon
  <2> QED
    BY <1>4, <2>2 DEF b2
<1>5. ASSUME b2 = on, j \in DOMAIN b.escrows, ~e.Started
      PROVE  Burnt(b2)
  <2>1. e \in Escrow /\ b.escrows \in [DOMAIN b.escrows -> Escrow] /\ e.C \in Nat
    BY <1>1, <1>5 DEF Typed, Escrow
  <2>2. Typed(burning) /\ SameRecords(b1, burning)
    BY <1>2, <2>1, BurningFrame
  <2>3. /\ burning.BurstEnabled = b.BurstEnabled
        /\ burning.rLive = IF b.BurstEnabled THEN b.rLive + e.C ELSE b.rLive
    BY <1>2, BurnFields DEF SameBurn
  <2>4. burning.escrows = b.escrows /\ burning.arrays = b.arrays
    BY <1>2, <2>2 DEF SameRecords
  <2> HIDE DEF burning
  <2>5. /\ b2.escrows = [b.escrows EXCEPT ![j].Started = TRUE, ![j].BurstResv = resv]
        /\ b2.arrays = b.arrays /\ SameBurn(burning, b2)
    BY <1>5, <2>2, <2>4 DEF Typed, SameBurn
  <2>6. b2.escrows = [b.escrows EXCEPT ![j] = e2]
    BY <1>5, <2>1, <2>5
  <2>7. e2.Started /\ e2.C = e.C
    BY <2>1 DEF Escrow
  <2> HIDE DEF e2
  <2>8. LiveBurn(b2) = LiveBurn(b) - JobBurn(e) + JobBurn(e2)
    <3>1. Books(b2) /\ j \in DOMAIN b.escrows /\ b2.arrays = b.arrays
      BY <1>1, <1>5, <2>5
    <3>2. \A x : j \in DOMAIN b.escrows /\ b2.escrows = [b.escrows EXCEPT ![j] = x] =>
                 LiveBurn(b2) = LiveBurn(b) - JobBurn(b.escrows[j]) + JobBurn(x)
      BY <3>1, JobBurnMoves
    <3> QED
      BY <2>6, <3>1, <3>2
  <2>9. JobBurn(e) = 0 /\ JobBurn(e2) = e.C
    BY <1>5, <2>7 DEF JobBurn
  <2>10. LiveBurn(b) \in Nat
    BY BurnFamilies
  <2> QED
    BY <2>1, <2>3, <2>5, <2>8, <2>9, <2>10 DEF Burnt, SameBurn
<1> QED
  BY <1>3, <1>4, <1>5 DEF b2

(* What the settlement of c leaves of the aggregate is what the others     *)
(* burn, so the code's floor at zero never bites.                          *)
LEMMA Extinguish ==
  ASSUME NEW b, NEW b2, Books(b), Books(b2), Burnt(b), NEW c \in Nat,
         NEW st \in BOOLEAN,
         b2.BurstEnabled = b.BurstEnabled,
         b2.rLive = IF b.BurstEnabled /\ st
                    THEN IF b.rLive < c THEN 0 ELSE b.rLive - c ELSE b.rLive,
         LiveBurn(b2) = LiveBurn(b) - (IF st THEN c ELSE 0)
  PROVE  Burnt(b2)
<1>1. LiveBurn(b) \in Nat /\ LiveBurn(b2) \in Nat
  BY BurnFamilies
<1> QED
  BY <1>1 DEF Burnt

(* Settling a job takes its rate out of the aggregate if it ran.           *)
LEMMA SettleBurns ==
  ASSUME NEW b, Books(b), Burnt(b), NEW j \in DOMAIN b.escrows, NEW runtime \in Int,
         NEW writeOff \in BOOLEAN, NEW now \in Int
  PROVE  Burnt(settle(b, j, runtime, writeOff, now))
<1> DEFINE e == b.escrows[j]
           rt == Clamp(runtime, e.W)
           b1 == accrue(b, now)
           paid == Bill(b1, e.Reserved, e.C * rt, writeOff)
           done == StopBurning(paid, e.C, e.W, e.Started, e.BurstResv, rt)
           b2 == [done EXCEPT !.escrows = Drop(@, j)]
<1>1. settle(b, j, runtime, writeOff, now) = b2
  BY Zenon DEF settle
<1>2. Books(b2) /\ Typed(b)
  <2>1. Books(settle(b, j, runtime, writeOff, now))
    BY SettleBooks, Zenon DEF Kept
  <2> HIDE DEF b2
  <2> QED
    BY <1>1, <2>1, Zenon DEF Books
<1>3. e \in Escrow
  BY <1>2 DEF Typed
<1>4. /\ e.C \in Nat /\ e.W \in Nat /\ e.Reserved \in Int /\ e.Started \in BOOLEAN
      /\ e.BurstResv \in Int
  BY <1>3 DEF Escrow
<1> HIDE DEF e
<1>5. rt \in Int /\ e.C * rt \in Int /\ e.C \in Int
  <2>1. rt \in Int
    BY <1>4 DEF Clamp
  <2> HIDE DEF rt
  <2> QED
    BY <1>4, <2>1
<1> HIDE DEF rt
<1>6. Typed(b1) /\ SameRecords(b, b1) /\ SameBurn(b, b1)
  BY <1>2, AccrueFrame, BurnFields
<1> HIDE DEF b1
<1>7. /\ Typed(paid) /\ paid.escrows = b1.escrows /\ paid.arrays = b1.arrays
      /\ SameBurn(b1, paid)
  BY <1>4, <1>5, <1>6, BillEffect, BurnFields
<1> HIDE DEF paid
<1>8. Typed(done) /\ SameRecords(paid, done)
  BY <1>4, <1>5, <1>7, StopBurningFrame, Zenon
<1>9. /\ done.BurstEnabled = paid.BurstEnabled
      /\ done.rLive = IF paid.BurstEnabled /\ e.Started
                      THEN IF paid.rLive < e.C THEN 0 ELSE paid.rLive - e.C
                      ELSE paid.rLive
  BY <1>7, BurnFields
<1> HIDE DEF done
<1>10. /\ b2.escrows = Drop(b.escrows, j) /\ b2.arrays = b.arrays
       /\ SameBurn(done, b2)
  BY <1>6, <1>7, <1>8 DEF Typed, SameRecords, SameBurn
<1> HIDE DEF b2
<1>11. LiveBurn(b2) = LiveBurn(b) - JobBurn(e)
  BY <1>2, <1>10, JobBurnMoves DEF e
<1>12. LiveBurn(b2) = LiveBurn(b) - (IF e.Started THEN e.C ELSE 0)
  BY <1>11 DEF JobBurn
<1>13. /\ b2.BurstEnabled = b.BurstEnabled
       /\ b2.rLive = IF b.BurstEnabled /\ e.Started
                     THEN IF b.rLive < e.C THEN 0 ELSE b.rLive - e.C
                     ELSE b.rLive
  BY <1>6, <1>7, <1>9, <1>10 DEF SameBurn
<1>14. Burnt(b2)
  BY <1>2, <1>4, <1>12, <1>13, Extinguish
<1> QED
  BY <1>1, <1>14

(* One task starts: its array burns its rate more.                         *)
LEMMA TaskLights ==
  ASSUME NEW ae, IsArrayEscrow(ae), NEW i \in DOMAIN ae.tasks, NEW resv \in Int,
         ~ae.tasks[i].settled, ~ae.tasks[i].started, NEW ae2,
         ae2 = [ae EXCEPT !.tasks[i].started = TRUE, !.tasks[i].burstResv = resv]
  PROVE  ArrayBurn(ae2) = ArrayBurn(ae) + ae.C
<1>1. ae.tasks \in [0 .. (ae.N - 1) -> Task] /\ i \in 0 .. (ae.N - 1)
  BY DEF IsArrayEscrow
<1> DEFINE t2 == [ae.tasks EXCEPT ![i].started = TRUE, ![i].burstResv = resv]
<1>2. ae2.tasks = t2 /\ ae2.C = ae.C
  BY DEF IsArrayEscrow
<1>3. /\ DOMAIN t2 = DOMAIN ae.tasks
      /\ t2[i].started /\ t2[i].settled = ae.tasks[i].settled
      /\ \A x \in DOMAIN ae.tasks \ {i} : t2[x] = ae.tasks[x]
  BY <1>1 DEF Task
<1> HIDE DEF t2
<1>4. Running(ae2) = Running(ae) \cup {i} /\ i \notin Running(ae)
  BY <1>1, <1>2, <1>3 DEF Running
<1>5. /\ IsFiniteSet(Running(ae)) /\ Cardinality(Running(ae)) \in Nat /\ ae.C \in Nat
  BY RunningFinite
<1>6. Cardinality(Running(ae2)) = Cardinality(Running(ae)) + 1
  BY <1>4, <1>5, FS_AddElement
<1>7. ASSUME NEW m \in Nat, NEW c \in Nat PROVE c * (m + 1) = c * m + c
  OBVIOUS
<1> QED
  BY <1>2, <1>5, <1>6, <1>7 DEF ArrayBurn

(* One task settles: its array burns its rate less if the task ran, and    *)
(* nothing once the last task is settled.                                  *)
LEMMA TaskDies ==
  ASSUME NEW ae, IsArrayEscrow(ae), SlicesOK(ae), NEW i \in DOMAIN ae.tasks,
         ~ae.tasks[i].settled, NEW ae2,
         ae2 = [ae EXCEPT !.Reserved = @ - slice(ae), !.Remaining = @ - 1,
                          !.tasks[i].settled = TRUE]
  PROVE  /\ ArrayBurn(ae2) = ArrayBurn(ae) -
                               (IF ae.tasks[i].started THEN ae.C ELSE 0)
         /\ ae2.Remaining = 0 => ArrayBurn(ae2) = 0
<1>1. ae.tasks \in [0 .. (ae.N - 1) -> Task] /\ i \in 0 .. (ae.N - 1)
  BY DEF IsArrayEscrow
<1> DEFINE t2 == [ae.tasks EXCEPT ![i].settled = TRUE]
<1>2. ae2.tasks = t2 /\ ae2.C = ae.C
  BY DEF IsArrayEscrow
<1>3. /\ DOMAIN t2 = DOMAIN ae.tasks /\ t2[i].settled
      /\ \A x \in DOMAIN ae.tasks \ {i} : t2[x] = ae.tasks[x]
  BY <1>1 DEF Task
<1>4. ae2.Remaining = ae.Remaining - 1
  BY SettledTaskSlice
<1> HIDE DEF t2
<1>5. Running(ae2) = Running(ae) \ {i}
  BY <1>1, <1>2, <1>3 DEF Running
<1>6. i \in Running(ae) <=> ae.tasks[i].started
  BY DEF Running
<1>7. Running(ae2) \subseteq Open(ae) \ {i} /\ i \in Open(ae)
  BY <1>5 DEF Running, Open
<1>8. /\ IsFiniteSet(Running(ae)) /\ Cardinality(Running(ae)) \in Nat /\ ae.C \in Nat
  BY RunningFinite
<1>9. ArrayBurn(ae2) = ArrayBurn(ae) - (IF ae.tasks[i].started THEN ae.C ELSE 0)
  <2>1. CASE ae.tasks[i].started
    <3>1. Cardinality(Running(ae2)) = Cardinality(Running(ae)) - 1
      BY <1>5, <1>6, <1>8, <2>1, FS_RemoveElement
    <3>2. ASSUME NEW m \in Nat, NEW c \in Nat PROVE c * (m - 1) = c * m - c
      OBVIOUS
    <3> QED
      BY <1>2, <1>8, <2>1, <3>1, <3>2 DEF ArrayBurn
  <2>2. CASE ~ae.tasks[i].started
    <3>1. Running(ae2) = Running(ae)
      BY <1>5, <1>6, <2>2
    <3>2. ArrayBurn(ae) \in Nat
      BY RunningFinite
    <3> QED
      BY <1>2, <2>2, <3>1, <3>2 DEF ArrayBurn
  <2> QED
    BY <2>1, <2>2
<1>10. ASSUME ae2.Remaining = 0 PROVE ArrayBurn(ae2) = 0
  <2>1. ae.Remaining = Cardinality(Open(ae)) /\ ae.Remaining \in Int
    BY DEF SlicesOK, IsArrayEscrow
  <2>2. IsFiniteSet(Open(ae))
    <3>1. 0 \in Int /\ ae.N - 1 \in Int
      BY DEF IsArrayEscrow
    <3>2. IsFiniteSet(0 .. (ae.N - 1))
      BY <3>1, FS_Interval
    <3>3. Open(ae) \subseteq 0 .. (ae.N - 1)
      BY <1>1 DEF Open
    <3> QED
      BY <3>2, <3>3, FS_Subset
  <2>3. IsFiniteSet(Open(ae) \ {i}) /\ Cardinality(Open(ae) \ {i}) = Cardinality(Open(ae)) - 1
    BY <1>7, <2>2, FS_RemoveElement
  <2>4. Cardinality(Open(ae) \ {i}) = 0
    BY <1>4, <1>10, <2>1, <2>3
  <2>5. Open(ae) \ {i} = {}
    BY <2>3, <2>4, FS_EmptySet
  <2>6. Cardinality(Running(ae2)) = 0
    BY <1>7, <2>5, FS_EmptySet
  <2> QED
    BY <1>2, <1>8, <2>6 DEF ArrayBurn
<1> QED
  BY <1>9, <1>10

(* A gate adds an array of which nothing runs.                             *)
LEMMA SubmitArrayBurns ==
  ASSUME NEW b, Books(b), Burnt(b), NEW k \in ArrayIDs, NEW c \in Int, NEW n \in Int,
         NEW w \in Nat, NEW now \in Int, NEW wal \in BOOLEAN
  PROVE  Burnt(SubmitArrayAt(b, k, c, n, w, now, wal).bd)
<1> DEFINE b2 == SubmitArrayAt(b, k, c, n, w, now, wal).bd
           cost == RateOrFlat(b, c) * w * n
           ae == [C |-> RateOrFlat(b, c), W |-> w, N |-> n, Remaining |-> n,
                  Reserved |-> cost, Submitted |-> now,
                  tasks |-> [i \in 0 .. (n - 1) |-> NoTask]]
           on == [b EXCEPT !.B = @ - cost, !.ReservedTotal = @ + cost,
                           !.arrays = Put(@, k, ae)]
<1>1. Books(b2) /\ Typed(b)
  BY SubmitArrayBooks DEF Kept, Books
<1>2. b2 = b \/ (b2 = on /\ k \notin DOMAIN b.arrays)
  BY DEF SubmitArrayAt, logCmd, Rejected
<1>3. Running(ae) = {} /\ ae.C = RateOrFlat(b, c)
  BY DEF Running, NoTask
<1>4. ae.C \in Int
  BY <1>1, <1>3 DEF RateOrFlat, Typed
<1> HIDE DEF ae, b2, cost
<1>5. ArrayBurn(ae) = 0
  <2>1. Cardinality(Running(ae)) = 0
    BY <1>3, FS_EmptySet
  <2> QED
    BY <1>4, <2>1 DEF ArrayBurn
<1>6. ASSUME b2 = on, k \notin DOMAIN b.arrays PROVE Burnt(b2)
  <2>1. /\ b2.arrays = Put(b.arrays, k, ae) /\ b2.escrows = b.escrows
        /\ SameBurn(b, b2)
    BY <1>1, <1>6 DEF Typed, SameBurn
  <2>2. LiveBurn(b2) = LiveBurn(b) + ArrayBurn(ae)
    <3>1. Books(b2) /\ k \notin DOMAIN b.arrays /\ b2.escrows = b.escrows
      BY <1>1, <1>6, <2>1
    <3>2. \A x : k \notin DOMAIN b.arrays /\ b2.arrays = Put(b.arrays, k, x) =>
                 LiveBurn(b2) = LiveBurn(b) + ArrayBurn(x)
      BY <3>1, ArrayBurnMoves
    <3> QED
      BY <2>1, <3>1, <3>2
  <2>3. LiveBurn(b) \in Nat
    BY BurnFamilies
  <2> QED
    BY <1>5, <2>1, <2>2, <2>3 DEF Burnt, SameBurn
<1> QED
  BY <1>2, <1>6 DEF b2

(* Dispatching a task raises the aggregate by its array's rate.            *)
LEMMA StartTaskBurns ==
  ASSUME NEW b, Books(b), Burnt(b), NEW k, NEW i, NEW now \in Int
  PROVE  Burnt(StartTask(b, k, i, now, TRUE).bd)
<1> DEFINE ae == b.arrays[k]
           b1 == accrue(b, now)
           resv == BurstResvFor(b1, ae.C, ae.W)
           burning == Burning(b1, ae.C)
           ae2 == [ae EXCEPT !.tasks[i].started = TRUE, !.tasks[i].burstResv = resv]
           on == [burning EXCEPT !.burstPot = @ - resv,
                                 !.arrays[k].tasks[i].started = TRUE,
                                 !.arrays[k].tasks[i].burstResv = resv]
           b2 == StartTask(b, k, i, now, TRUE).bd
<1>1. Books(b2) /\ Typed(b)
  BY StartTaskBooks DEF Kept, Books
<1>2. Typed(b1) /\ SameRecords(b, b1) /\ SameBurn(b, b1)
  BY <1>1, AccrueFrame, BurnFields
<1>3. \/ b2 = b \/ b2 = b1
      \/ b2 = on /\ Unsettled(b, k, i) /\ ~ae.tasks[i].started
  BY Zenon DEF StartTask, logCmd, Rejected
<1> HIDE DEF b2, b1, resv
<1>4. CASE b2 = b1
  <2>1. b1.escrows = b.escrows /\ b1.arrays = b.arrays /\ SameBurn(b, b1)
    BY <1>2 DEF SameRecords
  <2>2. Burnt(b1)
    BY <2>1, QuietBurn, Zenon
  <2> QED
    BY <1>4, <2>2 DEF b2
<1>5. ASSUME b2 = on, Unsettled(b, k, i), ~ae.tasks[i].started
      PROVE  Burnt(b2)
  <2>1. /\ k \in DOMAIN b.arrays /\ i \in DOMAIN ae.tasks /\ ~ae.tasks[i].settled
        /\ IsArrayEscrow(ae) /\ b.arrays = [z \in DOMAIN b.arrays |-> b.arrays[z]]
    BY <1>1, <1>5 DEF Unsettled, HasTask, Typed
  <2>2. ae.C \in Nat /\ ae.W \in Nat
    BY <2>1 DEF IsArrayEscrow
  <2>3. resv \in Int
    <3>1. resv \in Nat
      BY <1>2, <2>2, ReserveNat DEF resv
    <3> QED
      BY <3>1
  <2>4. Typed(burning) /\ SameRecords(b1, burning)
    BY <1>2, <2>2, BurningFrame
  <2>5. /\ burning.BurstEnabled = b.BurstEnabled
        /\ burning.rLive = IF b.BurstEnabled THEN b.rLive + ae.C ELSE b.rLive
    BY <1>2, BurnFields DEF SameBurn
  <2>6. burning.escrows = b.escrows /\ burning.arrays = b.arrays
    BY <1>2, <2>4 DEF SameRecords
  <2> HIDE DEF burning
  <2>7. /\ b2.arrays = [b.arrays EXCEPT ![k].tasks[i].started = TRUE,
                                        ![k].tasks[i].burstResv = resv]
        /\ b2.escrows = b.escrows /\ SameBurn(burning, b2)
    BY <1>5, <2>4, <2>6 DEF Typed, SameBurn
  <2>8. b2.arrays = [b.arrays EXCEPT ![k] = ae2]
    BY <2>1, <2>7
  <2>9. ArrayBurn(ae2) = ArrayBurn(ae) + ae.C
    <3>1. /\ IsArrayEscrow(ae) /\ i \in DOMAIN ae.tasks /\ ~ae.tasks[i].settled
          /\ ~ae.tasks[i].started
      BY <1>5, <2>1
    <3> HIDE DEF ae
    <3> QED
      BY <2>3, <3>1, TaskLights, Zenon
  <2> HIDE DEF ae2
  <2>10. LiveBurn(b2) = LiveBurn(b) - ArrayBurn(ae) + ArrayBurn(ae2)
    <3>1. Books(b2) /\ k \in DOMAIN b.arrays /\ b2.escrows = b.escrows
      BY <1>1, <2>1, <2>7
    <3>2. \A x : k \in DOMAIN b.arrays /\ b2.arrays = [b.arrays EXCEPT ![k] = x] =>
                 LiveBurn(b2) = LiveBurn(b) - ArrayBurn(b.arrays[k]) + ArrayBurn(x)
      BY <3>1, ArrayBurnMoves
    <3> QED
      BY <2>8, <3>1, <3>2
  <2>11. LiveBurn(b) \in Nat /\ ArrayBurn(ae) \in Nat
    BY <2>1, BurnFamilies, RunningFinite
  <2> QED
    BY <2>2, <2>5, <2>7, <2>9, <2>10, <2>11, SMTT(30) DEF Burnt, SameBurn
<1> QED
  BY <1>3, <1>4, <1>5 DEF b2

(* Settling a task takes its array's rate out of the aggregate if it ran.  *)
LEMMA SettleTaskBurns ==
  ASSUME NEW b, Books(b), Burnt(b), NEW k, NEW i, Unsettled(b, k, i),
         NEW runtime \in Int, NEW writeOff \in BOOLEAN, NEW now \in Int
  PROVE  Burnt(settleTask(b, k, i, runtime, writeOff, now))
<1> DEFINE ae == b.arrays[k]
           ts == ae.tasks[i]
           rt == Clamp(runtime, ae.W)
           b1 == accrue(b, now)
           paid == Bill(b1, slice(ae), ae.C * rt, writeOff)
           done == StopBurning(paid, ae.C, ae.W, ts.started, ts.burstResv, rt)
           left == [ae EXCEPT !.Reserved = @ - slice(ae), !.Remaining = @ - 1,
                              !.tasks[i].settled = TRUE]
           b2 == settleTask(b, k, i, runtime, writeOff, now)
<1>1. Books(b2) /\ Typed(b)
  <2>1. Books(b2)
    BY SettleTaskBooks, Zenon DEF Kept
  <2> QED
    BY <2>1 DEF Books
<1>2. /\ k \in DOMAIN b.arrays /\ i \in DOMAIN ae.tasks /\ ~ts.settled
      /\ IsArrayEscrow(ae) /\ SlicesOK(ae)
  BY DEF Unsettled, HasTask, Books, Typed
<1>3. /\ ae.C \in Nat /\ ae.W \in Nat /\ ae.C \in Int /\ slice(ae) \in Int
  BY <1>2 DEF IsArrayEscrow, slice
<1>4. ts.started \in BOOLEAN /\ ts.burstResv \in Int
  BY <1>2 DEF IsArrayEscrow, Task
<1>5. /\ ArrayBurn(left) = ArrayBurn(ae) - (IF ts.started THEN ae.C ELSE 0)
      /\ left.Remaining = 0 => ArrayBurn(left) = 0
  BY <1>2, TaskDies, Zenon
<1>6. rt \in Int /\ ae.C * rt \in Int
  <2>1. rt \in Int
    BY <1>3 DEF Clamp
  <2> HIDE DEF rt
  <2> QED
    BY <1>3, <2>1
<1>7. b2 = [done EXCEPT !.arrays = IF left.Remaining = 0 THEN Drop(@, k)
                                   ELSE [@ EXCEPT ![k] = left]]
  BY Zenon DEF settleTask
<1> HIDE DEF rt, ts, left, b2
<1>8. Typed(b1) /\ SameRecords(b, b1) /\ SameBurn(b, b1)
  BY <1>1, AccrueFrame, BurnFields
<1> HIDE DEF b1
<1>9. /\ Typed(paid) /\ paid.escrows = b1.escrows /\ paid.arrays = b1.arrays
      /\ SameBurn(b1, paid)
  BY <1>3, <1>6, <1>8, BillEffect, BurnFields, SMTT(30)
<1> HIDE DEF paid
<1>10. Typed(done) /\ SameRecords(paid, done)
  BY <1>3, <1>4, <1>6, <1>9, StopBurningFrame, Zenon
<1>11. /\ done.BurstEnabled = paid.BurstEnabled
       /\ done.rLive = IF paid.BurstEnabled /\ ts.started
                       THEN IF paid.rLive < ae.C THEN 0 ELSE paid.rLive - ae.C
                       ELSE paid.rLive
  BY <1>9, BurnFields
<1> HIDE DEF done
<1>12. done.arrays = b.arrays /\ done.escrows = b.escrows
  BY <1>8, <1>9, <1>10 DEF SameRecords
<1>13. /\ b2.arrays = IF left.Remaining = 0 THEN Drop(b.arrays, k)
                      ELSE [b.arrays EXCEPT ![k] = left]
       /\ b2.escrows = b.escrows /\ SameBurn(done, b2)
  BY <1>7, <1>10, <1>12 DEF Typed, SameBurn
<1>14. LiveBurn(b) \in Nat /\ ArrayBurn(ae) \in Nat
  BY <1>2, BurnFamilies, RunningFinite
<1>15. LiveBurn(b2) = LiveBurn(b) - (IF ts.started THEN ae.C ELSE 0)
  <2>1. CASE left.Remaining = 0
    <3>1. b2.arrays = Drop(b.arrays, k)
      BY <1>13, <2>1
    <3>2. LiveBurn(b2) = LiveBurn(b) - ArrayBurn(ae)
      BY <1>1, <1>2, <1>13, <3>1, ArrayBurnMoves
    <3>3. ArrayBurn(ae) = IF ts.started THEN ae.C ELSE 0
      BY <1>3, <1>5, <1>14, <2>1
    <3> QED
      BY <3>2, <3>3
  <2>2. CASE left.Remaining # 0
    <3>1. b2.arrays = [b.arrays EXCEPT ![k] = left]
      BY <1>13, <2>2
    <3>2. \A x : k \in DOMAIN b.arrays /\ b2.arrays = [b.arrays EXCEPT ![k] = x] =>
                 LiveBurn(b2) = LiveBurn(b) - ArrayBurn(b.arrays[k]) + ArrayBurn(x)
      BY <1>1, <1>13, ArrayBurnMoves
    <3>3. LiveBurn(b2) = LiveBurn(b) - ArrayBurn(ae) + ArrayBurn(left)
      BY <1>2, <3>1, <3>2
    <3> QED
      BY <1>3, <1>5, <1>14, <3>3
  <2> QED
    BY <2>1, <2>2
<1>16. /\ b2.BurstEnabled = b.BurstEnabled
       /\ b2.rLive = IF b.BurstEnabled /\ ts.started
                     THEN IF b.rLive < ae.C THEN 0 ELSE b.rLive - ae.C
                     ELSE b.rLive
  BY <1>8, <1>9, <1>11, <1>13 DEF SameBurn
<1>17. Burnt(b2)
  BY <1>1, <1>3, <1>4, <1>15, <1>16, Extinguish
<1> QED
  BY <1>17 DEF b2

(* Only SetBurst turns burst on or off.                                    *)
SameSwitch(b, b2) ==
  "BurstEnabled" \in DOMAIN b2 /\ b2.BurstEnabled = b.BurstEnabled

(* The bucket's operators leave the switch alone.                          *)
LEMMA BucketSwitch ==
  ASSUME NEW b, "BurstEnabled" \in DOMAIN b
  PROVE  /\ \A now : SameSwitch(b, accrue(b, now))
         /\ \A c : SameSwitch(b, Burning(b, c))
         /\ \A held, used, off : SameSwitch(b, Bill(b, held, used, off))
         /\ \A c, w, st, resv, rt :
              SameSwitch(b, StopBurning(b, c, w, st, resv, rt))
<1>1. \A now : SameSwitch(b, accrue(b, now))
  BY DEF accrue, SameSwitch
<1>2. \A c : SameSwitch(b, Burning(b, c))
  BY DEF Burning, SameSwitch
<1>3. \A held, used, off : SameSwitch(b, Bill(b, held, used, off))
  BY DEF Bill, SameSwitch
<1>4. \A c, w, st, resv, rt : SameSwitch(b, StopBurning(b, c, w, st, resv, rt))
  BY DEF StopBurning, SameSwitch
<1> QED
  BY <1>1, <1>2, <1>3, <1>4

(* So do the gates, the repricing and the administrative verbs but one.    *)
LEMMA GateSwitch ==
  ASSUME NEW b, "BurstEnabled" \in DOMAIN b, NEW now, NEW wal, NEW j, NEW c, NEW w,
         NEW n, NEW x, NEW y
  PROVE  /\ SameSwitch(b, SubmitAt(b, j, c, w, now, wal).bd)
         /\ SameSwitch(b, SubmitArrayAt(b, j, c, n, w, now, wal).bd)
         /\ SameSwitch(b, Reprice(b, j, c, now, wal).bd)
         /\ SameSwitch(b, TopUpXfer(b, x, y, now, wal).bd)
         /\ SameSwitch(b, WithdrawXfer(b, x, y, now, wal).bd)
         /\ SameSwitch(b, SetRate(b, x, now, wal).bd)
         /\ SameSwitch(b, SetWindow(b, x, y, now, wal).bd)
         /\ SameSwitch(b, Lapse(b, wal).bd)
<1>1. SameSwitch(b, SubmitAt(b, j, c, w, now, wal).bd)
  BY DEF SubmitAt, logCmd, Rejected, SameSwitch
<1>2. SameSwitch(b, SubmitArrayAt(b, j, c, n, w, now, wal).bd)
  BY DEF SubmitArrayAt, logCmd, Rejected, SameSwitch
<1>3. SameSwitch(b, Reprice(b, j, c, now, wal).bd)
  BY DEF Reprice, logCmd, Rejected, SameSwitch
<1>4. /\ SameSwitch(b, TopUpXfer(b, x, y, now, wal).bd)
      /\ SameSwitch(b, WithdrawXfer(b, x, y, now, wal).bd)
  BY DEF TopUpXfer, WithdrawXfer, logCmd, Rejected, SameSwitch
<1>5. /\ SameSwitch(b, SetRate(b, x, now, wal).bd)
      /\ SameSwitch(b, SetWindow(b, x, y, now, wal).bd)
      /\ SameSwitch(b, Lapse(b, wal).bd)
  BY DEF SetRate, SetWindow, Lapse, logCmd, Rejected, SameSwitch
<1> QED
  BY <1>1, <1>2, <1>3, <1>4, <1>5

(* So do the dispatches.                                                   *)
LEMMA StartSwitch ==
  ASSUME NEW b, "BurstEnabled" \in DOMAIN b, NEW now, NEW wal, NEW j, NEW i
  PROVE  /\ SameSwitch(b, Start(b, j, now, wal).bd)
         /\ SameSwitch(b, StartTask(b, j, i, now, wal).bd)
<1> DEFINE a == accrue(b, now)
<1>1. SameSwitch(b, a) /\ SameSwitch(b, b)
  BY BucketSwitch DEF SameSwitch
<1> HIDE DEF a
<1>3. \A c : SameSwitch(b, Burning(a, c))
  BY <1>1, BucketSwitch DEF SameSwitch
<1>5. SameSwitch(b, Start(b, j, now, wal).bd)
  BY <1>1, <1>3, SMTT(30) DEF Start, logCmd, Rejected, a, SameSwitch
<1>6. SameSwitch(b, StartTask(b, j, i, now, wal).bd)
  BY <1>1, <1>3, SMTT(30) DEF StartTask, logCmd, Rejected, a, SameSwitch
<1> QED
  BY <1>5, <1>6

(* So do the settlements.                                                  *)
LEMMA SettleSwitch ==
  ASSUME NEW b, "BurstEnabled" \in DOMAIN b, NEW now, NEW wal, NEW j, NEW i,
         NEW rt, NEW off, NEW cmd
  PROVE  /\ SameSwitch(b, Settled(b, j, rt, off, now, cmd, wal).bd)
         /\ SameSwitch(b, SettledTask(b, j, i, rt, off, now, cmd, wal).bd)
<1> DEFINE a == accrue(b, now)
<1>1. SameSwitch(b, a) /\ SameSwitch(b, b)
  BY BucketSwitch DEF SameSwitch
<1> HIDE DEF a
<1>3. \A held, used : SameSwitch(b, Bill(a, held, used, off))
  BY <1>1, BucketSwitch DEF SameSwitch
<1>4. \A held, used, c, w, st, resv, r :
        SameSwitch(b, StopBurning(Bill(a, held, used, off), c, w, st, resv, r))
  BY <1>3, BucketSwitch DEF SameSwitch
<1>5. SameSwitch(b, settle(b, j, rt, off, now))
  BY <1>4 DEF settle, SameSwitch, a
<1>6. SameSwitch(b, settleTask(b, j, i, rt, off, now))
  BY <1>4 DEF settleTask, SameSwitch, a
<1> QED
  BY <1>1, <1>5, <1>6 DEF Settled, SettledTask, logCmd, Rejected

(* A method that keeps the aggregate, and the switch with it.              *)
Alight(b, b2) == Burnt(b2) /\ SameSwitch(b, b2)

(* The exits of a job.                                                     *)
LEMMA ExitBurns ==
  ASSUME NEW b, Books(b), Burnt(b), NEW j, NEW rt \in Int, NEW now \in Int,
         NEW wal \in BOOLEAN
  PROVE  /\ Alight(b, Complete(b, j, rt, now, wal).bd)
         /\ Alight(b, Timeout(b, j, now, wal).bd)
         /\ Alight(b, Cancel(b, j, rt, now, wal).bd)
         /\ Alight(b, InfraFail(b, j, rt, now, wal).bd)
<1>0. "BurstEnabled" \in DOMAIN b
  BY DEF Books, Typed
<1>1. ASSUME j \in DOMAIN b.escrows  PROVE b.escrows[j].W \in Int
  BY <1>1 DEF Books, Typed, Escrow
<1>2. b.BillInfraFailures \in BOOLEAN
  BY DEF Books, Typed
<1>3. ASSUME NEW r, j \in DOMAIN b.escrows => r \in Int, NEW off \in BOOLEAN, NEW cmd
      PROVE  Alight(b, Settled(b, j, r, off, now, cmd, wal).bd)
  <2>1. j \in DOMAIN b.escrows => Burnt(settle(b, j, r, off, now))
    BY <1>3, SettleBurns
  <2>2. Burnt(Settled(b, j, r, off, now, cmd, wal).bd)
    BY <2>1 DEF Settled, logCmd, Rejected
  <2> QED
    BY <1>0, <2>2, SettleSwitch DEF Alight
<1>4. Alight(b, Complete(b, j, rt, now, wal).bd)
  BY <1>3, Zenon DEF Complete
<1>5. Alight(b, Timeout(b, j, now, wal).bd)
  BY <1>1, <1>3, Zenon DEF Timeout
<1>6. Alight(b, Cancel(b, j, rt, now, wal).bd)
  <2>1. 0 \in Int
    OBVIOUS
  <2>2. (IF b.escrows[j].Started THEN rt ELSE 0) \in Int
    BY <2>1, Zenon
  <2> QED
    BY <1>3, <2>2, Zenon DEF Cancel
<1>7. Alight(b, InfraFail(b, j, rt, now, wal).bd)
  BY <1>2, <1>3, Zenon DEF InfraFail
<1> QED
  BY <1>4, <1>5, <1>6, <1>7

(* The exits of a task.                                                    *)
LEMMA TaskExitBurns ==
  ASSUME NEW b, Books(b), Burnt(b), NEW k, NEW i, NEW rt \in Int, NEW now \in Int,
         NEW wal \in BOOLEAN
  PROVE  /\ Alight(b, CompleteTask(b, k, i, rt, now, wal).bd)
         /\ Alight(b, TimeoutTask(b, k, i, now, wal).bd)
         /\ Alight(b, CancelTask(b, k, i, rt, now, wal).bd)
         /\ Alight(b, InfraFailTask(b, k, i, rt, now, wal).bd)
<1>0. "BurstEnabled" \in DOMAIN b
  BY DEF Books, Typed
<1>1. ASSUME k \in DOMAIN b.arrays  PROVE b.arrays[k].W \in Int
  BY <1>1 DEF Books, Typed, IsArrayEscrow
<1>2. b.BillInfraFailures \in BOOLEAN
  BY DEF Books, Typed
<1>3. ASSUME NEW r, Unsettled(b, k, i) => r \in Int, NEW off \in BOOLEAN, NEW cmd
      PROVE  Alight(b, SettledTask(b, k, i, r, off, now, cmd, wal).bd)
  <2>1. Unsettled(b, k, i) => Burnt(settleTask(b, k, i, r, off, now))
    BY <1>3, SettleTaskBurns
  <2>2. Burnt(SettledTask(b, k, i, r, off, now, cmd, wal).bd)
    BY <2>1 DEF SettledTask, Rejected
  <2> QED
    BY <1>0, <2>2, SettleSwitch DEF Alight
<1>4. Rejected(b).bd = b /\ Alight(b, b)
  BY <1>0 DEF Rejected, Alight, SameSwitch
<1>5. Alight(b, CompleteTask(b, k, i, rt, now, wal).bd)
  BY <1>3, Zenon DEF CompleteTask
<1>6. Alight(b, TimeoutTask(b, k, i, now, wal).bd)
  <2>1. CASE k \in DOMAIN b.arrays
    BY <1>1, <1>3, <2>1, Zenon DEF TimeoutTask
  <2>2. CASE k \notin DOMAIN b.arrays
    BY <1>4, <2>2, Zenon DEF TimeoutTask
  <2> QED
    BY <2>1, <2>2
<1>7. Alight(b, CancelTask(b, k, i, rt, now, wal).bd)
  <2>1. CASE HasTask(b, k, i)
    <3>1. 0 \in Int
      OBVIOUS
    <3>2. (IF b.arrays[k].tasks[i].started THEN rt ELSE 0) \in Int
      BY <3>1, Zenon
    <3> QED
      BY <1>3, <2>1, <3>2, Zenon DEF CancelTask
  <2>2. CASE ~HasTask(b, k, i)
    BY <1>4, <2>2, Zenon DEF CancelTask
  <2> QED
    BY <2>1, <2>2
<1>8. Alight(b, InfraFailTask(b, k, i, rt, now, wal).bd)
  <2>1. CASE k \in DOMAIN b.arrays
    BY <1>2, <1>3, <2>1, Zenon DEF InfraFailTask
  <2>2. CASE k \notin DOMAIN b.arrays
    BY <1>4, <2>2, Zenon DEF InfraFailTask
  <2> QED
    BY <2>1, <2>2
<1> QED
  BY <1>5, <1>6, <1>7, <1>8

(* The administrative verbs touch neither jobs nor the aggregate.          *)
LEMMA AdminBurns ==
  ASSUME NEW b, Books(b), Burnt(b), NEW x, NEW y, NEW now, NEW wal
  PROVE  /\ Alight(b, TopUpXfer(b, x, y, now, wal).bd)
         /\ Alight(b, WithdrawXfer(b, x, y, now, wal).bd)
         /\ Alight(b, SetRate(b, x, now, wal).bd)
         /\ Alight(b, SetWindow(b, x, y, now, wal).bd)
         /\ Alight(b, Lapse(b, wal).bd)
<1>0. "BurstEnabled" \in DOMAIN b /\ Typed(b)
  BY DEF Books, Typed
<1> DEFINE Quiet(b2) == /\ SameBurn(b, b2) /\ b2.escrows = b.escrows
                        /\ b2.arrays = b.arrays
<1>1. Quiet(TopUpXfer(b, x, y, now, wal).bd)
  BY <1>0 DEF TopUpXfer, logCmd, Rejected, SameBurn, Typed
<1>2. Quiet(WithdrawXfer(b, x, y, now, wal).bd)
  BY <1>0 DEF WithdrawXfer, logCmd, Rejected, SameBurn, Typed
<1>3. Quiet(SetRate(b, x, now, wal).bd)
  BY <1>0 DEF SetRate, logCmd, Rejected, SameBurn, Typed
<1>4. Quiet(SetWindow(b, x, y, now, wal).bd)
  BY <1>0 DEF SetWindow, logCmd, Rejected, SameBurn, Typed
<1>5. Quiet(Lapse(b, wal).bd)
  BY <1>0 DEF Lapse, SameBurn, Typed
<1>6. ASSUME NEW b2, Quiet(b2), SameSwitch(b, b2)
      PROVE  Alight(b, b2)
  BY <1>6, QuietBurn DEF Alight
<1> HIDE DEF Quiet
<1> QED
  BY <1>0, <1>1, <1>2, <1>3, <1>4, <1>5, <1>6, GateSwitch

(* A retune of a burst already on keeps the aggregate; turning burst off   *)
(* ends it.                                                                *)
LEMMA SetBurstBurns ==
  ASSUME NEW b, Books(b), Burnt(b), NEW enabled \in BOOLEAN, NEW pct \in Int,
         NEW cap \in Int, NEW now \in Int, NEW wal, enabled => b.BurstEnabled
  PROVE  LET b2 == SetBurst(b, enabled, pct, cap, now, wal).bd
         IN  Burnt(b2) /\ (enabled => b2.BurstEnabled)
<1> DEFINE off == [b EXCEPT !.BurstEnabled = FALSE, !.BurstCeilingPct = 0,
                            !.BurstDrawCap = 0, !.burstPot = 0, !.rLive = 0,
                            !.fracAcc = 0]
           from == accrue(b, now)
           on == [from EXCEPT !.BurstCeilingPct = pct, !.BurstDrawCap = cap]
           trim == [on EXCEPT !.burstPot = burstCeiling(on), !.fracAcc = 0]
           b2 == SetBurst(b, enabled, pct, cap, now, wal).bd
<1>1. Typed(b) /\ Typed(from) /\ SameRecords(b, from) /\ SameBurn(b, from)
  BY AccrueFrame, BurnFields DEF Books
<1>2. b2 = b \/ (b2 = off /\ ~enabled) \/ (enabled /\ b2 \in {on, trim})
  BY DEF SetBurst, logCmd, Rejected
<1> HIDE DEF b2, from
<1>3. /\ SameBurn(b, on) /\ on.escrows = b.escrows /\ on.arrays = b.arrays
  BY <1>1 DEF Typed, SameRecords, SameBurn
<1>4. /\ SameBurn(b, trim) /\ trim.escrows = b.escrows /\ trim.arrays = b.arrays
  BY <1>1 DEF Typed, SameRecords, SameBurn
<1>5. Burnt(off)
  BY <1>1 DEF Burnt, Typed
<1> HIDE DEF on, trim, off
<1>6. Burnt(on) /\ Burnt(trim)
  BY <1>3, <1>4, QuietBurn
<1>7. enabled => on.BurstEnabled /\ trim.BurstEnabled
  BY <1>3, <1>4 DEF SameBurn
<1>8. Burnt(b2) /\ (enabled => b2.BurstEnabled)
  BY <1>2, <1>5, <1>6, <1>7
<1> QED
  BY <1>8 DEF b2

(* No call turns burst on while it is off: the aggregate then starts at    *)
(* zero whatever runs.                                                     *)
NeverTurnedOn ==
  \/ \A t \in BurstConfigs : ~t[1]
  \/ /\ \A cfg \in NewConfigs : cfg.BurstEnabled
     /\ \A t \in BurstConfigs : t[1]

(* The aggregate is right, and burst is on if some call asks for it.       *)
BurnInv == Burnt(bd) /\ ((\E t \in BurstConfigs : t[1]) => bd.BurstEnabled)

(* A new budget burns nothing.                                             *)
LEMMA InitBurn == Init /\ NeverTurnedOn => BurnInv
<1> SUFFICES ASSUME Init, NeverTurnedOn PROVE BurnInv
  OBVIOUS
<1>1. PICK cfg \in NewConfigs : bd = NewDurableBurst(cfg)
  BY DEF Init
<1>2. /\ bd.rLive = 0 /\ DOMAIN bd.escrows = {} /\ DOMAIN bd.arrays = {}
      /\ bd.BurstEnabled = cfg.BurstEnabled
  BY <1>1 DEF NewDurableBurst
<1>3. Books(bd)
  BY InitIInv DEF IInv
<1>4. DOMAIN JobBurns(bd) = {} /\ DOMAIN ArrayBurns(bd) = {}
  BY <1>2 DEF JobBurns, ArrayBurns
<1>5. Total(JobBurns(bd)) = 0 /\ Total(ArrayBurns(bd)) = 0
  BY <1>4, TotalEmpty
<1>6. LiveBurn(bd) = 0
  BY <1>3, <1>5, BurnFamilies
<1> QED
  BY <1>2, <1>6 DEF BurnInv, Burnt, NeverTurnedOn

(* Every method whose append succeeds keeps the aggregate.                 *)
LEMMA NextBurn ==
  ASSUME WalOutcomes \subseteq {TRUE}, NeverTurnedOn, IInv, BurnInv, [Next]_vars
  PROVE  BurnInv'
<1>1. Books(bd) /\ Burnt(bd) /\ clock \in Int /\ "BurstEnabled" \in DOMAIN bd
  BY DEF IInv, BurnInv, Books, Typed
<1>2. \A now \in Nows : now \in Int
  BY <1>1, InputAssumption DEF Nows
<1>3. \A wal \in WalOutcomes : wal = TRUE /\ wal \in BOOLEAN
  OBVIOUS
<1> DEFINE Goal == BurnInv'
<1>4. ASSUME NEW r, Publish(r) \/ PublishIfOK(r), Alight(bd, r.bd)  PROVE Goal
  <2>1. bd' = r.bd
    BY <1>4 DEF Publish, PublishIfOK
  <2> QED
    BY <1>4, <2>1 DEF Alight, SameSwitch, BurnInv
<1>5. ASSUME bd' = bd PROVE Goal
  BY <1>5 DEF BurnInv
<1>6. ASSUME Alight(bd, bd') PROVE Goal
  BY <1>6 DEF Alight, SameSwitch, BurnInv
<1> SUFFICES Goal
  OBVIOUS
<1> HIDE DEF Goal
<1>7. ASSUME NEW j \in JobIDs, JobStep(j)  PROVE Goal
  <2>1. ASSUME NEW c \in Rates, NEW w \in Walltimes, DoSubmit(j, c, w)
        PROVE  Goal
    <3>1. c \in Int /\ w \in Nat
      BY InputAssumption
    <3>2. PICK now \in Nows, wal \in WalOutcomes : Publish(SubmitAt(bd, j, c, w, now, wal))
      BY <2>1 DEF DoSubmit
    <3>3. Alight(bd, SubmitAt(bd, j, c, w, now, wal).bd)
      BY <1>1, <1>2, <1>3, <3>1, SubmitBurns, GateSwitch DEF Alight
    <3> QED
      BY <1>4, <3>2, <3>3
  <2>2. CASE DoStart(j)
    <3>1. PICK now \in Nows, wal \in WalOutcomes : Publish(Start(bd, j, now, wal))
      BY <2>2 DEF DoStart
    <3>2. Alight(bd, Start(bd, j, now, wal).bd)
      BY <1>1, <1>2, <1>3, StartBurns, StartSwitch DEF Alight
    <3> QED
      BY <1>4, <3>1, <3>2
  <2>3. 0 \in Int
    OBVIOUS
  <2>4. CASE DoTimeout(j)
    BY <1>1, <1>2, <1>3, <1>4, <2>3, <2>4, ExitBurns, Zenon DEF DoTimeout
  <2>5. ASSUME NEW rt \in Runtimes, DoComplete(j, rt) \/ DoCancel(j, rt) \/ DoInfraFail(j, rt)
        PROVE  Goal
    <3>1. rt \in Int
      BY InputAssumption
    <3> QED
      BY <1>1, <1>2, <1>3, <1>4, <2>5, <3>1, ExitBurns, Zenon
         DEF DoComplete, DoCancel, DoInfraFail
  <2>6. ASSUME NEW c \in NewRates, DoReprice(j, c)  PROVE Goal
    <3>1. c \in Int
      BY InputAssumption
    <3>2. PICK now \in Nows, wal \in WalOutcomes : Publish(Reprice(bd, j, c, now, wal))
      BY <2>6 DEF DoReprice
    <3>3. Alight(bd, Reprice(bd, j, c, now, wal).bd)
      BY <1>1, <1>2, <1>3, <3>1, RepriceBurns, GateSwitch DEF Alight
    <3> QED
      BY <1>4, <3>2, <3>3
  <2> QED
    BY <1>7, <2>1, <2>2, <2>4, <2>5, <2>6 DEF JobStep
<1>8. ASSUME NEW k \in ArrayIDs, ArrayStep(k)  PROVE Goal
  <2>1. ASSUME NEW c \in Rates, NEW n \in TaskCounts, NEW w \in Walltimes,
               DoSubmitArray(k, c, n, w)
        PROVE  Goal
    <3>1. c \in Int /\ n \in Int /\ w \in Nat
      BY InputAssumption
    <3>2. PICK now \in Nows, wal \in WalOutcomes :
            Publish(SubmitArrayAt(bd, k, c, n, w, now, wal))
      BY <2>1 DEF DoSubmitArray
    <3>3. Alight(bd, SubmitArrayAt(bd, k, c, n, w, now, wal).bd)
      BY <1>1, <1>2, <1>3, <3>1, SubmitArrayBurns, GateSwitch DEF Alight
    <3> QED
      BY <1>4, <3>2, <3>3
  <2>2. ASSUME NEW i \in TaskIdxs, DoStartTask(k, i)  PROVE Goal
    <3>1. PICK now \in Nows, wal \in WalOutcomes : Publish(StartTask(bd, k, i, now, wal))
      BY <2>2 DEF DoStartTask
    <3>2. Alight(bd, StartTask(bd, k, i, now, wal).bd)
      BY <1>1, <1>2, <1>3, StartTaskBurns, StartSwitch DEF Alight
    <3> QED
      BY <1>4, <3>1, <3>2
  <2>3. 0 \in Int
    OBVIOUS
  <2>4. ASSUME NEW i \in TaskIdxs, DoTimeoutTask(k, i)  PROVE Goal
    BY <1>1, <1>2, <1>3, <1>4, <2>3, <2>4, TaskExitBurns, Zenon
       DEF DoTimeoutTask
  <2>5. ASSUME NEW i \in TaskIdxs, NEW rt \in Runtimes,
               \/ DoCompleteTask(k, i, rt) \/ DoCancelTask(k, i, rt)
               \/ DoInfraFailTask(k, i, rt)
        PROVE  Goal
    <3>1. rt \in Int
      BY InputAssumption
    <3> QED
      BY <1>1, <1>2, <1>3, <1>4, <2>5, <3>1, TaskExitBurns, Zenon
         DEF DoCompleteTask, DoCancelTask, DoInfraFailTask
  <2> QED
    BY <1>8, <2>1, <2>2, <2>4, <2>5 DEF ArrayStep
<1>9. CASE AdminStep
  <2>1. ASSUME NEW amt \in Amounts, DoTopUp(amt) \/ DoWithdraw(amt)  PROVE Goal
    BY <1>1, <1>4, <2>1, AdminBurns, Zenon DEF DoTopUp, DoWithdraw
  <2>2. ASSUME NEW c \in NewRates, DoSetRate(c)  PROVE Goal
    BY <1>1, <1>4, <2>2, AdminBurns, Zenon DEF DoSetRate
  <2>3. ASSUME NEW win \in Windows, DoSetWindow(win)  PROVE Goal
    BY <1>1, <1>4, <2>3, AdminBurns, Zenon DEF DoSetWindow
  <2>4. ASSUME NEW t \in BurstConfigs, DoSetBurst(t)  PROVE Goal
    <3>1. t[1] \in BOOLEAN /\ t[2] \in Int /\ t[3] \in Int
      BY InputAssumption
    <3>2. PICK now \in Nows, wal \in WalOutcomes :
            Publish(SetBurst(bd, t[1], t[2], t[3], now, wal))
      BY <2>4 DEF DoSetBurst
    <3>3. bd' = SetBurst(bd, t[1], t[2], t[3], now, wal).bd
      BY <3>2 DEF Publish
    <3>4. t[1] => bd.BurstEnabled
      BY <2>4 DEF BurnInv
    <3>5. Burnt(bd') /\ (t[1] => bd'.BurstEnabled)
      BY <1>1, <1>2, <3>1, <3>3, <3>4, SetBurstBurns, Zenon
    <3>6. (\E x \in BurstConfigs : x[1]) => t[1]
      BY <2>4 DEF NeverTurnedOn
    <3> QED
      BY <3>5, <3>6 DEF Goal, BurnInv, Burnt
  <2>5. CASE DoLapse
    BY <1>1, <1>6, <2>5, AdminBurns, Zenon DEF DoLapse
  <2> QED
    BY <1>9, <2>1, <2>2, <2>3, <2>4, <2>5 DEF AdminStep
<1>10. CASE Report
  <2>1. PICK now \in Nows : bd' = accrue(bd, now)
    BY <1>10 DEF Report
  <2>2. SameRecords(bd, bd') /\ SameBurn(bd, bd') /\ SameSwitch(bd, bd')
    BY <1>1, <1>2, <2>1, AccrueFrame, BurnFields, BucketSwitch DEF Books
  <2>3. Burnt(bd')
    BY <1>1, <2>2, QuietBurn DEF SameRecords
  <2> QED
    BY <1>6, <2>2, <2>3 DEF Alight
<1>11. CASE Tick \/ UNCHANGED vars
  BY <1>5, <1>11 DEF Tick, vars
<1> QED
  BY <1>7, <1>8, <1>9, <1>10, <1>11 DEF Next

(* Where every append succeeds and burst is not turned on while it is off, *)
(* the aggregate rLive is the sum of the rates of the jobs and tasks that  *)
(* run (budget.go, Start and settle; array.go, StartTask and settleTask):  *)
(* the floor at zero in settle never bites.  A Start whose append fails    *)
(* after rLive was raised, or SetBurst over running jobs, breaks it.       *)
THEOREM BurnExact ==
  WalOutcomes \subseteq {TRUE} /\ NeverTurnedOn => (Spec => []RLiveIsLiveBurn)
<1> SUFFICES ASSUME WalOutcomes \subseteq {TRUE}, NeverTurnedOn
             PROVE  Spec => []RLiveIsLiveBurn
  OBVIOUS
<1>1. Init => BurnInv
  BY InitBurn
<1>2. IInv /\ BurnInv /\ [Next]_vars => BurnInv'
  BY NextBurn
<1>3. BurnInv => RLiveIsLiveBurn
  BY DEF BurnInv, Burnt, RLiveIsLiveBurn
<1> QED
  BY <1>1, <1>2, <1>3, BooksBalance, PTL DEF Spec

-----------------------------------------------------------------------------
(* Permission is earned.                                                   *)

(* No reservation of tokens is negative.                                   *)
ResvNat(b) ==
  /\ \A j \in DOMAIN b.escrows : b.escrows[j].BurstResv >= 0
  /\ \A a \in DOMAIN b.arrays : \A i \in DOMAIN b.arrays[a].tasks :
       b.arrays[a].tasks[i].burstResv >= 0

JobTokens(b) == [j \in DOMAIN b.escrows |-> b.escrows[j].BurstResv]

RunningTasks(b) == UNION {{a} \X Running(b.arrays[a]) : a \in DOMAIN b.arrays}

TaskTokens(b) ==
  [x \in RunningTasks(b) |-> b.arrays[x[1]].tasks[x[2]].burstResv]

(* The tokens that jobs and tasks hold are two finite families.            *)
LEMMA TokenFamilies ==
  ASSUME NEW b, Books(b), ResvNat(b)
  PROVE  /\ Family(JobTokens(b)) /\ Family(TaskTokens(b))
         /\ Total(JobTokens(b)) \in Nat /\ Total(TaskTokens(b)) \in Nat
         /\ TokensOut(b) = b.burstPot + Total(JobTokens(b)) + Total(TaskTokens(b))
<1>1. ASSUME NEW j \in DOMAIN b.escrows  PROVE b.escrows[j].BurstResv \in Nat
  <2>1. b.escrows[j].BurstResv \in Int
    BY DEF Books, Typed, Escrow
  <2> QED
    BY <2>1 DEF ResvNat
<1>2. ASSUME NEW a \in DOMAIN b.arrays
      PROVE  /\ IsFiniteSet({a} \X Running(b.arrays[a]))
             /\ \A i \in Running(b.arrays[a]) : b.arrays[a].tasks[i].burstResv \in Nat
  <2>1. IsArrayEscrow(b.arrays[a])
    BY DEF Books, Typed
  <2>2. IsFiniteSet({a}) /\ IsFiniteSet(Running(b.arrays[a]))
    BY <2>1, RunningFinite, FS_Singleton
  <2>3. IsFiniteSet({a} \X Running(b.arrays[a]))
    BY <2>2, FS_Product
  <2>4. ASSUME NEW i \in Running(b.arrays[a]) PROVE b.arrays[a].tasks[i].burstResv \in Nat
    <3>1. i \in DOMAIN b.arrays[a].tasks
      BY DEF Running
    <3>2. b.arrays[a].tasks[i].burstResv \in Int
      BY <2>1, <3>1 DEF IsArrayEscrow, Task
    <3> QED
      BY <3>1, <3>2 DEF ResvNat
  <2> QED
    BY <2>3, <2>4
<1>3. IsFiniteSet(RunningTasks(b))
  <2> DEFINE S == {{a} \X Running(b.arrays[a]) : a \in DOMAIN b.arrays}
             g == [a \in DOMAIN b.arrays |-> {a} \X Running(b.arrays[a])]
  <2>1. g \in Surjection(DOMAIN b.arrays, S)
    BY DEF Surjection
  <2>2. IsFiniteSet(S)
    BY <2>1, FS_Surjection DEF Books
  <2>3. \A X \in S : IsFiniteSet(X)
    BY <1>2
  <2> HIDE DEF S
  <2>4. IsFiniteSet(UNION S)
    BY <2>2, <2>3, FS_UNION
  <2> QED
    BY <2>4 DEF RunningTasks, S
<1>4. Family(JobTokens(b))
  BY <1>1 DEF Family, JobTokens, Books
<1>5. Family(TaskTokens(b))
  <2>1. ASSUME NEW x \in RunningTasks(b)
        PROVE  b.arrays[x[1]].tasks[x[2]].burstResv \in Nat
    <3>1. PICK a \in DOMAIN b.arrays : x \in {a} \X Running(b.arrays[a])
      BY DEF RunningTasks
    <3>2. x[1] = a /\ x[2] \in Running(b.arrays[a])
      BY <3>1
    <3> QED
      BY <1>2, <3>2
  <2> QED
    BY <1>3, <2>1 DEF Family, TaskTokens
<1>6. CoinsOf(TaskTokens(b)) =
        UNION {UNION {{<<a, i>>} \X (1 .. b.arrays[a].tasks[i].burstResv) :
                        i \in Running(b.arrays[a])} : a \in DOMAIN b.arrays}
  <2> DEFINE R == UNION {UNION {{<<a, i>>} \X (1 .. b.arrays[a].tasks[i].burstResv) :
                                  i \in Running(b.arrays[a])} : a \in DOMAIN b.arrays}
  <2>1. ASSUME NEW z \in CoinsOf(TaskTokens(b)) PROVE z \in R
    <3>1. PICK x \in RunningTasks(b) :
            z \in {x} \X (1 .. b.arrays[x[1]].tasks[x[2]].burstResv)
      BY DEF CoinsOf, TaskTokens
    <3>2. PICK a \in DOMAIN b.arrays : x \in {a} \X Running(b.arrays[a])
      BY DEF RunningTasks
    <3>3. PICK i \in Running(b.arrays[a]) : x = <<a, i>>
      BY <3>2
    <3>4. z \in {<<a, i>>} \X (1 .. b.arrays[a].tasks[i].burstResv)
      BY <3>1, <3>3
    <3> QED
      BY <3>4
  <2>2. ASSUME NEW z \in R PROVE z \in CoinsOf(TaskTokens(b))
    <3>1. PICK a \in DOMAIN b.arrays :
            z \in UNION {{<<a, i>>} \X (1 .. b.arrays[a].tasks[i].burstResv) :
                            i \in Running(b.arrays[a])}
      OBVIOUS
    <3>2. PICK i \in Running(b.arrays[a]) :
            z \in {<<a, i>>} \X (1 .. b.arrays[a].tasks[i].burstResv)
      BY <3>1
    <3>3. <<a, i>> \in RunningTasks(b)
      BY DEF RunningTasks
    <3>4. PICK x \in RunningTasks(b) : x = <<a, i>>
      BY <3>3
    <3>5. TaskTokens(b)[x] = b.arrays[a].tasks[i].burstResv
      BY <3>4 DEF TaskTokens
    <3>6. z \in {x} \X (1 .. TaskTokens(b)[x]) /\ x \in DOMAIN TaskTokens(b)
      BY <3>2, <3>4, <3>5 DEF TaskTokens
    <3> QED
      BY <3>6 DEF CoinsOf
  <2> QED
    BY <2>1, <2>2
<1>7. Total(JobTokens(b)) \in Nat /\ Total(TaskTokens(b)) \in Nat
  BY <1>4, <1>5, CoinsFinite
<1>8. TokensOut(b) = b.burstPot + Total(JobTokens(b)) + Total(TaskTokens(b))
  BY <1>6 DEF TokensOut, JobTokens, Total
<1> QED
  BY <1>4, <1>5, <1>7, <1>8

(* One job's escrow is written, added or removed.                          *)
LEMMA JobTokenMoves ==
  ASSUME NEW b, NEW b2, Books(b), Books(b2), ResvNat(b), ResvNat(b2),
         b2.arrays = b.arrays, NEW j
  PROVE  /\ \A e : j \in DOMAIN b.escrows /\ b2.escrows = [b.escrows EXCEPT ![j] = e] =>
                  TokensOut(b2) - b2.burstPot =
                    TokensOut(b) - b.burstPot - b.escrows[j].BurstResv + e.BurstResv
         /\ \A e : j \notin DOMAIN b.escrows /\ b2.escrows = Put(b.escrows, j, e) =>
                  TokensOut(b2) - b2.burstPot = TokensOut(b) - b.burstPot + e.BurstResv
         /\ j \in DOMAIN b.escrows /\ b2.escrows = Drop(b.escrows, j) =>
              TokensOut(b2) - b2.burstPot =
                TokensOut(b) - b.burstPot - b.escrows[j].BurstResv
<1> DEFINE f == JobTokens(b)
           g == JobTokens(b2)
           m == Total(TaskTokens(b))
<1>1. /\ Family(f) /\ Family(g) /\ Total(f) \in Nat /\ Total(g) \in Nat
      /\ TokensOut(b) = b.burstPot + Total(f) + m
      /\ TokensOut(b2) = b2.burstPot + Total(g) + m
      /\ m \in Nat
  <2>1. TaskTokens(b2) = TaskTokens(b)
    BY DEF TaskTokens, RunningTasks
  <2> QED
    BY <2>1, TokenFamilies
<1>2. /\ DOMAIN f = DOMAIN b.escrows /\ DOMAIN g = DOMAIN b2.escrows
      /\ \A x \in DOMAIN b.escrows : f[x] = b.escrows[x].BurstResv
      /\ \A x \in DOMAIN b2.escrows : g[x] = b2.escrows[x].BurstResv
  BY DEF JobTokens
<1>3. /\ \A x \in DOMAIN f : f[x] \in Nat
      /\ \A x \in DOMAIN g : g[x] \in Nat
  BY <1>1 DEF Family
<1>4. /\ b.escrows = [x \in DOMAIN b.escrows |-> b.escrows[x]]
      /\ b.burstPot \in Int /\ b2.burstPot \in Int
  BY DEF Books, Typed
<1> HIDE DEF f, g, m
<1>5. ASSUME j \in DOMAIN b.escrows, NEW e,
             b2.escrows = [b.escrows EXCEPT ![j] = e]
      PROVE  TokensOut(b2) - b2.burstPot =
               TokensOut(b) - b.burstPot - b.escrows[j].BurstResv + e.BurstResv
  <2>1. /\ j \in DOMAIN f /\ DOMAIN g = DOMAIN f
        /\ f[j] = b.escrows[j].BurstResv /\ g[j] = e.BurstResv
        /\ \A x \in DOMAIN f \ {j} : g[x] = f[x]
    BY <1>2, <1>4, <1>5
  <2>2. f[j] \in Nat /\ g[j] \in Nat
    BY <1>3, <2>1
  <2>3. Total(g) = Total(f) - f[j] + g[j]
    BY <1>1, <2>1, <2>2, TotalUpdate
  <2> QED
    BY <1>1, <1>4, <2>1, <2>2, <2>3
<1>6. ASSUME j \notin DOMAIN b.escrows, NEW e,
             b2.escrows = Put(b.escrows, j, e)
      PROVE  TokensOut(b2) - b2.burstPot = TokensOut(b) - b.burstPot + e.BurstResv
  <2>1. /\ j \in DOMAIN g /\ DOMAIN f = DOMAIN g \ {j}
        /\ g[j] = e.BurstResv
        /\ \A x \in DOMAIN f : f[x] = g[x]
    BY <1>2, <1>6 DEF Put
  <2>2. g[j] \in Nat
    BY <1>3, <2>1
  <2>3. Total(g) = Total(f) + g[j]
    BY <1>1, <2>1, TotalSplit
  <2> QED
    BY <1>1, <1>4, <2>1, <2>2, <2>3
<1>7. ASSUME j \in DOMAIN b.escrows, b2.escrows = Drop(b.escrows, j)
      PROVE  TokensOut(b2) - b2.burstPot =
               TokensOut(b) - b.burstPot - b.escrows[j].BurstResv
  <2>1. /\ j \in DOMAIN f /\ DOMAIN g = DOMAIN f \ {j}
        /\ f[j] = b.escrows[j].BurstResv
        /\ \A x \in DOMAIN g : g[x] = f[x]
    BY <1>2, <1>7 DEF Drop, Restrict
  <2>2. f[j] \in Nat
    BY <1>3, <2>1
  <2>3. Total(f) = Total(g) + f[j]
    BY <1>1, <2>1, TotalSplit
  <2> QED
    BY <1>1, <1>4, <2>1, <2>2, <2>3
<1> QED
  BY <1>5, <1>6, <1>7

(* One task joins or leaves the running.                                   *)
LEMMA TaskTokenMoves ==
  ASSUME NEW b, NEW b2, Books(b), Books(b2), ResvNat(b), ResvNat(b2),
         b2.escrows = b.escrows, NEW x
  PROVE  /\ /\ x \in RunningTasks(b2) /\ RunningTasks(b) = RunningTasks(b2) \ {x}
            /\ \A z \in RunningTasks(b) : TaskTokens(b2)[z] = TaskTokens(b)[z]
            => TokensOut(b2) - b2.burstPot =
                 TokensOut(b) - b.burstPot + TaskTokens(b2)[x]
         /\ /\ x \in RunningTasks(b) /\ RunningTasks(b2) = RunningTasks(b) \ {x}
            /\ \A z \in RunningTasks(b2) : TaskTokens(b2)[z] = TaskTokens(b)[z]
            => TokensOut(b2) - b2.burstPot =
                 TokensOut(b) - b.burstPot - TaskTokens(b)[x]
         /\ /\ RunningTasks(b2) = RunningTasks(b)
            /\ \A z \in RunningTasks(b) : TaskTokens(b2)[z] = TaskTokens(b)[z]
            => TokensOut(b2) - b2.burstPot = TokensOut(b) - b.burstPot
<1> DEFINE f == TaskTokens(b)
           g == TaskTokens(b2)
           m == Total(JobTokens(b))
<1>1. /\ Family(f) /\ Family(g) /\ Total(f) \in Nat /\ Total(g) \in Nat
      /\ TokensOut(b) = b.burstPot + m + Total(f)
      /\ TokensOut(b2) = b2.burstPot + m + Total(g)
      /\ m \in Nat
  <2>1. JobTokens(b2) = JobTokens(b)
    BY DEF JobTokens
  <2> QED
    BY <2>1, TokenFamilies
<1>2. DOMAIN f = RunningTasks(b) /\ DOMAIN g = RunningTasks(b2)
  BY DEF TaskTokens
<1>3. /\ \A z \in DOMAIN f : f[z] \in Nat
      /\ \A z \in DOMAIN g : g[z] \in Nat
  BY <1>1 DEF Family
<1>4. b.burstPot \in Int /\ b2.burstPot \in Int
  BY DEF Books, Typed
<1> HIDE DEF f, g, m
<1>5. ASSUME x \in DOMAIN g, DOMAIN f = DOMAIN g \ {x}, \A z \in DOMAIN f : g[z] = f[z]
      PROVE  TokensOut(b2) - b2.burstPot = TokensOut(b) - b.burstPot + g[x]
  <2>1. g[x] \in Nat
    BY <1>3, <1>5
  <2>2. Total(g) = Total(f) + g[x]
    BY <1>1, <1>5, TotalSplit
  <2> QED
    BY <1>1, <1>4, <2>1, <2>2
<1>6. ASSUME x \in DOMAIN f, DOMAIN g = DOMAIN f \ {x}, \A z \in DOMAIN g : g[z] = f[z]
      PROVE  TokensOut(b2) - b2.burstPot = TokensOut(b) - b.burstPot - f[x]
  <2>1. f[x] \in Nat
    BY <1>3, <1>6
  <2>2. Total(f) = Total(g) + f[x]
    BY <1>1, <1>6, TotalSplit
  <2> QED
    BY <1>1, <1>4, <2>1, <2>2
<1>7. ASSUME DOMAIN g = DOMAIN f, \A z \in DOMAIN f : g[z] = f[z]
      PROVE  TokensOut(b2) - b2.burstPot = TokensOut(b) - b.burstPot
  <2>1. Total(f) = Total(g)
    BY <1>7, TotalSame
  <2> QED
    BY <1>1, <1>4, <2>1
<1> QED
  BY <1>2, <1>5, <1>6, <1>7 DEF f, g

(* The tokens out, scaled by the window, with the remainder.               *)
Holding(b) == TokensOut(b) * window(b) + b.fracAcc

(* The inductive invariant.  Unlike PermissionEarned it does not ask that  *)
(* burst be on, which carries it through a SetBurst that turns it on again.*)
Earned(b) ==
  /\ ResvNat(b)
  /\ b.burstPot >= 0 /\ b.rLive >= 0 /\ b.B0 <= MaxB0
  /\ b.fracAcc \in 0 .. (window(b) - 1)
  /\ Holding(b) <= MaxB0 * (b.lastTouch - b.TS)

(* The ceiling is not negative.                                            *)
LEMMA CeilingNat ==
  ASSUME NEW b, Books(b)
  PROVE  burstCeiling(b) \in Nat /\ b.B0 \in Nat
<1>1. b.B0 \in Nat
  BY DEF Books, Typed, Conserved, NoneNegative
<1>2. b.BurstCeilingPct \in Nat
  BY PctDenAssumption DEF Books, Typed
<1>3. b.BurstCeilingPct * b.B0 \in Nat
  BY <1>1, <1>2
<1>4. burstCeiling(b) \in Nat
  BY <1>3, DivNat, PctDenAssumption DEF burstCeiling
<1> QED
  BY <1>1, <1>4

(* A step that leaves the window and lets no token out.                    *)
Thrifty(b, b2) ==
  /\ b2.TS = b.TS /\ b2.TE = b.TE
  /\ b2.lastTouch >= b.lastTouch
  /\ b2.fracAcc = b.fracAcc \/ b2.fracAcc = 0
  /\ TokensOut(b2) <= TokensOut(b)

(* Such a step keeps what was earned enough.                               *)
LEMMA ThriftyEarned ==
  ASSUME NEW b, NEW b2, Books(b), Books(b2), Earned(b), Thrifty(b, b2),
         ResvNat(b2), b2.burstPot >= 0, b2.rLive >= 0, b2.B0 <= MaxB0
  PROVE  Earned(b2)
<1>1. /\ window(b2) = window(b) /\ window(b) \in Nat \ {0}
      /\ b.lastTouch \in Int /\ b2.lastTouch \in Int /\ b.TS \in Int /\ MaxB0 \in Nat
      /\ b.fracAcc \in Int /\ b.burstPot \in Int /\ b2.burstPot \in Int
  BY WindowType, InputAssumption DEF Books, Typed, Thrifty, window
<1>2. b.fracAcc \in 0 .. (window(b) - 1)
  BY DEF Earned
<1>3. TokensOut(b) \in Int /\ TokensOut(b2) \in Int
  <2>1. /\ Total(JobTokens(b)) \in Nat /\ Total(TaskTokens(b)) \in Nat
        /\ TokensOut(b) = b.burstPot + Total(JobTokens(b)) + Total(TaskTokens(b))
    BY TokenFamilies DEF Earned
  <2>2. /\ Total(JobTokens(b2)) \in Nat /\ Total(TaskTokens(b2)) \in Nat
        /\ TokensOut(b2) = b2.burstPot + Total(JobTokens(b2)) + Total(TaskTokens(b2))
    BY TokenFamilies
  <2> QED
    BY <1>1, <2>1, <2>2
<1>4. b2.fracAcc \in 0 .. (window(b) - 1) /\ b2.fracAcc <= b.fracAcc
  BY <1>1, <1>2 DEF Thrifty
<1>5. TokensOut(b2) * window(b) <= TokensOut(b) * window(b)
  <2>1. ASSUME NEW x \in Int, NEW y \in Int, x <= y, NEW t \in Nat
        PROVE  x * t <= y * t
    <3>1. y * t = x * t + (y - x) * t /\ (y - x) * t >= 0
      BY <2>1
    <3> QED
      BY <2>1, <3>1
  <2>2. TokensOut(b2) <= TokensOut(b)
    BY DEF Thrifty
  <2> QED
    BY <1>1, <1>3, <2>1, <2>2
<1>6. MaxB0 * (b.lastTouch - b.TS) <= MaxB0 * (b2.lastTouch - b.TS)
  <2>1. ASSUME NEW x \in Int, NEW y \in Int, x <= y, NEW t \in Nat
        PROVE  t * x <= t * y
    <3>1. t * y = t * x + t * (y - x) /\ t * (y - x) >= 0
      BY <2>1
    <3> QED
      BY <2>1, <3>1
  <2>2. b.lastTouch - b.TS <= b2.lastTouch - b.TS
    BY <1>1 DEF Thrifty
  <2> QED
    BY <1>1, <2>1, <2>2
<1>7. /\ TokensOut(b2) * window(b) \in Int /\ TokensOut(b) * window(b) \in Int
      /\ MaxB0 * (b.lastTouch - b.TS) \in Int /\ MaxB0 * (b2.lastTouch - b.TS) \in Int
  BY <1>1, <1>3
<1>8. TokensOut(b) * window(b) + b.fracAcc <= MaxB0 * (b.lastTouch - b.TS)
  BY DEF Earned, Holding
<1>9. Holding(b2) <= MaxB0 * (b2.lastTouch - b2.TS)
  BY <1>1, <1>4, <1>5, <1>6, <1>7, <1>8 DEF Holding, Thrifty
<1> QED
  BY <1>1, <1>4, <1>9 DEF Earned

(* Accrual banks at most MaxB0 / T a second.                               *)
LEMMA BankedAtPace ==
  ASSUME NEW T \in Nat \ {0}, NEW pot \in Nat, NEW rest \in Nat, NEW frac \in 0 .. (T - 1),
         NEW u \in Nat, NEW m \in Nat, u <= m, NEW dt \in Nat, NEW ceil \in Nat,
         NEW cap \in Int, (pot + rest) * T + frac <= cap
  PROVE  LET acc  == frac + u * dt
             new  == pot + acc \div T
             full == new >= ceil
             p2   == IF full THEN ceil ELSE new
             f2   == IF full THEN 0 ELSE acc % T
         IN  /\ p2 \in Nat /\ f2 \in 0 .. (T - 1)
             /\ (p2 + rest) * T + f2 <= cap + m * dt
<1> DEFINE acc  == frac + u * dt
           new  == pot + acc \div T
           full == new >= ceil
           p2   == IF full THEN ceil ELSE new
           f2   == IF full THEN 0 ELSE acc % T
<1>1. u * dt \in Nat /\ m * dt \in Nat /\ u * dt <= m * dt
  <2>1. m * dt = u * dt + (m - u) * dt /\ (m - u) * dt >= 0
    OBVIOUS
  <2> QED
    BY <2>1
<1>2. acc \in Nat
  BY <1>1
<1> HIDE DEF acc
<1>3. acc = T * (acc \div T) + (acc % T) /\ acc % T \in 0 .. (T - 1) /\ acc \div T \in Nat
  <2>1. acc \in Int
    BY <1>2
  <2>2. acc = T * (acc \div T) + (acc % T) /\ acc % T \in 0 .. (T - 1)
    BY <2>1, DivMod, Zenon
  <2>3. acc \div T \in Nat
    BY <1>2, DivNat, Zenon
  <2> QED
    BY <2>2, <2>3
<1>4. PICK q \in Nat : q = acc \div T
  BY <1>3
<1>5. PICK s \in 0 .. (T - 1) : s = acc % T
  BY <1>3
<1>6. p2 \in Nat /\ f2 \in 0 .. (T - 1) /\ p2 <= pot + q /\ f2 <= s
  BY <1>4, <1>5
<1>7. acc = T * q + s
  BY <1>3, <1>4, <1>5
<1> HIDE DEF p2, f2
<1>8. (p2 + rest) * T <= (pot + rest) * T + q * T
  <2>1. (pot + rest) * T + q * T = (p2 + rest) * T + (pot + q - p2) * T
    BY <1>6
  <2>2. (pot + q - p2) * T >= 0
    BY <1>6
  <2>3. (p2 + rest) * T \in Int /\ (pot + q - p2) * T \in Int
    BY <1>6
  <2> QED
    BY <2>1, <2>2, <2>3
<1>9. q * T = T * q /\ q * T \in Int /\ (p2 + rest) * T \in Int /\ (pot + rest) * T \in Int
  BY <1>6
<1>10. (p2 + rest) * T + f2 <= (pot + rest) * T + acc
  BY <1>5, <1>6, <1>7, <1>8, <1>9
<1>11. acc = frac + u * dt
  BY DEF acc
<1>12. (p2 + rest) * T + f2 <= cap + m * dt
  BY <1>1, <1>6, <1>9, <1>10, <1>11
<1> QED
  BY <1>6, <1>12 DEF p2, f2, acc

(* So accrual earns what it banks.                                         *)
LEMMA AccrueEarns ==
  ASSUME NEW b, Books(b), Earned(b), NEW now \in Int, b.lastTouch <= now
  PROVE  LET a == accrue(b, now)
         IN  Books(a) /\ Earned(a) /\ a.lastTouch <= now
<1> DEFINE a == accrue(b, now)
<1>1. /\ Typed(b) /\ Typed(a) /\ SameRecords(b, a) /\ Books(a)
  BY AccrueFrame, SameBooks DEF Books
<1>2. /\ a.B0 = b.B0 /\ a.rLive = b.rLive /\ a.TS = b.TS /\ a.TE = b.TE
  BY <1>1, AccruePace
<1>3. ResvNat(a)
  BY <1>1 DEF SameRecords, ResvNat, Earned
<1>4. "lastTouch" \in DOMAIN b
  BY <1>1 DEF Typed
<1>5. a.lastTouch \in {b.lastTouch, now}
  BY <1>4, BucketTouches DEF Touches
<1>6. a.lastTouch <= now
  BY <1>1, <1>5 DEF Typed
<1> DEFINE rest == Total(JobTokens(b)) + Total(TaskTokens(b))
<1>7. /\ TokensOut(b) = b.burstPot + rest /\ TokensOut(a) = a.burstPot + rest
      /\ rest \in Nat
  <2>1. JobTokens(a) = JobTokens(b) /\ TaskTokens(a) = TaskTokens(b)
    BY <1>1 DEF SameRecords, JobTokens, TaskTokens, RunningTasks
  <2>2. b.burstPot \in Int /\ a.burstPot \in Int
    BY <1>1 DEF Typed
  <2>3. /\ Total(JobTokens(b)) \in Nat /\ Total(TaskTokens(b)) \in Nat
        /\ TokensOut(b) = b.burstPot + Total(JobTokens(b)) + Total(TaskTokens(b))
    BY TokenFamilies DEF Earned
  <2>4. TokensOut(a) = a.burstPot + Total(JobTokens(a)) + Total(TaskTokens(a))
    BY <1>1, <1>3, TokenFamilies
  <2> QED
    BY <2>1, <2>2, <2>3, <2>4
<1> HIDE DEF rest
<1> DEFINE T == window(b)
           u == b.B0 - b.rLive * T
           dt == now - b.lastTouch
           acc == b.fracAcc + u * dt
           full == b.burstPot + acc \div T >= burstCeiling(b)
           p == IF full THEN burstCeiling(b) ELSE b.burstPot + acc \div T
           f == IF full THEN 0 ELSE acc % T
<1>8. \/ a.burstPot = b.burstPot /\ a.fracAcc = b.fracAcc
      \/ /\ ~(dt <= 0 \/ u <= 0) /\ a.lastTouch = now
         /\ a.burstPot = p /\ a.fracAcc = f
  BY <1>1, Zenon DEF accrue, Typed
<1> HIDE DEF a
<1>9. CASE a.burstPot = b.burstPot /\ a.fracAcc = b.fracAcc
  <2>1. a.lastTouch >= b.lastTouch
    BY <1>1, <1>5 DEF Typed
  <2>2. TokensOut(a) <= TokensOut(b)
    BY <1>1, <1>7, <1>9 DEF Typed
  <2>3. Thrifty(b, a)
    BY <1>2, <1>9, <2>1, <2>2 DEF Thrifty
  <2>4. a.burstPot >= 0 /\ a.rLive >= 0 /\ a.B0 <= MaxB0
    BY <1>2, <1>9 DEF Earned
  <2>5. Earned(a)
    BY <1>1, <1>3, <2>3, <2>4, ThriftyEarned
  <2> QED
    BY <1>1, <1>6, <2>5 DEF a
<1>10. CASE /\ ~(dt <= 0 \/ u <= 0) /\ a.lastTouch = now
            /\ a.burstPot = p /\ a.fracAcc = f
  <2>1. /\ T \in Nat \ {0} /\ b.lastTouch \in Int /\ b.TS \in Int /\ MaxB0 \in Nat
        /\ b.burstPot \in Nat /\ b.fracAcc \in 0 .. (T - 1) /\ b.rLive \in Nat
        /\ b.B0 \in Nat /\ b.B0 <= MaxB0
    BY <1>1, WindowType, CeilingNat, InputAssumption DEF Typed, Earned
  <2>2. burstCeiling(b) \in Nat
    BY CeilingNat
  <2> HIDE DEF T
  <2>3. b.rLive * T \in Nat
    BY <2>1
  <2>4. u \in Nat /\ u <= MaxB0 /\ dt \in Nat
    BY <1>10, <2>1, <2>3
  <2>5. PICK cap \in Int : cap = MaxB0 * (b.lastTouch - b.TS)
    BY <2>1
  <2>6. (b.burstPot + rest) * T + b.fracAcc <= cap
    BY <1>7, <2>5 DEF Earned, Holding, T
  <2> HIDE DEF u, dt
  <2>7. /\ p \in Nat /\ f \in 0 .. (T - 1)
        /\ (p + rest) * T + f <= cap + MaxB0 * dt
    BY <1>7, <2>1, <2>2, <2>4, <2>6, BankedAtPace, Zenon
  <2> HIDE DEF p, f
  <2>8. cap + MaxB0 * dt = MaxB0 * (now - b.TS)
    BY <2>1, <2>5 DEF dt
  <2>9. window(a) = T
    BY <1>2 DEF window, T
  <2>10. Holding(a) <= MaxB0 * (a.lastTouch - a.TS)
    BY <1>2, <1>7, <1>10, <2>7, <2>8, <2>9 DEF Holding
  <2>11. Earned(a)
    BY <1>2, <1>3, <1>10, <2>1, <2>7, <2>9, <2>10 DEF Earned
  <2> QED
    BY <1>1, <1>6, <2>11 DEF a
<1> QED
  BY <1>8, <1>9, <1>10

(* A step that leaves the bucket, its clock and the window.                *)
SameBucket(b, b2) ==
  /\ b2.burstPot = b.burstPot /\ b2.fracAcc = b.fracAcc /\ b2.rLive = b.rLive
  /\ b2.lastTouch = b.lastTouch /\ b2.TS = b.TS /\ b2.TE = b.TE

(* The tokens out are a number.                                            *)
LEMMA TokensType ==
  ASSUME NEW b, Books(b), ResvNat(b)
  PROVE  TokensOut(b) \in Int /\ b.burstPot \in Int
<1>1. b.burstPot \in Int
  BY DEF Books, Typed
<1>2. /\ Total(JobTokens(b)) \in Nat /\ Total(TaskTokens(b)) \in Nat
      /\ TokensOut(b) = b.burstPot + Total(JobTokens(b)) + Total(TaskTokens(b))
  BY TokenFamilies
<1> QED
  BY <1>1, <1>2

(* Where nothing is written in either family the tokens out of the pot     *)
(* stand still.                                                            *)
LEMMA SameTokens ==
  ASSUME NEW b, NEW b2, Books(b), Books(b2), ResvNat(b), ResvNat(b2),
         b2.escrows = b.escrows, b2.arrays = b.arrays
  PROVE  TokensOut(b2) - b2.burstPot = TokensOut(b) - b.burstPot
<1>1. JobTokens(b2) = JobTokens(b) /\ TaskTokens(b2) = TaskTokens(b)
  BY DEF JobTokens, TaskTokens, RunningTasks
<1>2. /\ Total(JobTokens(b)) \in Nat /\ Total(TaskTokens(b)) \in Nat
      /\ TokensOut(b) = b.burstPot + Total(JobTokens(b)) + Total(TaskTokens(b))
  BY TokenFamilies
<1>3. TokensOut(b2) = b2.burstPot + Total(JobTokens(b2)) + Total(TaskTokens(b2))
  BY TokenFamilies
<1>4. b.burstPot \in Int /\ b2.burstPot \in Int
  BY TokensType
<1>5. PICK m \in Nat, n \in Nat : m = Total(JobTokens(b)) /\ n = Total(TaskTokens(b))
  BY <1>2
<1>6. TokensOut(b) = b.burstPot + m + n /\ TokensOut(b2) = b2.burstPot + m + n
  BY <1>1, <1>2, <1>3, <1>5
<1> QED
  BY <1>4, <1>6

(* A step that leaves the bucket and the reservations.                     *)
LEMMA BucketEarned ==
  ASSUME NEW b, NEW b2, Books(b), Books(b2), Earned(b), SameBucket(b, b2),
         ResvNat(b2), b2.B0 <= MaxB0,
         TokensOut(b2) - b2.burstPot <= TokensOut(b) - b.burstPot
  PROVE  Earned(b2)
<1>1. /\ TokensOut(b) \in Int /\ TokensOut(b2) \in Int /\ b.burstPot \in Int
      /\ b2.burstPot = b.burstPot
  BY TokensType DEF Earned, SameBucket
<1>2. TokensOut(b2) <= TokensOut(b)
  BY <1>1
<1>3. b2.lastTouch >= b.lastTouch
  BY DEF SameBucket, Books, Typed
<1>4. Thrifty(b, b2)
  BY <1>2, <1>3 DEF Thrifty, SameBucket
<1>5. b2.burstPot >= 0 /\ b2.rLive >= 0
  BY DEF Earned, SameBucket
<1> QED
  BY <1>4, <1>5, ThriftyEarned

(* Nor does one that leaves the escrows alone.                             *)
LEMMA QuietEarned ==
  ASSUME NEW b, NEW b2, Books(b), Books(b2), Earned(b), SameBucket(b, b2),
         b2.escrows = b.escrows, b2.arrays = b.arrays, b2.B0 <= MaxB0
  PROVE  Earned(b2)
<1>1. ResvNat(b2) /\ ResvNat(b)
  BY DEF Earned, ResvNat
<1>2. /\ TokensOut(b) - b.burstPot = TokensOut(b2) - b2.burstPot
      /\ TokensOut(b2) \in Int /\ b2.burstPot \in Int
  <2>1. TokensOut(b2) - b2.burstPot = TokensOut(b) - b.burstPot
    BY <1>1, SameTokens
  <2>2. TokensOut(b2) \in Int /\ b2.burstPot \in Int
    BY <1>1, TokensType
  <2> QED
    BY <2>1, <2>2
<1> QED
  BY <1>1, <1>2, BucketEarned

(* A gate reserves money and no tokens.                                    *)
LEMMA SubmitEarns ==
  ASSUME NEW b, Books(b), Earned(b), NEW j \in JobIDs, NEW c \in Int, NEW w \in Nat,
         NEW now \in Int, NEW wal \in BOOLEAN
  PROVE  Earned(SubmitAt(b, j, c, w, now, wal).bd)
<1> DEFINE b2 == SubmitAt(b, j, c, w, now, wal).bd
           e == [C |-> RateOrFlat(b, c), Reserved |-> RateOrFlat(b, c) * w,
                 W |-> w, Started |-> FALSE, BurstResv |-> 0, Submitted |-> now]
           on == [b EXCEPT !.B = @ - RateOrFlat(b, c) * w,
                           !.ReservedTotal = @ + RateOrFlat(b, c) * w,
                           !.escrows = Put(@, j, e)]
<1>1. Books(b2) /\ Typed(b)
  BY SubmitBooks DEF Kept, Books
<1>2. b2 = b \/ (b2 = on /\ j \notin DOMAIN b.escrows)
  BY DEF SubmitAt, logCmd, Rejected
<1>3. e.BurstResv = 0
  OBVIOUS
<1> HIDE DEF e, b2
<1>4. ASSUME b2 = on, j \notin DOMAIN b.escrows PROVE Earned(b2)
  <2>1. /\ b2.escrows = Put(b.escrows, j, e) /\ b2.arrays = b.arrays
        /\ SameBucket(b, b2) /\ b2.B0 = b.B0
    BY <1>1, <1>4 DEF Typed, SameBucket
  <2>2. ResvNat(b) /\ b2.B0 <= MaxB0
    BY <2>1 DEF Earned
  <2>3. ResvNat(b2)
    BY <1>3, <2>1, <2>2 DEF ResvNat, Put
  <2>4. \A x : j \notin DOMAIN b.escrows /\ b2.escrows = Put(b.escrows, j, x) =>
               TokensOut(b2) - b2.burstPot = TokensOut(b) - b.burstPot + x.BurstResv
    BY <1>1, <2>1, <2>2, <2>3, JobTokenMoves
  <2>5. TokensOut(b2) - b2.burstPot = TokensOut(b) - b.burstPot + e.BurstResv
    BY <1>4, <2>1, <2>4
  <2>6. TokensOut(b2) - b2.burstPot <= TokensOut(b) - b.burstPot
    BY <1>1, <1>3, <2>2, <2>3, <2>5, TokensType
  <2> QED
    BY <1>1, <2>1, <2>2, <2>3, <2>6, BucketEarned
<1> QED
  BY <1>2, <1>4 DEF b2

(* A repricing lowers a hold and keeps its tokens.                         *)
LEMMA RepriceEarns ==
  ASSUME NEW b, Books(b), Earned(b), NEW j, NEW c \in Int,
         NEW now \in Int, NEW wal \in BOOLEAN
  PROVE  Earned(Reprice(b, j, c, now, wal).bd)
<1> DEFINE b2 == Reprice(b, j, c, now, wal).bd
           e == b.escrows[j]
           delta == (e.C - c) * e.W
           e2 == [e EXCEPT !.C = c, !.Reserved = @ - delta]
           on == [b EXCEPT !.escrows[j].C = c, !.escrows[j].Reserved = @ - delta,
                           !.ReservedTotal = @ - delta, !.B = @ + delta]
<1>1. Books(b2) /\ Typed(b)
  BY RepriceBooks DEF Kept, Books
<1>2. \/ b2 = b
      \/ b2 = on /\ j \in DOMAIN b.escrows
  BY DEF Reprice, logCmd, Rejected
<1> HIDE DEF b2
<1>3. ASSUME b2 = on, j \in DOMAIN b.escrows
      PROVE  Earned(b2)
  <2>1. e \in Escrow /\ b.escrows \in [DOMAIN b.escrows -> Escrow]
    BY <1>1, <1>3 DEF Typed
  <2>2. e2.BurstResv = e.BurstResv /\ e.BurstResv \in Int
    BY <2>1 DEF Escrow
  <2>3. b2.escrows = [b.escrows EXCEPT ![j] = e2]
    <3>1. b2.escrows = [b.escrows EXCEPT ![j].C = c, ![j].Reserved = @ - delta]
      BY <1>1, <1>3 DEF Typed
    <3> QED
      BY <1>3, <2>1, <3>1
  <2>4. b2.arrays = b.arrays /\ SameBucket(b, b2) /\ b2.B0 = b.B0
    BY <1>1, <1>3 DEF Typed, SameBucket
  <2>5. ResvNat(b) /\ b2.B0 <= MaxB0 /\ j \in DOMAIN b.escrows
    BY <1>3, <2>4 DEF Earned
  <2> HIDE DEF e2
  <2>6. ResvNat(b2)
    BY <2>1, <2>2, <2>3, <2>4, <2>5 DEF ResvNat
  <2>7. \A x : j \in DOMAIN b.escrows /\ b2.escrows = [b.escrows EXCEPT ![j] = x] =>
               TokensOut(b2) - b2.burstPot =
                 TokensOut(b) - b.burstPot - b.escrows[j].BurstResv + x.BurstResv
    BY <1>1, <2>4, <2>5, <2>6, JobTokenMoves
  <2>8. TokensOut(b2) - b2.burstPot =
          TokensOut(b) - b.burstPot - e.BurstResv + e2.BurstResv
    BY <2>3, <2>5, <2>7
  <2>9. TokensOut(b2) - b2.burstPot <= TokensOut(b) - b.burstPot
    <3>1. TokensOut(b) \in Int /\ b.burstPot \in Int
      BY <2>5, TokensType
    <3> HIDE DEF e
    <3> QED
      BY <2>2, <2>8, <3>1
  <2> QED
    BY <1>1, <2>4, <2>5, <2>6, <2>9, BucketEarned
<1> QED
  BY <1>2, <1>3 DEF b2

(* Dispatch moves tokens out of the pot into the job, and only what the    *)
(* pot has.                                                                *)
LEMMA StartEarns ==
  ASSUME NEW b, Books(b), Earned(b), NEW j, NEW now \in Int, b.lastTouch <= now,
         NEW wal \in BOOLEAN
  PROVE  Earned(Start(b, j, now, wal).bd)
<1> DEFINE e == b.escrows[j]
           b1 == accrue(b, now)
           resv == BurstResvFor(b1, e.C, e.W)
           burning == Burning(b1, e.C)
           e2 == [e EXCEPT !.Started = TRUE, !.BurstResv = resv]
           on == [burning EXCEPT !.burstPot = @ - resv,
                                 !.escrows[j].Started = TRUE,
                                 !.escrows[j].BurstResv = resv]
           b2 == Start(b, j, now, wal).bd
<1>1. Books(b2) /\ Typed(b)
  BY StartBooks DEF Kept, Books
<1>2. /\ Typed(b1) /\ SameRecords(b, b1) /\ Books(b1) /\ Earned(b1)
  BY <1>1, AccrueFrame, AccrueEarns
<1>3. \/ b2 = b \/ b2 = b1
      \/ /\ j \in DOMAIN b.escrows /\ BurstGate(b1, resv)
         /\ b2 = burning \/ b2 = on
  BY DEF Start, logCmd, Rejected
<1> HIDE DEF b2, b1
<1>4. ASSUME j \in DOMAIN b.escrows, BurstGate(b1, resv), b2 = burning \/ b2 = on
      PROVE  Earned(b2)
  <2>1. e \in Escrow /\ b.escrows \in [DOMAIN b.escrows -> Escrow] /\ e.C \in Nat
        /\ e.W \in Nat /\ e.BurstResv \in Int
    BY <1>1, <1>4 DEF Typed, Escrow
  <2>2. Typed(burning) /\ SameRecords(b1, burning)
    BY <1>2, <2>1, BurningFrame
  <2>3. /\ burning.TS = b1.TS /\ burning.TE = b1.TE /\ burning.lastTouch = b1.lastTouch
        /\ burning.burstPot = b1.burstPot /\ burning.fracAcc = b1.fracAcc
        /\ burning.B0 = b1.B0 /\ burning.rLive >= 0
    <3>1. b1.rLive >= 0 /\ b1.rLive \in Int
      BY <1>2 DEF Earned, Typed
    <3> QED
      BY <1>2, <2>1, <3>1 DEF Burning, Typed
  <2>4. burning.escrows = b.escrows /\ burning.arrays = b.arrays
    BY <1>2, <2>2 DEF SameRecords
  <2>4a. Books(burning) /\ b1.escrows = b.escrows /\ b1.arrays = b.arrays
    BY <1>2, <2>2, SameBooks DEF SameRecords
  <2>5. resv \in Nat
    BY <1>2, <2>1, ReserveNat
  <2>6. resv <= b1.burstPot /\ b1.burstPot \in Int /\ b1.burstPot >= 0
    BY <1>2, <1>4, <2>5 DEF BurstGate, Earned, Typed
  <2>7. ResvNat(b1) /\ b1.B0 <= MaxB0
    BY <1>2 DEF Earned
  <2> HIDE DEF burning, resv
  <2>8. Earned(burning)
    <3>1. ResvNat(burning)
      BY <2>4, <2>4a, <2>7 DEF ResvNat
    <3>2. TokensOut(burning) - burning.burstPot = TokensOut(b1) - b1.burstPot
      BY <1>2, <2>4, <2>4a, <2>7, <3>1, SameTokens
    <3>3. /\ TokensOut(burning) \in Int /\ TokensOut(b1) \in Int
          /\ burning.burstPot \in Int /\ b1.burstPot \in Int
      BY <1>2, <2>4a, <2>7, <3>1, TokensType
    <3>4. TokensOut(burning) <= TokensOut(b1)
      BY <2>3, <3>2, <3>3
    <3>5. burning.lastTouch >= b1.lastTouch
      BY <1>2, <2>3 DEF Typed
    <3>6. Thrifty(b1, burning)
      BY <2>3, <3>4, <3>5 DEF Thrifty
    <3>7. burning.burstPot >= 0 /\ burning.rLive >= 0 /\ burning.B0 <= MaxB0
      BY <2>3, <2>6, <2>7
    <3> QED
      BY <1>2, <2>4a, <3>1, <3>6, <3>7, ThriftyEarned
  <2>9. ASSUME b2 = on PROVE Earned(b2)
    <3>1. /\ b2.escrows = [b.escrows EXCEPT ![j].Started = TRUE, ![j].BurstResv = resv]
          /\ b2.arrays = b.arrays /\ b2.burstPot = burning.burstPot - resv
          /\ b2.TS = burning.TS /\ b2.TE = burning.TE /\ b2.B0 = burning.B0
          /\ b2.lastTouch = burning.lastTouch /\ b2.fracAcc = burning.fracAcc
          /\ b2.rLive = burning.rLive
      BY <2>2, <2>4, <2>9 DEF Typed
    <3>2. b2.escrows = [b.escrows EXCEPT ![j] = e2]
      BY <1>4, <2>1, <3>1
    <3>3. e2.BurstResv = resv
      BY <2>1 DEF Escrow
    <3> HIDE DEF e2
    <3>4. j \in DOMAIN b.escrows
      BY <1>4
    <3>5. ResvNat(b2)
      <4>1. ResvNat(b)
        BY DEF Earned
      <4> QED
        BY <2>1, <2>5, <3>1, <3>2, <3>3, <4>1 DEF ResvNat
    <3>6. \A x : j \in DOMAIN b1.escrows /\ b2.escrows = [b1.escrows EXCEPT ![j] = x] =>
                 TokensOut(b2) - b2.burstPot =
                   TokensOut(b1) - b1.burstPot - b1.escrows[j].BurstResv + x.BurstResv
      BY <1>1, <1>2, <2>4a, <2>7, <3>1, <3>5, JobTokenMoves
    <3>7. TokensOut(b2) - b2.burstPot =
            TokensOut(b1) - b1.burstPot - e.BurstResv + resv
      BY <2>4a, <3>2, <3>3, <3>4, <3>6
    <3>8. /\ TokensOut(b2) \in Int /\ TokensOut(b1) \in Int /\ b2.burstPot \in Int
      BY <1>1, <1>2, <2>7, <3>5, TokensType
    <3>9. e.BurstResv >= 0
      BY <1>4 DEF Earned, ResvNat
    <3>10. b2.burstPot = b1.burstPot - resv /\ b2.lastTouch >= b1.lastTouch
      BY <1>2, <2>3, <3>1 DEF Typed
    <3>11. TokensOut(b2) <= TokensOut(b1)
      <4> HIDE DEF e
      <4> QED
        BY <2>1, <2>5, <2>6, <3>7, <3>8, <3>9, <3>10
    <3>12. Thrifty(b1, b2)
      BY <2>3, <3>1, <3>10, <3>11 DEF Thrifty
    <3>13. b2.burstPot >= 0 /\ b2.rLive >= 0 /\ b2.B0 <= MaxB0
      BY <2>3, <2>5, <2>6, <2>7, <3>1, <3>10
    <3> QED
      BY <1>1, <1>2, <3>5, <3>12, <3>13, ThriftyEarned
  <2> QED
    BY <1>4, <2>8, <2>9
<1> QED
  BY <1>2, <1>3, <1>4 DEF b2

(* The tail a settlement returns is at most what its job had reserved.     *)
LEMMA TailReturned ==
  ASSUME NEW pot \in Nat, NEW resv \in Nat, NEW w \in Nat, NEW rt \in 0 .. w,
         NEW ceil \in Nat
  PROVE  LET new == pot + (resv * (w - rt)) \div w
             p == IF ~(resv > 0 /\ w > 0) THEN pot
                  ELSE IF new > ceil THEN ceil ELSE new
         IN  p \in Nat /\ p <= pot + resv
<1>1. CASE ~(w > 0)
  BY <1>1
<1>2. CASE w > 0
  <2>1. resv * (w - rt) \in Nat /\ resv * w = resv * (w - rt) + resv * rt
    <3>1. resv * w = resv * (w - rt) + resv * rt
      OBVIOUS
    <3>2. resv * (w - rt) >= 0
      OBVIOUS
    <3> QED
      BY <3>1, <3>2
  <2>2. PICK x \in Nat : x = resv * (w - rt)
    BY <2>1
  <2>3. resv * rt >= 0 /\ resv * rt \in Int
    OBVIOUS
  <2>4. x <= resv * w
    BY <2>1, <2>2, <2>3
  <2>5. x \in Int /\ w \in Nat \ {0}
    BY <1>2
  <2>6. x = w * (x \div w) + (x % w) /\ x % w \in 0 .. (w - 1) /\ x \div w \in Nat
    <3>1. x = w * (x \div w) + (x % w) /\ x % w \in 0 .. (w - 1)
      BY <2>5, DivMod, Zenon
    <3>2. x \div w \in Nat
      BY <2>5, DivNat, Zenon
    <3> QED
      BY <3>1, <3>2
  <2>7. PICK q \in Nat : q = x \div w
    BY <2>6
  <2>8. w * q <= x
    BY <2>6, <2>7
  <2>9. q <= resv
    <3>1. ASSUME q >= resv + 1 PROVE FALSE
      <4>1. w * q = w * resv + w + w * (q - resv - 1)
        OBVIOUS
      <4>2. w * (q - resv - 1) >= 0
        BY <3>1
      <4>3. w * resv = resv * w /\ w * resv \in Int /\ w * (q - resv - 1) \in Int
        OBVIOUS
      <4> QED
        BY <1>2, <2>4, <2>8, <4>1, <4>2, <4>3
    <3> QED
      BY <3>1
  <2> QED
    BY <2>2, <2>7, <2>9
<1> QED
  BY <1>1, <1>2

(* What a stop may do to the bucket.                                       *)
Returns(b, d, st, resv) ==
  /\ d.TS = b.TS /\ d.TE = b.TE /\ d.B0 = b.B0
  /\ d.lastTouch = b.lastTouch /\ d.fracAcc = b.fracAcc
  /\ d.burstPot \in Nat /\ d.burstPot <= b.burstPot + resv
  /\ ~st => d.burstPot = b.burstPot
  /\ d.rLive >= 0

(* Billing leaves the bucket; a stop returns at most the reservation, and  *)
(* nothing of a job that never ran.                                        *)
LEMMA StopReturns ==
  ASSUME NEW b, Books(b), b.burstPot >= 0, b.rLive >= 0, NEW held \in Int,
         NEW used \in Int, NEW off \in BOOLEAN, NEW c \in Nat, NEW w \in Nat,
         NEW rt \in 0 .. w, NEW st \in BOOLEAN, NEW resv \in Nat
  PROVE  Returns(b, StopBurning(Bill(b, held, used, off), c, w, st, resv, rt), st, resv)
<1> DEFINE p == Bill(b, held, used, off)
           d == StopBurning(p, c, w, st, resv, rt)
           pot == p.burstPot + (resv * (w - rt)) \div w
           pt == IF ~(resv > 0 /\ w > 0) THEN p.burstPot
                 ELSE IF pot > burstCeiling(p) THEN burstCeiling(p) ELSE pot
           rl == IF p.rLive < c THEN 0 ELSE p.rLive - c
<1>1. Typed(b)
  BY DEF Books
<1>2. /\ p.TS = b.TS /\ p.TE = b.TE /\ p.B0 = b.B0 /\ p.rLive = b.rLive
      /\ p.lastTouch = b.lastTouch /\ p.fracAcc = b.fracAcc /\ p.burstPot = b.burstPot
      /\ p.BurstCeilingPct = b.BurstCeilingPct
      /\ {"rLive", "burstPot"} \subseteq DOMAIN p
  BY <1>1 DEF Bill, Typed
<1>3. \/ d = p
      \/ st /\ d = [p EXCEPT !.rLive = rl, !.burstPot = pt]
  BY Zenon DEF StopBurning
<1> HIDE DEF d, p
<1>4. burstCeiling(p) = burstCeiling(b) /\ burstCeiling(b) \in Nat
  BY <1>2, CeilingNat DEF burstCeiling
<1>5. p.burstPot \in Nat /\ p.rLive \in Nat
  BY <1>1, <1>2 DEF Typed
<1>6. pt \in Nat /\ pt <= p.burstPot + resv
  BY <1>4, <1>5, TailReturned, Zenon
<1>7. rl \in Nat
  BY <1>5
<1> HIDE DEF pt, rl
<1>8. /\ d.TS = b.TS /\ d.TE = b.TE /\ d.B0 = b.B0
      /\ d.lastTouch = b.lastTouch /\ d.fracAcc = b.fracAcc
      /\ d.burstPot \in Nat /\ d.burstPot <= b.burstPot + resv
      /\ ~st => d.burstPot = b.burstPot
      /\ d.rLive >= 0
  <2>1. CASE d = p
    BY <1>2, <1>5, <2>1
  <2>2. CASE st /\ d = [p EXCEPT !.rLive = rl, !.burstPot = pt]
    BY <1>2, <1>6, <1>7, <2>2
  <2> QED
    BY <1>3, <2>1, <2>2
<1> QED
  BY <1>8 DEF d, p, Returns

(* What a settlement's runtime is clamped to.                              *)
LEMMA ClampWithin ==
  ASSUME NEW x \in Int, NEW w \in Nat
  PROVE  Clamp(x, w) \in 0 .. w
BY DEF Clamp

(* A settlement returns no more than its job had reserved.                 *)
LEMMA SettleEarns ==
  ASSUME NEW b, Books(b), Earned(b), NEW j \in DOMAIN b.escrows, NEW runtime \in Int,
         NEW writeOff \in BOOLEAN, NEW now \in Int, b.lastTouch <= now
  PROVE  Earned(settle(b, j, runtime, writeOff, now))
<1> DEFINE e == b.escrows[j]
           rt == Clamp(runtime, e.W)
           b1 == accrue(b, now)
           paid == Bill(b1, e.Reserved, e.C * rt, writeOff)
           done == StopBurning(paid, e.C, e.W, e.Started, e.BurstResv, rt)
           b2 == [done EXCEPT !.escrows = Drop(@, j)]
<1>1. settle(b, j, runtime, writeOff, now) = b2
  BY Zenon DEF settle
<1>2. Books(b2) /\ Typed(b)
  <2>1. Books(settle(b, j, runtime, writeOff, now))
    BY SettleBooks, Zenon DEF Kept
  <2> HIDE DEF b2
  <2> QED
    BY <1>1, <2>1, Zenon DEF Books
<1>3. e \in Escrow
  BY <1>2 DEF Typed
<1>4. /\ e.C \in Nat /\ e.W \in Nat /\ e.Reserved \in Int /\ e.Started \in BOOLEAN
      /\ e.BurstResv \in Int /\ e.BurstResv \in Nat
  <2>1. e.BurstResv >= 0
    BY DEF Earned, ResvNat
  <2> QED
    BY <1>3, <2>1 DEF Escrow
<1>4a. \A x : x = b.escrows[j].BurstResv <=> x = e.BurstResv
  OBVIOUS
<1> HIDE DEF e
<1>5. rt \in 0 .. e.W
  BY <1>4, ClampWithin
<1> HIDE DEF rt
<1>6. rt \in Int /\ e.C * rt \in Int /\ e.C \in Int
  BY <1>4, <1>5
<1>7. Typed(b1) /\ SameRecords(b, b1) /\ Books(b1) /\ Earned(b1)
  BY <1>2, AccrueFrame, AccrueEarns
<1>7a. b1.burstPot >= 0 /\ b1.rLive >= 0 /\ ResvNat(b1) /\ b1.B0 <= MaxB0
       /\ b1.burstPot \in Int /\ b1.lastTouch \in Int
  BY <1>7 DEF Earned, Typed
<1> HIDE DEF b1
<1>8. /\ done.TS = b1.TS /\ done.TE = b1.TE /\ done.B0 = b1.B0
      /\ done.lastTouch = b1.lastTouch /\ done.fracAcc = b1.fracAcc
      /\ done.burstPot \in Nat /\ done.burstPot <= b1.burstPot + e.BurstResv
      /\ done.rLive >= 0
  <2>1. Returns(b1, done, e.Started, e.BurstResv)
    BY <1>4, <1>5, <1>6, <1>7, <1>7a, StopReturns
  <2> QED
    BY <2>1 DEF Returns
<1>9. Typed(paid) /\ paid.escrows = b1.escrows /\ paid.arrays = b1.arrays
  BY <1>4, <1>6, <1>7, BillEffect
<1> HIDE DEF paid
<1>10. Typed(done) /\ SameRecords(paid, done)
  BY <1>4, <1>6, <1>9, StopBurningFrame, Zenon
<1> HIDE DEF done
<1>11. /\ b2.escrows = Drop(b1.escrows, j) /\ b2.arrays = b1.arrays
       /\ b2.TS = b1.TS /\ b2.TE = b1.TE /\ b2.B0 = b1.B0
       /\ b2.lastTouch = b1.lastTouch /\ b2.fracAcc = b1.fracAcc
       /\ b2.burstPot = done.burstPot /\ b2.rLive = done.rLive
  BY <1>8, <1>9, <1>10 DEF Typed, SameRecords
<1>12. b1.escrows = b.escrows
  BY <1>7 DEF SameRecords
<1> HIDE DEF b2
<1>13. ResvNat(b2)
  BY <1>7a, <1>11 DEF ResvNat, Drop, Restrict
<1>14. TokensOut(b2) - b2.burstPot = TokensOut(b1) - b1.burstPot - e.BurstResv
  <2>1. j \in DOMAIN b1.escrows /\ b1.escrows[j].BurstResv = e.BurstResv
    BY <1>4a, <1>12
  <2>2. TokensOut(b2) - b2.burstPot =
          TokensOut(b1) - b1.burstPot - b1.escrows[j].BurstResv
    BY <1>2, <1>7, <1>7a, <1>11, <1>13, <2>1, JobTokenMoves
  <2> QED
    BY <2>1, <2>2
<1>15. TokensOut(b2) \in Int /\ TokensOut(b1) \in Int
  BY <1>2, <1>7, <1>7a, <1>13, TokensType
<1>16. TokensOut(b2) <= TokensOut(b1)
  BY <1>4, <1>7a, <1>8, <1>11, <1>14, <1>15
<1>17. Thrifty(b1, b2)
  BY <1>7a, <1>11, <1>16 DEF Thrifty
<1>18. b2.burstPot >= 0 /\ b2.rLive >= 0 /\ b2.B0 <= MaxB0
  BY <1>7a, <1>8, <1>11
<1>19. Earned(b2)
  BY <1>2, <1>7, <1>13, <1>17, <1>18, ThriftyEarned
<1> QED
  BY <1>1, <1>19

(* The running tasks of one array.                                         *)
RunningOf(b, a) == IF a \in DOMAIN b.arrays THEN Running(b.arrays[a]) ELSE {}

(* A running task is a pair of an array and one of its running tasks.      *)
LEMMA RunningPairs ==
  ASSUME NEW b
  PROVE  /\ \A a, i : <<a, i>> \in RunningTasks(b) <=> i \in RunningOf(b, a)
         /\ \A x \in RunningTasks(b) : \E a, i : x = <<a, i>>
<1>1. ASSUME NEW a, NEW i, <<a, i>> \in RunningTasks(b) PROVE i \in RunningOf(b, a)
  <2>1. PICK z \in DOMAIN b.arrays : <<a, i>> \in {z} \X Running(b.arrays[z])
    BY <1>1 DEF RunningTasks
  <2>2. a = z /\ i \in Running(b.arrays[z])
    BY <2>1
  <2> QED
    BY <2>2 DEF RunningOf
<1>2. ASSUME NEW a, NEW i, i \in RunningOf(b, a) PROVE <<a, i>> \in RunningTasks(b)
  <2>1. a \in DOMAIN b.arrays /\ i \in Running(b.arrays[a])
    BY <1>2 DEF RunningOf
  <2>2. <<a, i>> \in {a} \X Running(b.arrays[a])
    BY <2>1
  <2> QED
    BY <2>1, <2>2 DEF RunningTasks
<1>3. ASSUME NEW x \in RunningTasks(b) PROVE \E a, i : x = <<a, i>>
  BY DEF RunningTasks
<1> QED
  BY <1>1, <1>2, <1>3

(* A step on one task of one array.                                        *)
OneTask(b, b2, k, i) ==
  /\ \A a : a # k => /\ a \in DOMAIN b2.arrays <=> a \in DOMAIN b.arrays
                     /\ a \in DOMAIN b.arrays => b2.arrays[a] = b.arrays[a]
  /\ \A t : t # i => /\ t \in RunningOf(b2, k) <=> t \in RunningOf(b, k)
                     /\ t \in RunningOf(b, k) =>
                          b2.arrays[k].tasks[t] = b.arrays[k].tasks[t]

(* It moves that task alone in or out of the running.                      *)
LEMMA RunningMoves ==
  ASSUME NEW b, NEW b2, NEW k, NEW i, OneTask(b, b2, k, i)
  PROVE  /\ RunningTasks(b2) \ {<<k, i>>} = RunningTasks(b) \ {<<k, i>>}
         /\ \A z \in RunningTasks(b) \ {<<k, i>>} : TaskTokens(b2)[z] = TaskTokens(b)[z]
<1>1. ASSUME NEW a, NEW t, <<a, t>> # <<k, i>>
      PROVE  /\ t \in RunningOf(b2, a) <=> t \in RunningOf(b, a)
             /\ t \in RunningOf(b, a) => b2.arrays[a].tasks[t] = b.arrays[a].tasks[t]
  <2>1. CASE a # k
    BY <2>1 DEF OneTask, RunningOf
  <2>2. CASE a = k
    BY <1>1, <2>2 DEF OneTask
  <2> QED
    BY <2>1, <2>2
<1>2. ASSUME NEW x, x # <<k, i>>
      PROVE  /\ x \in RunningTasks(b2) <=> x \in RunningTasks(b)
             /\ x \in RunningTasks(b) => TaskTokens(b2)[x] = TaskTokens(b)[x]
  <2>1. CASE \E a, t : x = <<a, t>>
    <3>1. PICK a, t : x = <<a, t>>
      BY <2>1
    <3>2. /\ x \in RunningTasks(b2) <=> t \in RunningOf(b2, a)
          /\ x \in RunningTasks(b) <=> t \in RunningOf(b, a)
      BY <3>1, RunningPairs
    <3>3. /\ t \in RunningOf(b2, a) <=> t \in RunningOf(b, a)
          /\ t \in RunningOf(b, a) => b2.arrays[a].tasks[t] = b.arrays[a].tasks[t]
      BY <1>1, <1>2, <3>1
    <3>4. x[1] = a /\ x[2] = t
      BY <3>1
    <3> QED
      BY <3>2, <3>3, <3>4 DEF TaskTokens
  <2>2. CASE ~\E a, t : x = <<a, t>>
    BY <2>2, RunningPairs
  <2> QED
    BY <2>1, <2>2
<1> QED
  BY <1>2

(* The tokens in the hands of a task.                                      *)
TokensAt(b, k, i) ==
  IF i \in RunningOf(b, k) THEN b.arrays[k].tasks[i].burstResv ELSE 0

(* So the tokens out of the pot change by what that task holds.            *)
LEMMA OneTaskTokens ==
  ASSUME NEW b, NEW b2, Books(b), Books(b2), ResvNat(b), ResvNat(b2),
         b2.escrows = b.escrows, NEW k, NEW i, OneTask(b, b2, k, i),
         i \notin RunningOf(b, k) \/ i \notin RunningOf(b2, k)
  PROVE  TokensOut(b2) - b2.burstPot =
           TokensOut(b) - b.burstPot - TokensAt(b, k, i) + TokensAt(b2, k, i)
<1> DEFINE x == <<k, i>>
<1>1. /\ x \in RunningTasks(b) <=> i \in RunningOf(b, k)
      /\ x \in RunningTasks(b2) <=> i \in RunningOf(b2, k)
  BY RunningPairs
<1>2. /\ x \in RunningTasks(b) => TaskTokens(b)[x] = b.arrays[k].tasks[i].burstResv
      /\ x \in RunningTasks(b2) => TaskTokens(b2)[x] = b2.arrays[k].tasks[i].burstResv
  BY DEF TaskTokens
<1>3. /\ RunningTasks(b2) \ {x} = RunningTasks(b) \ {x}
      /\ \A z \in RunningTasks(b) \ {x} : TaskTokens(b2)[z] = TaskTokens(b)[z]
  BY RunningMoves
<1>4. TokensOut(b) \in Int /\ TokensOut(b2) \in Int /\ b.burstPot \in Int
      /\ b2.burstPot \in Int
  BY TokensType
<1>5. /\ x \in RunningTasks(b) => TaskTokens(b)[x] \in Nat
      /\ x \in RunningTasks(b2) => TaskTokens(b2)[x] \in Nat
  <2>1. Family(TaskTokens(b)) /\ Family(TaskTokens(b2))
    BY TokenFamilies
  <2> QED
    BY <2>1 DEF Family, TaskTokens
<1> HIDE DEF x
<1>6. CASE x \notin RunningTasks(b) /\ x \in RunningTasks(b2)
  <2>1. RunningTasks(b) = RunningTasks(b2) \ {x}
    BY <1>3, <1>6
  <2>2. \A z \in RunningTasks(b) : TaskTokens(b2)[z] = TaskTokens(b)[z]
    BY <1>3, <1>6
  <2>3. TokensOut(b2) - b2.burstPot = TokensOut(b) - b.burstPot + TaskTokens(b2)[x]
    BY <1>6, <2>1, <2>2, TaskTokenMoves
  <2>4. TokensAt(b, k, i) = 0 /\ TokensAt(b2, k, i) = TaskTokens(b2)[x]
    BY <1>1, <1>2, <1>6 DEF TokensAt
  <2> QED
    BY <1>4, <1>5, <1>6, <2>3, <2>4
<1>7. CASE x \in RunningTasks(b) /\ x \notin RunningTasks(b2)
  <2>1. RunningTasks(b2) = RunningTasks(b) \ {x}
    BY <1>3, <1>7
  <2>2. \A z \in RunningTasks(b2) : TaskTokens(b2)[z] = TaskTokens(b)[z]
    BY <1>3, <1>7
  <2>3. TokensOut(b2) - b2.burstPot = TokensOut(b) - b.burstPot - TaskTokens(b)[x]
    BY <1>7, <2>1, <2>2, TaskTokenMoves
  <2>4. TokensAt(b2, k, i) = 0 /\ TokensAt(b, k, i) = TaskTokens(b)[x]
    BY <1>1, <1>2, <1>7 DEF TokensAt
  <2> QED
    BY <1>4, <1>5, <1>7, <2>3, <2>4
<1>8. CASE x \notin RunningTasks(b) /\ x \notin RunningTasks(b2)
  <2>1. RunningTasks(b2) = RunningTasks(b)
    BY <1>3, <1>8
  <2>2. \A z \in RunningTasks(b) : TaskTokens(b2)[z] = TaskTokens(b)[z]
    BY <1>3, <1>8
  <2>3. TokensOut(b2) - b2.burstPot = TokensOut(b) - b.burstPot
    BY <2>1, <2>2, TaskTokenMoves
  <2>4. TokensAt(b, k, i) = 0 /\ TokensAt(b2, k, i) = 0
    BY <1>1, <1>8 DEF TokensAt
  <2> QED
    BY <1>4, <2>3, <2>4
<1> QED
  BY <1>1, <1>6, <1>7, <1>8

(* A gate adds an array of which no task runs.                             *)
LEMMA SubmitArrayEarns ==
  ASSUME NEW b, Books(b), Earned(b), NEW k \in ArrayIDs, NEW c \in Int, NEW n \in Int,
         NEW w \in Nat, NEW now \in Int, NEW wal \in BOOLEAN
  PROVE  Earned(SubmitArrayAt(b, k, c, n, w, now, wal).bd)
<1> DEFINE b2 == SubmitArrayAt(b, k, c, n, w, now, wal).bd
           cost == RateOrFlat(b, c) * w * n
           ae == [C |-> RateOrFlat(b, c), W |-> w, N |-> n, Remaining |-> n,
                  Reserved |-> cost, Submitted |-> now,
                  tasks |-> [i \in 0 .. (n - 1) |-> NoTask]]
           on == [b EXCEPT !.B = @ - cost, !.ReservedTotal = @ + cost,
                           !.arrays = Put(@, k, ae)]
<1>1. Books(b2) /\ Typed(b)
  BY SubmitArrayBooks DEF Kept, Books
<1>2. b2 = b \/ (b2 = on /\ k \notin DOMAIN b.arrays)
  BY DEF SubmitArrayAt, logCmd, Rejected
<1>3. Running(ae) = {} /\ \A t \in DOMAIN ae.tasks : ae.tasks[t].burstResv = 0
  BY DEF Running, NoTask
<1> HIDE DEF ae, b2, cost
<1>4. ASSUME b2 = on, k \notin DOMAIN b.arrays PROVE Earned(b2)
  <2>1. /\ b2.arrays = Put(b.arrays, k, ae) /\ b2.escrows = b.escrows
        /\ SameBucket(b, b2) /\ b2.B0 = b.B0
    BY <1>1, <1>4 DEF Typed, SameBucket
  <2>2. ResvNat(b) /\ b2.B0 <= MaxB0
    BY <2>1 DEF Earned
  <2>3. /\ DOMAIN b2.arrays = DOMAIN b.arrays \cup {k} /\ b2.arrays[k] = ae
        /\ \A a \in DOMAIN b.arrays : b2.arrays[a] = b.arrays[a]
    BY <1>4, <2>1 DEF Put
  <2>4. ResvNat(b2)
    <3>1. \A j \in DOMAIN b2.escrows : b2.escrows[j].BurstResv >= 0
      BY <2>1, <2>2 DEF ResvNat
    <3>2. ASSUME NEW a \in DOMAIN b2.arrays, NEW t \in DOMAIN b2.arrays[a].tasks
          PROVE  b2.arrays[a].tasks[t].burstResv >= 0
      <4>1. CASE a = k
        BY <1>3, <2>3, <4>1
      <4>2. CASE a # k
        BY <2>2, <2>3, <4>2 DEF ResvNat
      <4> QED
        BY <4>1, <4>2
    <3> QED
      BY <3>1, <3>2 DEF ResvNat
  <2>5. RunningOf(b, k) = {} /\ RunningOf(b2, k) = {}
    BY <1>3, <1>4, <2>3 DEF RunningOf
  <2>6. OneTask(b, b2, k, 0)
    BY <2>3, <2>5 DEF OneTask
  <2>7. TokensOut(b2) - b2.burstPot =
          TokensOut(b) - b.burstPot - TokensAt(b, k, 0) + TokensAt(b2, k, 0)
    BY <1>1, <2>1, <2>2, <2>4, <2>5, <2>6, OneTaskTokens
  <2>8. TokensAt(b, k, 0) = 0 /\ TokensAt(b2, k, 0) = 0
    BY <2>5 DEF TokensAt
  <2>9. TokensOut(b2) - b2.burstPot <= TokensOut(b) - b.burstPot
    <3>1. TokensOut(b) \in Int /\ b.burstPot \in Int
      BY <2>2, TokensType
    <3> QED
      BY <2>7, <2>8, <3>1
  <2> QED
    BY <1>1, <2>1, <2>2, <2>4, <2>9, BucketEarned
<1> QED
  BY <1>2, <1>4 DEF b2

(* Raising the aggregate leaves the tokens alone.                          *)
LEMMA BurningEarned ==
  ASSUME NEW b, Books(b), Earned(b), NEW c \in Nat
  PROVE  LET d == Burning(b, c)
         IN  /\ Books(d) /\ Typed(d) /\ Earned(d)
             /\ d.escrows = b.escrows /\ d.arrays = b.arrays
             /\ d.TS = b.TS /\ d.TE = b.TE /\ d.lastTouch = b.lastTouch
             /\ d.burstPot = b.burstPot /\ d.fracAcc = b.fracAcc /\ d.B0 = b.B0
<1> DEFINE d == Burning(b, c)
<1>1. Typed(b) /\ ResvNat(b) /\ b.rLive >= 0 /\ b.rLive \in Int /\ b.burstPot >= 0
      /\ b.B0 <= MaxB0 /\ b.lastTouch \in Int
  BY DEF Books, Earned, Typed
<1>2. Typed(d) /\ SameRecords(b, d)
  BY <1>1, BurningFrame
<1>3. /\ d.TS = b.TS /\ d.TE = b.TE /\ d.lastTouch = b.lastTouch
      /\ d.burstPot = b.burstPot /\ d.fracAcc = b.fracAcc /\ d.B0 = b.B0 /\ d.rLive >= 0
  BY <1>1 DEF Burning, Typed
<1> HIDE DEF d
<1>4. Books(d) /\ d.escrows = b.escrows /\ d.arrays = b.arrays
  BY <1>2, SameBooks DEF SameRecords
<1>5. ResvNat(d)
  BY <1>1, <1>4 DEF ResvNat
<1>6. /\ TokensOut(d) - d.burstPot = TokensOut(b) - b.burstPot
      /\ TokensOut(d) \in Int /\ TokensOut(b) \in Int /\ b.burstPot \in Int
  BY <1>1, <1>4, <1>5, SameTokens, TokensType
<1>7. TokensOut(d) <= TokensOut(b)
  BY <1>3, <1>6
<1>8. Thrifty(b, d)
  BY <1>1, <1>3, <1>7 DEF Thrifty
<1>9. Earned(d)
  BY <1>1, <1>3, <1>4, <1>5, <1>8, ThriftyEarned, SMTT(30)
<1> QED
  BY <1>2, <1>3, <1>4, <1>9 DEF d

(* Dispatching a task moves tokens out of the pot into the task.           *)
LEMMA StartTaskEarns ==
  ASSUME NEW b, Books(b), Earned(b), NEW k, NEW i, NEW now \in Int, b.lastTouch <= now,
         NEW wal \in BOOLEAN
  PROVE  Earned(StartTask(b, k, i, now, wal).bd)
<1> DEFINE ae == b.arrays[k]
           b1 == accrue(b, now)
           resv == BurstResvFor(b1, ae.C, ae.W)
           burning == Burning(b1, ae.C)
           on == [burning EXCEPT !.burstPot = @ - resv,
                                 !.arrays[k].tasks[i].started = TRUE,
                                 !.arrays[k].tasks[i].burstResv = resv]
           b2 == StartTask(b, k, i, now, wal).bd
<1>1. Books(b2) /\ Typed(b)
  BY StartTaskBooks DEF Kept, Books
<1>2. /\ Typed(b1) /\ SameRecords(b, b1) /\ Books(b1) /\ Earned(b1)
  BY <1>1, AccrueFrame, AccrueEarns
<1>3. \/ b2 = b \/ b2 = b1
      \/ /\ Unsettled(b, k, i) /\ ~ae.tasks[i].started /\ BurstGate(b1, resv)
         /\ b2 = burning \/ b2 = on
  BY Zenon DEF StartTask, logCmd, Rejected
<1> HIDE DEF b2, b1
<1>4. ASSUME Unsettled(b, k, i), ~ae.tasks[i].started, BurstGate(b1, resv),
             b2 = burning \/ b2 = on
      PROVE  Earned(b2)
  <2>1. /\ k \in DOMAIN b.arrays /\ i \in DOMAIN ae.tasks /\ ~ae.tasks[i].settled
        /\ IsArrayEscrow(ae) /\ b.arrays = [z \in DOMAIN b.arrays |-> b.arrays[z]]
    BY <1>1, <1>4 DEF Unsettled, HasTask, Typed
  <2>2. ae.C \in Nat /\ ae.W \in Nat
    BY <2>1 DEF IsArrayEscrow
  <2>3. resv \in Nat
    BY <1>2, <2>2, ReserveNat
  <2>4. resv <= b1.burstPot /\ b1.burstPot \in Int /\ b1.burstPot >= 0
    BY <1>2, <1>4, <2>3 DEF BurstGate, Earned, Typed
  <2>5. /\ Books(burning) /\ Typed(burning) /\ Earned(burning)
        /\ burning.escrows = b1.escrows /\ burning.arrays = b1.arrays
        /\ burning.burstPot = b1.burstPot
    BY <1>2, <2>2, BurningEarned
  <2>6. b1.arrays = b.arrays
    BY <1>2 DEF SameRecords
  <2>7. ResvNat(burning) /\ burning.rLive >= 0 /\ burning.B0 <= MaxB0
    BY <2>5 DEF Earned
  <2> HIDE DEF resv, burning
  <2>8. ASSUME b2 = on PROVE Earned(b2)
    <3>1. /\ b2.arrays = [burning.arrays EXCEPT ![k].tasks[i].started = TRUE,
                                                ![k].tasks[i].burstResv = resv]
          /\ b2.escrows = burning.escrows /\ b2.burstPot = burning.burstPot - resv
          /\ b2.TS = burning.TS /\ b2.TE = burning.TE /\ b2.B0 = burning.B0
          /\ b2.lastTouch = burning.lastTouch /\ b2.fracAcc = burning.fracAcc
          /\ b2.rLive = burning.rLive
      BY <2>5, <2>8 DEF Typed
    <3> DEFINE t2 == [ae.tasks EXCEPT ![i].started = TRUE, ![i].burstResv = resv]
    <3>2. /\ DOMAIN b2.arrays = DOMAIN burning.arrays
          /\ \A a \in DOMAIN burning.arrays \ {k} : b2.arrays[a] = burning.arrays[a]
          /\ b2.arrays[k].tasks = t2 /\ k \in DOMAIN b2.arrays
          /\ burning.arrays[k] = ae /\ k \in DOMAIN burning.arrays
      <4>1. b2.arrays = [b.arrays EXCEPT ![k].tasks[i].started = TRUE,
                                         ![k].tasks[i].burstResv = resv]
        BY <2>5, <2>6, <3>1
      <4>2. /\ DOMAIN b2.arrays = DOMAIN b.arrays
            /\ \A a \in DOMAIN b.arrays \ {k} : b2.arrays[a] = b.arrays[a]
            /\ b2.arrays[k] = [ae EXCEPT !.tasks[i].started = TRUE,
                                         !.tasks[i].burstResv = resv]
        BY <2>1, <4>1
      <4>3. b2.arrays[k].tasks = t2
        BY <2>1, <4>2 DEF IsArrayEscrow
      <4> QED
        BY <2>1, <2>5, <2>6, <4>2, <4>3
    <3>3. /\ DOMAIN t2 = DOMAIN ae.tasks
          /\ t2[i].started /\ t2[i].settled = ae.tasks[i].settled /\ t2[i].burstResv = resv
          /\ \A x \in DOMAIN ae.tasks \ {i} : t2[x] = ae.tasks[x]
      <4>1. ae.tasks \in [0 .. (ae.N - 1) -> Task] /\ i \in 0 .. (ae.N - 1)
        BY <2>1 DEF IsArrayEscrow
      <4> QED
        BY <4>1 DEF Task
    <3> HIDE DEF t2, ae
    <3>4. /\ RunningOf(burning, k) = Running(ae)
          /\ RunningOf(b2, k) = Running(b2.arrays[k])
      BY <3>2 DEF RunningOf
    <3>5. i \notin Running(ae)
      BY <1>4 DEF Running, ae
    <3>6. /\ i \in Running(b2.arrays[k])
          /\ \A t : t # i => (t \in Running(b2.arrays[k]) <=> t \in Running(ae))
          /\ \A t \in Running(ae) : t \in DOMAIN ae.tasks
      BY <2>1, <3>2, <3>3 DEF Running, ae
    <3>7. OneTask(burning, b2, k, i)
      <4>1. \A t : t # i /\ t \in Running(ae) =>
              b2.arrays[k].tasks[t] = burning.arrays[k].tasks[t]
        BY <3>2, <3>3, <3>6
      <4> QED
        BY <3>2, <3>4, <3>6, <4>1 DEF OneTask
    <3>8. ResvNat(b2)
      <4>1. \A j \in DOMAIN b2.escrows : b2.escrows[j].BurstResv >= 0
        BY <2>7, <3>1 DEF ResvNat
      <4>2. ASSUME NEW a \in DOMAIN b2.arrays, NEW t \in DOMAIN b2.arrays[a].tasks
            PROVE  b2.arrays[a].tasks[t].burstResv >= 0
        <5>1. CASE a = k
          <6>1. \A x \in DOMAIN ae.tasks : ae.tasks[x].burstResv >= 0
            BY <2>7, <3>2 DEF ResvNat
          <6>2. t \in DOMAIN t2 /\ b2.arrays[a].tasks[t] = t2[t]
            BY <3>2, <5>1
          <6> QED
            BY <2>3, <3>3, <6>1, <6>2
        <5>2. CASE a # k
          BY <2>7, <3>2, <5>2 DEF ResvNat
        <5> QED
          BY <5>1, <5>2
      <4> QED
        BY <4>1, <4>2 DEF ResvNat
    <3>9. TokensOut(b2) - b2.burstPot =
            TokensOut(burning) - burning.burstPot -
              TokensAt(burning, k, i) + TokensAt(b2, k, i)
      BY <1>1, <2>5, <2>7, <3>1, <3>4, <3>5, <3>7, <3>8, OneTaskTokens
    <3>10. TokensAt(burning, k, i) = 0 /\ TokensAt(b2, k, i) = resv
      BY <3>2, <3>3, <3>4, <3>5, <3>6 DEF TokensAt
    <3>11. /\ TokensOut(b2) \in Int /\ TokensOut(burning) \in Int
           /\ burning.burstPot \in Int
      BY <1>1, <2>5, <2>7, <3>8, TokensType
    <3>12. TokensOut(b2) <= TokensOut(burning)
      BY <2>3, <3>1, <3>9, <3>10, <3>11
    <3>13. b2.lastTouch >= burning.lastTouch
      BY <2>5, <3>1 DEF Typed
    <3>14. Thrifty(burning, b2)
      BY <3>1, <3>12, <3>13 DEF Thrifty
    <3>15. b2.burstPot >= 0 /\ b2.rLive >= 0 /\ b2.B0 <= MaxB0
      BY <2>3, <2>4, <2>5, <2>7, <3>1
    <3> QED
      BY <1>1, <2>5, <3>8, <3>14, <3>15, ThriftyEarned
  <2> QED
    BY <1>4, <2>5, <2>8
<1> QED
  BY <1>2, <1>3, <1>4 DEF b2

(* A task that settles hands its tokens back or burns them.                *)
LEMMA SettleTaskEarns ==
  ASSUME NEW b, Books(b), Earned(b), NEW k, NEW i, Unsettled(b, k, i),
         NEW runtime \in Int, NEW writeOff \in BOOLEAN, NEW now \in Int,
         b.lastTouch <= now
  PROVE  Earned(settleTask(b, k, i, runtime, writeOff, now))
<1> DEFINE ae == b.arrays[k]
           ts == ae.tasks[i]
           rt == Clamp(runtime, ae.W)
           b1 == accrue(b, now)
           paid == Bill(b1, slice(ae), ae.C * rt, writeOff)
           done == StopBurning(paid, ae.C, ae.W, ts.started, ts.burstResv, rt)
           left == [ae EXCEPT !.Reserved = @ - slice(ae), !.Remaining = @ - 1,
                              !.tasks[i].settled = TRUE]
           b2 == settleTask(b, k, i, runtime, writeOff, now)
<1>1. Books(b2) /\ Typed(b)
  <2>1. Books(b2)
    BY SettleTaskBooks, Zenon DEF Kept
  <2> QED
    BY <2>1 DEF Books
<1>2. /\ k \in DOMAIN b.arrays /\ i \in DOMAIN ae.tasks /\ ~ts.settled
      /\ IsArrayEscrow(ae) /\ SlicesOK(ae)
      /\ b.arrays = [z \in DOMAIN b.arrays |-> b.arrays[z]]
  BY DEF Unsettled, HasTask, Books, Typed
<1>3. /\ ae.C \in Nat /\ ae.W \in Nat /\ ae.C \in Int /\ slice(ae) \in Int
  BY <1>2 DEF IsArrayEscrow, slice
<1>4. ts.started \in BOOLEAN /\ ts.burstResv \in Int /\ ts.burstResv \in Nat
  <2>1. ts.burstResv >= 0
    BY <1>2 DEF Earned, ResvNat
  <2> QED
    BY <1>2, <2>1 DEF IsArrayEscrow, Task
<1>5. rt \in 0 .. ae.W
  BY <1>3, ClampWithin
<1>6. rt \in Int /\ ae.C * rt \in Int
  <2> HIDE DEF rt
  <2> QED
    BY <1>3, <1>5
<1>7. b2 = [done EXCEPT !.arrays = IF left.Remaining = 0 THEN Drop(@, k)
                                   ELSE [@ EXCEPT ![k] = left]]
  BY Zenon DEF settleTask
<1>8. /\ DOMAIN left.tasks = DOMAIN ae.tasks /\ left.tasks[i].settled
      /\ left.tasks[i].burstResv = ts.burstResv
      /\ \A x \in DOMAIN ae.tasks \ {i} : left.tasks[x] = ae.tasks[x]
  <2>1. ae.tasks \in [0 .. (ae.N - 1) -> Task] /\ i \in 0 .. (ae.N - 1)
    BY <1>2 DEF IsArrayEscrow
  <2>2. left.tasks = [ae.tasks EXCEPT ![i].settled = TRUE]
    BY <1>2 DEF IsArrayEscrow
  <2> HIDE DEF left
  <2> QED
    BY <2>1, <2>2 DEF Task
<1>9. left.Remaining = 0 => Running(ae) \ {i} = {}
  <2>1. ArrayBurn(left) = 0 => Running(left) = {}
    <3>1. IsArrayEscrow(left)
      BY <1>2, SettledTaskSlice, Zenon
    <3>2. IsFiniteSet(Running(left)) /\ Cardinality(Running(left)) \in Nat /\ left.C \in Nat \ {0}
      BY <3>1, RunningFinite DEF IsArrayEscrow
    <3>3. ASSUME NEW m \in Nat, NEW c \in Nat \ {0}, c * m = 0 PROVE m = 0
      BY <3>3
    <3> HIDE DEF left
    <3>4. ArrayBurn(left) = 0 => Cardinality(Running(left)) = 0
      BY <3>2, <3>3 DEF ArrayBurn
    <3> QED
      BY <3>2, <3>4, FS_EmptySet
  <2>2. left.Remaining = 0 => ArrayBurn(left) = 0
    <3>1. /\ IsArrayEscrow(ae) /\ SlicesOK(ae) /\ i \in DOMAIN ae.tasks
          /\ ~ae.tasks[i].settled
      BY <1>2
    <3>2. ASSUME NEW a, IsArrayEscrow(a), SlicesOK(a), NEW t \in DOMAIN a.tasks,
                 ~a.tasks[t].settled, NEW x,
                 x = [a EXCEPT !.Reserved = @ - slice(a), !.Remaining = @ - 1,
                               !.tasks[t].settled = TRUE]
          PROVE  x.Remaining = 0 => ArrayBurn(x) = 0
      BY <3>2, TaskDies, Zenon
    <3> HIDE DEF ae
    <3> QED
      BY <3>1, <3>2, Zenon
  <2>3. Running(ae) \ {i} \subseteq Running(left)
    <3> HIDE DEF left
    <3> QED
      BY <1>8 DEF Running
  <2> QED
    BY <2>1, <2>2, <2>3
<1> HIDE DEF rt, left, b2
<1>10. Typed(b1) /\ SameRecords(b, b1) /\ Books(b1) /\ Earned(b1)
  BY <1>1, AccrueFrame, AccrueEarns
<1>11. b1.burstPot >= 0 /\ b1.rLive >= 0 /\ ResvNat(b1) /\ b1.B0 <= MaxB0
       /\ b1.burstPot \in Int /\ b1.lastTouch \in Int
  BY <1>10 DEF Earned, Typed
<1>12. b1.arrays = b.arrays /\ b1.escrows = b.escrows
  BY <1>10 DEF SameRecords
<1> HIDE DEF b1, ts
<1>13. Returns(b1, done, ts.started, ts.burstResv)
  BY <1>3, <1>4, <1>5, <1>6, <1>10, <1>11, StopReturns
<1>14. Typed(paid) /\ paid.escrows = b1.escrows /\ paid.arrays = b1.arrays
  BY <1>3, <1>6, <1>10, BillEffect
<1> HIDE DEF paid
<1>15. Typed(done) /\ SameRecords(paid, done)
  BY <1>3, <1>4, <1>6, <1>14, StopBurningFrame, Zenon
<1> HIDE DEF done
<1>16. /\ b2.arrays = IF left.Remaining = 0 THEN Drop(b.arrays, k)
                      ELSE [b.arrays EXCEPT ![k] = left]
       /\ b2.escrows = b1.escrows
       /\ b2.TS = b1.TS /\ b2.TE = b1.TE /\ b2.B0 = b1.B0
       /\ b2.lastTouch = b1.lastTouch /\ b2.fracAcc = b1.fracAcc
       /\ b2.burstPot = done.burstPot /\ b2.rLive = done.rLive
  BY <1>7, <1>12, <1>13, <1>14, <1>15 DEF Typed, SameRecords, Returns
<1>17. /\ \A a : a # k => (a \in DOMAIN b2.arrays <=> a \in DOMAIN b.arrays)
       /\ \A a \in DOMAIN b.arrays \ {k} : b2.arrays[a] = b.arrays[a]
       /\ k \in DOMAIN b2.arrays <=> left.Remaining # 0
       /\ k \in DOMAIN b2.arrays => b2.arrays[k] = left
  <2>1. CASE left.Remaining = 0
    BY <1>16, <2>1 DEF Drop, Restrict
  <2>2. CASE left.Remaining # 0
    BY <1>2, <1>16, <2>2
  <2> QED
    BY <2>1, <2>2
<1>18. ResvNat(b2)
  <2>1. \A j \in DOMAIN b2.escrows : b2.escrows[j].BurstResv >= 0
    BY <1>11, <1>16 DEF ResvNat
  <2>2. ASSUME NEW a \in DOMAIN b2.arrays, NEW t \in DOMAIN b2.arrays[a].tasks
        PROVE  b2.arrays[a].tasks[t].burstResv >= 0
    <3>1. \A x \in DOMAIN ae.tasks : ae.tasks[x].burstResv >= 0
      BY <1>2, <1>11, <1>12 DEF ResvNat
    <3>2. CASE a = k
      <4>1. t \in DOMAIN left.tasks /\ b2.arrays[a].tasks[t] = left.tasks[t]
        BY <1>17, <3>2
      <4> QED
        BY <1>4, <1>8, <3>1, <4>1
    <3>3. CASE a # k
      BY <1>11, <1>12, <1>17, <3>3 DEF ResvNat
    <3> QED
      BY <3>2, <3>3
  <2> QED
    BY <2>1, <2>2 DEF ResvNat
<1>19. /\ RunningOf(b1, k) = Running(ae)
       /\ RunningOf(b2, k) = IF left.Remaining = 0 THEN {} ELSE Running(left)
  BY <1>2, <1>12, <1>17 DEF RunningOf
<1>20. /\ i \notin Running(left)
       /\ \A t : t # i => (t \in Running(left) <=> t \in Running(ae))
       /\ \A t \in Running(ae) : t \in DOMAIN ae.tasks
       /\ i \in Running(ae) <=> ts.started
  BY <1>2, <1>8 DEF Running, ts
<1>21. OneTask(b1, b2, k, i)
  <2>1. \A a : a # k => /\ a \in DOMAIN b2.arrays <=> a \in DOMAIN b1.arrays
                        /\ a \in DOMAIN b1.arrays => b2.arrays[a] = b1.arrays[a]
    BY <1>12, <1>17
  <2>2. ASSUME NEW t, t # i
        PROVE  /\ t \in RunningOf(b2, k) <=> t \in RunningOf(b1, k)
               /\ t \in RunningOf(b1, k) =>
                    b2.arrays[k].tasks[t] = b1.arrays[k].tasks[t]
    <3>1. CASE left.Remaining = 0
      BY <1>9, <1>19, <2>2, <3>1
    <3>2. CASE left.Remaining # 0
      BY <1>8, <1>12, <1>17, <1>19, <1>20, <2>2, <3>2
    <3> QED
      BY <3>1, <3>2
  <2> QED
    BY <2>1, <2>2 DEF OneTask
<1>22. i \notin RunningOf(b2, k)
  BY <1>19, <1>20
<1>23. TokensOut(b2) - b2.burstPot =
         TokensOut(b1) - b1.burstPot - TokensAt(b1, k, i) + TokensAt(b2, k, i)
  BY <1>1, <1>10, <1>11, <1>16, <1>18, <1>21, <1>22, OneTaskTokens
<1>24. /\ TokensAt(b2, k, i) = 0
       /\ TokensAt(b1, k, i) = IF ts.started THEN ts.burstResv ELSE 0
  BY <1>12, <1>19, <1>20, <1>22 DEF TokensAt, ts
<1>25. TokensOut(b2) \in Int /\ TokensOut(b1) \in Int
  BY <1>1, <1>10, <1>11, <1>18, TokensType
<1>26. /\ b2.burstPot \in Nat /\ b2.burstPot <= b1.burstPot + ts.burstResv
       /\ ~ts.started => b2.burstPot = b1.burstPot
       /\ b2.rLive >= 0
  BY <1>13, <1>16 DEF Returns
<1>27. TokensOut(b2) <= TokensOut(b1)
  <2>1. CASE ts.started
    BY <1>4, <1>11, <1>23, <1>24, <1>25, <1>26, <2>1
  <2>2. CASE ~ts.started
    BY <1>11, <1>23, <1>24, <1>25, <1>26, <2>2
  <2> QED
    BY <2>1, <2>2
<1>28. Thrifty(b1, b2)
  BY <1>11, <1>16, <1>27 DEF Thrifty
<1>29. b2.burstPot >= 0 /\ b2.rLive >= 0 /\ b2.B0 <= MaxB0
  BY <1>11, <1>16, <1>26
<1>30. Earned(b2)
  BY <1>1, <1>10, <1>18, <1>28, <1>29, ThriftyEarned
<1> QED
  BY <1>30 DEF b2

(* The exits of a job earn nothing they do not bank.                       *)
LEMMA ExitEarns ==
  ASSUME NEW b, Books(b), Earned(b), NEW j, NEW rt \in Int, NEW now \in Int,
         b.lastTouch <= now, NEW wal \in BOOLEAN
  PROVE  /\ Earned(Complete(b, j, rt, now, wal).bd)
         /\ Earned(Timeout(b, j, now, wal).bd)
         /\ Earned(Cancel(b, j, rt, now, wal).bd)
         /\ Earned(InfraFail(b, j, rt, now, wal).bd)
<1>1. ASSUME j \in DOMAIN b.escrows  PROVE b.escrows[j].W \in Int
  BY <1>1 DEF Books, Typed, Escrow
<1>2. b.BillInfraFailures \in BOOLEAN
  BY DEF Books, Typed
<1>3. ASSUME NEW r, j \in DOMAIN b.escrows => r \in Int, NEW off \in BOOLEAN, NEW cmd
      PROVE  Earned(Settled(b, j, r, off, now, cmd, wal).bd)
  <2>1. j \in DOMAIN b.escrows => Earned(settle(b, j, r, off, now))
    BY <1>3, SettleEarns
  <2> QED
    BY <2>1 DEF Settled, logCmd, Rejected
<1>4. Earned(Complete(b, j, rt, now, wal).bd)
  BY <1>3, Zenon DEF Complete
<1>5. Earned(Timeout(b, j, now, wal).bd)
  BY <1>1, <1>3, Zenon DEF Timeout
<1>6. Earned(Cancel(b, j, rt, now, wal).bd)
  <2>1. 0 \in Int
    OBVIOUS
  <2>2. (IF b.escrows[j].Started THEN rt ELSE 0) \in Int
    BY <2>1, Zenon
  <2> QED
    BY <1>3, <2>2, Zenon DEF Cancel
<1>7. Earned(InfraFail(b, j, rt, now, wal).bd)
  BY <1>2, <1>3, Zenon DEF InfraFail
<1> QED
  BY <1>4, <1>5, <1>6, <1>7

(* Nor do those of a task.                                                 *)
LEMMA TaskExitEarns ==
  ASSUME NEW b, Books(b), Earned(b), NEW k, NEW i, NEW rt \in Int, NEW now \in Int,
         b.lastTouch <= now, NEW wal \in BOOLEAN
  PROVE  /\ Earned(CompleteTask(b, k, i, rt, now, wal).bd)
         /\ Earned(TimeoutTask(b, k, i, now, wal).bd)
         /\ Earned(CancelTask(b, k, i, rt, now, wal).bd)
         /\ Earned(InfraFailTask(b, k, i, rt, now, wal).bd)
<1>1. ASSUME k \in DOMAIN b.arrays  PROVE b.arrays[k].W \in Int
  BY <1>1 DEF Books, Typed, IsArrayEscrow
<1>2. b.BillInfraFailures \in BOOLEAN
  BY DEF Books, Typed
<1>3. ASSUME NEW r, Unsettled(b, k, i) => r \in Int, NEW off \in BOOLEAN, NEW cmd
      PROVE  Earned(SettledTask(b, k, i, r, off, now, cmd, wal).bd)
  <2>1. Unsettled(b, k, i) => Earned(settleTask(b, k, i, r, off, now))
    BY <1>3, SettleTaskEarns
  <2> QED
    BY <2>1 DEF SettledTask, Rejected
<1>4. Rejected(b).bd = b
  BY DEF Rejected
<1>5. Earned(CompleteTask(b, k, i, rt, now, wal).bd)
  BY <1>3, Zenon DEF CompleteTask
<1>6. Earned(TimeoutTask(b, k, i, now, wal).bd)
  <2>1. CASE k \in DOMAIN b.arrays
    BY <1>1, <1>3, <2>1, Zenon DEF TimeoutTask
  <2>2. CASE k \notin DOMAIN b.arrays
    BY <1>4, <2>2, Zenon DEF TimeoutTask
  <2> QED
    BY <2>1, <2>2
<1>7. Earned(CancelTask(b, k, i, rt, now, wal).bd)
  <2>1. CASE HasTask(b, k, i)
    <3>1. 0 \in Int
      OBVIOUS
    <3>2. (IF b.arrays[k].tasks[i].started THEN rt ELSE 0) \in Int
      BY <3>1, Zenon
    <3> QED
      BY <1>3, <2>1, <3>2, Zenon DEF CancelTask
  <2>2. CASE ~HasTask(b, k, i)
    BY <1>4, <2>2, Zenon DEF CancelTask
  <2> QED
    BY <2>1, <2>2
<1>8. Earned(InfraFailTask(b, k, i, rt, now, wal).bd)
  <2>1. CASE k \in DOMAIN b.arrays
    BY <1>2, <1>3, <2>1, Zenon DEF InfraFailTask
  <2>2. CASE k \notin DOMAIN b.arrays
    BY <1>4, <2>2, Zenon DEF InfraFailTask
  <2> QED
    BY <2>1, <2>2
<1> QED
  BY <1>5, <1>6, <1>7, <1>8

(* The administrative verbs leave the bucket and the reservations.  A      *)
(* window that is refused changes nothing; one that is accepted rescales   *)
(* what the remainder and the elapsed time mean.                           *)
LEMMA AdminEarns ==
  ASSUME NEW b, Books(b), Earned(b), NEW x \in Int, NEW y, NEW now \in Int,
         NEW wal \in BOOLEAN
  PROVE  /\ b.B0 + x <= MaxB0 => Earned(TopUpXfer(b, x, y, now, wal).bd)
         /\ Earned(WithdrawXfer(b, x, y, now, wal).bd)
         /\ Earned(SetRate(b, x, now, wal).bd)
         /\ Earned(Lapse(b, wal).bd)
<1>1. Typed(b) /\ b.B0 <= MaxB0 /\ b.B0 \in Int /\ MaxB0 \in Nat
  BY InputAssumption DEF Books, Earned, Typed
<1> DEFINE Quiet(b2) == /\ SameBucket(b, b2) /\ b2.escrows = b.escrows
                        /\ b2.arrays = b.arrays
<1>2. /\ Quiet(TopUpXfer(b, x, y, now, wal).bd)
      /\ b.B0 + x <= MaxB0 => TopUpXfer(b, x, y, now, wal).bd.B0 <= MaxB0
  <2>1. Quiet(TopUpXfer(b, x, y, now, wal).bd)
    BY <1>1 DEF TopUpXfer, logCmd, Rejected, SameBucket, Typed
  <2>2. TopUpXfer(b, x, y, now, wal).bd.B0 \in {b.B0, b.B0 + x}
    BY <1>1 DEF TopUpXfer, logCmd, Rejected, Typed
  <2> QED
    BY <1>1, <2>1, <2>2
<1>3. /\ Quiet(WithdrawXfer(b, x, y, now, wal).bd)
      /\ WithdrawXfer(b, x, y, now, wal).bd.B0 <= MaxB0
  <2>1. Quiet(WithdrawXfer(b, x, y, now, wal).bd)
    BY <1>1 DEF WithdrawXfer, logCmd, Rejected, SameBucket, Typed
  <2>2. \/ WithdrawXfer(b, x, y, now, wal).bd.B0 = b.B0
        \/ x > 0 /\ WithdrawXfer(b, x, y, now, wal).bd.B0 = b.B0 - x
    BY <1>1 DEF WithdrawXfer, logCmd, Rejected, Typed
  <2> QED
    BY <1>1, <2>1, <2>2
<1>4. /\ Quiet(SetRate(b, x, now, wal).bd) /\ SetRate(b, x, now, wal).bd.B0 <= MaxB0
  BY <1>1 DEF SetRate, logCmd, Rejected, SameBucket, Typed
<1>5. Quiet(Lapse(b, wal).bd) /\ Lapse(b, wal).bd.B0 <= MaxB0
  BY <1>1 DEF Lapse, SameBucket, Typed
<1>6. /\ Books(TopUpXfer(b, x, y, now, wal).bd) /\ Books(WithdrawXfer(b, x, y, now, wal).bd)
  BY AmountBooks DEF Kept
<1>7. /\ Books(SetRate(b, x, now, wal).bd) /\ Books(Lapse(b, wal).bd)
  BY RateWindowBooks DEF Kept
<1>8. ASSUME NEW b2, Books(b2), Quiet(b2), b2.B0 <= MaxB0
      PROVE  Earned(b2)
  BY <1>8, QuietEarned
<1> HIDE DEF Quiet
<1> QED
  BY <1>2, <1>3, <1>4, <1>5, <1>6, <1>7, <1>8

(* Turning burst off forfeits the pot, a retune trims it, and turning it   *)
(* on again starts from the tokens still reserved.                         *)
LEMMA SetBurstEarns ==
  ASSUME NEW b, Books(b), Earned(b), NEW enabled \in BOOLEAN, NEW pct \in Int,
         NEW cap \in Int, NEW now \in Int, b.lastTouch <= now, NEW wal \in BOOLEAN
  PROVE  Earned(SetBurst(b, enabled, pct, cap, now, wal).bd)
<1> DEFINE off == [b EXCEPT !.BurstEnabled = FALSE, !.BurstCeilingPct = 0,
                            !.BurstDrawCap = 0, !.burstPot = 0, !.rLive = 0,
                            !.fracAcc = 0]
           lit == [b EXCEPT !.BurstEnabled = TRUE, !.lastTouch = now]
           from == IF b.BurstEnabled THEN accrue(b, now) ELSE lit
           on == [from EXCEPT !.BurstCeilingPct = pct, !.BurstDrawCap = cap]
           trim == [on EXCEPT !.burstPot = burstCeiling(on), !.fracAcc = 0]
           b2 == SetBurst(b, enabled, pct, cap, now, wal).bd
<1>1. Books(b2) /\ Typed(b) /\ ResvNat(b)
  BY SetBurstBooks DEF Kept, Books, Earned
<1>2. \/ b2 = b \/ b2 = off
      \/ b2 = on
      \/ b2 = trim /\ on.burstPot > burstCeiling(on)
  BY Zenon DEF SetBurst, logCmd, Rejected
<1> HIDE DEF b2
<1>3. ASSUME NEW d, Books(d), Earned(d), d.escrows = b2.escrows, d.arrays = b2.arrays,
             b2.TS = d.TS, b2.TE = d.TE, b2.B0 = d.B0, b2.rLive >= 0,
             b2.burstPot \in Nat, b2.burstPot <= d.burstPot,
             b2.fracAcc = d.fracAcc \/ b2.fracAcc = 0, b2.lastTouch >= d.lastTouch
      PROVE  Earned(b2)
  <2>1. ResvNat(d) /\ d.B0 <= MaxB0
    BY <1>3 DEF Earned
  <2>2. ResvNat(b2) /\ b2.B0 <= MaxB0
    BY <1>3, <2>1 DEF ResvNat
  <2>3. TokensOut(b2) - b2.burstPot = TokensOut(d) - d.burstPot
    BY <1>1, <1>3, <2>1, <2>2, SameTokens
  <2>4. /\ TokensOut(b2) \in Int /\ TokensOut(d) \in Int /\ d.burstPot \in Int
    BY <1>1, <1>3, <2>1, <2>2, TokensType
  <2>5. TokensOut(b2) <= TokensOut(d)
    BY <1>3, <2>3, <2>4
  <2>6. Thrifty(d, b2) /\ b2.burstPot >= 0
    BY <1>3, <2>5 DEF Thrifty
  <2> QED
    BY <1>1, <1>3, <2>2, <2>6, ThriftyEarned
<1>4. /\ b.burstPot \in Nat /\ b.rLive \in Nat /\ b.lastTouch \in Int
  BY <1>1 DEF Typed, Earned
<1>5. ASSUME b2 = off PROVE Earned(b2)
  <2>1. /\ b.escrows = b2.escrows /\ b.arrays = b2.arrays
        /\ b2.TS = b.TS /\ b2.TE = b.TE /\ b2.B0 = b.B0 /\ b2.rLive = 0
        /\ b2.burstPot = 0 /\ b2.fracAcc = 0 /\ b2.lastTouch = b.lastTouch
    BY <1>1, <1>5 DEF Typed
  <2>2. /\ b2.rLive >= 0 /\ b2.burstPot \in Nat /\ b2.burstPot <= b.burstPot
        /\ b2.lastTouch >= b.lastTouch
    BY <1>4, <2>1
  <2> QED
    BY <1>3, <2>1, <2>2
<1>6. PICK d : /\ Books(d) /\ Earned(d) /\ Typed(from) /\ SameRecords(b, from)
               /\ d.escrows = from.escrows /\ d.arrays = from.arrays
               /\ from.TS = d.TS /\ from.TE = d.TE /\ from.B0 = d.B0
               /\ from.rLive = d.rLive /\ from.burstPot = d.burstPot
               /\ from.fracAcc = d.fracAcc /\ from.lastTouch >= d.lastTouch
               /\ d.lastTouch \in Int
  <2>1. CASE b.BurstEnabled
    <3> DEFINE a == accrue(b, now)
    <3>1. Books(a) /\ Earned(a) /\ Typed(a) /\ SameRecords(b, a) /\ from = a
      BY <1>1, <2>1, AccrueEarns, AccrueFrame
    <3> HIDE DEF a, from
    <3>2. a.lastTouch \in Int
      BY <3>1 DEF Typed
    <3>3. from.lastTouch >= a.lastTouch
      BY <3>1, <3>2
    <3> QED
      BY <3>1, <3>2, <3>3
  <2>2. CASE ~b.BurstEnabled
    <3>1. from = lit
      BY <2>2
    <3>2. /\ b.escrows = lit.escrows /\ b.arrays = lit.arrays
          /\ lit.TS = b.TS /\ lit.TE = b.TE /\ lit.B0 = b.B0 /\ lit.rLive = b.rLive
          /\ lit.burstPot = b.burstPot /\ lit.fracAcc = b.fracAcc /\ lit.lastTouch = now
      BY <1>1 DEF Typed
    <3>3. lit.lastTouch >= b.lastTouch
      BY <1>4, <3>2
    <3>4. Typed(lit) /\ SameRecords(b, lit)
      <4>1. Typed(lit)
        BY <1>1 DEF Typed
      <4>2. SameRecords(b, lit)
        BY <1>1 DEF Typed, SameRecords, SameMoney
      <4> QED
        BY <4>1, <4>2
    <3> HIDE DEF lit, from
    <3> QED
      BY <1>4, <3>1, <3>2, <3>3, <3>4
  <2> QED
    BY <2>1, <2>2
<1> HIDE DEF from
<1>7. d.burstPot \in Nat /\ d.rLive >= 0
  BY <1>6 DEF Earned, Books, Typed
<1>8. ASSUME b2 = on PROVE Earned(b2)
  <2>1. /\ from.escrows = b2.escrows /\ from.arrays = b2.arrays
        /\ b2.TS = from.TS /\ b2.TE = from.TE /\ b2.B0 = from.B0
        /\ b2.rLive = from.rLive /\ b2.burstPot = from.burstPot
        /\ b2.fracAcc = from.fracAcc /\ b2.lastTouch = from.lastTouch
    BY <1>6, <1>8 DEF Typed
  <2>2. b2.burstPot <= d.burstPot
    BY <1>6, <1>7, <2>1
  <2> QED
    BY <1>3, <1>6, <1>7, <2>1, <2>2
<1>9. ASSUME b2 = trim, on.burstPot > burstCeiling(on) PROVE Earned(b2)
  <2>1. /\ from.escrows = b2.escrows /\ from.arrays = b2.arrays
        /\ b2.TS = from.TS /\ b2.TE = from.TE /\ b2.B0 = from.B0
        /\ b2.rLive = from.rLive /\ b2.burstPot = burstCeiling(on)
        /\ b2.fracAcc = 0 /\ b2.lastTouch = from.lastTouch
        /\ on.burstPot = from.burstPot
    BY <1>6, <1>9 DEF Typed
  <2>2. burstCeiling(b2) = burstCeiling(on)
    BY <1>6, <1>9 DEF Typed, burstCeiling
  <2>3. burstCeiling(b2) \in Nat
    BY <1>1, CeilingNat
  <2> HIDE DEF on
  <2>4. b2.burstPot \in Nat /\ b2.burstPot <= d.burstPot
    BY <1>6, <1>7, <1>9, <2>1, <2>2, <2>3
  <2> QED
    BY <1>3, <1>6, <1>7, <2>1, <2>4
<1>10. Earned(b2)
  BY <1>2, <1>5, <1>8, <1>9
<1> QED
  BY <1>10 DEF b2

(* The window an account is created with is never replaced.                *)
WindowStands == \A win \in Windows : win[1] >= win[2]

(* A new budget has no tokens and has earned none.                         *)
LEMMA InitEarned ==
  ASSUME Init, \A cfg \in NewConfigs : cfg.B0 <= MaxB0
  PROVE  Earned(bd)
<1>1. PICK cfg \in NewConfigs : bd = NewDurableBurst(cfg)
  BY DEF Init
<1>2. /\ bd.burstPot = 0 /\ bd.fracAcc = 0 /\ bd.rLive = 0 /\ bd.lastTouch = bd.TS
      /\ DOMAIN bd.escrows = {} /\ DOMAIN bd.arrays = {} /\ bd.B0 = cfg.B0
  BY <1>1 DEF NewDurableBurst
<1>3. Books(bd)
  BY InitIInv DEF IInv
<1>4. ResvNat(bd)
  BY <1>2 DEF ResvNat
<1>5. DOMAIN JobTokens(bd) = {} /\ DOMAIN TaskTokens(bd) = {}
  BY <1>2 DEF JobTokens, TaskTokens, RunningTasks
<1>6. Total(JobTokens(bd)) = 0 /\ Total(TaskTokens(bd)) = 0
  BY <1>5, TotalEmpty
<1>7. TokensOut(bd) = 0
  BY <1>2, <1>3, <1>4, <1>6, TokenFamilies
<1>8. window(bd) \in Nat \ {0} /\ bd.TS \in Int /\ MaxB0 \in Nat
  BY <1>3, WindowType, InputAssumption DEF Books, Typed
<1>9. Holding(bd) = 0 /\ MaxB0 * (bd.lastTouch - bd.TS) = 0
  BY <1>2, <1>7, <1>8 DEF Holding
<1>10. bd.fracAcc \in 0 .. (window(bd) - 1)
  BY <1>2, <1>8
<1>11. Holding(bd) <= MaxB0 * (bd.lastTouch - bd.TS)
  BY <1>9
<1>12. bd.burstPot >= 0 /\ bd.rLive >= 0 /\ bd.B0 <= MaxB0
  BY <1>2
<1> QED
  BY <1>4, <1>10, <1>11, <1>12 DEF Earned

(* Every method, with the clock in order, keeps it.                        *)
LEMMA NextEarned ==
  ASSUME Skew = 0, WindowStands, IInv, Fresh, Earned(bd), [Next]_vars
  PROVE  Earned(bd')
<1>1. Books(bd) /\ clock \in Int /\ bd.lastTouch <= clock
  BY DEF IInv, Fresh
<1>2. \A now \in Nows : now \in Int /\ bd.lastTouch <= now
  <2>1. Nows = {clock}
    BY <1>1 DEF Nows
  <2> QED
    BY <1>1, <2>1
<1>3. \A wal \in WalOutcomes : wal \in BOOLEAN
  BY InputAssumption
<1> DEFINE Goal == Earned(bd')
<1>4. ASSUME NEW r, Publish(r) \/ PublishIfOK(r), Earned(r.bd)  PROVE Goal
  BY <1>4 DEF Publish, PublishIfOK
<1> SUFFICES Goal
  OBVIOUS
<1>5. ASSUME bd' = bd PROVE Goal
  BY <1>5
<1> HIDE DEF Goal
<1>7. ASSUME NEW j \in JobIDs, JobStep(j)  PROVE Goal
  <2>1. ASSUME NEW c \in Rates, NEW w \in Walltimes, DoSubmit(j, c, w)
        PROVE  Goal
    <3>1. c \in Int /\ w \in Nat
      BY InputAssumption
    <3>2. PICK now \in Nows, wal \in WalOutcomes : Publish(SubmitAt(bd, j, c, w, now, wal))
      BY <2>1 DEF DoSubmit
    <3>3. Earned(SubmitAt(bd, j, c, w, now, wal).bd)
      BY <1>1, <1>2, <1>3, <3>1, SubmitEarns
    <3> QED
      BY <1>4, <3>2, <3>3
  <2>2. CASE DoStart(j)
    <3>1. PICK now \in Nows, wal \in WalOutcomes : Publish(Start(bd, j, now, wal))
      BY <2>2 DEF DoStart
    <3>2. Earned(Start(bd, j, now, wal).bd)
      BY <1>1, <1>2, <1>3, StartEarns
    <3> QED
      BY <1>4, <3>1, <3>2
  <2>3. 0 \in Int
    OBVIOUS
  <2>4. CASE DoTimeout(j)
    BY <1>1, <1>2, <1>3, <1>4, <2>3, <2>4, ExitEarns, Zenon DEF DoTimeout
  <2>5. ASSUME NEW rt \in Runtimes, DoComplete(j, rt) \/ DoCancel(j, rt) \/ DoInfraFail(j, rt)
        PROVE  Goal
    <3>1. rt \in Int
      BY InputAssumption
    <3> QED
      BY <1>1, <1>2, <1>3, <1>4, <2>5, <3>1, ExitEarns, Zenon
         DEF DoComplete, DoCancel, DoInfraFail
  <2>6. ASSUME NEW c \in NewRates, DoReprice(j, c)  PROVE Goal
    <3>1. c \in Int
      BY InputAssumption
    <3>2. PICK now \in Nows, wal \in WalOutcomes : Publish(Reprice(bd, j, c, now, wal))
      BY <2>6 DEF DoReprice
    <3>3. Earned(Reprice(bd, j, c, now, wal).bd)
      BY <1>1, <1>2, <1>3, <3>1, RepriceEarns
    <3> QED
      BY <1>4, <3>2, <3>3
  <2> QED
    BY <1>7, <2>1, <2>2, <2>4, <2>5, <2>6 DEF JobStep
<1>8. ASSUME NEW k \in ArrayIDs, ArrayStep(k)  PROVE Goal
  <2>1. ASSUME NEW c \in Rates, NEW n \in TaskCounts, NEW w \in Walltimes,
               DoSubmitArray(k, c, n, w)
        PROVE  Goal
    <3>1. c \in Int /\ n \in Int /\ w \in Nat
      BY InputAssumption
    <3>2. PICK now \in Nows, wal \in WalOutcomes :
            Publish(SubmitArrayAt(bd, k, c, n, w, now, wal))
      BY <2>1 DEF DoSubmitArray
    <3>3. Earned(SubmitArrayAt(bd, k, c, n, w, now, wal).bd)
      BY <1>1, <1>2, <1>3, <3>1, SubmitArrayEarns
    <3> QED
      BY <1>4, <3>2, <3>3
  <2>2. ASSUME NEW i \in TaskIdxs, DoStartTask(k, i)  PROVE Goal
    <3>1. PICK now \in Nows, wal \in WalOutcomes : Publish(StartTask(bd, k, i, now, wal))
      BY <2>2 DEF DoStartTask
    <3>2. Earned(StartTask(bd, k, i, now, wal).bd)
      BY <1>1, <1>2, <1>3, StartTaskEarns
    <3> QED
      BY <1>4, <3>1, <3>2
  <2>3. 0 \in Int
    OBVIOUS
  <2>4. ASSUME NEW i \in TaskIdxs, DoTimeoutTask(k, i)  PROVE Goal
    BY <1>1, <1>2, <1>3, <1>4, <2>3, <2>4, TaskExitEarns, Zenon
       DEF DoTimeoutTask
  <2>5. ASSUME NEW i \in TaskIdxs, NEW rt \in Runtimes,
               \/ DoCompleteTask(k, i, rt) \/ DoCancelTask(k, i, rt)
               \/ DoInfraFailTask(k, i, rt)
        PROVE  Goal
    <3>1. rt \in Int
      BY InputAssumption
    <3> QED
      BY <1>1, <1>2, <1>3, <1>4, <2>5, <3>1, TaskExitEarns, Zenon
         DEF DoCompleteTask, DoCancelTask, DoInfraFailTask
  <2> QED
    BY <1>8, <2>1, <2>2, <2>4, <2>5 DEF ArrayStep
<1>9. CASE AdminStep
  <2>1. ASSUME NEW amt \in Amounts, DoTopUp(amt) \/ DoWithdraw(amt)  PROVE Goal
    <3>1. amt \in Int
      BY InputAssumption
    <3> QED
      BY <1>1, <1>2, <1>3, <1>4, <2>1, <3>1, AdminEarns, Zenon DEF DoTopUp, DoWithdraw
  <2>2. ASSUME NEW c \in NewRates, DoSetRate(c)  PROVE Goal
    <3>1. c \in Int
      BY InputAssumption
    <3> QED
      BY <1>1, <1>2, <1>3, <1>4, <2>2, <3>1, AdminEarns, Zenon DEF DoSetRate
  <2>3. ASSUME NEW win \in Windows, DoSetWindow(win)  PROVE Goal
    <3>1. PICK now \in Nows, wal \in WalOutcomes :
            Publish(SetWindow(bd, win[1], win[2], now, wal))
      BY <2>3 DEF DoSetWindow
    <3>2. SetWindow(bd, win[1], win[2], now, wal).bd = bd
      BY DEF WindowStands, SetWindow, Rejected
    <3> QED
      BY <1>4, <3>1, <3>2
  <2>4. ASSUME NEW t \in BurstConfigs, DoSetBurst(t)  PROVE Goal
    <3>1. t[1] \in BOOLEAN /\ t[2] \in Int /\ t[3] \in Int
      BY InputAssumption
    <3>2. PICK now \in Nows, wal \in WalOutcomes :
            Publish(SetBurst(bd, t[1], t[2], t[3], now, wal))
      BY <2>4 DEF DoSetBurst
    <3>3. Earned(SetBurst(bd, t[1], t[2], t[3], now, wal).bd)
      BY <1>1, <1>2, <1>3, <3>1, SetBurstEarns
    <3> QED
      BY <1>4, <3>2, <3>3
  <2>5. CASE DoLapse
    <3>1. PICK wal \in WalOutcomes : bd' = Lapse(bd, wal).bd
      BY <2>5 DEF DoLapse
    <3>2. 0 \in Int
      OBVIOUS
    <3>3. Earned(Lapse(bd, wal).bd)
      BY <1>1, <1>3, <3>2, AdminEarns, Zenon
    <3> QED
      BY <3>1, <3>3 DEF Goal
  <2> QED
    BY <1>9, <2>1, <2>2, <2>3, <2>4, <2>5 DEF AdminStep
<1>10. CASE Report
  <2>1. PICK now \in Nows : bd' = accrue(bd, now)
    BY <1>10 DEF Report
  <2>2. Earned(accrue(bd, now))
    BY <1>1, <1>2, AccrueEarns
  <2> QED
    BY <2>1, <2>2 DEF Goal
<1>11. CASE Tick \/ UNCHANGED vars
  BY <1>5, <1>11 DEF Tick, vars
<1> QED
  BY <1>7, <1>8, <1>9, <1>10, <1>11 DEF Next

(* Where callers' clocks arrive in order and the window is not moved,      *)
(* permission is earned: the tokens in the pot and in the hands of running *)
(* jobs and tasks never exceed what the pace of the largest allocation has *)
(* banked since the window opened, whatever the order of dispatches,       *)
(* settles, failed appends, top-ups, withdrawals and burst switches        *)
(* (burst.go, accrue and BurstBoundsOK; budget.go, Start and settle).      *)
THEOREM TokensEarned ==
  /\ Skew = 0
  /\ \A win \in Windows : win[1] >= win[2]
  /\ \A cfg \in NewConfigs : cfg.B0 <= MaxB0
  => (Spec => []PermissionEarned)
<1> SUFFICES ASSUME Skew = 0, \A win \in Windows : win[1] >= win[2],
                    \A cfg \in NewConfigs : cfg.B0 <= MaxB0
             PROVE  Spec => []PermissionEarned
  OBVIOUS
<1> DEFINE Inv == Fresh /\ Earned(bd)
<1>1. Init => Inv
  BY InitFresh, InitEarned
<1>2. IInv /\ Inv /\ [Next]_vars => Inv'
  <2>1. WindowStands
    BY DEF WindowStands
  <2> SUFFICES ASSUME IInv, Fresh, Earned(bd), [Next]_vars PROVE Fresh' /\ Earned(bd')
    OBVIOUS
  <2> QED
    BY <2>1, NextFresh, NextEarned
<1>3. Inv => PermissionEarned
  BY DEF Earned, ResvNat, Holding, PermissionEarned
<1> HIDE DEF Inv
<1> QED
  BY <1>1, <1>2, <1>3, BooksBalance, PTL DEF Spec
=============================================================================
