---------------------------- MODULE DurableProofs ---------------------------
(***************************************************************************)
(* The offsets of the log stay ordered and within the file, whatever       *)
(* writes fail or tear, whenever snapshots are taken, fsyncs begin and end *)
(* and the process or the machine goes down.                               *)
(***************************************************************************)
EXTENDS Durable, TLAPS

(* The log is a sequence of units.                                         *)
IsLog(f) == \E U : f \in Seq(U)

(* The inductive invariant: what an fsync in flight will claim lies within *)
(* what was written, what it will make durable within the file.            *)
Ordered(w, d, n) ==
  /\ d \in 0 .. n
  /\ w.writeOff \in 0 .. n
  /\ w.syncedOff \in 0 .. w.writeOff
  /\ w.target \in 0 .. w.writeOff
  /\ w.reach \in 0 .. n

Offsets == Ordered(wal, durable, Len(file))

Handles ==
  [writeOff : Nat, syncedOff : Nat, syncErr : BOOLEAN, syncing : BOOLEAN,
   target : Nat, reach : Nat, opened : Nat]

DInv ==
  /\ IsLog(file) /\ wal \in Handles /\ Offsets
  /\ status \in {"up", "down", "refused"}
  /\ clock \in Int /\ crashes \in Nat
  /\ snap \in snaps /\ \A s \in snaps : s.WALOffset \in Nat

(* A log, one unit longer.                                                 *)
LEMMA LogLonger ==
  ASSUME NEW f, IsLog(f), NEW x
  PROVE  IsLog(f \o <<x>>) /\ Len(f \o <<x>>) = Len(f) + 1 /\ Len(f) \in Nat
<1>1. PICK U : f \in Seq(U)
  BY DEF IsLog
<1> DEFINE V == U \cup {x}
<1>2. f \in Seq(V) /\ <<x>> \in Seq(V)
  BY <1>1
<1> HIDE DEF V
<1>3. f \o <<x>> \in Seq(V) /\ Len(f \o <<x>>) = Len(f) + 1 /\ Len(f) \in Nat
  BY <1>2
<1> QED
  BY <1>3 DEF IsLog

(* Two units longer.                                                       *)
LEMMA LogLonger2 ==
  ASSUME NEW f, IsLog(f), NEW x, NEW y
  PROVE  IsLog(f \o <<x, y>>) /\ Len(f \o <<x, y>>) = Len(f) + 2
<1>1. PICK U : f \in Seq(U)
  BY DEF IsLog
<1> DEFINE V == U \cup {x, y}
<1>2. f \in Seq(V) /\ <<x, y>> \in Seq(V)
  BY <1>1
<1> HIDE DEF V
<1>3. f \o <<x, y>> \in Seq(V) /\ Len(f \o <<x, y>>) = Len(f) + 2
  BY <1>2
<1> QED
  BY <1>3 DEF IsLog

(* Cut to a prefix.                                                        *)
LEMMA LogCut ==
  ASSUME NEW f, IsLog(f), NEW n \in 0 .. Len(f)
  PROVE  IsLog(SubSeq(f, 1, n)) /\ Len(SubSeq(f, 1, n)) = n
<1>1. PICK U : f \in Seq(U)
  BY DEF IsLog
<1>2. SubSeq(f, 1, n) \in Seq(U) /\ Len(SubSeq(f, 1, n)) = n
  BY <1>1
<1> QED
  BY <1>2 DEF IsLog

(* A handle as it is opened.                                               *)
LEMMA OpenedWAL ==
  ASSUME NEW n \in Nat
  PROVE  /\ OpenWAL(n) \in Handles
         /\ \A m \in Nat : \A d \in 0 .. m : n <= m => Ordered(OpenWAL(n), d, m)
<1>1. /\ OpenWAL(n) \in Handles /\ OpenWAL(n).writeOff = n
      /\ OpenWAL(n).syncedOff = n
  BY DEF OpenWAL, Handles
<1>2. OpenWAL(n).target = 0 /\ OpenWAL(n).reach = 0
  BY DEF OpenWAL
<1> QED
  BY <1>1, <1>2 DEF Ordered

(* A new state directory.                                                  *)
LEMMA InitDInv == Init => DInv
<1> SUFFICES ASSUME Init PROVE DInv
  OBVIOUS
<1>1. IsLog(file) /\ Len(file) = 0
  <2>1. file \in Seq({}) /\ Len(file) = 0
    BY DEF Init
  <2> QED
    BY <2>1 DEF IsLog
<1>2. 0 \in Nat /\ wal = OpenWAL(0)
  BY DEF Init
<1>3. wal \in Handles /\ Offsets
  BY <1>1, <1>2, OpenedWAL DEF Init, Offsets
<1>4. clock \in Int
  BY DurableAssumption DEF Init
<1>5. snap \in snaps /\ \A s \in snaps : s.WALOffset \in Nat
  BY DEF Init, captureSnapshot
<1> QED
  BY <1>1, <1>3, <1>4, <1>5 DEF DInv, Init

(* An append moves the written offset only past a whole record, and never  *)
(* shortens the file.                                                      *)
LEMMA AppendKept ==
  ASSUME DInv, NEW outcome \in {"ok", "fail", "torn"}, NEW cmd,
         Append2(outcome, cmd), durable' = durable
  PROVE  IsLog(file') /\ wal' \in Handles /\ Offsets'
<1>0. Len(file) \in Nat /\ IsLog(file)
  BY LogLonger DEF DInv
<1>1. CASE outcome = "ok"
  <2>1. /\ file' = file \o <<[part |-> "hdr", cmd |-> cmd], [part |-> "pay", cmd |-> cmd]>>
        /\ wal' = [wal EXCEPT !.writeOff = @ + 2]
    BY <1>1 DEF Append2
  <2>2. IsLog(file') /\ Len(file') = Len(file) + 2
    BY <1>0, <2>1, LogLonger2
  <2>3. PICK m \in Nat : m = wal.writeOff + 2
    BY DEF DInv, Handles
  <2>4. wal' = [wal EXCEPT !.writeOff = m]
    BY <2>1, <2>3
  <2>5. /\ wal' \in Handles /\ wal'.writeOff = m
        /\ wal'.syncedOff = wal.syncedOff /\ wal'.target = wal.target
        /\ wal'.reach = wal.reach
    BY <2>4 DEF DInv, Handles
  <2> QED
    BY <1>0, <2>2, <2>3, <2>5 DEF DInv, Offsets, Ordered
<1>2. CASE outcome = "torn"
  <2>1. file' = file \o <<[part |-> "hdr", cmd |-> cmd]>> /\ wal' = wal
    BY <1>2 DEF Append2
  <2>2. IsLog(file') /\ Len(file') = Len(file) + 1
    BY <1>0, <2>1, LogLonger
  <2> QED
    BY <1>0, <2>1, <2>2 DEF DInv, Offsets, Ordered, Handles
<1>3. CASE outcome = "fail"
  <2>1. file' = file /\ wal' = wal
    BY <1>3 DEF Append2
  <2> QED
    BY <2>1 DEF DInv, Offsets
<1> QED
  BY <1>1, <1>2, <1>3

(* Each step keeps the offsets in order.                                   *)
LEMMA NextDInv == DInv /\ [Next]_vars => DInv'
<1> SUFFICES ASSUME DInv, [Next]_vars PROVE DInv'
  OBVIOUS
<1>0. /\ Len(file) \in Nat /\ IsLog(file) /\ 0 \in Nat
      /\ wal.writeOff \in Nat /\ wal.syncedOff \in Nat
  BY LogLonger DEF DInv, Handles
<1>1. ASSUME NEW cmd, Call(cmd) PROVE DInv'
  <2>1. /\ UNCHANGED <<clock, status, durable, snap, snaps, crashes>>
        /\ \/ UNCHANGED <<file, wal>>
           \/ \E outcome \in {"ok", "fail", "torn"} : \E c : Append2(outcome, c)
    BY <1>1, DurableAssumption, Zenon DEF Call
  <2>2. IsLog(file') /\ wal' \in Handles /\ Offsets'
    <3>1. CASE UNCHANGED <<file, wal>>
      BY <2>1, <3>1 DEF DInv, Offsets
    <3>2. CASE \E outcome \in {"ok", "fail", "torn"} : \E c : Append2(outcome, c)
      BY <2>1, <3>2, AppendKept
    <3> QED
      BY <2>1, <3>1, <3>2
  <2> QED
    BY <2>1, <2>2 DEF DInv
<1>2. CASE Report \/ Tick
  BY <1>2 DEF Report, Tick, disk, DInv, Offsets
<1>3. CASE FlushBegin
  <2>1. /\ wal' \in Handles /\ wal'.writeOff = wal.writeOff
        /\ wal'.syncedOff = wal.syncedOff /\ wal'.target = wal.writeOff
        /\ wal'.reach = Len(file)
    BY <1>0, <1>3 DEF FlushBegin, DInv, Handles
  <2> QED
    BY <1>0, <1>3, <2>1 DEF FlushBegin, disk, DInv, Offsets, Ordered
<1>4. CASE FlushEnd
  BY <1>0, <1>4 DEF FlushEnd, DInv, Offsets, Ordered, Handles
<1>5. CASE FlushFails
  BY <1>5 DEF FlushFails, disk, DInv, Offsets, Ordered, Handles
<1>6. CASE Snapshot
  BY <1>0, <1>6 DEF Snapshot, captureSnapshot, DInv, Offsets
<1>7. CASE Close
  <2>1. durable' \in 0 .. Len(file) /\ file' = file
    BY <1>0, <1>7 DEF Close, DInv, Offsets, Ordered
  <2>2. wal' \in Handles /\ Offsets'
    BY <1>0, <1>7, <2>1, OpenedWAL DEF Close, Offsets
  <2> QED
    BY <1>7, <2>1, <2>2 DEF Close, DInv
<1>8. CASE Kill
  <2>1. durable' \in 0 .. Len(file) /\ file' = file
    BY <1>8 DEF Kill, disk, DInv, Offsets, Ordered
  <2>2. wal' \in Handles /\ Offsets'
    BY <1>0, <1>8, <2>1, OpenedWAL DEF Kill, Offsets
  <2> QED
    BY <1>8, <2>1, <2>2 DEF Kill, disk, DInv
<1>9. CASE PowerLoss
  <2>1. PICK s \in snaps, n \in Survivors :
          /\ file' = SubSeq(file, 1, n) /\ durable' = n
          /\ snap' = s /\ snaps' = {s}
    BY <1>9 DEF PowerLoss
  <2>2. n \in 0 .. Len(file) /\ n \in Nat
    BY <1>0, <2>1 DEF Survivors, DInv, Offsets, Ordered
  <2>3. IsLog(file') /\ Len(file') = n
    BY <1>0, <2>1, <2>2, LogCut
  <2>4. wal' = OpenWAL(0) /\ status' = "down" /\ clock' = clock /\ crashes' = crashes + 1
    BY <1>9 DEF PowerLoss
  <2> QED
    BY <1>0, <2>1, <2>2, <2>3, <2>4, OpenedWAL DEF DInv, Offsets
<1>10. CASE Recover
  <2>1. /\ status' \in {"up", "refused"} /\ wal' = OpenWAL(Len(file))
        /\ UNCHANGED <<clock, crashes, disk>>
    BY <1>10 DEF Recover
  <2>2. durable' \in 0 .. Len(file) /\ file' = file /\ Len(file) <= Len(file)
    BY <1>0, <2>1 DEF disk, DInv, Offsets, Ordered
  <2>3. wal' \in Handles /\ Offsets'
    BY <1>0, <2>1, <2>2, OpenedWAL DEF Offsets
  <2> QED
    BY <2>1, <2>2, <2>3 DEF disk, DInv
<1>11. CASE UNCHANGED vars
  BY <1>11 DEF vars, DInv, Offsets
<1> QED
  BY <1>1, <1>2, <1>3, <1>4, <1>5, <1>6, <1>7, <1>8, <1>9, <1>10, <1>11 DEF Next

(* What is synced never exceeds what is written, nor what is written or    *)
(* durable the file, and every snapshot names an offset: through failed    *)
(* and torn appends, fsyncs that overlap them or fail, closes, kills,      *)
(* power losses and recoveries (wal.go, durable.go).                       *)
THEOREM TypeCorrect == Spec => []TypeOK
<1>1. DInv => TypeOK
  BY DEF DInv, TypeOK, Offsets, Ordered, Handles
<1> QED
  BY <1>1, InitDInv, NextDInv, PTL DEF Spec
=============================================================================
