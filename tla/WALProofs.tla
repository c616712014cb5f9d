------------------------------ MODULE WALProofs -----------------------------
(***************************************************************************)
(* The offsets of the log handle tell the truth, for any number of         *)
(* appenders and flushers.                                                 *)
(***************************************************************************)
EXTENDS WAL, TLAPS

(* A goroutine inside flushOnce carries an obligation: its target reaches  *)
(* its mark; once its fsync has returned the target is durable; once the   *)
(* offset is advanced, so is the mark, or the sticky error is set.         *)
Carries(p) ==
  /\ pc[p] \in {"fsync", "publish", "fail"} => mark[p] <= target[p]
  /\ pc[p] = "publish" => target[p] <= durable
  /\ pc[p] = "flushed" => syncErr \/ mark[p] <= syncedOff
  /\ pc[p] = "barrier" => mark[p] <= durable

WInv ==
  /\ TypeOK
  /\ SyncedIsDurable
  /\ \A p \in Syncers : Carries(p)

(* A freshly opened handle satisfies the inductive invariant.              *)
LEMMA InitWInv == Init => WInv
<1> SUFFICES ASSUME Init  PROVE WInv
  OBVIOUS
<1>1. \A p \in Procs : pc[p] \in {"idle", "select"}
  BY DEF Init
<1>2. /\ writeOff = 0 /\ syncedOff = 0 /\ durable = 0
      /\ pc \in [Procs -> {"idle", "select"}]
      /\ target = [p \in Syncers |-> 0] /\ mark = [p \in Syncers |-> 0]
  BY <1>1 DEF Init
<1>3. TypeOK
  <2>1. pc \in [Procs -> {"idle", "nudge", "select", "stopped", "begin",
                         "fsync", "publish", "fail", "flushed", "wait",
                         "failed", "barrier"}]
    BY <1>2
  <2>2. target \in [Syncers -> 0 .. writeOff]
    BY <1>2
  <2>3. mark \in [Syncers -> 0 .. writeOff]
    BY <1>2
  <2>4. /\ syncErr \in BOOLEAN /\ flushCh \in BOOLEAN
        /\ doneCh \in BOOLEAN /\ open \in BOOLEAN
    BY DEF Init
  <2>5. /\ writeOff \in Nat /\ syncedOff \in 0 .. writeOff
        /\ durable \in 0 .. writeOff
    BY <1>2
  <2> QED
    BY <2>1, <2>2, <2>3, <2>4, <2>5, Zenon DEF TypeOK
<1>4. SyncedIsDurable
  BY <1>2 DEF SyncedIsDurable
<1>5. ASSUME NEW p \in Syncers  PROVE Carries(p)
  BY <1>1, <1>5 DEF Carries, Procs
<1> QED
  BY <1>3, <1>4, <1>5 DEF WInv

(* A step that leaves a goroutine alone, and moves no offset backwards,    *)
(* keeps what it carries.                                                  *)
Offsets ==
  /\ durable' \in Nat /\ syncedOff' \in Nat
  /\ durable <= durable' /\ syncedOff <= syncedOff' /\ (syncErr => syncErr')

(* A goroutine that does not move keeps what it carries when the offsets   *)
(* only grow.                                                              *)
LEMMA OthersCarry ==
  ASSUME WInv, NEW p \in Syncers,
         pc'[p] = pc[p], target'[p] = target[p], mark'[p] = mark[p],
         Offsets
  PROVE  Carries(p)'
<1>1. /\ target[p] \in Nat /\ mark[p] \in Nat /\ durable \in Nat
      /\ syncedOff \in Nat
  BY DEF WInv, TypeOK
<1>2. Carries(p)
  BY DEF WInv
<1> QED
  BY <1>1, <1>2 DEF Carries, Offsets

(* Every step of every goroutine keeps the inductive invariant.            *)
LEMMA NextWInv == WInv /\ [Next]_vars => WInv'
<1> SUFFICES ASSUME WInv, [Next]_vars  PROVE WInv'
  OBVIOUS
<1>1. /\ writeOff \in Nat /\ syncedOff \in 0 .. writeOff
      /\ durable \in 0 .. writeOff /\ syncedOff <= durable
      /\ syncErr \in BOOLEAN /\ flushCh \in BOOLEAN /\ doneCh \in BOOLEAN
      /\ open \in BOOLEAN /\ DOMAIN pc = Procs
      /\ target \in [Syncers -> 0 .. writeOff]
      /\ mark \in [Syncers -> 0 .. writeOff]
  BY DEF WInv, TypeOK, SyncedIsDurable
<1>2. ASSUME NEW q \in Appenders, AppendWrite(q)  PROVE WInv'
  <2>1. TypeOK'
    BY <1>1, <1>2 DEF WInv, TypeOK, AppendWrite, Goto, Procs
  <2>2. SyncedIsDurable'
    BY <1>1, <1>2 DEF AppendWrite, SyncedIsDurable
  <2>3. \A p \in Syncers : Carries(p)'
    BY <1>1, <1>2 DEF WInv, Carries, AppendWrite, Goto, Procs, TypeOK
  <2> QED
    BY <2>1, <2>2, <2>3 DEF WInv
<1>3. ASSUME NEW q \in Appenders, AppendNudge(q)  PROVE WInv'
  <2>1. TypeOK'
    BY <1>1, <1>3 DEF WInv, TypeOK, AppendNudge, Goto, Procs
  <2>2. SyncedIsDurable'
    BY <1>1, <1>3 DEF AppendNudge, SyncedIsDurable
  <2>3. \A p \in Syncers : Carries(p)'
    BY <1>1, <1>3 DEF WInv, Carries, AppendNudge, Goto, Procs, TypeOK
  <2> QED
    BY <2>1, <2>2, <2>3 DEF WInv
<1>4. CASE CommitterWake \/ CommitterStop \/ CommitterLoop
  <2>1. TypeOK'
    BY <1>1, <1>4 DEF WInv, TypeOK, CommitterWake, CommitterStop,
                      CommitterLoop, Goto, Procs, Syncers
  <2>2. SyncedIsDurable'
    BY <1>1, <1>4 DEF CommitterWake, CommitterStop, CommitterLoop,
                      SyncedIsDurable
  <2>3. \A p \in Syncers : Carries(p)'
    BY <1>1, <1>4 DEF WInv, Carries, CommitterWake, CommitterStop,
                      CommitterLoop, Goto, Procs, Syncers, TypeOK
  <2> QED
    BY <2>1, <2>2, <2>3 DEF WInv
<1>5. ASSUME NEW q \in Syncers, FlushBegin(q)  PROVE WInv'
  <2>1. TypeOK'
    BY <1>1, <1>5 DEF WInv, TypeOK, FlushBegin, Goto, Procs
  <2>2. SyncedIsDurable'
    BY <1>1, <1>5 DEF FlushBegin, SyncedIsDurable
  <2>3. Carries(q)'
    BY <1>1, <1>5 DEF WInv, Carries, FlushBegin, Goto, Procs
  <2>4. ASSUME NEW p \in Syncers, p # q  PROVE Carries(p)'
    <3>1. pc'[p] = pc[p] /\ target'[p] = target[p] /\ mark'[p] = mark[p]
      BY <1>1, <1>5, <2>4 DEF FlushBegin, Goto, Procs
    <3>2. /\ durable' = durable /\ syncedOff' = syncedOff
          /\ syncErr' = syncErr
      BY <1>5 DEF FlushBegin
    <3>3. Offsets
      BY <1>1, <3>2 DEF Offsets
    <3> QED
      BY <2>4, <3>1, <3>3, OthersCarry
  <2> QED
    BY <2>1, <2>2, <2>3, <2>4 DEF WInv
<1>6. ASSUME NEW q \in Syncers, Fsync(q) \/ FsyncFails(q)  PROVE WInv'
  <2>1. TypeOK'
    BY <1>1, <1>6 DEF WInv, TypeOK, Fsync, FsyncFails, Goto, Procs
  <2>2. SyncedIsDurable'
    BY <1>1, <1>6 DEF Fsync, FsyncFails, SyncedIsDurable
  <2>3. Carries(q)'
    BY <1>1, <1>6 DEF WInv, Carries, Fsync, FsyncFails, Goto, Procs
  <2>4. ASSUME NEW p \in Syncers, p # q  PROVE Carries(p)'
    <3>1. pc'[p] = pc[p] /\ target'[p] = target[p] /\ mark'[p] = mark[p]
      BY <1>1, <1>6, <2>4 DEF Fsync, FsyncFails, Goto, Procs
    <3>2. /\ durable' \in Nat /\ durable <= durable'
          /\ syncedOff' = syncedOff /\ syncErr' = syncErr
      BY <1>1, <1>6 DEF Fsync, FsyncFails
    <3>3. Offsets
      BY <1>1, <3>2 DEF Offsets
    <3> QED
      BY <2>4, <3>1, <3>3, OthersCarry
  <2> QED
    BY <2>1, <2>2, <2>3, <2>4 DEF WInv
<1>7. ASSUME NEW q \in Syncers, FlushEnd(q)  PROVE WInv'
  <2>1. TypeOK'
    BY <1>1, <1>7 DEF WInv, TypeOK, FlushEnd, Goto, Procs
  <2>2. SyncedIsDurable'
    BY <1>1, <1>7 DEF WInv, Carries, FlushEnd, SyncedIsDurable
  <2>3. Carries(q)'
    <3>1. pc'[q] = "flushed" /\ mark'[q] = mark[q]
      BY <1>1, <1>7 DEF FlushEnd, Goto, Procs
    <3>2. pc[q] \in {"publish", "fail"} /\ mark[q] <= target[q]
      BY <1>7 DEF FlushEnd, WInv, Carries
    <3>3. CASE pc[q] = "fail"
      <4>1. syncErr'
        BY <1>7, <3>3, Zenon DEF FlushEnd
      <4> QED
        BY <3>1, <4>1, Zenon DEF Carries
    <3>4. CASE pc[q] = "publish"
      <4>1. mark[q] <= syncedOff'
        BY <1>1, <1>7, <3>2, <3>4 DEF FlushEnd
      <4> QED
        BY <3>1, <4>1 DEF Carries
    <3> QED
      BY <3>2, <3>3, <3>4
  <2>4. ASSUME NEW p \in Syncers, p # q  PROVE Carries(p)'
    <3>1. pc'[p] = pc[p] /\ target'[p] = target[p] /\ mark'[p] = mark[p]
      BY <1>1, <1>7, <2>4 DEF FlushEnd, Goto, Procs
    <3>2. /\ syncedOff' \in Nat /\ syncedOff <= syncedOff'
          /\ durable' = durable /\ (syncErr => syncErr')
      BY <1>1, <1>7 DEF FlushEnd
    <3>3. Offsets
      BY <1>1, <3>2 DEF Offsets
    <3> QED
      BY <2>4, <3>1, <3>3, OthersCarry
  <2> QED
    BY <2>1, <2>2, <2>3, <2>4 DEF WInv
<1>8. ASSUME NEW q \in Flushers, FlushMark(q) \/ FlushReturn(q)  PROVE WInv'
  <2>1. TypeOK'
    BY <1>1, <1>8 DEF WInv, TypeOK, FlushMark, FlushReturn, Goto, Procs,
                      Syncers
  <2>2. SyncedIsDurable'
    BY <1>1, <1>8 DEF FlushMark, FlushReturn, SyncedIsDurable
  <2>3. Carries(q)'
    BY <1>1, <1>8 DEF WInv, Carries, FlushMark, FlushReturn, Goto, Procs,
                      Syncers
  <2>4. ASSUME NEW p \in Syncers, p # q  PROVE Carries(p)'
    <3>1. pc'[p] = pc[p] /\ target'[p] = target[p] /\ mark'[p] = mark[p]
      BY <1>1, <1>8, <2>4 DEF FlushMark, FlushReturn, Goto, Procs, Syncers
    <3>2. /\ durable' = durable /\ syncedOff' = syncedOff
          /\ syncErr' = syncErr
      BY <1>8 DEF FlushMark, FlushReturn
    <3>3. Offsets
      BY <1>1, <3>2 DEF Offsets
    <3> QED
      BY <2>4, <3>1, <3>3, OthersCarry
  <2> QED
    BY <2>1, <2>2, <2>3, <2>4 DEF WInv
<1>9. CASE CloseSignal \/ CloseJoin \/ CloseFile
  <2>1. TypeOK'
    <3>1. CASE CloseSignal
      BY <1>1, <3>1 DEF WInv, TypeOK, CloseSignal, Goto, Procs, Syncers
    <3>2. CASE CloseJoin
      BY <1>1, <3>2 DEF WInv, TypeOK, CloseJoin, Goto, Procs, Syncers
    <3>3. CASE CloseFile
      BY <1>1, <3>3 DEF WInv, TypeOK, CloseFile, Goto, Procs, Syncers
    <3> QED
      BY <1>9, <3>1, <3>2, <3>3
  <2>2. SyncedIsDurable'
    BY <1>1, <1>9 DEF CloseSignal, CloseJoin, CloseFile, SyncedIsDurable
  <2>3. "closer" \in Syncers
    BY DEF Syncers
  <2>4. Carries("closer")'
    BY <1>1, <1>9, <2>3 DEF WInv, Carries, CloseSignal, CloseJoin, CloseFile,
                            Goto, Procs
  <2>5. ASSUME NEW p \in Syncers, p # "closer"  PROVE Carries(p)'
    <3>1. pc'[p] = pc[p] /\ target'[p] = target[p] /\ mark'[p] = mark[p]
      BY <1>1, <1>9, <2>5 DEF CloseSignal, CloseJoin, CloseFile, Goto, Procs
    <3>2. /\ durable' = durable /\ syncedOff' = syncedOff
          /\ syncErr' = syncErr
      BY <1>9 DEF CloseSignal, CloseJoin, CloseFile
    <3>3. Offsets
      BY <1>1, <3>2 DEF Offsets
    <3> QED
      BY <2>5, <3>1, <3>3, OthersCarry
  <2> QED
    BY <2>1, <2>2, <2>4, <2>5 DEF WInv
<1>10. CASE UNCHANGED vars
  BY <1>10 DEF WInv, TypeOK, SyncedIsDurable, Carries, vars
<1> QED
  BY <1>2, <1>3, <1>4, <1>5, <1>6, <1>7, <1>8, <1>9, <1>10
     DEF Next, FlushOnce

(* SyncedSize never runs ahead of the disk (wal.go, flushOnce), whoever    *)
(* else is syncing and whatever is appended meanwhile.                     *)
THEOREM SyncedTruthful == Spec => []SyncedIsDurable
<1>1. WInv => SyncedIsDurable
  BY DEF WInv
<1> QED
  BY <1>1, InitWInv, NextWInv, PTL DEF Spec

(* Flush and Close are durability barriers (wal.go, Flush and Close).      *)
THEOREM FlushIsBarrier == Spec => []Barrier
<1>1. WInv => Barrier
  BY DEF WInv, TypeOK, Carries, Barrier
<1> QED
  BY <1>1, InitWInv, NextWInv, PTL DEF Spec

(* Types, and the order of the offsets (wal.go): neither what is fsynced   *)
(* nor what a goroutine aims at or waits for overtakes what is written.    *)
THEOREM TypeCorrect == Spec => []TypeOK
<1>1. WInv => TypeOK
  BY DEF WInv
<1> QED
  BY <1>1, InitWInv, NextWInv, PTL DEF Spec
=============================================================================
