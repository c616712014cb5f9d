--------------------------------- MODULE WAL --------------------------------
(***************************************************************************)
(* Group commit (wal.go): appends under w.mu, a committer goroutine woken  *)
(* through a one-slot channel, explicit Flush barriers, and Close, with    *)
(* the fsync itself off the mutex.  A step is what happens in one critical *)
(* section, one channel operation or one fsync.                            *)
(*                                                                         *)
(* Offsets count records.  An fsync makes durable at least what had been   *)
(* written when it was called.  The handle is one opened with sync on; the *)
(* throughput mode used by tests has no committer and promises nothing.    *)
(***************************************************************************)
EXTENDS Integers, FiniteSets

CONSTANTS
  Appenders,   \* goroutines inside Append
  Flushers,    \* goroutines inside Flush
  MaxWrites    \* bound on the number of records

ASSUME WALAssumption ==
  /\ IsFiniteSet(Appenders) /\ IsFiniteSet(Flushers)
  /\ Appenders \cap Flushers = {} /\ MaxWrites \in Nat

VARIABLES
  writeOff, syncedOff, syncErr,  \* the fields guarded by w.mu
  flushCh,                       \* is the nudge slot full
  doneCh,                        \* has doneCh been closed
  open,                          \* is the file open
  durable,                       \* records on stable storage
  pc,                            \* where each goroutine is
  target,                        \* the offset its flushOnce has read
  mark                           \* the offset its Flush or Close must reach

vars == <<writeOff, syncedOff, syncErr, flushCh, doneCh, open, durable, pc,
          target, mark>>

Syncers == Flushers \cup {"committer", "closer"}
Procs == Appenders \cup Syncers

Init ==
  /\ writeOff = 0 /\ syncedOff = 0 /\ syncErr = FALSE /\ durable = 0
  /\ flushCh = FALSE /\ doneCh = FALSE /\ open = TRUE
  /\ pc = [p \in Procs |-> IF p = "committer" THEN "select" ELSE "idle"]
  /\ target = [p \in Syncers |-> 0]
  /\ mark = [p \in Syncers |-> 0]

Goto(p, l) == pc' = [pc EXCEPT ![p] = l]

-----------------------------------------------------------------------------
(* Append: the write, under the mutex; then the nudge, which is dropped    *)
(* when one is already pending.  A closed file or an earlier failed fsync  *)
(* refuses the append.                                                     *)
AppendWrite(p) ==
  /\ pc[p] = "idle" /\ writeOff < MaxWrites
  /\ ~syncErr /\ open
  /\ writeOff' = writeOff + 1
  /\ Goto(p, "nudge")
  /\ UNCHANGED <<syncedOff, syncErr, flushCh, doneCh, open, durable, target,
                 mark>>

AppendNudge(p) ==
  /\ pc[p] = "nudge"
  /\ flushCh' = TRUE
  /\ Goto(p, "idle")
  /\ UNCHANGED <<writeOff, syncedOff, syncErr, doneCh, open, durable, target,
                 mark>>

(* The committer's select; when both channels are ready it takes either.   *)
CommitterWake ==
  /\ pc["committer"] = "select" /\ flushCh
  /\ flushCh' = FALSE
  /\ Goto("committer", "begin")
  /\ UNCHANGED <<writeOff, syncedOff, syncErr, doneCh, open, durable, target,
                 mark>>

CommitterStop ==
  /\ pc["committer"] = "select" /\ doneCh
  /\ Goto("committer", "stopped")
  /\ UNCHANGED <<writeOff, syncedOff, syncErr, flushCh, doneCh, open, durable,
                 target, mark>>

(* flushOnce, run by any of the syncers: read the target ...               *)
FlushBegin(p) ==
  /\ pc[p] = "begin"
  /\ IF syncErr \/ syncedOff >= writeOff
     THEN Goto(p, "flushed") /\ UNCHANGED target
     ELSE Goto(p, "fsync") /\ target' = [target EXCEPT ![p] = writeOff]
  /\ UNCHANGED <<writeOff, syncedOff, syncErr, flushCh, doneCh, open, durable,
                 mark>>

(* ... fsync off the mutex; on a closed file it can only fail ...          *)
Fsync(p) ==
  /\ pc[p] = "fsync" /\ open
  /\ durable' = IF target[p] > durable THEN target[p] ELSE durable
  /\ Goto(p, "publish")
  /\ UNCHANGED <<writeOff, syncedOff, syncErr, flushCh, doneCh, open, target,
                 mark>>

FsyncFails(p) ==
  /\ pc[p] = "fsync"
  /\ Goto(p, "fail")
  /\ UNCHANGED <<writeOff, syncedOff, syncErr, flushCh, doneCh, open, durable,
                 target, mark>>

(* Mutants: the offset published is one too far, or the one written by     *)
(* now; a failed fsync is not remembered.                                  *)
FlushEndPlusOne(p) ==
  /\ pc[p] \in {"publish", "fail"}
  /\ syncErr' = (syncErr \/ pc[p] = "fail")
  /\ syncedOff' = IF pc[p] = "publish" THEN target[p] + 1 ELSE syncedOff
  /\ Goto(p, "flushed")
  /\ UNCHANGED <<writeOff, flushCh, doneCh, open, durable, target, mark>>

FlushEndWritten(p) ==
  /\ pc[p] \in {"publish", "fail"}
  /\ syncErr' = (syncErr \/ pc[p] = "fail")
  /\ syncedOff' = IF pc[p] = "publish" THEN writeOff ELSE syncedOff
  /\ Goto(p, "flushed")
  /\ UNCHANGED <<writeOff, flushCh, doneCh, open, durable, target, mark>>

FlushEndSilent(p) ==
  /\ pc[p] \in {"publish", "fail"}
  /\ syncedOff' = IF pc[p] = "publish" /\ target[p] > syncedOff
                  THEN target[p] ELSE syncedOff
  /\ Goto(p, "flushed")
  /\ UNCHANGED <<writeOff, syncErr, flushCh, doneCh, open, durable, target,
                 mark>>

(* ... and advance syncedOff to the target, or record the sticky error.    *)
FlushEnd(p) ==
  /\ pc[p] \in {"publish", "fail"}
  /\ syncErr' = (syncErr \/ pc[p] = "fail")
  /\ syncedOff' = IF pc[p] = "publish" /\ target[p] > syncedOff
                  THEN target[p] ELSE syncedOff
  /\ Goto(p, "flushed")
  /\ UNCHANGED <<writeOff, flushCh, doneCh, open, durable, target, mark>>

(* Mutant: the nudges that arrived during the fsync are drained after it.  *)
CommitterDrains ==
  /\ pc["committer"] = "flushed"
  /\ flushCh' = FALSE
  /\ Goto("committer", "select")
  /\ UNCHANGED <<writeOff, syncedOff, syncErr, doneCh, open, durable, target,
                 mark>>

CommitterLoop ==
  /\ pc["committer"] = "flushed"
  /\ Goto("committer", "select")
  /\ UNCHANGED <<writeOff, syncedOff, syncErr, flushCh, doneCh, open, durable,
                 target, mark>>

(* Flush: mark what is written, flushOnce, then wait on the condition.     *)
(* The wait is a guard.  The code never sleeps in it: the flusher's own    *)
(* flushOnce has covered its mark or set the error (WALProofs!Carries), so *)
(* the Broadcast has nobody to wake and is left out.                       *)
FlushMark(p) ==
  /\ pc[p] = "idle"
  /\ mark' = [mark EXCEPT ![p] = writeOff]
  /\ Goto(p, "begin")
  /\ UNCHANGED <<writeOff, syncedOff, syncErr, flushCh, doneCh, open, durable,
                 target>>

FlushReturn(p) ==
  /\ pc[p] = "flushed"
  /\ syncErr \/ syncedOff >= mark[p]
  /\ Goto(p, IF syncErr THEN "failed" ELSE "barrier")
  /\ UNCHANGED <<writeOff, syncedOff, syncErr, flushCh, doneCh, open, durable,
                 target, mark>>

(* Close: tell the committer to stop, wait for it, flush once more, close. *)
(* It runs while handlers may still be appending.                          *)
CloseSignal ==
  /\ pc["closer"] = "idle"
  /\ doneCh' = TRUE
  /\ mark' = [mark EXCEPT !["closer"] = writeOff]
  /\ Goto("closer", "wait")
  /\ UNCHANGED <<writeOff, syncedOff, syncErr, flushCh, open, durable, target>>

(* Mutant: Close skips the final flush.                                    *)
CloseUnflushed ==
  /\ pc["closer"] = "wait" /\ pc["committer"] = "stopped"
  /\ Goto("closer", "flushed")
  /\ UNCHANGED <<writeOff, syncedOff, syncErr, flushCh, doneCh, open, durable,
                 target, mark>>

CloseJoin ==
  /\ pc["closer"] = "wait" /\ pc["committer"] = "stopped"
  /\ Goto("closer", "begin")
  /\ UNCHANGED <<writeOff, syncedOff, syncErr, flushCh, doneCh, open, durable,
                 target, mark>>

CloseFile ==
  /\ pc["closer"] = "flushed"
  /\ open' = FALSE
  /\ Goto("closer", IF syncErr THEN "failed" ELSE "barrier")
  /\ UNCHANGED <<writeOff, syncedOff, syncErr, flushCh, doneCh, durable,
                 target, mark>>

-----------------------------------------------------------------------------
FlushOnce(p) == FlushBegin(p) \/ Fsync(p) \/ FsyncFails(p) \/ FlushEnd(p)

Next ==
  \/ \E p \in Appenders : AppendWrite(p) \/ AppendNudge(p)
  \/ CommitterWake \/ CommitterStop \/ CommitterLoop
  \/ \E p \in Syncers : FlushOnce(p)
  \/ \E p \in Flushers : FlushMark(p) \/ FlushReturn(p)
  \/ CloseSignal \/ CloseJoin \/ CloseFile

(* A goroutine past its first step keeps running: w.mu hands over in FIFO  *)
(* order when contended and an fsync returns.  Go's select chooses at      *)
(* random among ready cases, so the committer cannot ignore a closed       *)
(* doneCh for ever.  Nothing makes a caller append, flush or close.        *)
Fairness ==
  /\ \A p \in Appenders : WF_vars(AppendNudge(p))
  /\ \A p \in Syncers : WF_vars(FlushOnce(p))
  /\ WF_vars(CommitterWake) /\ WF_vars(CommitterLoop) /\ SF_vars(CommitterStop)
  /\ \A p \in Flushers : WF_vars(FlushReturn(p))
  /\ WF_vars(CloseJoin) /\ WF_vars(CloseFile)

Spec == Init /\ [][Next]_vars /\ Fairness

-----------------------------------------------------------------------------
(* Types, and the order of the three offsets in use.                       *)
TypeOK ==
  /\ writeOff \in Nat /\ syncedOff \in 0 .. writeOff /\ durable \in 0 .. writeOff
  /\ syncErr \in BOOLEAN /\ flushCh \in BOOLEAN
  /\ doneCh \in BOOLEAN /\ open \in BOOLEAN
  /\ pc \in [Procs -> {"idle", "nudge", "select", "stopped", "begin", "fsync",
                       "publish", "fail", "flushed", "wait", "failed",
                       "barrier"}]
  /\ target \in [Syncers -> 0 .. writeOff] /\ mark \in [Syncers -> 0 .. writeOff]

(* What SyncedSize reports has been fsynced, with the committer, flushers  *)
(* and the closer syncing at once and appends landing during each fsync.   *)
SyncedIsDurable == syncedOff <= durable

(* A Flush or a Close that returns no error is a barrier: all that was     *)
(* written when it was called is durable.                                  *)
Barrier == \A p \in Syncers : pc[p] = "barrier" => durable >= mark[p]

(* No append is forgotten by a coalesced nudge: what is written becomes    *)
(* durable, unless an fsync fails or the handle is closed.                 *)
EveryAppendSynced ==
  \A n \in 1 .. MaxWrites :
    writeOff >= n ~> durable >= n \/ syncErr \/ ~open

(* Flush and Close return: the offset a Flush waits for is reached or the  *)
(* error set, and the closer's committer stops.                            *)
BarriersReturn ==
  /\ \A p \in Flushers : pc[p] = "begin" ~> pc[p] \in {"failed", "barrier"}
  /\ doneCh ~> ~open
=============================================================================
