-------------------------------- MODULE Shim --------------------------------
(***************************************************************************)
(* A submission from Slurm's job_submit plugin to its settlement           *)
(* (job_submit.lua, obol_transport.lua, shim/failmode.go, cli/client.go,   *)
(* the prolog and jobcomp hooks): the plugin asks obold over one transport *)
(* after another, each with a timeout, and without a verdict applies its   *)
(* partition's fail policy.                                                *)
(*                                                                         *)
(* A timeout abandons the connection, not the request: a frame that was    *)
(* sent may still be read, escrowed and answered to nobody.  Every attempt *)
(* mints a token of its own, here <<s, k>> for attempt k.  The daemon's    *)
(* handlers are single steps (Seam splits them); its budget survives a     *)
(* crash (Durable), its routing tables and connections do not.             *)
(***************************************************************************)
EXTENDS Kernel, Coins

CONSTANTS
  Submissions,    \* s |-> [closed, ws, tags]: does the partition fail closed,
                  \* the walltimes it may ask for (0: no limit), the tags
                  \* already in its admin_comment
  Transports,     \* those the host has, in the order they are tried:
                  \* a subsequence of <<"luasocket", "ffi", "cli">>, not empty
  Rate, Opening,  \* the account's flat rate and opening balance
  Ends,           \* <<kind, seconds run>> a completion may be reported with
  TTL,            \* -unbound-ttl
  MaxClock, MaxCrashes

Subs   == DOMAIN Submissions
Tokens == Subs \X (1 .. Len(Transports))
None   == <<>>

(* A walltime and a time run are whole seconds; a token is not a tag some  *)
(* other plugin could have left (it is minted at random).                  *)
ASSUME ShimAssumption ==
  /\ IsFiniteSet(Subs) /\ Len(Transports) \in Nat \ {0}
  /\ Rate \in Nat /\ Opening \in Nat
  /\ TTL \in Nat /\ MaxClock \in Nat /\ MaxCrashes \in Nat
  /\ Ends \subseteq {"complete", "timeout", "cancel", "infrafail"} \X Int
  /\ \A s \in Subs : /\ Submissions[s].ws \subseteq Nat
                      /\ Submissions[s].tags \in Seq(STRING)
                      /\ Range(Submissions[s].tags) \cap Tokens = {}

VARIABLES
  bd,          \* the account's budget
  clock,
  up,          \* is obold running
  inbox,       \* attempts whose frame is sent and not yet read
  replies,     \* attempt -> verdict written to its connection
  routes,      \* tokenBudget: the tokens the daemon can route
  jobToToken,  \* job -> token bound to it
  shim,        \* s -> [pc, k]: where the plugin is, and its attempt
  job,         \* s -> [st, w, comment, end]: the job as Slurm knows it
  billed,      \* history: attempt -> units billed or written off
  lapsed,      \* history: tokens whose escrow the sweep has refunded
  crashes

daemon == <<routes, jobToToken>>
vars == <<bd, clock, up, inbox, replies, daemon, shim, job, billed, lapsed,
          crashes>>

Empty == [x \in {} |-> 0]

Init ==
  /\ bd = NewDurableBurst([C |-> Rate, TS |-> 0, TE |-> MaxClock + 1,
                           B0 |-> Opening, BillInfraFailures |-> FALSE,
                           K |-> 0, BurstEnabled |-> FALSE,
                           BurstCeilingPct |-> 0, BurstDrawCap |-> 0])
  /\ clock = 0 /\ up = TRUE /\ crashes = 0
  /\ inbox = {} /\ replies = Empty /\ routes = {} /\ jobToToken = Empty
  /\ shim = [s \in Subs |-> [pc |-> "new", k |-> 0]]
  /\ job = [s \in Subs |-> [st |-> "new", w |-> 0, end |-> <<"none", 0>>,
                            comment |-> Submissions[s].tags]]
  /\ billed = [t \in Tokens |-> 0] /\ lapsed = {}

Spent(b) == b.Consumed + b.WriteOff

(* A budget call on the escrow of token t.                                 *)
Call(t, r) ==
  /\ bd' = r.bd
  /\ billed' = [billed EXCEPT ![t] = @ + (Spent(r.bd) - Spent(bd))]

-----------------------------------------------------------------------------
(* The plugin (slurm_job_submit, gate_decision, round_trip).               *)

(* Mutant: the fail table read the wrong way round.                        *)
FailModeInverted(s) == IF Submissions[s].closed THEN "queued" ELSE "refused"

(* No transport gave a verdict: the partition's local policy.              *)
failMode(s) == IF Submissions[s].closed THEN "refused" ELSE "queued"

(* What Slurm does with the plugin's return code.                          *)
Return(s, st, tag) ==
  /\ shim' = [shim EXCEPT ![s].pc = "done"]
  /\ job' = [job EXCEPT ![s].st = st, ![s].comment = @ \o tag]

(* Mutant: one transport too many.                                         *)
NextTransportOver(s) ==
  IF shim[s].k <= Len(Transports)
  THEN /\ shim' = [shim EXCEPT ![s] = [pc |-> "try", k |-> @.k + 1]]
       /\ UNCHANGED job
  ELSE Return(s, failMode(s), <<>>)

(* The next transport, or the fail policy after the last.                  *)
NextTransport(s) ==
  IF shim[s].k < Len(Transports)
  THEN /\ shim' = [shim EXCEPT ![s] = [pc |-> "try", k |-> @.k + 1]]
       /\ UNCHANGED job
  ELSE Return(s, failMode(s), <<>>)

slurm_job_submit(s) ==
  /\ shim[s].pc = "new" /\ clock + TTL <= MaxClock
  /\ \E w \in Submissions[s].ws : job' = [job EXCEPT ![s].w = w]
  /\ shim' = [shim EXCEPT ![s] = [pc |-> "try", k |-> 1]]
  /\ UNCHANGED <<bd, clock, up, inbox, replies, daemon, billed, lapsed, crashes>>

(* The CLI refuses a gate without a time limit before it connects.         *)
Connects(s) ==
  up /\ (Transports[shim[s].k] = "cli" => job[s].w > 0)

(* Connect and send one frame.  A partial send loses it.                   *)
send(s) ==
  /\ shim[s].pc = "try" /\ Connects(s)
  /\ shim' = [shim EXCEPT ![s].pc = "wait"]
  /\ inbox' \in {inbox, inbox \cup {<<s, shim[s].k>>}}
  /\ UNCHANGED <<bd, clock, up, replies, daemon, job, billed, lapsed, crashes>>

(* No connection; or no answer before the deadline, even one on its way.   *)
(* A reply that arrives is whole: the plugin takes one it cannot decode    *)
(* straight to its fail policy, and the model has none.                    *)
noVerdict(s) ==
  /\ \/ shim[s].pc = "try" /\ ~Connects(s)
     \/ shim[s].pc = "wait"
  /\ NextTransport(s)
  /\ UNCHANGED <<bd, clock, up, inbox, replies, daemon, billed, lapsed, crashes>>

(* A verdict is final.  The token is appended to admin_comment.            *)
receive(s) ==
  LET t == <<s, shim[s].k>>
  IN  /\ shim[s].pc = "wait" /\ t \in DOMAIN replies
      /\ IF replies[t] = "allow" THEN Return(s, "queued", <<t>>)
         ELSE Return(s, "refused", <<>>)
      /\ UNCHANGED <<bd, clock, up, inbox, replies, daemon, billed, lapsed,
                     crashes>>

-----------------------------------------------------------------------------
(* The daemon: a connection's goroutine reads the frame, escrows, records  *)
(* the route and writes the verdict, whether or not anybody still waits.   *)
handleGate(t) ==
  LET r == SubmitAt(bd, t, 0, job[t[1]].w, clock, TRUE)
  IN  /\ up /\ t \in inbox
      /\ inbox' = inbox \ {t}
      /\ Call(t, r)
      /\ routes' = IF r.ok THEN routes \cup {t} ELSE routes
      /\ replies' = Put(replies, t, IF r.ok THEN "allow" ELSE "reject")
      /\ UNCHANGED <<clock, up, jobToToken, shim, job, lapsed, crashes>>

(* Mutants: the sweep bills what it reclaims; it reclaims only what the    *)
(* daemon can route.                                                       *)
SweepBills(t) ==
  /\ up /\ t \in DOMAIN bd.escrows
  /\ ~bd.escrows[t].Started /\ clock - bd.escrows[t].Submitted >= TTL
  /\ Call(t, Timeout(bd, t, clock, TRUE))
  /\ lapsed' = lapsed \cup {t}
  /\ UNCHANGED <<clock, up, inbox, replies, daemon, shim, job, crashes>>

SweepRouted(t) ==
  /\ up /\ t \in DOMAIN bd.escrows \cap routes
  /\ ~bd.escrows[t].Started /\ clock - bd.escrows[t].Submitted >= TTL
  /\ Call(t, Cancel(bd, t, 0, clock, TRUE))
  /\ lapsed' = lapsed \cup {t}
  /\ UNCHANGED <<clock, up, inbox, replies, daemon, shim, job, crashes>>

SweepUnbound(t) ==
  /\ up /\ t \in DOMAIN bd.escrows
  /\ ~bd.escrows[t].Started /\ clock - bd.escrows[t].Submitted >= TTL
  /\ Call(t, Cancel(bd, t, 0, clock, TRUE))
  /\ lapsed' = lapsed \cup {t}
  /\ UNCHANGED <<clock, up, inbox, replies, daemon, shim, job, crashes>>

(* Every connection is cut and every table lost.                           *)
Crash ==
  /\ up /\ crashes < MaxCrashes
  /\ up' = FALSE /\ crashes' = crashes + 1
  /\ inbox' = {} /\ replies' = Empty /\ routes' = {} /\ jobToToken' = Empty
  /\ UNCHANGED <<bd, clock, shim, job, billed, lapsed>>

Restart ==
  /\ ~up /\ up' = TRUE
  /\ UNCHANGED <<bd, clock, inbox, replies, daemon, shim, job, billed, lapsed,
                 crashes>>

-----------------------------------------------------------------------------
(* Slurm and its hooks.                                                    *)
SlurmStart(s) ==
  /\ job[s].st = "queued"
  /\ job' = [job EXCEPT ![s].st = "running"]
  /\ UNCHANGED <<bd, clock, up, inbox, replies, daemon, shim, billed, lapsed,
                 crashes>>

(* The prolog finds the token only in the first word of admin_comment.     *)
Stamped(s) ==
  IF job[s].comment = <<>> \/ job[s].comment[1] \notin Tokens THEN None
  ELSE job[s].comment[1]

(* BIND: a token the daemon cannot route is refused.                       *)
prolog(s) ==
  LET t == Stamped(s)
  IN  /\ job[s].st = "running" /\ up /\ t \in routes
      /\ jobToToken' = Put(jobToToken, s, t)
      /\ Call(t, Start(bd, t, clock, TRUE))
      /\ UNCHANGED <<clock, up, inbox, replies, routes, shim, job, lapsed,
                     crashes>>

SlurmEnd(s) ==
  /\ \/ job[s].st = "queued" /\ job' = [job EXCEPT ![s].st = "gone"]
     \/ /\ job[s].st = "running"
        /\ \E end \in Ends :
             job' = [job EXCEPT ![s].st = "gone", ![s].end = end]
  /\ UNCHANGED <<bd, clock, up, inbox, replies, daemon, shim, billed, lapsed,
                 crashes>>

(* SETTLE by job id, of the kind the job's state maps to; a settled        *)
(* token's routing is dropped.                                             *)
handleSettle(t, kind, rt) ==
  CASE kind = "complete"  -> Complete(bd, t, rt, clock, TRUE)
    [] kind = "timeout"   -> Timeout(bd, t, clock, TRUE)
    [] kind = "cancel"    -> Cancel(bd, t, rt, clock, TRUE)
    [] kind = "infrafail" -> InfraFail(bd, t, rt, clock, TRUE)

jobcomp(s) ==
  LET t == jobToToken[s]
      r == handleSettle(t, job[s].end[1], job[s].end[2])
  IN  /\ job[s].st = "gone" /\ up /\ s \in DOMAIN jobToToken /\ t \in routes
      /\ Call(t, r)
      /\ routes' = IF r.ok THEN routes \ {t} ELSE routes
      /\ jobToToken' = IF r.ok THEN Drop(jobToToken, s) ELSE jobToToken
      /\ UNCHANGED <<clock, up, inbox, replies, shim, job, lapsed, crashes>>

(* Time stops where a request not yet handled could not age out.           *)
Tick ==
  /\ clock < MaxClock
  /\ (clock + TTL = MaxClock) =>
       inbox = {} /\ \A s \in Subs : shim[s].pc \in {"new", "done"}
  /\ clock' = clock + 1
  /\ UNCHANGED <<bd, up, inbox, replies, daemon, shim, job, billed, lapsed,
                 crashes>>

-----------------------------------------------------------------------------
Plugin(s) == send(s) \/ noVerdict(s) \/ receive(s)

Next ==
  \/ \E s \in Subs : \/ slurm_job_submit(s) \/ Plugin(s)
                     \/ SlurmStart(s) \/ prolog(s) \/ SlurmEnd(s) \/ jobcomp(s)
  \/ \E t \in Tokens : handleGate(t) \/ SweepUnbound(t)
  \/ Crash \/ Restart \/ Tick

(* The plugin returns (its timeouts are hard), the daemon reads what was   *)
(* sent and is restarted by its supervisor, the sweep runs on a ticker.    *)
Fairness ==
  /\ \A s \in Subs : WF_vars(Plugin(s))
  /\ \A t \in Tokens : WF_vars(handleGate(t)) /\ WF_vars(SweepUnbound(t))
  /\ WF_vars(Restart) /\ WF_vars(Tick)

Spec == Init /\ [][Next]_vars /\ Fairness

-----------------------------------------------------------------------------
(* Types.                                                                  *)
TypeOK ==
  /\ DOMAIN bd.escrows \subseteq Tokens
  /\ clock \in 0 .. MaxClock /\ up \in BOOLEAN /\ crashes \in 0 .. MaxCrashes
  /\ inbox \subseteq Tokens /\ DOMAIN replies \subseteq Tokens
  /\ Range(replies) \subseteq {"allow", "reject"}
  /\ routes \subseteq Tokens
  /\ DOMAIN jobToToken \subseteq Subs /\ Range(jobToToken) \subseteq Tokens
  /\ \A s \in Subs :
       /\ shim[s].pc \in {"new", "try", "wait", "done"}
       /\ shim[s].k \in 0 .. Len(Transports)
       /\ job[s].st \in {"new", "refused", "queued", "running", "gone"}
  /\ billed \in [Tokens -> Nat] /\ lapsed \subseteq Tokens

(* The tokens stamped on a submission's job.                               *)
Carried(s) == Range(job[s].comment) \cap Tokens

(* "An unfunded job must never slip through while the gate is down"        *)
(* (failmode.go, Cloud): a job let into a partition that fails closed      *)
(* carries the token of an escrow that holds its whole walltime, from the  *)
(* moment it queues until it is bound and settled or the sweep has         *)
(* reclaimed it, whichever attempts timed out, were answered late or lost. *)
ClosedFunded ==
  \A s \in Subs :
    (Submissions[s].closed /\ job[s].st \in {"queued", "running"}) =>
      \/ Carried(s) \cap lapsed # {}
      \/ \E t \in Carried(s) :
           /\ t \in DOMAIN bd.escrows
           /\ bd.escrows[t].Reserved = Rate * job[s].w

(* A submission may leave several escrows behind, and pays once: only the  *)
(* token its job carries is ever billed, for what the job ran; every other *)
(* unit the attempts escrowed is held or back in the balance.              *)
BilledOnce ==
  /\ \A s \in Subs : \A k \in 1 .. Len(Transports) :
       billed[<<s, k>>] > 0 =>
         /\ <<s, k>> \in Carried(s) /\ job[s].st = "gone"
         /\ billed[<<s, k>>] = Rate * (IF job[s].end[1] = "timeout" THEN job[s].w
                                       ELSE Clamp(job[s].end[2], job[s].w))
  /\ Spent(bd) = Total(billed)
  /\ bd.B = Opening - Spent(bd) -
            Total([t \in DOMAIN bd.escrows |-> bd.escrows[t].Reserved])

(* The janitor is the backstop for a gate nobody waits for (operations.md, *)
(* -unbound-ttl): an escrow whose token no job carries, its plugin having  *)
(* returned, is refunded in the end, across crashes of the daemon too.     *)
Stray(t) ==
  /\ t \in DOMAIN bd.escrows
  /\ shim[t[1]].pc = "done" /\ t \notin Carried(t[1])

StraysReclaimed == \A t \in Tokens : Stray(t) ~> t \notin DOMAIN bd.escrows
=============================================================================
