------------------------------- MODULE MCSeam -------------------------------
(* Submissions for the runs of Seam: two accounts, sources in the order a  *)
(* user would name them.                                                   *)
EXTENDS Seam, TLC

CONSTANTS s1, s2, s3, p, q

(* Prices: 1, 2 and 3 units per second; a CPU second weighs 2.             *)
Prices ==
  [cheap |-> [Rate |-> 60, Per |-> "m"], dear |-> [Rate |-> 7200, Per |-> "h"],
   gpu |-> [Rate |-> 3, Per |-> "s"]]
PerCPU == [cpu |-> 2]
Flat == [a \in Accounts |-> 2]

Sub(sources, multi, n, w, types, cpus, node) ==
  [sources |-> sources, multi |-> multi, n |-> n, w |-> w, types |-> types,
   tres |-> [cpu |-> cpus], node |-> node]

(* An array and a job over both accounts, in opposite orders, and a job on *)
(* one of them, all at rate 2: flat, the worst of the partition's nodes,   *)
(* lowered on a cheap one, and by resources, on a node that costs more.    *)
Contenders ==
  s1 :> Sub(<<p, q>>, TRUE, 3, 1, {}, 0, "none") @@
  s2 :> Sub(<<q, p>>, TRUE, 1, 2, {"cheap", "dear"}, 1, "cheap") @@
  s3 :> Sub(<<q>>, FALSE, 1, 1, {}, 1, "gpu")
OneMultiJob == s1 :> Sub(<<p, q>>, TRUE, 1, 2, {}, 0, "none")
OneJob == s1 :> Sub(<<p>>, FALSE, 1, 1, {}, 0, "cheap")

(* What the hooks report.                                                  *)
Ends == {<<"cancel", 1>>, <<"timeout", 0>>}
Overrun == {<<"complete", 5>>}

(* A crash; a leg that is refused and a rollback that is not written; a    *)
(* leg whose settle fails.                                                 *)
NoFaults == {{}}
CrashOrFails == {{"crash"}, {"gate", "rollback"}, {"settle"}}

HandlerSymmetry == Permutations(Handlers)
=============================================================================
