------------------------------ MODULE Pricing -------------------------------
(***************************************************************************)
(* What a job's second costs (cost.go, config.go, effectiveRate in         *)
(* server.go).  The configuration prices node types, per second, minute or *)
(* hour, and the daemon's flags weigh requested resources; a rate of 0     *)
(* means that neither applies and the account's flat rate does.            *)
(***************************************************************************)
EXTENDS Integers, FiniteSetsExt, Coins

CONSTANTS
  NodeTypes,   \* node type -> [Rate, Per], Per one of "s", "m", "h"
  Weights      \* resource -> units per second, all 0: flat rate

Div(per) == CASE per = "s" -> 1 [] per = "m" -> 60 [] per = "h" -> 3600

(* The configuration is refused unless every rate is a whole number of     *)
(* units per second; the weights of resources are amounts.                 *)
ASSUME PricesAssumption ==
  /\ \A nt \in DOMAIN NodeTypes :
       /\ NodeTypes[nt].Rate \in Nat \ {0} /\ NodeTypes[nt].Per \in {"s", "m", "h"}
       /\ NodeTypes[nt].Rate % Div(NodeTypes[nt].Per) = 0
  /\ IsFiniteSet(DOMAIN Weights) /\ \A r \in DOMAIN Weights : Weights[r] \in Nat

perSecond(r) == r.Rate \div Div(r.Per)

rate(nodeType) ==
  IF nodeType \in DOMAIN NodeTypes THEN perSecond(NodeTypes[nodeType]) ELSE 0

(* The dearest node type a partition can place on.                         *)
worstRate(nodeTypes) == Max({rate(nt) : nt \in nodeTypes} \cup {0})

WeightsRate(tres) == Total([r \in DOMAIN Weights |-> Weights[r] * tres[r]])

(* The rate a gate passes to the kernel; the kernel turns 0 into the flat  *)
(* rate.                                                                   *)
effectiveRate(nodeTypes, tres) ==
  IF worstRate(nodeTypes) # 0 THEN worstRate(nodeTypes) ELSE WeightsRate(tres)
=============================================================================
