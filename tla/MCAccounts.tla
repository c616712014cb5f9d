----------------------------- MODULE MCAccounts -----------------------------
(* One account the configuration names, restricted to a user and a group,  *)
(* and one created at run time.                                            *)
EXTENDS Accounts, TLC

CONSTANTS u1, u2, g1, base, proj

OneAccount == <<[Name |-> base, Balance |-> 1, allow |-> {u1, g1}]>>
Creations == {[Name |-> proj, Balance |-> b, allow |-> {u1}] : b \in {2, 3}}

(* u2 is in the group at first.                                            *)
Groupings == {[u \in {u1, u2} |-> IF u = u2 THEN {g1} ELSE {}]}

(* Nobody is in it.                                                        *)
Ungrouped == {[u \in {u1, u2} |-> {}]}

HandlerSymmetry == Permutations(Handlers)
=============================================================================
