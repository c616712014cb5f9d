------------------------------- MODULE Coins --------------------------------
(***************************************************************************)
(* The sum of a finite family of amounts, by counting.  An amount n held   *)
(* under a key k is n coins <<k, 1>>, ..., <<k, n>>; the total is the      *)
(* number of coins.  Stated this way a total needs no recursion, so facts  *)
(* about it follow from the cardinality theorems.                          *)
(***************************************************************************)
EXTENDS Integers, FiniteSets

CoinsOf(f) == UNION { {k} \X (1 .. f[k]) : k \in DOMAIN f }

Total(f) == Cardinality(CoinsOf(f))
=============================================================================
