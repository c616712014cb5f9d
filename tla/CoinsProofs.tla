---------------------------- MODULE CoinsProofs -----------------------------
(* What Total returns when a family of amounts gains, loses or changes one *)
(* member; induction over the naturals, in the form of a set.              *)
EXTENDS Coins, FiniteSetTheorems, WellFoundedInduction, TLAPS

(* A finite family of natural amounts.                                     *)
Family(f) == IsFiniteSet(DOMAIN f) /\ \A k \in DOMAIN f : f[k] \in Nat

(* The coins of a finite family are finitely many.                         *)
LEMMA CoinsFinite ==
  ASSUME NEW f, Family(f)
  PROVE  IsFiniteSet(CoinsOf(f)) /\ Total(f) \in Nat
<1> DEFINE g == [k \in DOMAIN f |-> {k} \X (1 .. f[k])]
           S == { {k} \X (1 .. f[k]) : k \in DOMAIN f }
<1>1. g \in Surjection(DOMAIN f, S)
  BY DEF Surjection
<1>2. IsFiniteSet(S)
  BY <1>1, FS_Surjection DEF Family
<1>3. ASSUME NEW T \in S  PROVE IsFiniteSet(T)
  <2>1. PICK k \in DOMAIN f : T = {k} \X (1 .. f[k])
    OBVIOUS
  <2>2. IsFiniteSet({k})
    BY FS_Singleton
  <2>3. f[k] \in Int
    BY DEF Family
  <2>4. IsFiniteSet(1 .. f[k])
    BY <2>3, FS_Interval
  <2> QED
    BY <2>1, <2>2, <2>4, FS_Product
<1>4. IsFiniteSet(UNION S)
  BY <1>2, <1>3, FS_UNION
<1> QED
  BY <1>4, FS_CardinalityType DEF CoinsOf, Total

(* One more member adds its amount.                                        *)
LEMMA TotalSplit ==
  ASSUME NEW f, NEW g, NEW k, Family(f),
         k \in DOMAIN f, DOMAIN g = DOMAIN f \ {k},
         \A x \in DOMAIN g : g[x] = f[x]
  PROVE  /\ Family(g)
         /\ Total(g) \in Nat
         /\ Total(f) = Total(g) + f[k]
<1>1. Family(g)
  <2>1. IsFiniteSet(DOMAIN g)
    BY FS_RemoveElement DEF Family
  <2> QED
    BY <2>1 DEF Family
<1>2. IsFiniteSet(CoinsOf(g)) /\ Total(g) \in Nat
  BY <1>1, CoinsFinite
<1> DEFINE P == {k} \X (1 .. f[k])
<1>3. f[k] \in Nat
  BY DEF Family
<1>4. IsFiniteSet(P) /\ Cardinality(P) = f[k]
  <2>1. IsFiniteSet({k}) /\ Cardinality({k}) = 1
    BY FS_Singleton
  <2>2. IsFiniteSet(1 .. f[k]) /\ Cardinality(1 .. f[k]) = f[k]
    BY <1>3, FS_Interval
  <2>3. /\ IsFiniteSet(P)
        /\ Cardinality(P) = Cardinality({k}) * Cardinality(1 .. f[k])
    BY <2>1, <2>2, FS_Product, Zenon
  <2> HIDE DEF P
  <2> QED
    BY <1>3, <2>1, <2>2, <2>3
<1>5. CoinsOf(f) = CoinsOf(g) \cup P
  BY DEF CoinsOf
<1>6. CoinsOf(g) \cap P = {}
  BY DEF CoinsOf
<1>7. Cardinality(CoinsOf(g) \cap P) = 0
  BY <1>6, FS_EmptySet
<1>8. Cardinality(CoinsOf(f)) =
        Cardinality(CoinsOf(g)) + f[k] - 0
  <2>1. Cardinality(CoinsOf(g) \cup P) =
          Cardinality(CoinsOf(g)) + Cardinality(P)
            - Cardinality(CoinsOf(g) \cap P)
    BY <1>2, <1>4, FS_Union
  <2> HIDE DEF P
  <2> QED
    BY <2>1, <1>4, <1>5, <1>7
<1> QED
  BY <1>1, <1>2, <1>3, <1>8 DEF Total

(* Changing one member's amount changes the total by the difference.       *)
LEMMA TotalUpdate ==
  ASSUME NEW f, NEW g, NEW k, Family(f),
         k \in DOMAIN f, DOMAIN g = DOMAIN f, g[k] \in Nat,
         \A x \in DOMAIN f \ {k} : g[x] = f[x]
  PROVE  /\ Family(g)
         /\ Total(g) = Total(f) - f[k] + g[k]
<1> DEFINE h == [x \in DOMAIN f \ {k} |-> f[x]]
<1>1. Family(g)
  BY DEF Family
<1>2. Total(f) = Total(h) + f[k] /\ Total(h) \in Nat
  BY TotalSplit
<1>3. Total(g) = Total(h) + g[k]
  BY <1>1, TotalSplit
<1>4. f[k] \in Nat
  BY DEF Family
<1> HIDE DEF h
<1> QED
  BY <1>1, <1>2, <1>3, <1>4

(* The empty family holds nothing.                                         *)
LEMMA TotalEmpty ==
  ASSUME NEW f, DOMAIN f = {}
  PROVE  Family(f) /\ Total(f) = 0
<1>1. Family(f)
  BY FS_EmptySet DEF Family
<1>2. CoinsOf(f) = {}
  BY DEF CoinsOf
<1> QED
  BY <1>1, <1>2, FS_EmptySet DEF Total

(* The total depends on the family only through its members.               *)
LEMMA TotalSame ==
  ASSUME NEW f, NEW g, DOMAIN f = DOMAIN g, \A x \in DOMAIN f : f[x] = g[x]
  PROVE  Total(f) = Total(g)
<1>1. CoinsOf(f) = CoinsOf(g)
  BY DEF CoinsOf
<1> QED
  BY <1>1 DEF Total

(* A set with 0, and with the successor of each of its members, has every  *)
(* natural.                                                                *)
LEMMA NatSet ==
  ASSUME NEW T, 0 \in T, \A n \in Nat : n \in T => n + 1 \in T
  PROVE  \A n \in Nat : n \in T
<1> DEFINE R == {ss \in Nat \X Nat : ss[1] < ss[2]}
           X == {n \in Nat : n \notin T}
<1>1. IsWellFoundedOn(R, Nat)
  BY NatLessThanWellFounded DEF OpToRel
<1> SUFFICES ASSUME X # {} PROVE FALSE
  OBVIOUS
<1>2. PICK x \in X : \A y \in X : ~(<<y, x>> \in R)
  BY <1>1, WFMin
<1>3. x # 0 /\ x - 1 \in Nat
  OBVIOUS
<1>4. <<x - 1, x>> \in R
  BY <1>3
<1>5. x - 1 \in T
  BY <1>2, <1>3, <1>4
<1>6. (x - 1) + 1 = x
  OBVIOUS
<1> QED
  BY <1>3, <1>5, <1>6

(* The total of the first n + 1 of a sequence of amounts.                  *)
LEMMA TotalNext ==
  ASSUME NEW n \in Nat, NEW f, NEW g, DOMAIN f = 1 .. n, DOMAIN g = 1 .. (n + 1),
         \A i \in 1 .. n : g[i] = f[i], \A i \in 1 .. (n + 1) : g[i] \in Nat
  PROVE  /\ Family(f) /\ Total(f) \in Nat
         /\ Family(g) /\ Total(g) = Total(f) + g[n + 1]
<1>1. IsFiniteSet(1 .. (n + 1))
  BY FS_Interval
<1>2. Family(g)
  BY <1>1 DEF Family
<1>3. n + 1 \in DOMAIN g /\ DOMAIN f = DOMAIN g \ {n + 1}
  OBVIOUS
<1> QED
  BY <1>2, <1>3, TotalSplit

(* A finite set of naturals that is not empty has a largest member.        *)
LEMMA LargestNat ==
  ASSUME NEW S, S \subseteq Nat, IsFiniteSet(S), S # {}
  PROVE  \E x \in S : \A y \in S : x >= y
<1> DEFINE Has(X) == \E x \in X : \A y \in X : x >= y
           T == {n \in Nat : \A X \in SUBSET Nat :
                   IsFiniteSet(X) /\ Cardinality(X) = n + 1 => Has(X)}
<1>1. 0 \in T
  <2> SUFFICES ASSUME NEW X \in SUBSET Nat, IsFiniteSet(X), Cardinality(X) = 0 + 1
               PROVE  Has(X)
    OBVIOUS
  <2>1. Cardinality(X) = 1
    OBVIOUS
  <2>2. PICK x : X = {x}
    BY <2>1, FS_Singleton, Zenon
  <2> QED
    BY <2>2
<1>2. ASSUME NEW n \in Nat, n \in T PROVE n + 1 \in T
  <2> SUFFICES ASSUME NEW X \in SUBSET Nat, IsFiniteSet(X),
                      Cardinality(X) = (n + 1) + 1
               PROVE  Has(X)
    BY <1>2
  <2>1. X # {}
    BY FS_EmptySet
  <2>2. PICK z \in X : TRUE
    BY <2>1
  <2>3. /\ IsFiniteSet(X \ {z})
        /\ Cardinality(X \ {z}) = Cardinality(X) - 1
    BY <2>2, FS_RemoveElement
  <2>4. Cardinality(X \ {z}) = n + 1
    BY <2>3
  <2>5. PICK m \in X \ {z} : \A y \in X \ {z} : m >= y
    BY <1>2, <2>3, <2>4
  <2>6. z \in Nat /\ m \in Nat
    BY <2>2, <2>5
  <2>7. CASE m >= z
    <3>1. \A y \in X : m >= y
      BY <2>5, <2>7
    <3> QED
      BY <2>5, <3>1
  <2>8. CASE ~(m >= z)
    <3>1. \A y \in X : z >= y
      BY <2>5, <2>6, <2>8
    <3> QED
      BY <2>2, <3>1
  <2> QED
    BY <2>7, <2>8
<1> HIDE DEF T
<1>3. \A n \in Nat : n \in T
  BY <1>1, <1>2, NatSet
<1>4. Cardinality(S) \in Nat /\ Cardinality(S) # 0
  BY FS_CardinalityType, FS_EmptySet
<1>5. Cardinality(S) - 1 \in T /\ (Cardinality(S) - 1) + 1 = Cardinality(S)
  BY <1>3, <1>4
<1> QED
  BY <1>5 DEF T

(* A family in two parts.                                                  *)
Parts(f, fa, fb) ==
  /\ DOMAIN f = DOMAIN fa \cup DOMAIN fb /\ DOMAIN fa \cap DOMAIN fb = {}
  /\ \A x \in DOMAIN fa : fa[x] = f[x]
  /\ \A x \in DOMAIN fb : fb[x] = f[x]

(* Its total is that of the parts.                                         *)
LEMMA TotalUnion ==
  ASSUME NEW f, Family(f), NEW fa, NEW fb, Parts(f, fa, fb)
  PROVE  /\ Family(fa) /\ Family(fb) /\ Total(fa) \in Nat /\ Total(fb) \in Nat
         /\ Total(f) = Total(fa) + Total(fb)
<1>1. IsFiniteSet(DOMAIN fa) /\ IsFiniteSet(DOMAIN fb)
  BY FS_Subset DEF Family, Parts
<1>2. Family(fa) /\ Family(fb)
  BY <1>1 DEF Family, Parts
<1>3. /\ IsFiniteSet(CoinsOf(fa)) /\ Total(fa) \in Nat
      /\ IsFiniteSet(CoinsOf(fb)) /\ Total(fb) \in Nat
  BY <1>2, CoinsFinite
<1>4. CoinsOf(f) = CoinsOf(fa) \cup CoinsOf(fb)
  BY DEF CoinsOf, Parts
<1>5. CoinsOf(fa) \cap CoinsOf(fb) = {}
  BY DEF CoinsOf, Parts
<1>6. /\ Cardinality(CoinsOf(f)) = Cardinality(CoinsOf(fa)) + Cardinality(CoinsOf(fb))
                                     - Cardinality(CoinsOf(fa) \cap CoinsOf(fb))
  BY <1>3, <1>4, FS_Union
<1>7. Cardinality(CoinsOf(fa) \cap CoinsOf(fb)) = 0
  BY <1>5, FS_EmptySet
<1> QED
  BY <1>2, <1>3, <1>6, <1>7 DEF Total

(* The total of equal amounts.                                             *)
LEMMA TotalConst ==
  ASSUME NEW f, IsFiniteSet(DOMAIN f), NEW w \in Nat, \A x \in DOMAIN f : f[x] = w
  PROVE  Family(f) /\ Total(f) = w * Cardinality(DOMAIN f)
<1>1. CoinsOf(f) = (DOMAIN f) \X (1 .. w)
  BY DEF CoinsOf
<1>2. IsFiniteSet(1 .. w) /\ Cardinality(1 .. w) = w
  <2>1. 1 \in Int /\ w \in Int
    OBVIOUS
  <2>2. IsFiniteSet(1 .. w) /\ Cardinality(1 .. w) = IF 1 > w THEN 0 ELSE w - 1 + 1
    BY <2>1, FS_Interval
  <2> QED
    BY <2>2
<1>3. Cardinality((DOMAIN f) \X (1 .. w)) = Cardinality(DOMAIN f) * Cardinality(1 .. w)
  BY <1>2, FS_Product
<1>4. Cardinality(DOMAIN f) \in Nat
  BY FS_CardinalityType
<1>5. Cardinality(DOMAIN f) * w = w * Cardinality(DOMAIN f)
  <2>1. PICK c : c = Cardinality(DOMAIN f)
    OBVIOUS
  <2>2. c \in Nat /\ c * w = w * c
    BY <1>4, <2>1
  <2> QED
    BY <2>1, <2>2
<1> QED
  BY <1>1, <1>2, <1>3, <1>5 DEF Total, Family
=============================================================================
